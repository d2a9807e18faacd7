----------------------------- MODULE StudentQueue -----------------------------
(***************************************************************************)
(* student_queue.py with the rows of queue_history that db.py keeps for it. *)
(* The methods that change the queue run under its lock, one action each.   *)
(* The REST endpoints of webapp.py hand them the id of the request as it    *)
(* is, a number or a text (`id: str | int`): any id, any number of times,   *)
(* from anybody.  SQLite takes either for the id of the row; Python takes   *)
(* only the number for _active.  A restart forgets _active; the rows stay.  *)
(***************************************************************************)
EXTENDS Naturals, FiniteSets

CONSTANTS
  Clients,     \* who calls the endpoints
  Priorities,  \* priorities of the enqueued students
  MaxId        \* bound on the number of students ever enqueued

QueueAssumption ==
  /\ Priorities \subseteq Nat
  /\ MaxId \in Nat

None == 0

VARIABLES
  rows,      \* queue_history: id -> status and priority
  nextId,    \* the AUTOINCREMENT of its key
  active,    \* _active
  held,      \* items each client has dequeued and nobody has reported on since
  missed     \* whether the active item was reported on by its id as a text

ghostVars == <<held, missed>>
vars == <<rows, nextId, active, ghostVars>>

Ids == DOMAIN rows
Pending == {i \in Ids : rows[i].status = "pending"}

\* ORDER BY priority DESC, id ASC.
Before(i, j) ==
  \/ rows[i].priority > rows[j].priority
  \/ rows[i].priority = rows[j].priority /\ i < j

\* Mutant: the first pending row is read back.
LastPendingReversed ==
  CHOOSE i \in Pending : \A j \in Pending \ {i} : Before(i, j)

\* What enqueue reads back as the id of the row it has added.
LastPending == CHOOSE i \in Pending : \A j \in Pending \ {i} : Before(j, i)

\* Mutant: ORDER BY id alone.
FirstPendingFifo(i) == \A j \in Pending \ {i} : i < j

\* What dequeue takes.
FirstPending(i) == \A j \in Pending \ {i} : Before(i, j)

Init ==
  /\ rows = << >>
  /\ nextId = 1
  /\ active = None
  /\ held = [c \in Clients |-> {}]
  /\ missed = FALSE

\* update_queue_item on an id that may have no row.
SetStatus(i, status) ==
  rows' = [j \in Ids |-> IF j = i THEN [rows[j] EXCEPT !.status = status]
                                  ELSE rows[j]]

-----------------------------------------------------------------------------
Enqueue(priority) ==
  /\ nextId <= MaxId
  /\ rows' = [j \in Ids \cup {nextId} |->
                IF j = nextId
                THEN [status |-> "pending", priority |-> priority]
                ELSE rows[j]]
  /\ nextId' = nextId + 1
  /\ UNCHANGED <<active, ghostVars>>

Dequeue(c) ==
  /\ \E i \in Pending :
       /\ FirstPending(i)
       /\ SetStatus(i, "in_progress")
       /\ active' = i
       /\ held' = [held EXCEPT ![c] = @ \cup {i}]
  /\ missed' = FALSE
  /\ UNCHANGED nextId

\* Nobody holds item i any more.
LetGo(i) == held' = [c \in Clients |-> held[c] \ {i}]

\* Mutant: the active item is not forgotten.
ReportKeepingActive(i, status, text) ==
  /\ SetStatus(i, status)
  /\ LetGo(i)
  /\ UNCHANGED <<nextId, active, missed>>

\* complete, fail and reset ask neither who calls nor what the status was.  An id
\* in quotes finds its row, but is not equal to _active.
Report(i, status, text) ==
  /\ SetStatus(i, status)
  /\ LetGo(i)
  /\ IF active = i /\ ~text
     THEN active' = None /\ missed' = FALSE
     ELSE /\ missed' = (missed \/ active = i)
          /\ UNCHANGED active
  /\ UNCHANGED nextId

Complete == \E i \in 1..MaxId, text \in BOOLEAN : Report(i, "completed", text)
Fail == \E i \in 1..MaxId, text \in BOOLEAN : Report(i, "failed", text)
Reset == \E i \in 1..MaxId, text \in BOOLEAN : Report(i, "pending", text)

Clear ==
  /\ rows' = << >>
  /\ active' = None
  /\ held' = [c \in Clients |-> {}]
  /\ missed' = FALSE
  /\ UNCHANGED nextId

\* The process restarts; the clients do not.
Restart ==
  /\ active' = None
  /\ missed' = FALSE
  /\ UNCHANGED <<rows, nextId, held>>

Next ==
  \/ \E p \in Priorities : Enqueue(p)
  \/ \E c \in Clients : Dequeue(c)
  \/ Complete \/ Fail \/ Reset \/ Clear \/ Restart

Spec == Init /\ [][Next]_vars

-----------------------------------------------------------------------------
Statuses == {"pending", "in_progress", "completed", "failed"}
Rows == [status : Statuses, priority : Priorities]

\* Types of the variables.
TypeOK ==
  /\ nextId \in 1..(MaxId + 1)
  /\ Ids \subseteq 1..(nextId - 1)
  /\ rows \in [Ids -> Rows]
  /\ active \in 0..MaxId
  /\ held \in [Clients -> SUBSET (1..MaxId)]
  /\ missed \in BOOLEAN

\* What the summary shows as active is in progress, across resets of other
\* items, late and repeated reports, clears and restarts, unless the item was
\* reported on by its id as a text, which the code takes for another one.
ActiveInProgress ==
  active # None =>
    active \in Ids /\ (rows[active].status = "in_progress" \/ missed)

\* Where a student is, seen from the room.
Place(i) == [status |-> rows[i].status,
             holders |-> {c \in Clients : i \in held[c]},
             priority |-> rows[i].priority]

\* The methods, whoever calls them and whenever the process restarts, keep the
\* promise of the waiting room: no student is handed to a second client while
\* nobody has reported on him, nobody is served before somebody more urgent or
\* longer in the queue, and no student gets the id of an earlier one, cleared or
\* not.  Who may report what is no part of it: a late report does overwrite.
Room ==
  INSTANCE WaitingRoom WITH
    Students <- 1..MaxId, room <- [i \in Ids |-> Place(i)],
    arrived <- nextId - 1

RoomSpec == Room!Spec

\* The id that enqueue returns is the new student's, unless somebody of lower
\* priority is waiting: then it is the id of such a one.
ReceiptMeansSelf ==
  [][\A i \in Ids' \ Ids :
       \/ LastPending' = i
       \/ rows'[LastPending'].priority < rows'[i].priority]_vars

=============================================================================
