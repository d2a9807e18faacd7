-------------------------- MODULE StudentQueueProofs --------------------------
(***************************************************************************)
(* The student queue shows an active student that is in progress unless an  *)
(* id came as a text, and implements WaitingRoom, proved for any clients,   *)
(* priorities and numbers of students, whoever reports on whom and however  *)
(* often.  The refinement rests on one fact: a student that a client has    *)
(* dequeued and nobody has reported on since is in progress, and no other   *)
(* client has dequeued it.                                                  *)
(***************************************************************************)
EXTENDS StudentQueue, WellFoundedInduction, TLAPS

\* A student is held by nobody, or in progress and held by one client.
HeldAlone ==
  \A c \in Clients : \A i \in held[c] :
    /\ i \in Ids /\ rows[i].status = "in_progress"
    /\ \A d \in Clients : i \in held[d] => d = c

IInv == TypeOK /\ HeldAlone /\ ActiveInProgress

-----------------------------------------------------------------------------
\* What an update of one row does to the rows.
LEMMA StatusSet ==
  ASSUME TypeOK, NEW i, NEW status \in Statuses, SetStatus(i, status)
  PROVE  /\ Ids' = Ids
         /\ rows' \in [Ids -> Rows]
         /\ \A j \in Ids :
              /\ rows'[j].status = IF j = i THEN status ELSE rows[j].status
              /\ rows'[j].priority = rows[j].priority
BY DEF SetStatus, Ids, TypeOK, Rows

\* What the addition of a row does to them.
LEMMA RowAdded ==
  ASSUME QueueAssumption, TypeOK, NEW p \in Priorities, Enqueue(p)
  PROVE  /\ Ids' = Ids \cup {nextId} /\ nextId \notin Ids
         /\ rows' \in [Ids' -> Rows]
         /\ rows'[nextId] = [status |-> "pending", priority |-> p]
         /\ \A j \in Ids : rows'[j] = rows[j]
BY DEF QueueAssumption, Enqueue, Ids, TypeOK, Rows, Statuses

\* A report changes the row, if there is one, what is active, and who holds it.
LEMMA Reported ==
  ASSUME QueueAssumption, TypeOK, NEW i \in 1..MaxId, NEW status \in Statuses,
         NEW text \in BOOLEAN, Report(i, status, text)
  PROVE  /\ TypeOK'
         /\ Ids' = Ids
         /\ \A j \in Ids :
              /\ rows'[j].status = IF j = i THEN status ELSE rows[j].status
              /\ rows'[j].priority = rows[j].priority
         /\ active' # None => active' = active /\ (active = i => missed')
         /\ missed => missed' \/ active' = None
         /\ \A c \in Clients : held'[c] = held[c] \ {i}
<1>1. /\ Ids' = Ids /\ rows' \in [Ids -> Rows]
      /\ \A j \in Ids :
           /\ rows'[j].status = IF j = i THEN status ELSE rows[j].status
           /\ rows'[j].priority = rows[j].priority
  BY StatusSet DEF Report
<1>2. /\ active' = IF active = i /\ ~text THEN None ELSE active
      /\ missed' = IF active = i /\ ~text THEN FALSE ELSE missed \/ active = i
      /\ nextId' = nextId
  BY DEF Report
<1>3. /\ \A c \in Clients : held'[c] = held[c] \ {i}
      /\ held' \in [Clients -> SUBSET (1..MaxId)]
  BY DEF Report, LetGo, TypeOK
<1>4. active' \in 0..MaxId
  BY <1>2 DEF TypeOK, QueueAssumption, None
<1>5. missed' \in BOOLEAN
  BY <1>2, Zenon DEF TypeOK
<1>6. TypeOK'
  BY <1>1, <1>2, <1>3, <1>4, <1>5 DEF TypeOK
<1> QED
  BY <1>1, <1>2, <1>3, <1>6

-----------------------------------------------------------------------------
\* Every step keeps the types.
LEMMA TypeKept ==
  ASSUME QueueAssumption, TypeOK, [Next]_vars PROVE TypeOK'
<1> USE DEF TypeOK, QueueAssumption
<1>1. ASSUME NEW p \in Priorities, Enqueue(p) PROVE TypeOK'
  <2>1. nextId \in 1..MaxId /\ nextId' = nextId + 1
    BY <1>1 DEF Enqueue
  <2>2. Ids' = Ids \cup {nextId}
    BY <1>1, RowAdded
  <2>3. Ids' \subseteq 1..(nextId' - 1)
    BY <2>1, <2>2
  <2> QED
    BY <1>1, <2>1, <2>3, RowAdded DEF Enqueue, ghostVars
<1>2. ASSUME NEW c \in Clients, Dequeue(c) PROVE TypeOK'
  <2>1. PICK i \in Pending : /\ SetStatus(i, "in_progress") /\ active' = i
                             /\ held' = [held EXCEPT ![c] = @ \cup {i}]
    BY <1>2 DEF Dequeue
  <2>2. i \in 1..MaxId
    BY DEF Pending
  <2>3. Ids' = Ids /\ rows' \in [Ids -> Rows]
    BY <2>1, StatusSet DEF Statuses
  <2>4. missed' \in BOOLEAN
    BY <1>2, Zenon DEF Dequeue
  <2> QED
    BY <1>2, <2>1, <2>2, <2>3, <2>4 DEF Dequeue
<1>3. ASSUME NEW i \in 1..MaxId, NEW status \in Statuses, NEW text \in BOOLEAN,
             Report(i, status, text)
      PROVE  TypeOK'
  BY <1>3, Reported
<1>4. CASE Clear
  <2>1. missed' \in BOOLEAN
    BY <1>4, Zenon DEF Clear
  <2> QED
    BY <1>4, <2>1 DEF Clear, None, Ids
<1>5. CASE Restart
  <2>1. missed' \in BOOLEAN
    BY <1>5, Zenon DEF Restart
  <2> QED
    BY <1>5, <2>1 DEF Restart, None, Ids
<1>6. CASE UNCHANGED vars
  BY <1>6 DEF vars, ghostVars, Ids
<1> QED
  BY <1>1, <1>2, <1>3, <1>4, <1>5, <1>6
     DEF Next, Complete, Fail, Reset, Statuses

\* What a call of dequeue does, given the student it takes.
LEMMA Dequeued ==
  ASSUME TypeOK, NEW c \in Clients, Dequeue(c)
  PROVE  \E i \in Pending :
           /\ \A j \in Pending \ {i} : Before(i, j)
           /\ Ids' = Ids /\ rows' \in [Ids -> Rows] /\ nextId' = nextId
           /\ \A j \in Ids :
                /\ rows'[j].status =
                     IF j = i THEN "in_progress" ELSE rows[j].status
                /\ rows'[j].priority = rows[j].priority
           /\ active' = i
           /\ held' = [held EXCEPT ![c] = @ \cup {i}]
<1>1. PICK i \in Pending : /\ FirstPending(i) /\ SetStatus(i, "in_progress")
                           /\ active' = i
                           /\ held' = [held EXCEPT ![c] = @ \cup {i}]
  BY DEF Dequeue
<1>2. /\ Ids' = Ids /\ rows' \in [Ids -> Rows]
      /\ \A j \in Ids :
           /\ rows'[j].status = IF j = i THEN "in_progress" ELSE rows[j].status
           /\ rows'[j].priority = rows[j].priority
  BY <1>1, StatusSet DEF Statuses
<1> QED
  BY <1>1, <1>2 DEF Dequeue, FirstPending

\* The active student is in progress after every step.
LEMMA ActiveKept ==
  ASSUME QueueAssumption, TypeOK, ActiveInProgress, [Next]_vars
  PROVE  ActiveInProgress'
<1> USE DEF ActiveInProgress
<1>1. ASSUME NEW p \in Priorities, Enqueue(p) PROVE ActiveInProgress'
  BY <1>1, RowAdded DEF Enqueue, ghostVars
<1>2. ASSUME NEW c \in Clients, Dequeue(c) PROVE ActiveInProgress'
  BY <1>2, Dequeued DEF Pending
<1>3. ASSUME NEW i \in 1..MaxId, NEW status \in Statuses, NEW text \in BOOLEAN,
             Report(i, status, text)
      PROVE  ActiveInProgress'
  BY <1>3, Reported
<1>4. CASE Clear
  BY <1>4 DEF Clear
<1>5. CASE Restart
  BY <1>5 DEF Restart
<1>6. CASE UNCHANGED vars
  BY <1>6 DEF vars, ghostVars, Ids
<1> QED
  BY <1>1, <1>2, <1>3, <1>4, <1>5, <1>6
     DEF Next, Complete, Fail, Reset, Statuses

\* Only a call of dequeue hands out a student, and only one that waits.
LEMMA HeldAloneKept ==
  ASSUME QueueAssumption, TypeOK, HeldAlone, [Next]_vars
  PROVE  HeldAlone'
<1> USE DEF HeldAlone
<1>1. ASSUME NEW p \in Priorities, Enqueue(p) PROVE HeldAlone'
  BY <1>1, RowAdded DEF Enqueue, ghostVars
<1>2. ASSUME NEW c \in Clients, Dequeue(c) PROVE HeldAlone'
  BY <1>2, Dequeued DEF Pending, TypeOK
<1>3. ASSUME NEW i \in 1..MaxId, NEW status \in Statuses, NEW text \in BOOLEAN,
             Report(i, status, text)
      PROVE  HeldAlone'
  BY <1>3, Reported
<1>4. CASE Clear
  BY <1>4 DEF Clear
<1>5. CASE Restart
  BY <1>5 DEF Restart, Ids
<1>6. CASE UNCHANGED vars
  BY <1>6 DEF vars, ghostVars, Ids
<1> QED
  BY <1>1, <1>2, <1>3, <1>4, <1>5, <1>6
     DEF Next, Complete, Fail, Reset, Statuses

-----------------------------------------------------------------------------
\* The invariant holds at the beginning, and every step keeps it.
LEMMA InvInit == ASSUME QueueAssumption, Init PROVE IInv
<1>1. missed \in BOOLEAN
  BY Zenon DEF Init
<1> QED
  BY <1>1 DEF QueueAssumption, Init, IInv, TypeOK, HeldAlone, ActiveInProgress,
              Ids, None

LEMMA InvKept == ASSUME QueueAssumption, IInv, [Next]_vars PROVE IInv'
BY TypeKept, HeldAloneKept, ActiveKept DEF IInv

\* The types of the variables hold in every state.
THEOREM TypeCorrect == ASSUME QueueAssumption PROVE Spec => []TypeOK
<1>1. Init => IInv
  BY InvInit
<1>2. IInv /\ [Next]_vars => IInv'
  BY InvKept
<1>3. IInv => TypeOK
  BY DEF IInv
<1> QED
  BY <1>1, <1>2, <1>3, PTL DEF Spec

\* Whoever calls the methods, however late and often, and whenever the process
\* restarts, the student shown as active is in progress, unless it was reported
\* on by its id as a text.
THEOREM ActiveIsInProgress ==
  ASSUME QueueAssumption PROVE Spec => []ActiveInProgress
<1>1. Init => IInv
  BY InvInit
<1>2. IInv /\ [Next]_vars => IInv'
  BY InvKept
<1>3. IInv => ActiveInProgress
  BY DEF IInv
<1> QED
  BY <1>1, <1>2, <1>3, PTL DEF Spec

-----------------------------------------------------------------------------
(* The id that enqueue reads back.                                          *)

\* Every set of numbers that is not empty has a least one ...
LEMMA Least ==
  ASSUME NEW S \in SUBSET Nat, S # {}
  PROVE  \E x \in S : \A y \in S : x <= y
<1> DEFINE R == OpToRel(<, Nat)
<1>1. PICK x \in S : \A y \in S : <<y, x>> \notin R
  <2> HIDE DEF R
  <2>1. IsWellFoundedOn(R, Nat)
    BY NatLessThanWellFounded DEF R
  <2> QED
    BY <2>1, WFMin
<1>2. \A y \in S : ~(y < x)
  BY <1>1 DEF OpToRel
<1> QED
  BY <1>2

\* ... and, if it is bounded, a greatest.
LEMMA Greatest ==
  ASSUME NEW n \in Nat, NEW S \in SUBSET (0..n), S # {}
  PROVE  \E x \in S : \A y \in S : y <= x
<1> DEFINE T == {n - x : x \in S}
<1>1. PICK t \in T : \A u \in T : t <= u
  <2>1. \A x \in S : n - x \in Nat
    OBVIOUS
  <2>2. T \in SUBSET Nat /\ T # {}
    BY <2>1
  <2> QED
    BY <2>2, Least
<1>2. PICK x \in S : t = n - x
  OBVIOUS
<1>3. \A y \in S : n - x <= n - y
  BY <1>1, <1>2
<1> QED
  BY <1>3

\* Of students that wait there is one that is served last: one of the lowest
\* priority there is, and the youngest of these.
LEMMA LastExists ==
  ASSUME MaxId \in Nat, NEW P \in SUBSET (1..MaxId), P # {},
         NEW r, \A i \in P : r[i].priority \in Nat
  PROVE  \E i \in P : \A j \in P \ {i} :
           \/ r[j].priority > r[i].priority
           \/ r[j].priority = r[i].priority /\ j < i
<1> DEFINE Levels == {r[i].priority : i \in P}
<1>1. PICK l \in Levels : \A k \in Levels : l <= k
  <2>1. Levels \in SUBSET Nat /\ Levels # {}
    OBVIOUS
  <2> QED
    BY <2>1, Least
<1> DEFINE Lowest == {i \in P : r[i].priority = l}
<1>2. PICK i \in Lowest : \A j \in Lowest : j <= i
  <2>1. Lowest # {}
    BY <1>1
  <2>2. Lowest \in SUBSET (0..MaxId)
    <3>1. \A k \in 1..MaxId : k \in 0..MaxId
      OBVIOUS
    <3>2. \A k \in Lowest : k \in 1..MaxId
      OBVIOUS
    <3> QED
      BY <3>1, <3>2
  <2> QED
    BY <2>1, <2>2, Greatest
<1>3. ASSUME NEW j \in P \ {i}
      PROVE  \/ r[j].priority > r[i].priority
             \/ r[j].priority = r[i].priority /\ j < i
  <2>1. i \in Nat /\ j \in Nat /\ i # j
    OBVIOUS
  <2>2. r[i].priority = l /\ r[i].priority <= r[j].priority
    BY <1>1, <1>3
  <2>3. r[j].priority = l => j <= i
    BY <1>2
  <2>4. r[i].priority \in Nat /\ r[j].priority \in Nat
    OBVIOUS
  <2> QED
    BY <2>1, <2>2, <2>3, <2>4
<1> QED
  BY <1>2, <1>3

\* What enqueue reads back is the new student's id, unless somebody of lower
\* priority is waiting.
LEMMA ReceiptOfStep ==
  ASSUME QueueAssumption, TypeOK, TypeOK', [Next]_vars, NEW i \in Ids' \ Ids
  PROVE  \/ LastPending' = i
         \/ rows'[LastPending'].priority < rows'[i].priority
<1>1. ASSUME NEW p \in Priorities, Enqueue(p)
      PROVE  \/ LastPending' = i
             \/ rows'[LastPending'].priority < rows'[i].priority
  <2>1. /\ Ids' = Ids \cup {i} /\ i = nextId
        /\ rows'[i] = [status |-> "pending", priority |-> p]
    BY <1>1, RowAdded
  <2>2. i \in Pending'
    BY <2>1 DEF Pending
  <2>3. Pending' \in SUBSET (1..MaxId) /\ MaxId \in Nat
    <3>1. MaxId \in Nat
      BY DEF QueueAssumption
    <3>2. PICK n \in 1..(MaxId + 1) : n = nextId'
      BY DEF TypeOK
    <3>3. ASSUME NEW k \in 1..(n - 1) PROVE k \in 1..MaxId
      BY <3>1
    <3>4. Pending' \subseteq 1..(n - 1)
      BY <3>2 DEF Pending, TypeOK
    <3> QED
      BY <3>1, <3>3, <3>4
  <2>4. \A j \in Pending' : rows'[j].priority \in Nat
    <3>1. rows' \in [Ids' -> [status : Statuses, priority : Priorities]]
      BY DEF TypeOK, Rows
    <3>2. Priorities \subseteq Nat
      BY DEF QueueAssumption
    <3> QED
      BY <3>1, <3>2 DEF Pending
  <2>5. \E l \in Pending' : \A j \in Pending' \ {l} :
          \/ rows'[j].priority > rows'[l].priority
          \/ rows'[j].priority = rows'[l].priority /\ j < l
    BY <2>2, <2>3, <2>4, LastExists
  <2>6. PICK l \in Pending' :
          /\ l = LastPending'
          /\ \A j \in Pending' \ {l} :
               \/ rows'[j].priority > rows'[l].priority
               \/ rows'[j].priority = rows'[l].priority /\ j < l
    <3> HIDE DEF Pending
    <3> QED
      BY <2>5 DEF LastPending, Before
  <2>7. l = i \/ l < i
    BY <2>1, <2>3 DEF Pending, TypeOK
  <2>8. l # i => \/ rows'[i].priority > rows'[l].priority
                 \/ i < l
    BY <2>2, <2>6
  <2> QED
    BY <2>2, <2>3, <2>4, <2>6, <2>7, <2>8
<1>2. ASSUME NEW c \in Clients, Dequeue(c) PROVE FALSE
  BY <1>2, Dequeued
<1>3. ASSUME NEW j \in 1..MaxId, NEW status \in Statuses, NEW text \in BOOLEAN,
             Report(j, status, text)
      PROVE  FALSE
  BY <1>3, Reported
<1>4. CASE Clear
  BY <1>4 DEF Clear, Ids
<1>5. CASE Restart \/ UNCHANGED vars
  BY <1>5 DEF Restart, vars, ghostVars, Ids
<1> QED
  BY <1>1, <1>2, <1>3, <1>4, <1>5 DEF Next, Complete, Fail, Reset, Statuses

\* The id that enqueue returns to the dashboard is the new student's own, unless
\* somebody of lower priority is waiting, for all priorities and students.
THEOREM ReceiptIsOwn == ASSUME QueueAssumption PROVE Spec => ReceiptMeansSelf
<1>1. Spec => []TypeOK
  BY TypeCorrect
<1>2. TypeOK /\ TypeOK' /\ [Next]_vars
        => [\A i \in Ids' \ Ids :
              \/ LastPending' = i
              \/ rows'[LastPending'].priority < rows'[i].priority]_vars
  BY ReceiptOfStep
<1> QED
  BY <1>1, <1>2, PTL DEF Spec, ReceiptMeansSelf

-----------------------------------------------------------------------------
(* The steps of the queue, seen from the room.                              *)

room == [i \in Ids |-> Place(i)]

\* A student enqueued is a new one that waits, and nobody else moves.
LEMMA EnqueueArrives ==
  ASSUME QueueAssumption, TypeOK, HeldAlone,
         NEW p \in Priorities, Enqueue(p)
  PROVE  Room!Arrive
<1>1. PICK n \in 1..MaxId : n = nextId /\ nextId' = n + 1
  BY DEF Enqueue, TypeOK, QueueAssumption
<1>2. Ids' = Ids \cup {n} /\ n \notin Ids
  BY <1>1, RowAdded
<1>3. Place(n)' = [status |-> "pending", holders |-> {}, priority |-> p]
  <2>1. {c \in Clients : n \in held'[c]} = {}
    BY <1>2 DEF Enqueue, ghostVars, HeldAlone
  <2>2. PICK row : row = rows'[n] /\ row = [status |-> "pending", priority |-> p]
    BY <1>1, RowAdded
  <2>3. Place(n)' = [status |-> rows'[n].status,
                     holders |-> {c \in Clients : n \in held'[c]},
                     priority |-> rows'[n].priority]
    BY DEF Place
  <2>4. row.status = "pending" /\ row.priority = p
    BY <2>2
  <2> QED
    BY <2>1, <2>2, <2>3, <2>4
<1>4. \A j \in Ids : Place(j)' = Place(j)
  BY RowAdded DEF Enqueue, ghostVars, Place
<1>5. \A j \in Ids : j # n /\ room[j] = Place(j)
  BY <1>2 DEF room
<1>6. room' = [j \in Ids \cup {n} |->
                 IF j = n
                 THEN [status |-> "pending", holders |-> {}, priority |-> p]
                 ELSE room[j]]
  BY <1>2, <1>3, <1>4, <1>5 DEF room
<1>7. nextId - 1 < n /\ nextId' - 1 = n
  BY <1>1
<1> QED
  BY <1>6, <1>7 DEF Room!Arrive, Room!Present, room

\* A student whose row and holders change is moved, if nobody else's do.
LEMMA Moved ==
  ASSUME NEW i \in Ids, NEW status, NEW holders,
         Ids' = Ids, nextId' = nextId,
         Place(i)' = [status |-> status, holders |-> holders,
                      priority |-> rows[i].priority],
         \A j \in Ids \ {i} : Place(j)' = Place(j)
  PROVE  Room!Move(i, status, holders)
<1>1. room' = [room EXCEPT ![i] = [status |-> status, holders |-> holders,
                                   priority |-> rows[i].priority]]
  BY DEF room
<1>2. PICK place : place = room[i]
  OBVIOUS
<1>3. [[place EXCEPT !.status = status] EXCEPT !.holders = holders]
        = [status |-> status, holders |-> holders,
           priority |-> rows[i].priority]
  <2>1. PICK s, h, p :
          /\ s = rows[i].status /\ h = {c \in Clients : i \in held[c]}
          /\ p = rows[i].priority
    OBVIOUS
  <2>2. place = [status |-> s, holders |-> h, priority |-> p]
    BY <1>2, <2>1 DEF room, Place
  <2>3. PICK between : between = [place EXCEPT !.status = status]
    OBVIOUS
  <2>4. between = [status |-> status, holders |-> h, priority |-> p]
    BY <2>2, <2>3
  <2>5. [between EXCEPT !.holders = holders]
          = [status |-> status, holders |-> holders, priority |-> p]
    BY <2>4
  <2> QED
    BY <2>1, <2>3, <2>5
<1>4. i \in DOMAIN room
  BY DEF room
<1>5. room' = [[room EXCEPT ![i].status = status] EXCEPT ![i].holders = holders]
  BY <1>1, <1>2, <1>3, <1>4
<1> QED
  BY <1>5 DEF Room!Move, room

\* A student dequeued is called.
LEMMA DequeueCalls ==
  ASSUME QueueAssumption, IInv, NEW c \in Clients, Dequeue(c)
  PROVE  Room!Call(c)
<1>1. PICK i \in Pending :
        /\ \A j \in Pending \ {i} : Before(i, j)
        /\ Ids' = Ids /\ nextId' = nextId
        /\ \A j \in Ids :
             /\ rows'[j].status =
                  IF j = i THEN "in_progress" ELSE rows[j].status
             /\ rows'[j].priority = rows[j].priority
        /\ held' = [held EXCEPT ![c] = @ \cup {i}]
  BY Dequeued DEF IInv
<1>2. \A j \in Ids \ {i} : Place(j)' = Place(j)
  BY <1>1 DEF Place, IInv, TypeOK
<1>3. i \in Ids /\ rows[i].status = "pending"
  BY DEF Pending
<1>4. Place(i)' = [status |-> "in_progress", holders |-> {c},
                   priority |-> rows[i].priority]
  <2>1. {d \in Clients : i \in held'[d]} = {c}
    BY <1>1, <1>3 DEF IInv, TypeOK, HeldAlone
  <2>2. /\ rows'[i].status = "in_progress"
        /\ rows'[i].priority = rows[i].priority
    BY <1>1, <1>3
  <2> QED
    BY <2>1, <2>2 DEF Place
<1>5. Room!Move(i, "in_progress", {c})
  BY <1>1, <1>2, <1>3, <1>4, Moved
<1>6. /\ \A j \in Ids :
           /\ room[j].status = rows[j].status
           /\ room[j].priority = rows[j].priority
      /\ DOMAIN room = Ids
  BY DEF room, Place
<1>7. i \in Room!Waiting /\ \A j \in Room!Waiting \ {i} : Room!Behind(j, i)
  BY <1>1, <1>3, <1>6 DEF Room!Waiting, Room!Present, Room!Behind, Pending,
                          Before, room
<1> QED
  BY <1>5, <1>7 DEF Room!Call

\* A student reported on is sent on; a report on an id that has no row changes
\* nothing in the room.
LEMMA ReportSends ==
  ASSUME QueueAssumption, IInv, NEW i \in 1..MaxId,
         NEW status \in {"pending", "completed", "failed"},
         NEW text \in BOOLEAN, Report(i, status, text)
  PROVE  Room!Send \/ UNCHANGED <<room, nextId>>
<1>1. /\ Ids' = Ids /\ nextId' = nextId
      /\ \A j \in Ids :
           /\ rows'[j].status = IF j = i THEN status ELSE rows[j].status
           /\ rows'[j].priority = rows[j].priority
      /\ \A c \in Clients : held'[c] = held[c] \ {i}
  <2>1. TypeOK /\ status \in Statuses
    BY DEF IInv, Statuses
  <2>2. nextId' = nextId
    BY DEF Report
  <2> QED
    BY <2>1, <2>2, Reported
<1>2. \A j \in Ids \ {i} : Place(j)' = Place(j)
  BY <1>1 DEF Place
<1>3. CASE i \notin Ids
  BY <1>1, <1>2, <1>3 DEF room
<1>4. CASE i \in Ids
  <2>1. {d \in Clients : i \in held'[d]} = {}
    BY <1>1
  <2>2. Place(i)' = [status |-> status, holders |-> {},
                     priority |-> rows[i].priority]
    BY <1>1, <1>4, <2>1 DEF Place
  <2>3. Room!Move(i, status, {})
    BY <1>1, <1>2, <1>4, <2>2, Moved
  <2>4. i \in DOMAIN room
    BY <1>4 DEF room
  <2> QED
    BY <2>3, <2>4 DEF Room!Send, Room!Present, room
<1> QED
  BY <1>3, <1>4

-----------------------------------------------------------------------------
\* The methods of the queue keep the promise of the waiting room, for any number
\* of clients, students and priorities.
THEOREM ImplementsWaitingRoom == ASSUME QueueAssumption PROVE Spec => RoomSpec
<1>1. Init => Room!Init
  BY DEF Init, Room!Init, Ids
<1>2. IInv /\ [Next]_vars => [Room!Next]_<<room, nextId - 1>>
  <2> SUFFICES ASSUME IInv, [Next]_vars
               PROVE  Room!Next \/ UNCHANGED <<room, nextId>>
    OBVIOUS
  <2>1. ASSUME NEW p \in Priorities, Enqueue(p) PROVE Room!Next
    BY <2>1, EnqueueArrives DEF Room!Next, IInv
  <2>2. ASSUME NEW c \in Clients, Dequeue(c) PROVE Room!Next
    BY <2>2, DequeueCalls DEF Room!Next
  <2>3. CASE Complete \/ Fail \/ Reset
    BY <2>3, ReportSends DEF Room!Next, Complete, Fail, Reset
  <2>4. CASE Clear
    BY <2>4 DEF Clear, Room!Next, Room!Clear, room, Ids
  <2>5. CASE Restart
    BY <2>5 DEF Restart, room, Ids, Place
  <2>6. CASE UNCHANGED vars
    BY <2>6 DEF vars, ghostVars, room, Ids, Place
  <2> QED
    BY <2>1, <2>2, <2>3, <2>4, <2>5, <2>6 DEF Next
<1>3. Init => IInv
  BY InvInit
<1>4. IInv /\ [Next]_vars => IInv'
  BY InvKept
<1>5. IInv /\ [Next]_vars => [Room!Next]_(Room!vars)
  BY <1>2 DEF room, Room!vars
<1> QED
  BY <1>1, <1>3, <1>4, <1>5, PTL DEF Spec, RoomSpec, Room!Spec
=============================================================================
