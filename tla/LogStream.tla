------------------------------ MODULE LogStream ------------------------------
(***************************************************************************)
(* websocket_handler.py: every thread pushes log entries into one queue; a  *)
(* thread takes them out and sends each to the clients that are registered  *)
(* at the time, holding the lock of their set.                              *)
(***************************************************************************)
EXTENDS Naturals, Sequences

CONSTANTS
  Viewers,   \* WebSocket clients
  MaxEntry   \* bound on the number of entries

LogStreamAssumption == MaxEntry \in Nat

VARIABLES
  pushed,    \* number of entries pushed; they are numbered from 1
  logQueue,  \* LOG_QUEUE
  sending,   \* the entry taken and not yet sent, or 0
  viewers,   \* _clients
  broken,    \* viewers whose connection fails
  seen       \* the last entry each viewer has got since it registered, or 0

vars == <<pushed, logQueue, sending, viewers, broken, seen>>

Init ==
  /\ pushed = 0 /\ logQueue = << >> /\ sending = 0
  /\ viewers = {} /\ broken = {}
  /\ seen = [v \in Viewers |-> 0]

-----------------------------------------------------------------------------
Push ==
  /\ pushed < MaxEntry
  /\ pushed' = pushed + 1
  /\ logQueue' = Append(logQueue, pushed')
  /\ UNCHANGED <<sending, viewers, broken, seen>>

Register(v) ==
  /\ v \notin viewers
  /\ viewers' = viewers \cup {v}
  /\ broken' = broken \ {v}
  /\ seen' = [seen EXCEPT ![v] = 0]
  /\ UNCHANGED <<pushed, logQueue, sending>>

\* The handler of the connection ends.
Unregister(v) ==
  /\ v \in viewers
  /\ viewers' = viewers \ {v}
  /\ UNCHANGED <<pushed, logQueue, sending, broken, seen>>

\* A connection begins to fail, and may recover.
Falter(v) ==
  /\ v \in viewers
  /\ broken' = IF v \in broken THEN broken \ {v} ELSE broken \cup {v}
  /\ UNCHANGED <<pushed, logQueue, sending, viewers, seen>>

TakeEntry ==
  /\ sending = 0 /\ logQueue # << >>
  /\ sending' = Head(logQueue)
  /\ logQueue' = Tail(logQueue)
  /\ UNCHANGED <<pushed, viewers, broken, seen>>

\* Mutant: a viewer that could not be sent to is kept.
BroadcastKeeping ==
  /\ sending # 0
  /\ seen' = [v \in Viewers |->
                IF v \in viewers \ broken THEN sending ELSE seen[v]]
  /\ sending' = 0
  /\ UNCHANGED <<pushed, logQueue, viewers, broken>>

Broadcast ==
  /\ sending # 0
  /\ seen' = [v \in Viewers |->
                IF v \in viewers \ broken THEN sending ELSE seen[v]]
  /\ viewers' = viewers \ broken
  /\ sending' = 0
  /\ UNCHANGED <<pushed, logQueue, broken>>

Next ==
  \/ Push \/ TakeEntry \/ Broadcast
  \/ \E v \in Viewers : Register(v) \/ Unregister(v) \/ Falter(v)

Spec == Init /\ [][Next]_vars

-----------------------------------------------------------------------------
\* Types of the variables.
TypeOK ==
  /\ pushed \in 0..MaxEntry
  /\ logQueue \in Seq(1..pushed)
  /\ sending \in 0..pushed
  /\ viewers \in SUBSET Viewers /\ broken \in SUBSET Viewers
  /\ seen \in [Viewers -> 0..pushed]

\* From the first entry it gets, a viewer gets every entry in order and without
\* a gap: one that misses an entry is disconnected, not left with a hole.
NoGaps ==
  [][\A v \in Viewers :
       seen[v] # 0 /\ seen'[v] # 0 => seen'[v] \in {seen[v], seen[v] + 1}]_vars
=============================================================================
