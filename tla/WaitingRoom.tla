------------------------------ MODULE WaitingRoom ------------------------------
(***************************************************************************)
(* What the student queue promises to the clients of its endpoints: every   *)
(* student who has arrived is in one place, waiting, with one client, or    *)
(* done; the client that calls gets the one who is first by priority and    *)
(* arrival; a student stays with the client who called him until somebody,  *)
(* whoever it is, sends him on or the room is cleared.                      *)
(***************************************************************************)
EXTENDS Naturals

CONSTANTS Clients, Students, Priorities

VARIABLES
  room,    \* student -> where the student is, and how urgent
  arrived  \* the number of the last student that arrived

vars == <<room, arrived>>

Present == DOMAIN room
Waiting == {i \in Present : room[i].status = "pending"}

\* j waits behind i.
Behind(j, i) ==
  \/ room[j].priority < room[i].priority
  \/ room[j].priority = room[i].priority /\ i < j

Init == room = << >> /\ arrived = 0

Arrive ==
  \E i \in Students, p \in Priorities :
    /\ arrived < i /\ arrived' = i
    /\ room' = [j \in Present \cup {i} |->
                  IF j = i
                  THEN [status |-> "pending", holders |-> {}, priority |-> p]
                  ELSE room[j]]

Move(i, status, holders) ==
  /\ room' = [room EXCEPT ![i].status = status, ![i].holders = holders]
  /\ UNCHANGED arrived

Call(c) ==
  \E i \in Waiting :
    /\ \A j \in Waiting \ {i} : Behind(j, i)
    /\ Move(i, "in_progress", {c})

Send ==
  \E i \in Present, status \in {"pending", "completed", "failed"} :
    Move(i, status, {})

Clear == room' = << >> /\ UNCHANGED arrived

Next == Arrive \/ Send \/ Clear \/ \E c \in Clients : Call(c)

Spec == Init /\ [][Next]_vars
=============================================================================
