------------------------------- MODULE Booker -------------------------------
(***************************************************************************)
(* What the dashboard promises of the bot, without threads, semaphores or   *)
(* requests: a switch, and students that are being booked only while it is  *)
(* on, each by one browser and at most Limit of them at a time.             *)
(***************************************************************************)
EXTENDS Naturals, FiniteSets

CONSTANTS Students, Limit

VARIABLES on, working

bookerVars == <<on, working>>

Init ==
  /\ on = FALSE
  /\ working = {}

SwitchOn ==
  /\ ~on
  /\ on' = TRUE
  /\ UNCHANGED working

\* The bot only goes off when the last student is done with.
SwitchOff ==
  /\ on /\ working = {}
  /\ on' = FALSE
  /\ UNCHANGED working

Begin(s) ==
  /\ on
  /\ s \notin working
  /\ Cardinality(working) < Limit
  /\ working' = working \cup {s}
  /\ UNCHANGED on

End(s) ==
  /\ s \in working
  /\ working' = working \ {s}
  /\ UNCHANGED on

Next ==
  \/ SwitchOn \/ SwitchOff
  \/ \E s \in Students : Begin(s) \/ End(s)

Spec == Init /\ [][Next]_bookerVars
=============================================================================
