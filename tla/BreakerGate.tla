----------------------------- MODULE BreakerGate -----------------------------
(***************************************************************************)
(* What the circuit breaker promises its callers, without its error types,  *)
(* its clock or its half-open state: a gate that counts the failures since  *)
(* the last success and is shut at some point of the band Low..High.        *)
(***************************************************************************)
EXTENDS Naturals

CONSTANTS Low,   \* below this many strikes the gate is never shut by a strike
          High   \* from this many strikes on, every strike leaves it shut

VARIABLES shut, strikes

gateVars == <<shut, strikes>>

Init ==
  /\ shut = FALSE
  /\ strikes = 0

\* A failure is recorded.
Strike ==
  /\ strikes' = strikes + 1
  /\ shut' \in BOOLEAN
  /\ strikes' < Low => shut' = shut
  /\ strikes' >= High => shut'
  /\ shut => shut'

\* A success is recorded (or the breaker is reset by hand).
Forgive ==
  /\ strikes' = 0
  /\ shut' = FALSE

\* The cooldown is over and a caller is let through; the strikes stand.
Expire ==
  /\ shut
  /\ shut' = FALSE
  /\ UNCHANGED strikes

Next == Strike \/ Forgive \/ Expire

Spec == Init /\ [][Next]_gateVars
=============================================================================
