------------------------ MODULE CircuitBreakerProofs ------------------------
(***************************************************************************)
(* Theorems about CircuitBreaker for every set of threads and every         *)
(* assignment of thresholds and cooldowns: BreakerAssumption, which is      *)
(* part of the assumption of Services, is all they ask of the constants.    *)
(***************************************************************************)
EXTENDS CircuitBreaker, TLAPS

\* What a step does to the breaker, whatever the client: permission is
\* given, a failure or a success is recorded, time passes, or nothing.
BreakerStep ==
  \/ AllowRequest
  \/ \E t \in Types : RecordFailure(t)
  \/ CloseBreaker
  \/ left > 0 /\ left' = left - 1 /\ UNCHANGED <<state, failures>>
  \/ UNCHANGED <<state, failures, left>>

\* Every step of the specification is one of these (all methods of
\* circuit_breaker.py), so the invariants below need no case per client action.
LEMMA StepIsBreakerStep == [Next]_vars => BreakerStep
  <1>1. ASSUME NEW c \in Flows, Client(c)
        PROVE  BreakerStep
    BY <1>1 DEF Client, StartFlow, BrowserUp, AskToPoll, PollAgain, PollFailed,
                SlotFound, FlowFailed, FlowFailedQuietly, AskToRetry, Leave,
                BreakerStep
  <1>2. Reset => BreakerStep
    BY DEF Reset, BreakerStep
  <1>3. Tick => BreakerStep
    BY DEF Tick, BreakerStep
  <1>4. UNCHANGED vars => BreakerStep
    BY DEF vars, BreakerStep
  <1>5. QED
    BY <1>1, <1>2, <1>3, <1>4 DEF Next

\* Low and High are the least and the greatest threshold.
LEMMA BandOfThresholds ==
  ASSUME BreakerAssumption
  PROVE  /\ Low \in Nat /\ High \in Nat
         /\ \A t \in Types : Low <= Threshold[t] /\ Threshold[t] <= High
  <1> DEFINE S == {Threshold[t] : t \in Types}
  <1>1. S \subseteq Nat /\ \A t \in Types : Threshold[t] \in S
    BY DEF BreakerAssumption
  <1>2. \E n \in S : \A t \in Types : n <= Threshold[t]
    <2>1. /\ Threshold["block"] \in S /\ Threshold["timeout"] \in S
          /\ Threshold["generic"] \in S
      BY DEF Types
    <2>2. \E n \in {Threshold["block"], Threshold["timeout"],
                    Threshold["generic"]} :
            /\ n <= Threshold["block"] /\ n <= Threshold["timeout"]
            /\ n <= Threshold["generic"]
      BY DEF BreakerAssumption, Types
    <2>3. QED
      BY <2>1, <2>2 DEF Types
  <1>3. \E n \in S : \A t \in Types : n >= Threshold[t]
    <2>1. /\ Threshold["block"] \in S /\ Threshold["timeout"] \in S
          /\ Threshold["generic"] \in S
      BY DEF Types
    <2>2. \E n \in {Threshold["block"], Threshold["timeout"],
                    Threshold["generic"]} :
            /\ n >= Threshold["block"] /\ n >= Threshold["timeout"]
            /\ n >= Threshold["generic"]
      BY DEF BreakerAssumption, Types
    <2>3. QED
      BY <2>1, <2>2 DEF Types
  <1>4. Low \in S /\ \A t \in Types : Low <= Threshold[t]
    BY <1>2 DEF Low
  <1>5. High \in S /\ \A t \in Types : High >= Threshold[t]
    BY <1>3 DEF High
  <1>6. QED
    BY <1>1, <1>4, <1>5

-----------------------------------------------------------------------------
\* The total is a number, and moves as the recorded reports move it.
LEMMA TotalSteps ==
  ASSUME failures \in [Types -> Nat]
  PROVE  /\ Total \in Nat
         /\ \A t \in Types :
              failures' = [failures EXCEPT ![t] = @ + 1] => Total' = Total + 1
         /\ failures' = NoFailures => Total' = 0
         /\ UNCHANGED failures => Total' = Total
  <1>1. Total \in Nat
    BY DEF Total, Types
  <1>2. ASSUME NEW t \in Types, failures' = [failures EXCEPT ![t] = @ + 1]
        PROVE  Total' = Total + 1
    BY <1>2 DEF Total, Types
  <1>3. failures' = NoFailures => Total' = 0
    BY DEF Total, NoFailures, Types
  <1>4. UNCHANGED failures => Total' = Total
    BY DEF Total
  <1>5. QED
    BY <1>1, <1>2, <1>3, <1>4

\* The variables keep their types (every method of circuit_breaker.py).
THEOREM TypeCorrect ==
  ASSUME BreakerAssumption
  PROVE  Spec => []TypeOK
  <1>1. Init => TypeOK
    BY DEF Init, TypeOK, NoFailures
  <1>2. TypeOK /\ [Next]_vars => TypeOK'
    <2> SUFFICES ASSUME TypeOK, [Next]_vars PROVE TypeOK'
      OBVIOUS
    <2>1. /\ state' \in {"closed", "open", "half-open"}
          /\ failures' \in [Types -> Nat]
          /\ left' \in Nat
      <3>1. CASE AllowRequest
        BY <3>1 DEF AllowRequest, TypeOK
      <3>2. CASE \E t \in Types : RecordFailure(t)
        <4>1. PICK t \in Types : RecordFailure(t)
          BY <3>2
        <4>2. failures' \in [Types -> Nat]
          BY <4>1 DEF RecordFailure, TypeOK
        <4>3. Cooldown[t] \in Nat
          BY DEF BreakerAssumption
        <4>4. /\ state' \in {"closed", "open", "half-open"}
              /\ left' \in Nat
          BY <4>1, <4>3 DEF RecordFailure, TypeOK
        <4>5. QED
          BY <4>2, <4>4
      <3>3. CASE CloseBreaker
        BY <3>3 DEF CloseBreaker, NoFailures
      <3>4. CASE left > 0 /\ left' = left - 1 /\ UNCHANGED <<state, failures>>
        BY <3>4 DEF TypeOK
      <3>5. CASE UNCHANGED <<state, failures, left>>
        BY <3>5 DEF TypeOK
      <3>6. QED
        BY <3>1, <3>2, <3>3, <3>4, <3>5, StepIsBreakerStep DEF BreakerStep
    <2>2. pc' \in [Flows -> {"off", "starting", "asking", "polling",
                             "booking", "failed"}]
      BY DEF TypeOK, Next, Client, StartFlow, BrowserUp, AskToPoll, PollAgain,
             PollFailed, SlotFound, FlowFailed, FlowFailedQuietly, AskToRetry,
             Leave, Reset, Tick, Goto, vars
    <2>3. QED
      BY <2>1, <2>2 DEF TypeOK
  <1>3. QED
    BY <1>1, <1>2, PTL DEF Spec

\* The inductive invariant: the state of the breaker tells on which side of
\* the thresholds the failures are, and no deadline is left over outside
\* the open state.
Budget ==
  /\ ClosedWithinBudget
  /\ TrippedOnlyByFailures
  /\ state # "open" => left = 0

LEMMA BudgetInductive ==
  ASSUME BreakerAssumption
  PROVE  TypeOK /\ Budget /\ [Next]_vars => Budget'
  <1> SUFFICES ASSUME TypeOK, Budget, [Next]_vars PROVE Budget'
    OBVIOUS
  <1> USE DEF Budget, ClosedWithinBudget, TrippedOnlyByFailures
  <1>1. CASE AllowRequest
    <2>1. Total' = Total
      BY <1>1, TotalSteps DEF AllowRequest, TypeOK
    <2>2. QED
      BY <1>1, <2>1 DEF AllowRequest
  <1>2. CASE \E t \in Types : RecordFailure(t)
    <2>1. PICK t \in Types : RecordFailure(t)
      BY <1>2
    <2>2. Total \in Nat /\ Total' = Total + 1
      BY <2>1, TotalSteps DEF RecordFailure, TypeOK
    <2>3. CASE Total + 1 >= Threshold[t]
      BY <2>1, <2>2, <2>3 DEF RecordFailure
    <2>4. CASE ~(Total + 1 >= Threshold[t])
      BY <2>1, <2>2, <2>4 DEF RecordFailure, BreakerAssumption
    <2>5. QED
      BY <2>3, <2>4
  <1>3. CASE CloseBreaker
    <2>1. Total' = 0
      BY <1>3, TotalSteps DEF CloseBreaker, TypeOK
    <2>2. "block" \in Types /\ 0 < Threshold["block"]
      BY DEF BreakerAssumption, Types
    <2>3. QED
      BY <1>3, <2>1, <2>2 DEF CloseBreaker
  <1>4. CASE left > 0 /\ left' = left - 1 /\ UNCHANGED <<state, failures>>
    <2>1. Total' = Total
      BY <1>4, TotalSteps DEF TypeOK
    <2>2. QED
      BY <1>4, <2>1 DEF TypeOK
  <1>5. CASE UNCHANGED <<state, failures, left>>
    <2>1. Total' = Total
      BY <1>5, TotalSteps DEF TypeOK
    <2>2. QED
      BY <1>5, <2>1
  <1>6. QED
    BY <1>1, <1>2, <1>3, <1>4, <1>5, StepIsBreakerStep DEF BreakerStep

LEMMA BudgetAlways ==
  ASSUME BreakerAssumption
  PROVE  Spec => []Budget
  <1>1. Init => Budget
    <2>1. "block" \in Types /\ 0 < Threshold["block"]
      BY DEF BreakerAssumption, Types
    <2>2. QED
      BY <2>1 DEF Init, Budget, ClosedWithinBudget, TrippedOnlyByFailures,
                  Total, NoFailures, Types
  <1>2. QED
    BY <1>1, BudgetInductive, TypeCorrect, PTL DEF Spec

\* However the failures of the threads and their types mix, the breaker is not
\* closed at the largest threshold (record_failure, circuit_breaker.py).
THEOREM ClosedBudget ==
  ASSUME BreakerAssumption
  PROVE  Spec => []ClosedWithinBudget
  BY BudgetAlways, PTL DEF Budget

\* The breaker holds callers back only after at least the smallest threshold of
\* failures since the last success (record_failure, record_success).
THEOREM TrippedBudget ==
  ASSUME BreakerAssumption
  PROVE  Spec => []TrippedOnlyByFailures
  BY BudgetAlways, PTL DEF Budget

\* No permission is given while a cooldown runs (allow_request and every
\* method that sets _open_until).
THEOREM CooldownHolds ==
  ASSUME BreakerAssumption
  PROVE  Spec => CooldownRespected
  <1>1. TypeOK /\ Budget /\ [Next]_vars => [Permission => left = 0]_vars
    <2> SUFFICES ASSUME TypeOK, Budget, [Next]_vars, Permission
                 PROVE  left = 0
      OBVIOUS
    <2>1. PICK c \in Flows : \/ pc[c] = "asking" /\ pc'[c] = "polling"
                             \/ pc[c] = "failed" /\ pc'[c] = "starting"
      BY DEF Permission
    <2>2. AllowRequest
      BY <2>1 DEF TypeOK, Next, Client, StartFlow, BrowserUp, AskToPoll,
                  PollAgain, PollFailed, SlotFound, FlowFailed,
                  FlowFailedQuietly, AskToRetry, Leave, Reset, Tick, Goto, vars
    <2>3. QED
      BY <2>2 DEF AllowRequest, Budget
  <1>2. QED
    BY <1>1, TypeCorrect, BudgetAlways, PTL DEF Spec, CooldownRespected

\* The breaker implements the gate: no steps but strikes, pardons and expiries,
\* with the least and the greatest threshold as the band (all of
\* circuit_breaker.py against BreakerGate).
THEOREM ImplementsGate ==
  ASSUME BreakerAssumption
  PROVE  Spec => GateSpec
  <1>1. Init => Gate!Init
    BY DEF Init, Gate!Init, Total, NoFailures, Types
  <1>2. TypeOK /\ Budget /\ [Next]_vars => [Gate!Next]_(Gate!gateVars)
    <2> SUFFICES ASSUME TypeOK, Budget, [Next]_vars
                 PROVE  Gate!Next \/ UNCHANGED Gate!gateVars
      OBVIOUS
    <2>1. CASE AllowRequest
      <3>1. Total' = Total
        BY <2>1, TotalSteps DEF AllowRequest, TypeOK
      <3>2. QED
        BY <2>1, <3>1 DEF AllowRequest, Gate!Next, Gate!Expire, Gate!gateVars
    <2>2. CASE \E t \in Types : RecordFailure(t)
      <3>1. PICK t \in Types : RecordFailure(t)
        BY <2>2
      <3>2. Total \in Nat /\ Total' = Total + 1
        BY <3>1, TotalSteps DEF RecordFailure, TypeOK
      <3>3. Low <= Threshold[t] /\ Threshold[t] <= High
            /\ Low \in Nat /\ High \in Nat /\ Threshold[t] \in Nat
        BY BandOfThresholds DEF BreakerAssumption
      <3>4. Gate!Strike
        BY <3>1, <3>2, <3>3 DEF RecordFailure, Gate!Strike
      <3>5. QED
        BY <3>4 DEF Gate!Next
    <2>3. CASE CloseBreaker
      <3>1. Total' = 0
        BY <2>3, TotalSteps DEF CloseBreaker, TypeOK
      <3>2. QED
        BY <2>3, <3>1 DEF CloseBreaker, Gate!Next, Gate!Forgive
    <2>4. CASE left > 0 /\ left' = left - 1 /\ UNCHANGED <<state, failures>>
      BY <2>4, TotalSteps DEF TypeOK, Gate!gateVars
    <2>5. CASE UNCHANGED <<state, failures, left>>
      BY <2>5, TotalSteps DEF TypeOK, Gate!gateVars
    <2>6. QED
      BY <2>1, <2>2, <2>3, <2>4, <2>5, StepIsBreakerStep DEF BreakerStep
  <1>3. QED
    BY <1>1, <1>2, TypeCorrect, BudgetAlways, PTL DEF Spec, GateSpec, Gate!Spec
=============================================================================
