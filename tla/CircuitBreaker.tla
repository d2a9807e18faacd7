--------------------------- MODULE CircuitBreaker ---------------------------
(***************************************************************************)
(* circuit_breaker.py: the process-wide CIRCUIT_BREAKER that the student    *)
(* threads of booking_helper.py share.  Every method body runs under        *)
(* _lock, so one method call is one action.  The clients are the threads    *)
(* that run run_student_flow; what a client does between two calls of the   *)
(* breaker is its pc.                                                       *)
(***************************************************************************)
EXTENDS Naturals

CONSTANTS
  Flows,        \* threads inside smart_retry / run_student_flow
  Threshold,    \* error type -> failures that open the breaker
  Cooldown,     \* error type -> ticks the breaker then stays open
  MaxFailures   \* bound on the failures counted since the last success

Types == {"block", "timeout", "generic"}

BreakerAssumption ==
  /\ Threshold \in [Types -> Nat \ {0}]
  /\ Cooldown \in [Types -> Nat \ {0}]
  /\ MaxFailures \in Nat

VARIABLES
  state,        \* _state
  failures,     \* _failures
  left,         \* ticks until _open_until, 0 when it has passed
  pc            \* what each client is doing

vars == <<state, failures, left, pc>>

Total == failures["block"] + failures["timeout"] + failures["generic"]

NoFailures == [t \in Types |-> 0]

Init ==
  /\ state = "closed"
  /\ failures = NoFailures
  /\ left = 0
  /\ pc = [c \in Flows |-> "off"]

Goto(c, l) == pc' = [pc EXCEPT ![c] = l]

-----------------------------------------------------------------------------
\* Mutant: the cooldown is not looked at.
AllowRequestEarly ==
  /\ \/ state \in {"closed", "half-open"} /\ UNCHANGED state
     \/ state = "open" /\ state' = "half-open"
  /\ UNCHANGED <<failures, left>>

\* Mutant: an open breaker never becomes half-open.
AllowRequestOnlyClosed ==
  /\ state \in {"closed", "half-open"}
  /\ UNCHANGED <<state, failures, left>>

\* allow_request returns True; while it returns False the client sleeps in
\* wait_until_allowed and asks again, which changes nothing.
AllowRequest ==
  /\ \/ state \in {"closed", "half-open"} /\ UNCHANGED state
     \/ state = "open" /\ left = 0 /\ state' = "half-open"
  /\ UNCHANGED <<failures, left>>

\* Mutant: the threshold is compared with the failures of its own type.
RecordFailureByType(t) ==
  /\ Total < MaxFailures
  /\ failures' = [failures EXCEPT ![t] = @ + 1]
  /\ IF failures[t] + 1 >= Threshold[t]
     THEN state' = "open" /\ left' = Cooldown[t]
     ELSE UNCHANGED <<state, left>>

\* Mutant: only more failures than the threshold open the breaker.
RecordFailureLate(t) ==
  /\ Total < MaxFailures
  /\ failures' = [failures EXCEPT ![t] = @ + 1]
  /\ IF Total + 1 > Threshold[t]
     THEN state' = "open" /\ left' = Cooldown[t]
     ELSE UNCHANGED <<state, left>>

\* The effect of record_failure(t): the type is counted, but the total of
\* all types is compared with the threshold of this one.
RecordFailure(t) ==
  /\ Total < MaxFailures
  /\ failures' = [failures EXCEPT ![t] = @ + 1]
  /\ IF Total + 1 >= Threshold[t]
     THEN state' = "open" /\ left' = Cooldown[t]
     ELSE UNCHANGED <<state, left>>

\* Mutant: the failures are forgotten, the state is not.
CloseBreakerCountOnly ==
  /\ failures' = NoFailures
  /\ left' = 0
  /\ UNCHANGED state

\* The effect of record_success and of reset.
CloseBreaker ==
  /\ state' = "closed"
  /\ failures' = NoFailures
  /\ left' = 0

-----------------------------------------------------------------------------
\* The first flow of a student starts its browser without asking.
StartFlow(c) ==
  /\ pc[c] = "off"
  /\ Goto(c, "starting")
  /\ UNCHANGED <<state, failures, left>>

BrowserUp(c) ==
  /\ pc[c] = "starting"
  /\ Goto(c, "asking")
  /\ UNCHANGED <<state, failures, left>>

\* The top of the polling loop gets permission for one poll.
AskToPoll(c) ==
  /\ pc[c] = "asking"
  /\ AllowRequest
  /\ Goto(c, "polling")

\* A poll ends with nothing to report (no slot yet, a page that timed out).
PollAgain(c) ==
  /\ pc[c] = "polling"
  /\ Goto(c, "asking")
  /\ UNCHANGED <<state, failures, left>>

\* A poll meets a blocked page or a WebDriver error.
PollFailed(c, t) ==
  /\ pc[c] = "polling"
  /\ RecordFailure(t)
  /\ Goto(c, "asking")

\* The booking button was found and clicked.
SlotFound(c) ==
  /\ pc[c] = "polling"
  /\ CloseBreaker
  /\ Goto(c, "booking")

\* An exception ends the flow: the browser did not start, or the wizard
\* failed after the poll had already been reported a success.
FlowFailed(c, t) ==
  /\ pc[c] \in {"starting", "booking"}
  /\ RecordFailure(t)
  /\ Goto(c, "failed")

\* A flow ends as failed, and the breaker is told nothing: its date is invalid, or
\* it read an error off the page after the last step.
FlowFailedQuietly(c) ==
  /\ pc[c] \in {"starting", "booking"}
  /\ Goto(c, "failed")
  /\ UNCHANGED <<state, failures, left>>

\* smart_retry waits for permission before it runs the flow again.
AskToRetry(c) ==
  /\ pc[c] = "failed"
  /\ AllowRequest
  /\ Goto(c, "starting")

\* The thread leaves smart_retry: the flow is over, no retry is left, or the
\* stop event is seen while it waits for its time or permission, or polls.
Leave(c) ==
  /\ pc[c] \in {"starting", "asking", "polling", "booking", "failed"}
  /\ Goto(c, "off")
  /\ UNCHANGED <<state, failures, left>>

Reset ==
  /\ CloseBreaker
  /\ UNCHANGED pc

Tick ==
  /\ left > 0
  /\ left' = left - 1
  /\ UNCHANGED <<state, failures, pc>>

Client(c) ==
  \/ StartFlow(c) \/ BrowserUp(c) \/ AskToPoll(c) \/ PollAgain(c)
  \/ SlotFound(c) \/ FlowFailedQuietly(c) \/ AskToRetry(c) \/ Leave(c)
  \/ \E t \in Types : PollFailed(c, t) \/ FlowFailed(c, t)

Next == (\E c \in Flows : Client(c)) \/ Reset \/ Tick

Spec == Init /\ [][Next]_vars

-----------------------------------------------------------------------------
\* Types of the variables.
TypeOK ==
  /\ state \in {"closed", "open", "half-open"}
  /\ failures \in [Types -> Nat]
  /\ left \in Nat
  /\ pc \in [Flows -> {"off", "starting", "asking", "polling", "booking",
                      "failed"}]

\* However the failures of the threads and their types mix, the breaker is
\* not closed once as many failures as the largest threshold were recorded
\* since the last success: a failing site is never hammered beyond that.
ClosedWithinBudget ==
  state = "closed" => \E t \in Types : Total < Threshold[t]

\* Callers are only ever held back after at least the smallest threshold of
\* failures since the last success (record_failure, record_success).
TrippedOnlyByFailures ==
  state # "closed" => \E t \in Types : Total >= Threshold[t]

\* Some thread gets permission in this step.
Permission ==
  \E c \in Flows :
    \/ pc[c] = "asking" /\ pc'[c] = "polling"
    \/ pc[c] = "failed" /\ pc'[c] = "starting"

\* No thread gets permission while the cooldown that the breaker noted last
\* is still running, in whatever state a straggler's report left it.
CooldownRespected == [][Permission => left = 0]_vars

\* Once no more failures are recorded, no thread waits for permission for
\* ever: the cooldown runs out and its next poll gets through.
WaitersReleased ==
  <>[][Total' <= Total]_vars
    => \A c \in Flows : pc[c] \in {"asking", "failed"}
                            ~> pc[c] \notin {"asking", "failed"}

\* The breaker implements the gate of BreakerGate, with the band between its
\* smallest and its largest threshold.
Low == CHOOSE n \in {Threshold[t] : t \in Types} :
         \A t \in Types : n <= Threshold[t]
High == CHOOSE n \in {Threshold[t] : t \in Types} :
         \A t \in Types : n >= Threshold[t]

Gate == INSTANCE BreakerGate WITH shut <- (state = "open"), strikes <- Total

GateSpec == Gate!Spec

-----------------------------------------------------------------------------
(* What the documentation says of the breaker and the code does not do.     *)

\* circuit_breaker.py:16 - after the cooldown one probe request is allowed:
\* the permission that made the breaker half-open is the only one.
OneProbe == [][state = "half-open" => ~Permission]_vars
=============================================================================
