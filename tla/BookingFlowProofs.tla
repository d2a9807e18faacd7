--------------------------- MODULE BookingFlowProofs ---------------------------
(***************************************************************************)
(* Theorems about BookingFlow for every set of runs, every retry budget and *)
(* any number of launches, crashes and expired sessions.                    *)
(***************************************************************************)
EXTENDS BookingFlow, TLAPS

\* What a run read of a checkpoint was honest, and stays so.
ResumeHonest ==
  \A r \in Runs : \A k \in Steps : resume[r] > k => k \in completed

\* A run has every step behind it: done by itself or covered by the checkpoint
\* it resumed.
StepsBehind ==
  \A r \in Runs : \A k \in Steps :
    /\ pc[r] \in {"step", "gap"} /\ k < step[r] => k \in completed
    /\ pc[r] = "save" /\ k <= step[r] => k \in completed

\* How far the browser can be in each part of the wizard: on page p at most,
\* and after a resumption as far back as steps were skipped.
BehindBy(r, p) == page[r] <= p /\ (page[r] <= 1 \/ page[r] + resume[r] <= p + 1)

PageBehind ==
  \A r \in Runs :
    /\ pc[r] = "landed" => page[r] <= 1
    /\ pc[r] \in {"step", "gap"} => BehindBy(r, step[r])
    /\ pc[r] = "step" => step[r] \in Steps
    /\ pc[r] = "save" => step[r] \in Steps /\ BehindBy(r, step[r] + 1)

\* A run that began a step late cannot come back to a step before the stop
\* event is cleared.
LateOnce ==
  \A r \in Runs :
    /\ late[r] <= 1
    /\ late[r] = 1 =>
         \/ pc[r] = "off"
         \/ /\ stop
            /\ pc[r] \in {"save", "gap", "backoff", "scheduled", "opening",
                          "polling"}

RetryAllowed ==
  \A r \in Runs : pc[r] = "backoff" => attempt[r] <= MaxSmartRetries

IInv ==
  /\ TypeOK /\ CheckpointHonest /\ ResumeHonest /\ StepsBehind /\ PageBehind
  /\ LateOnce /\ RetryAllowed

USE FlowAssumption

\* The program starts with no checkpoint and no run.
LEMMA InitIInv == Init => IInv
  <1> SUFFICES ASSUME Init PROVE IInv
    OBVIOUS
  <1>1. TypeOK
    <2>1. budget \in [launches : 0..MaxLaunches, crashes : 0..MaxCrashes,
                      expiries : 0..MaxExpiries]
      BY DEF Init
    <2>2. /\ cause \in [Runs -> Causes \cup {"none", "invalid-date"}]
          /\ completed \in SUBSET Steps
      BY DEF Init
    <2>3. /\ checkpoint \in 0..6 /\ stop \in BOOLEAN /\ bookings \in [Runs -> Nat]
          /\ attempt \in [Runs -> 1..(MaxSmartRetries + 1)]
          /\ resume \in [Runs -> 0..6] /\ step \in [Runs -> 1..6]
          /\ page \in [Runs -> 0..6] /\ late \in [Runs -> Nat]
      <3>1. checkpoint \in 0..6 /\ bookings \in [Runs -> Nat]
        BY DEF Init
      <3>2. stop \in BOOLEAN
        BY DEF Init
      <3>3. attempt \in [Runs -> 1..(MaxSmartRetries + 1)]
        BY FlowAssumption DEF Init
      <3>4. resume \in [Runs -> 0..6] /\ step \in [Runs -> 1..6]
        BY DEF Init
      <3>5. page \in [Runs -> 0..6] /\ late \in [Runs -> Nat]
        BY DEF Init
      <3>6. QED
        BY <3>1, <3>2, <3>3, <3>4, <3>5
    <2>4. /\ pc \in [Runs -> {"off", "scheduled", "opening", "polling",
                            "inpoll", "landed", "step", "save", "gap",
                            "capture", "backoff"}]
          /\ outcome \in [Runs -> {"none", "stopped", "failed", "error",
                             "confirmed", "submitted", "unknown", "verified"}]
      BY DEF Init
    <2>5. QED
      BY <2>1, <2>2, <2>3, <2>4 DEF TypeOK
  <1>2. CheckpointHonest /\ ResumeHonest /\ StepsBehind /\ PageBehind
    BY DEF Init, CheckpointHonest, ResumeHonest, StepsBehind, PageBehind,
              BehindBy, Steps
  <1>3. LateOnce /\ RetryAllowed
    BY DEF Init, LateOnce, RetryAllowed
  <1>4. QED
    BY <1>1, <1>2, <1>3 DEF IInv

\* The end of a flow (the returns and the except and finally branches of
\* run_student_flow) needs nothing but that the checkpoint is kept or cleared
\* and that a step begun late was the first such step.
LEMMA EndIsSafe ==
  ASSUME IInv, NEW r \in Runs, NEW error,
         NEW s \in {"stopped", "failed", "error", "confirmed", "submitted",
                   "unknown", "verified"},
         pc[r] # "off", FlowEnds(r, s, error),
         UNCHANGED cause \/ \E c \in Causes \cup {"invalid-date"} :
                              cause' = [cause EXCEPT ![r] = c],
         checkpoint' \in {checkpoint, 0},
         Order(r) \/ UNCHANGED bookings,
         UNCHANGED late \/ BeginStep(r),
         UNCHANGED <<stop, completed, budget>>
  PROVE  IInv'
  <1>1. TypeOK'
    <2>1. cause' \in [Runs -> Causes \cup {"none", "invalid-date"}]
      BY DEF IInv, TypeOK
    <2>2. late' \in [Runs -> Nat]
      BY DEF IInv, TypeOK, BeginStep
    <2>3. checkpoint' \in 0..6 /\ bookings' \in [Runs -> Nat]
      BY DEF IInv, TypeOK, Order
    <2>4. /\ pc' \in [Runs -> {"off", "scheduled", "opening", "polling",
                             "inpoll", "landed", "step", "save", "gap",
                             "capture", "backoff"}]
          /\ attempt' \in [Runs -> 1..(MaxSmartRetries + 1)]
          /\ resume' \in [Runs -> 0..6] /\ step' \in [Runs -> 1..6]
          /\ page' \in [Runs -> 0..6]
      BY DEF IInv, TypeOK, FlowEnds, Goto
    <2>5. outcome' \in [Runs -> {"none", "stopped", "failed", "error",
                            "confirmed", "submitted", "unknown", "verified"}]
      BY DEF IInv, TypeOK, FlowEnds
    <2>6. QED
      BY <2>1, <2>2, <2>3, <2>4, <2>5 DEF IInv, TypeOK
  <1>2. CheckpointHonest' /\ ResumeHonest'
    BY DEF IInv, TypeOK, CheckpointHonest, ResumeHonest, FlowEnds, Steps
  <1>3. StepsBehind' /\ PageBehind'
    BY DEF IInv, TypeOK, StepsBehind, PageBehind, BehindBy, FlowEnds, Goto,
           Steps
  <1>4. LateOnce'
    <2>1. pc'[r] \in {"off", "backoff"} /\ \A q \in Runs \ {r} : pc'[q] = pc[q]
      BY DEF IInv, TypeOK, FlowEnds, Goto
    <2>2. CASE UNCHANGED late
      BY <2>1, <2>2 DEF IInv, TypeOK, LateOnce
    <2>3. CASE BeginStep(r)
      <3>1. late[r] = 0
        BY <2>3 DEF IInv, TypeOK, LateOnce, BeginStep
      <3>2. late'[r] = 0 \/ (late'[r] = 1 /\ stop)
        BY <2>3, <3>1 DEF IInv, TypeOK, BeginStep
      <3>3. \A q \in Runs \ {r} : late'[q] = late[q]
        BY <2>3 DEF IInv, TypeOK, BeginStep
      <3>4. QED
        BY <2>1, <3>2, <3>3 DEF IInv, TypeOK, LateOnce
    <2>4. QED
      BY <2>2, <2>3
  <1>5. RetryAllowed'
    BY DEF IInv, TypeOK, RetryAllowed, FlowEnds, Goto
  <1>6. QED
    BY <1>1, <1>2, <1>3, <1>4, <1>5 DEF IInv

\* A step of one run that does not end its flow.
LEMMA RunsOn ==
  ASSUME IInv, NEW r \in Runs,
         \/ Retry(r) \/ OpenFlow(r) \/ BrowserUp(r) \/ Poll(r) \/ PollAgain(r)
         \/ SlotFound(r) \/ LogIn(r) \/ SkipStep(r) \/ FillStep(r)
         \/ Confirm(r) \/ ConfirmElsewhere(r) \/ SaveStep(r) \/ NextStep(r)
         \/ Launch(r) \/ SessionExpires(r)
  PROVE  IInv'
  <1> USE DEF IInv, TypeOK, CheckpointHonest, ResumeHonest, StepsBehind,
              PageBehind, BehindBy, LateOnce, RetryAllowed, Steps, Goto,
              siteVars, flowVars, ghostVars
  <1>1. CASE Retry(r)
    BY <1>1 DEF Retry
  <1>2. CASE OpenFlow(r)
    BY <1>2 DEF OpenFlow
  <1>3. CASE BrowserUp(r)
    BY <1>3 DEF BrowserUp
  <1>4. CASE Poll(r)
    BY <1>4 DEF Poll
  <1>5. CASE PollAgain(r)
    BY <1>5 DEF PollAgain
  <1>6. CASE SlotFound(r)
    BY <1>6 DEF SlotFound
  <1>7. CASE LogIn(r)
    BY <1>7 DEF LogIn, AfterLogin
  <1>8. CASE SkipStep(r)
    BY <1>8 DEF SkipStep, Skipped
  <1>9. CASE FillStep(r)
    <2>1. page[r] <= step[r] /\ step[r] \in 1..4
      BY <1>9 DEF FillStep, BeginStep
    <2>2. PICK p \in PageFound(r) : \E q \in AfterClick(p) :
            page' = [page EXCEPT ![r] = q]
      BY <1>9 DEF FillStep
    <2>3. p \in Nat /\ p <= step[r]
      BY <2>1, <2>2 DEF PageFound, AfterLogin
    <2>4. PICK q \in AfterClick(p) : page' = [page EXCEPT ![r] = q]
      BY <2>2
    <2>5. q \in 0..5 /\ q <= step[r] + 1
      BY <2>1, <2>3, <2>4 DEF AfterClick
    <2>6. TypeOK'
      <3>1. page' \in [Runs -> 0..6]
        BY <2>4, <2>5
      <3>2. late' \in [Runs -> Nat]
        BY <1>9 DEF FillStep, BeginStep
      <3>3. completed' \in SUBSET Steps /\ bookings' \in [Runs -> Nat]
        BY <1>9 DEF FillStep, BeginStep, Report
      <3>4. QED
        BY <1>9, <3>1, <3>2, <3>3 DEF FillStep, Report
    <2>7. StepsBehind' /\ CheckpointHonest' /\ ResumeHonest'
      BY <1>9, <2>1 DEF FillStep, BeginStep, Report
    <2>8. PageBehind'
      <3>1. resume[r] <= step[r]
        BY <1>9 DEF FillStep, BeginStep, Skipped
      <3>2. p <= 1 \/ p + resume[r] <= step[r] + 1
        BY <1>9, <2>2, <2>3 DEF FillStep, BeginStep, PageFound, AfterLogin
      <3>3. q <= 1 \/ q + resume[r] <= step[r] + 2
        BY <2>1, <2>3, <2>4, <2>5, <3>1, <3>2 DEF AfterClick
      <3>4. page'[r] = q /\ \A o \in Runs \ {r} : page'[o] = page[o]
        BY <2>4
      <3>5. /\ pc'[r] = "save" /\ \A o \in Runs \ {r} : pc'[o] = pc[o]
            /\ UNCHANGED <<step, resume>>
        BY <1>9 DEF FillStep, Report
      <3>6. QED
        BY <2>1, <2>5, <3>3, <3>4, <3>5
    <2>9. LateOnce' /\ RetryAllowed'
      BY <1>9, <2>1 DEF FillStep, BeginStep, Report
    <2>10. QED
      BY <2>6, <2>7, <2>8, <2>9
  <1>10. CASE Confirm(r)
    BY <1>10 DEF Confirm, Order, BeginStep, Skipped, Report
  <1>11. CASE ConfirmElsewhere(r)
    BY <1>11 DEF ConfirmElsewhere, BeginStep, Skipped, Report, PageFound,
                 AfterLogin, AfterClick
  <1>12. CASE SaveStep(r)
    BY <1>12 DEF SaveStep
  <1>13. CASE NextStep(r)
    BY <1>13 DEF NextStep
  <1>14. CASE Launch(r)
    BY <1>14 DEF Launch
  <1>15. CASE SessionExpires(r)
    BY <1>15 DEF SessionExpires
  <1>16. QED
    BY <1>1, <1>2, <1>3, <1>4, <1>5, <1>6, <1>7, <1>8, <1>9, <1>10, <1>11,
       <1>12, <1>13, <1>14, <1>15

\* An exception ends the flow and leaves one of the causes.
LEMMA RaiseEnds ==
  ASSUME IInv, NEW r \in Runs, NEW c \in Causes, FlowRaises(r, c)
  PROVE  /\ FlowEnds(r, "failed", "")
         /\ \E d \in Causes \cup {"invalid-date"} :
              cause' = [cause EXCEPT ![r] = d]
  <1>1. PICK d : d = (IF cause[r] = "permanent" THEN cause[r] ELSE c)
    OBVIOUS
  <1>2. cause' = [cause EXCEPT ![r] = d] /\ d \in Causes
    BY <1>1 DEF FlowRaises, IInv, TypeOK, Causes
  <1>3. QED
    BY <1>2 DEF FlowRaises

\* A step of one run that ends its flow.
LEMMA RunEnds ==
  ASSUME IInv, NEW r \in Runs,
         \/ BackoffStopped(r) \/ ScheduledStopped(r) \/ PollStopped(r)
         \/ GapStopped(r) \/ LandedStopped(r) \/ StepStopped(r)
         \/ InvalidDate(r) \/ Capture(r)
         \/ \E c \in Causes : \/ BrowserFails(r, c) \/ LandedFails(r, c)
                              \/ StepFails(r, c) \/ ConfirmRaises(r, c)
                              \/ CaptureFails(r, c)
  PROVE  IInv'
  <1> USE DEF siteVars, flowVars, ghostVars
  <1>1. CASE BackoffStopped(r)
    BY <1>1, EndIsSafe DEF BackoffStopped, Stopped
  <1>2. CASE ScheduledStopped(r)
    BY <1>2, EndIsSafe DEF ScheduledStopped, Stopped
  <1>3. CASE PollStopped(r)
    BY <1>3, EndIsSafe DEF PollStopped, Stopped
  <1>4. CASE GapStopped(r)
    BY <1>4, EndIsSafe DEF GapStopped, Stopped
  <1>5. CASE LandedStopped(r)
    BY <1>5, EndIsSafe DEF LandedStopped, Stopped
  <1>6. CASE StepStopped(r)
    BY <1>6, EndIsSafe DEF StepStopped, Stopped
  <1>7. CASE InvalidDate(r)
    BY <1>7, EndIsSafe DEF InvalidDate, Causes
  <1>8. CASE Capture(r)
    <2>1. PICK s \in Captured : \E t \in AfterVerify(s) : FlowEnds(r, t, "")
      BY <1>8 DEF Capture
    <2>2. s \in {"confirmed", "submitted", "unknown", "error"}
      BY DEF Captured, ParsedStatus
    <2>3. PICK t \in AfterVerify(s) : FlowEnds(r, t, "")
      BY <2>1
    <2>4. t \in {"error", "confirmed", "submitted", "unknown", "verified"}
      BY <2>2 DEF AfterVerify
    <2>5. QED
      BY <1>8, <2>3, <2>4, EndIsSafe DEF Capture
  <1>9. ASSUME NEW c \in Causes, BrowserFails(r, c)
         PROVE  IInv'
    BY <1>9, RaiseEnds, EndIsSafe DEF BrowserFails
  <1>10. ASSUME NEW c \in Causes, LandedFails(r, c)
         PROVE  IInv'
    BY <1>10, RaiseEnds, EndIsSafe DEF LandedFails
  <1>11. ASSUME NEW c \in Causes, StepFails(r, c)
         PROVE  IInv'
    BY <1>11, RaiseEnds, EndIsSafe DEF StepFails, BeginStep
  <1>12. ASSUME NEW c \in Causes, ConfirmRaises(r, c)
         PROVE  IInv'
    BY <1>12, RaiseEnds, EndIsSafe DEF ConfirmRaises, BeginStep
  <1>13. ASSUME NEW c \in Causes, CaptureFails(r, c)
         PROVE  IInv'
    BY <1>13, RaiseEnds, EndIsSafe DEF CaptureFails
  <1>14. QED
    BY <1>1, <1>2, <1>3, <1>4, <1>5, <1>6, <1>7, <1>8, <1>9, <1>10, <1>11,
       <1>12, <1>13

\* Every step of the specification preserves the invariant.
LEMMA Inductive == IInv /\ [Next]_vars => IInv'
  <1> SUFFICES ASSUME IInv, [Next]_vars
               PROVE  IInv'
    OBVIOUS
  <1> USE DEF flowVars, siteVars, ghostVars
  <1>1. ASSUME NEW r \in Runs,
               Work(r) \/ Wait(r) \/ Launch(r) \/ SessionExpires(r)
        PROVE  IInv'
    BY <1>1, RunsOn, RunEnds DEF Work, Wait
  <1>2. CASE RequestStop
    BY <1>2 DEF RequestStop, IInv, TypeOK, CheckpointHonest, ResumeHonest,
                StepsBehind, PageBehind, BehindBy, LateOnce, RetryAllowed
  <1>3. CASE ClearStop
    <2>1. TypeOK'
      <3>1. late' \in [Runs -> Nat] /\ stop' \in BOOLEAN
        BY <1>3 DEF ClearStop
      <3>2. QED
        BY <1>3, <3>1 DEF ClearStop, IInv, TypeOK
    <2>2. LateOnce'
      BY <1>3 DEF ClearStop, LateOnce
    <2>3. QED
      BY <1>3, <2>1, <2>2 DEF ClearStop, IInv, CheckpointHonest, ResumeHonest,
                              StepsBehind, PageBehind, BehindBy, RetryAllowed
  <1>4. CASE Crash
    <2>1. TypeOK'
      <3>1. budget' \in [launches : 0..MaxLaunches, crashes : 0..MaxCrashes,
                         expiries : 0..MaxExpiries]
        BY <1>4, FlowAssumption DEF Crash, IInv, TypeOK
      <3>2. stop' \in BOOLEAN
        BY <1>4 DEF Crash
      <3>3. /\ pc' \in [Runs -> {"off", "scheduled", "opening", "polling",
                               "inpoll", "landed", "step", "save", "gap",
                               "capture", "backoff"}]
            /\ outcome' \in [Runs -> {"none", "stopped", "failed", "error",
                             "confirmed", "submitted", "unknown", "verified"}]
        BY <1>4 DEF Crash
      <3>4. /\ resume' \in [Runs -> 0..6] /\ step' \in [Runs -> 1..6]
            /\ page' \in [Runs -> 0..6]
        BY <1>4 DEF Crash
      <3>5. QED
        BY <1>4, <3>1, <3>2, <3>3, <3>4 DEF Crash, IInv, TypeOK
    <2>2. CheckpointHonest' /\ ResumeHonest' /\ StepsBehind' /\ PageBehind'
      BY <1>4 DEF Crash, IInv, CheckpointHonest, ResumeHonest, StepsBehind,
                  PageBehind, BehindBy, Steps
    <2>3. LateOnce' /\ RetryAllowed'
      BY <1>4 DEF Crash, IInv, LateOnce, RetryAllowed
    <2>4. QED
      BY <2>1, <2>2, <2>3 DEF IInv
  <1>5. CASE Shutdown
    BY <1>5 DEF Shutdown, IInv, TypeOK, CheckpointHonest, ResumeHonest,
                StepsBehind, PageBehind, BehindBy, LateOnce, RetryAllowed, Steps
  <1>6. CASE UNCHANGED vars
    BY <1>6 DEF vars, IInv, TypeOK, CheckpointHonest, ResumeHonest,
                StepsBehind, PageBehind, BehindBy, LateOnce, RetryAllowed
  <1>7. QED
    BY <1>1, <1>2, <1>3, <1>4, <1>5, <1>6 DEF Next

LEMMA Always == Spec => []IInv
  BY InitIInv, Inductive, PTL DEF Spec

-----------------------------------------------------------------------------
\* Types of the state of smart_retry, run_student_flow and the site.
THEOREM TypeCorrect == Spec => []TypeOK
  BY Always, PTL DEF IInv

\* Whatever runs, crashes and retries of one student come between, the saved
\* checkpoint claims no step that was not done (save_checkpoint).
THEOREM CheckpointIsHonest == Spec => []CheckpointHonest
  BY Always, PTL DEF IInv

\* The stop checks between the steps of run_student_flow bound the work after
\* a stop request to one wizard step per run.
THEOREM StopIsBounded == Spec => []StopBoundsWork
  <1>1. IInv => StopBoundsWork
    BY DEF IInv, LateOnce, StopBoundsWork
  <1>2. QED
    BY <1>1, Always, PTL

\* The browser never gets ahead of the wizard step that drives it.
THEOREM BrowserNeverAhead == Spec => []NeverAheadOfStep
  <1>1. IInv => NeverAheadOfStep
    BY DEF IInv, PageBehind, BehindBy, NeverAheadOfStep
  <1>2. QED
    BY <1>1, Always, PTL

\* An order is placed by step 5 on the review page and by nothing else.
LEMMA OrderStep ==
  ASSUME IInv, [Next]_vars, NEW r \in Runs, bookings'[r] > bookings[r]
  PROVE  Confirm(r) \/ \E c \in Causes : ConfirmRaises(r, c)
  <1>1. bookings' # bookings
    BY DEF IInv, TypeOK
  <1>2. PICK q \in Runs : \/ Launch(q) \/ Confirm(q)
                         \/ \E c \in Causes : ConfirmRaises(q, c)
    BY <1>1 DEF Next, Work, Wait, vars, siteVars, Retry, BackoffStopped,
         OpenFlow, ScheduledStopped, InvalidDate, BrowserUp, BrowserFails,
         PollStopped, Poll, PollAgain, GapStopped, SlotFound, LogIn,
         LandedStopped, LandedFails, SkipStep, FillStep, ConfirmElsewhere,
         StepFails, SaveStep, NextStep, StepStopped, Capture, CaptureFails,
         RequestStop, ClearStop, SessionExpires, Crash, Shutdown
  <1>3. ~Launch(q)
    BY DEF IInv, TypeOK, Launch
  <1>4. q = r
    BY <1>2, <1>3 DEF IInv, TypeOK, Confirm, ConfirmRaises, Order
  <1>5. QED
    BY <1>2, <1>3, <1>4

-----------------------------------------------------------------------------
(* A run alone with its checkpoint row.  smart_retry tries a flow a second  *)
(* time and no third, since the error it looks for the transient words in   *)
(* is never one of theirs.  After an order either that flow read an error   *)
(* off its last page, or its checkpoint is 5 or 6 and the second flow skips *)
(* at least the first four steps, so that it never comes to the review page.*)

Alone == ~Marked /\ \A q, r \in Runs : q = r

InWizard == {"step", "gap", "save"}

TriedTwice ==
  \A r \in Runs :
    /\ attempt[r] <= 2
    /\ pc[r] = "backoff" => attempt[r] = 1
    /\ attempt[r] = 1 /\ pc[r] \notin {"off", "backoff"} => outcome[r] # "error"

\* The row follows a flow that did not skip any step.
RowFollows ==
  \A r \in Runs :
    /\ pc[r] = "landed" => checkpoint = 1
    /\ pc[r] \in InWizard /\ resume[r] <= 1 => checkpoint = step[r]
    /\ pc[r] = "capture" /\ resume[r] <= 1 => checkpoint = 6

JustOrdered(r) ==
  /\ resume[r] <= 1
  /\ \/ pc[r] = "save" /\ step[r] = 5
     \/ pc[r] = "gap" /\ step[r] = 6
     \/ pc[r] = "capture"

\* The second flow is on its way, or will be, with the checkpoint of the order.
TakesUp(r) ==
  \/ pc[r] = "backoff" /\ checkpoint >= 5
  \/ attempt[r] = 2 /\ pc[r] = "scheduled" /\ checkpoint >= 5
  \/ /\ attempt[r] = 2 /\ resume[r] >= 5
     /\ pc[r] \in {"opening", "polling", "inpoll", "landed", "capture"}
                    \cup InWizard

Ordered ==
  \A r \in Runs : bookings[r] > 0 =>
    pc[r] = "off" \/ outcome[r] = "error" \/ JustOrdered(r) \/ TakesUp(r)

OnceInv == TriedTwice /\ RowFollows /\ Ordered

\* The end of a flow: what matters is that an order is not forgotten by the row
\* when the flow is tried again.
LEMMA EndOfTry ==
  ASSUME IInv, Alone, OnceInv, NEW r \in Runs, NEW s, NEW error,
         error # "transient", pc[r] # "off", FlowEnds(r, s, error),
         s = "failed" /\ attempt[r] = 1 /\ bookings'[r] > 0 => checkpoint' >= 5
  PROVE  OnceInv'
<1>1. \A q \in Runs : q = r
  BY DEF Alone
<1>2. /\ attempt'[r] = attempt[r] /\ outcome'[r] = s
      /\ \/ pc'[r] = "off"
         \/ pc'[r] = "backoff" /\ attempt[r] = 1 /\ s \in {"failed", "error"}
  <2>1. attempt'[r] = attempt[r] /\ outcome'[r] = s
    BY DEF FlowEnds, IInv, TypeOK
  <2>2. \/ pc'[r] = "off"
        \/ pc'[r] = "backoff" /\ attempt[r] <= 1 /\ s \in {"failed", "error"}
    BY DEF FlowEnds, RetriesLeft, Goto, IInv, TypeOK
  <2>3. attempt[r] \in Nat /\ attempt[r] >= 1
    BY DEF IInv, TypeOK
  <2> QED
    BY <2>1, <2>2, <2>3
<1>3. TriedTwice'
  BY <1>1, <1>2 DEF OnceInv, TriedTwice
<1>4. RowFollows'
  BY <1>1, <1>2 DEF RowFollows, InWizard
<1>5. Ordered'
  BY <1>1, <1>2 DEF Ordered, TakesUp
<1> QED
  BY <1>3, <1>4, <1>5 DEF OnceInv

\* Only a flow that skipped nothing comes to the review page.
LEMMA ReviewNeedsSteps ==
  ASSUME IInv, NEW r \in Runs, pc[r] = "step", step[r] = 5, page[r] = 5
  PROVE  resume[r] <= 1
<1>1. 5 + resume[r] <= 6
  BY DEF IInv, PageBehind, BehindBy
<1>2. resume[r] \in 0..6
  BY DEF IInv, TypeOK
<1> QED
  BY <1>1, <1>2

\* In the first flow nothing was ordered before.
LEMMA FirstTry ==
  ASSUME OnceInv, NEW r \in Runs, attempt[r] = 1, bookings[r] > 0,
         pc[r] \notin {"off", "backoff"}
  PROVE  JustOrdered(r)
<1>1. outcome[r] # "error"
  BY DEF OnceInv, TriedTwice
<1>2. ~TakesUp(r)
  BY DEF TakesUp
<1> QED
  BY <1>1, <1>2 DEF OnceInv, Ordered

\* A step of the run that ends its flow.
LEMMA TryEnds ==
  ASSUME IInv, Alone, OnceInv, NEW r \in Runs,
         \/ BackoffStopped(r) \/ ScheduledStopped(r) \/ PollStopped(r)
         \/ GapStopped(r) \/ LandedStopped(r) \/ StepStopped(r)
         \/ InvalidDate(r) \/ Capture(r)
         \/ \E c \in Causes : \/ BrowserFails(r, c) \/ LandedFails(r, c)
                              \/ StepFails(r, c) \/ ConfirmRaises(r, c)
                              \/ CaptureFails(r, c)
  PROVE  OnceInv'
<1>1. CASE \/ BackoffStopped(r) \/ ScheduledStopped(r) \/ PollStopped(r)
           \/ GapStopped(r) \/ LandedStopped(r) \/ StepStopped(r)
  <2>1. FlowEnds(r, "stopped", "") /\ pc[r] # "off"
    BY <1>1 DEF BackoffStopped, ScheduledStopped, PollStopped, GapStopped,
                LandedStopped, StepStopped, Stopped
  <2> QED
    BY <2>1, EndOfTry
<1>2. CASE Capture(r)
  <2>1. PICK s \in Captured : \E t \in AfterVerify(s) : FlowEnds(r, t, "")
    BY <1>2 DEF Capture
  <2>2. s # "failed"
    BY DEF Captured, ParsedStatus
  <2>3. PICK t \in AfterVerify(s) : FlowEnds(r, t, "")
    BY <2>1
  <2>4. t # "failed"
    BY <2>2 DEF AfterVerify
  <2>5. pc[r] # "off"
    BY <1>2 DEF Capture
  <2> QED
    BY <2>3, <2>4, <2>5, EndOfTry
<1>3. ASSUME NEW c \in Causes, ConfirmRaises(r, c) PROVE OnceInv'
  <2>1. /\ pc[r] = "step" /\ step[r] = 5 /\ page[r] = 5
        /\ FlowEnds(r, "failed", "") /\ UNCHANGED checkpoint
    BY <1>3 DEF ConfirmRaises, BeginStep, FlowRaises
  <2>2. resume[r] <= 1
    BY <2>1, ReviewNeedsSteps
  <2>3. checkpoint = 5
    BY <2>1, <2>2 DEF OnceInv, RowFollows, InWizard
  <2>4. checkpoint' = 5 /\ pc[r] # "off"
    BY <2>1, <2>3, Zenon
  <2>5. checkpoint' >= 5
    BY <2>4
  <2> QED
    BY <2>1, <2>4, <2>5, EndOfTry
<1>4. ASSUME NEW c \in Causes, CaptureFails(r, c) PROVE OnceInv'
  <2>1. /\ pc[r] = "capture" /\ FlowEnds(r, "failed", "")
        /\ UNCHANGED <<checkpoint, bookings>>
    BY <1>4 DEF CaptureFails, FlowRaises
  <2>2. attempt[r] = 1 /\ bookings[r] > 0 => JustOrdered(r)
    BY <2>1, FirstTry
  <2>3. attempt[r] = 1 /\ bookings[r] > 0 => checkpoint = 6
    BY <2>1, <2>2 DEF OnceInv, RowFollows, JustOrdered
  <2>4. CASE attempt[r] = 1 /\ bookings[r] > 0
    <3>1. checkpoint' = 6
      BY <2>1, <2>3, <2>4, Zenon
    <3>2. checkpoint' >= 5
      BY <3>1
    <3> QED
      BY <2>1, <3>2, EndOfTry
  <2>5. CASE ~(attempt[r] = 1 /\ bookings'[r] > 0)
    BY <2>1, <2>5, EndOfTry
  <2> QED
    BY <2>1, <2>4, <2>5
<1>5. ASSUME \/ InvalidDate(r)
             \/ \E c \in Causes : \/ BrowserFails(r, c) \/ LandedFails(r, c)
                                  \/ StepFails(r, c)
      PROVE  OnceInv'
  <2>1. /\ pc[r] \in {"scheduled", "opening", "landed", "step"}
        /\ UNCHANGED bookings
        /\ \E error \in {"", "invalid-date"} : FlowEnds(r, "failed", error)
    BY <1>5 DEF InvalidDate, BrowserFails, LandedFails, StepFails, BeginStep,
                FlowRaises
  <2>2. ~(attempt[r] = 1 /\ bookings'[r] > 0)
    BY <2>1, FirstTry DEF JustOrdered
  <2>3. PICK error \in {"", "invalid-date"} : FlowEnds(r, "failed", error)
    BY <2>1
  <2> QED
    BY <2>1, <2>2, <2>3, EndOfTry
<1> QED
  BY <1>1, <1>2, <1>3, <1>4, <1>5

\* A step of the run that does not end its flow.
LEMMA TryGoesOn ==
  ASSUME IInv, Alone, OnceInv, NEW r \in Runs,
         \/ Retry(r) \/ OpenFlow(r) \/ BrowserUp(r) \/ Poll(r) \/ PollAgain(r)
         \/ SlotFound(r) \/ LogIn(r) \/ SkipStep(r) \/ FillStep(r)
         \/ Confirm(r) \/ ConfirmElsewhere(r) \/ SaveStep(r) \/ NextStep(r)
         \/ Launch(r) \/ SessionExpires(r)
  PROVE  OnceInv'
<1> USE DEF OnceInv, TriedTwice, RowFollows, Ordered, JustOrdered, TakesUp,
            InWizard, IInv, TypeOK, Goto, siteVars, flowVars, ghostVars
<1>0. \A q \in Runs : q = r
  BY DEF Alone
<1>1. CASE Retry(r)
  BY <1>0, <1>1 DEF Retry
<1>2. CASE OpenFlow(r)
  BY <1>0, <1>2 DEF OpenFlow
<1>3. CASE BrowserUp(r) \/ Poll(r) \/ PollAgain(r)
  BY <1>0, <1>3 DEF BrowserUp, Poll, PollAgain
<1>4. CASE SlotFound(r)
  BY <1>0, <1>4 DEF SlotFound
<1>5. CASE LogIn(r)
  BY <1>0, <1>5 DEF LogIn
<1>6. CASE SkipStep(r)
  BY <1>0, <1>6 DEF SkipStep, Skipped, Steps
<1>7. CASE FillStep(r)
  BY <1>0, <1>7 DEF FillStep, BeginStep, Report
<1>8. CASE Confirm(r)
  <2>1. resume[r] <= 1
    BY <1>8, ReviewNeedsSteps DEF Confirm, BeginStep
  <2> QED
    BY <1>0, <1>8, <2>1 DEF Confirm, BeginStep, Report, Order
<1>9. CASE ConfirmElsewhere(r)
  BY <1>0, <1>9 DEF ConfirmElsewhere, BeginStep, Report
<1>10. CASE SaveStep(r)
  BY <1>0, <1>10 DEF SaveStep, PageBehind, Steps
<1>11. CASE NextStep(r)
  BY <1>0, <1>11 DEF NextStep, Steps
<1>12. CASE Launch(r)
  BY <1>0, <1>12 DEF Launch
<1>13. CASE SessionExpires(r)
  BY <1>0, <1>13 DEF SessionExpires
<1> QED
  BY <1>1, <1>2, <1>3, <1>4, <1>5, <1>6, <1>7, <1>8, <1>9, <1>10, <1>11,
     <1>12, <1>13

LEMMA OnceKept ==
  ASSUME IInv, Alone, OnceInv, [Next]_vars PROVE OnceInv'
<1>1. ASSUME NEW r \in Runs,
             Work(r) \/ Wait(r) \/ Launch(r) \/ SessionExpires(r)
      PROVE  OnceInv'
  BY <1>1, TryEnds, TryGoesOn DEF Work, Wait
<1>2. CASE RequestStop \/ ClearStop \/ UNCHANGED vars
  <2>1. UNCHANGED <<checkpoint, pc, attempt, resume, step, outcome, bookings>>
    BY <1>2 DEF RequestStop, ClearStop, vars, flowVars, siteVars
  <2> QED
    BY <2>1 DEF OnceInv, TriedTwice, RowFollows, Ordered, JustOrdered, TakesUp
<1>3. CASE Crash
  BY <1>3 DEF Crash, OnceInv, TriedTwice, RowFollows, Ordered, InWizard
<1>4. ~Shutdown
  BY DEF Shutdown, Alone
<1> QED
  BY <1>1, <1>2, <1>3, <1>4 DEF Next

\* One call of smart_retry places a second order only when the page after the
\* first was read as an error: never because the program died, was stopped or
\* raised after it.
THEOREM OneOrder == ASSUME Alone PROVE Spec => RepeatOnlyAfterMisread
<1>1. Init => OnceInv
  BY DEF Init, OnceInv, TriedTwice, RowFollows, Ordered, InWizard
<1>2. IInv /\ OnceInv /\ [Next]_vars => OnceInv'
  BY OnceKept
<1>3. IInv /\ OnceInv /\ [Next]_vars
        => \A r \in Runs : bookings'[r] > bookings[r] /\ bookings[r] > 0
             => outcome[r] = "error"
  <2> SUFFICES ASSUME IInv, OnceInv, [Next]_vars, NEW r \in Runs,
                      bookings'[r] > bookings[r], bookings[r] > 0
               PROVE  outcome[r] = "error"
    OBVIOUS
  <2>1. pc[r] = "step" /\ step[r] = 5 /\ page[r] = 5
    BY OrderStep DEF Confirm, ConfirmRaises, BeginStep
  <2>2. resume[r] <= 1
    BY <2>1, ReviewNeedsSteps
  <2> QED
    BY <2>1, <2>2 DEF OnceInv, Ordered, JustOrdered, TakesUp, IInv, TypeOK
<1> QED
  BY <1>1, <1>2, <1>3, Always, PTL DEF Spec, RepeatOnlyAfterMisread
=============================================================================
