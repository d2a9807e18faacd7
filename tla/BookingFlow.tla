----------------------------- MODULE BookingFlow -----------------------------
(***************************************************************************)
(* booking_helper.py: smart_retry and run_student_flow for ONE student key, *)
(* with the checkpoint row that db.py keeps for that key, the stop event,   *)
(* and the exam site the browser is driven through.  A run is a thread that *)
(* called smart_retry; several runs of one key exist when the same student  *)
(* is loaded twice or retried by hand while a run is under way.             *)
(*                                                                          *)
(* The wizard has five steps, and checkpoint k + 1 says step k is done (1   *)
(* says the booking button was found).  The site is external: a browser     *)
(* session is at the login page (0), on one of the wizard pages 1..5, or on *)
(* the confirmation page (6).  The booking button opens a new booking, on   *)
(* the first page or the login page.  This is assumed of the site also for  *)
(* a browser that create_driver starts with the profile of an earlier one:  *)
(* what the profile keeps is taken to be the login, not the page.           *)
(***************************************************************************)
EXTENDS Naturals

CONSTANTS
  Runs,             \* threads that may run this student
  MaxSmartRetries,  \* MAX_SMART_RETRIES
  MaxLaunches,      \* bound on the calls of smart_retry
  MaxCrashes,       \* bound on the crashes of the process
  MaxExpiries,      \* bound on the sessions that expire in the wizard
  Marked            \* whether the operator may set the row's status by hand

ASSUME FlowAssumption ==
  /\ MaxSmartRetries \in Nat
  /\ MaxLaunches \in Nat
  /\ MaxCrashes \in Nat
  /\ MaxExpiries \in Nat
  /\ Marked \in BOOLEAN

Steps == 1..5

VARIABLES
  checkpoint,   \* the saved checkpoint, 0 when there is no row
  stop,         \* bot_stop_event
  pc,           \* where each run is
  attempt,      \* smart_retry's attempt
  resume,       \* resume_step
  step,         \* the wizard step a run is at, 6 after the last
  outcome,      \* the status the last flow of the run ended with
  cause,        \* what made the flows of the run fail so far
  page,         \* page of the run's browser session
  bookings,     \* orders each run has placed since smart_retry was called
  completed,    \* steps some run has reported done, ever
  late,         \* wizard steps a run began since the stop was requested
  budget        \* launches, crashes and expiries so far

flowVars == <<attempt, resume, step, outcome, cause>>
siteVars == <<page, bookings>>
ghostVars == <<completed, late>>
vars == <<checkpoint, stop, pc, flowVars, siteVars, ghostVars, budget>>

Init ==
  /\ checkpoint = 0
  /\ stop = FALSE
  /\ pc = [r \in Runs |-> "off"]
  /\ attempt = [r \in Runs |-> 1]
  /\ resume = [r \in Runs |-> 0]
  /\ step = [r \in Runs |-> 1]
  /\ outcome = [r \in Runs |-> "none"]
  /\ cause = [r \in Runs |-> "none"]
  /\ page = [r \in Runs |-> 0]
  /\ bookings = [r \in Runs |-> 0]
  /\ completed = {}
  /\ late = [r \in Runs |-> 0]
  /\ budget = [launches |-> 0, crashes |-> 0, expiries |-> 0]

AllOff == \A r \in Runs : pc[r] = "off"

Goto(r, l) == pc' = [pc EXCEPT ![r] = l]

-----------------------------------------------------------------------------
(* smart_retry around a flow that has ended.                                *)

\* The words that make an error transient are looked for in result["error"],
\* which only the invalid-date return fills; the exception path leaves it "".
RetriesLeft(error) == IF error = "transient" THEN MaxSmartRetries ELSE 1

\* Mutant: a failed flow is run again whatever the number of attempts.
FlowEndsRetrying(r, s, error) ==
  /\ outcome' = [outcome EXCEPT ![r] = s]
  /\ page' = [page EXCEPT ![r] = 0]
  /\ resume' = [resume EXCEPT ![r] = 0]
  /\ step' = [step EXCEPT ![r] = 1]
  /\ Goto(r, IF s \in {"failed", "error"} THEN "backoff" ELSE "off")
  /\ UNCHANGED attempt

\* run_student_flow closes its browser, its locals are gone, and status s and
\* this error text are returned to smart_retry.
FlowEnds(r, s, error) ==
  /\ outcome' = [outcome EXCEPT ![r] = s]
  /\ page' = [page EXCEPT ![r] = 0]
  /\ resume' = [resume EXCEPT ![r] = 0]
  /\ step' = [step EXCEPT ![r] = 1]
  /\ IF /\ s \in {"failed", "error"}
        /\ attempt[r] <= MaxSmartRetries
        /\ attempt[r] <= RetriesLeft(error)
     THEN Goto(r, "backoff")
     ELSE Goto(r, "off")
  /\ UNCHANGED attempt

\* The flow returns "stopped".
Stopped(r) ==
  /\ stop
  /\ FlowEnds(r, "stopped", "")
  /\ UNCHANGED cause

\* Whether an exception would have one of the transient words in its text.
Causes == {"transient", "permanent"}

\* An exception of kind c ends the flow (the except Exception branch).  What a
\* run failed for is transient while all its exceptions are.
FlowRaises(r, c) ==
  /\ FlowEnds(r, "failed", "")
  /\ cause' = [cause EXCEPT ![r] = IF @ = "permanent" THEN @ ELSE c]

\* Permission of the breaker and the backoff delay, then the flow again.
Retry(r) ==
  /\ pc[r] = "backoff"
  /\ attempt' = [attempt EXCEPT ![r] = @ + 1]
  /\ Goto(r, "scheduled")
  /\ UNCHANGED <<checkpoint, stop, resume, step, outcome, cause, siteVars,
                 ghostVars, budget>>

BackoffStopped(r) ==
  /\ pc[r] = "backoff"
  /\ Stopped(r)
  /\ UNCHANGED <<checkpoint, stop, bookings, ghostVars, budget>>

-----------------------------------------------------------------------------
(* run_student_flow up to the booking button.                               *)

\* The flows of one call of smart_retry are given the same booking_datetime, so
\* that it is valid in all of them or in none: the first one decides.
DateMayBeValid(r) == cause[r] # "invalid-date"
DateMayBeInvalid(r) == attempt[r] = 1 \/ cause[r] = "invalid-date"

\* scheduled_wait is over (or there is nothing to wait for), the date is
\* valid, and the checkpoint is read.
OpenFlow(r) ==
  /\ pc[r] = "scheduled"
  /\ DateMayBeValid(r)
  /\ resume' = [resume EXCEPT ![r] = checkpoint]
  /\ Goto(r, "opening")
  /\ UNCHANGED <<checkpoint, stop, attempt, step, outcome, cause, siteVars,
                 ghostVars, budget>>

ScheduledStopped(r) ==
  /\ pc[r] = "scheduled"
  /\ Stopped(r)
  /\ UNCHANGED <<checkpoint, stop, bookings, ghostVars, budget>>

InvalidDate(r) ==
  /\ pc[r] = "scheduled"
  /\ DateMayBeInvalid(r)
  /\ FlowEnds(r, "failed", "invalid-date")
  /\ cause' = [cause EXCEPT ![r] = "invalid-date"]
  /\ UNCHANGED <<checkpoint, stop, bookings, ghostVars, budget>>

BrowserUp(r) ==
  /\ pc[r] = "opening"
  /\ Goto(r, "polling")
  /\ UNCHANGED <<checkpoint, stop, flowVars, siteVars, ghostVars, budget>>

BrowserFails(r, c) ==
  /\ pc[r] = "opening"
  /\ FlowRaises(r, c)
  /\ UNCHANGED <<checkpoint, stop, bookings, ghostVars, budget>>

\* The top of the polling loop: a stop seen here also drops the checkpoint.
PollStopped(r) ==
  /\ pc[r] = "polling"
  /\ Stopped(r)
  /\ checkpoint' = 0
  /\ UNCHANGED <<stop, bookings, ghostVars, budget>>

\* Mutant: the polling loop does not look at the stop event.
PollUnstoppable(r) ==
  /\ pc[r] = "polling"
  /\ Goto(r, "inpoll")
  /\ UNCHANGED <<checkpoint, stop, flowVars, siteVars, ghostVars, budget>>

Poll(r) ==
  /\ pc[r] = "polling"
  /\ ~stop
  /\ Goto(r, "inpoll")
  /\ UNCHANGED <<checkpoint, stop, flowVars, siteVars, ghostVars, budget>>

\* No slot, a blocked page or an error of the browser: around again.
PollAgain(r) ==
  /\ pc[r] = "inpoll"
  /\ Goto(r, "polling")
  /\ UNCHANGED <<checkpoint, stop, flowVars, siteVars, ghostVars, budget>>

\* A stop seen in one of the waits inside the loop leaves the checkpoint.
GapStopped(r) ==
  /\ pc[r] = "inpoll"
  /\ Stopped(r)
  /\ UNCHANGED <<checkpoint, stop, bookings, ghostVars, budget>>

\* Mutant: the booking button is taken for the first step.
SlotFoundAsStep(r) ==
  /\ pc[r] = "inpoll"
  /\ checkpoint' = 2
  /\ \E p \in {0, 1} : page' = [page EXCEPT ![r] = p]
  /\ Goto(r, "landed")
  /\ UNCHANGED <<stop, flowVars, bookings, ghostVars, budget>>

\* The booking button is clicked: checkpoint 1, whatever was saved before,
\* and the new session is on the first wizard page or on the login page.
SlotFound(r) ==
  /\ pc[r] = "inpoll"
  /\ checkpoint' = 1
  /\ \E p \in {0, 1} : page' = [page EXCEPT ![r] = p]
  /\ Goto(r, "landed")
  /\ UNCHANGED <<stop, flowVars, bookings, ghostVars, budget>>

-----------------------------------------------------------------------------
(* The wizard.                                                              *)

\* A login (from saved cookies, by hand, or failed: "proceeding anyway").
AfterLogin(p) == {p, 1}

\* High-traffic page, login and module selection, after a look at the stop
\* event.
LogIn(r) ==
  /\ pc[r] = "landed"
  /\ ~stop
  /\ \E p \in AfterLogin(page[r]) : page' = [page EXCEPT ![r] = p]
  /\ step' = [step EXCEPT ![r] = 1]
  /\ Goto(r, "step")
  /\ UNCHANGED <<checkpoint, stop, attempt, resume, outcome, cause, bookings,
                 ghostVars, budget>>

LandedStopped(r) ==
  /\ pc[r] = "landed"
  /\ Stopped(r)
  /\ UNCHANGED <<checkpoint, stop, bookings, ghostVars, budget>>

LandedFails(r, c) ==
  /\ pc[r] = "landed"
  /\ FlowRaises(r, c)
  /\ UNCHANGED <<checkpoint, stop, bookings, ghostVars, budget>>

\* A step at or below the checkpoint that was read is not done again.
Skipped(r) == resume[r] >= step[r] + 1

SkipStep(r) ==
  /\ pc[r] = "step" /\ step[r] \in Steps
  /\ Skipped(r)
  /\ step' = [step EXCEPT ![r] = @ + 1]
  /\ Goto(r, "gap")
  /\ UNCHANGED <<checkpoint, stop, attempt, resume, outcome, cause, siteVars,
                 ghostVars, budget>>

\* A step that is really begun; begun late when the stop is already set.
BeginStep(r) ==
  /\ pc[r] = "step" /\ step[r] \in Steps
  /\ ~Skipped(r)
  /\ IF stop THEN late' = [late EXCEPT ![r] = @ + 1] ELSE UNCHANGED late

\* Pages a step may find (_ensure_session logs in again from the login page)
\* and leave behind: a Continue click moves on unless the site objects, and
\* the step does not look which page it is on.
PageFound(r) == IF page[r] = 0 THEN AfterLogin(0) ELSE {page[r]}
AfterClick(p) == IF p = 0 THEN {0} ELSE {p, p + 1}

\* The site accepts an order.
Order(r) == bookings' = [bookings EXCEPT ![r] = @ + 1]

Report(r) ==
  /\ completed' = completed \cup {step[r]}
  /\ Goto(r, "save")
  /\ UNCHANGED <<checkpoint, stop, flowVars, budget>>

\* Steps 1 to 4 fill what fields they find and click Continue.
FillStep(r) ==
  /\ BeginStep(r)
  /\ step[r] < 5
  /\ \E p \in PageFound(r) : \E q \in AfterClick(p) :
       page' = [page EXCEPT ![r] = q]
  /\ UNCHANGED bookings
  /\ Report(r)

\* Step 5 on the review page: the order is placed.
Confirm(r) ==
  /\ BeginStep(r)
  /\ step[r] = 5 /\ page[r] = 5
  /\ page' = [page EXCEPT ![r] = 6]
  /\ Order(r)
  /\ Report(r)

\* Step 5 on any other page: some other button that says "submit", "order" or
\* "book" is clicked, and the step reports the same success.
ConfirmElsewhere(r) ==
  /\ BeginStep(r)
  /\ step[r] = 5 /\ page[r] < 5
  /\ \E p \in PageFound(r) : \E q \in AfterClick(p) :
       page' = [page EXCEPT ![r] = q]
  /\ UNCHANGED bookings
  /\ Report(r)

\* No button to click, or an exception before the click.
StepFails(r, c) ==
  /\ BeginStep(r)
  /\ FlowRaises(r, c)
  /\ UNCHANGED <<checkpoint, stop, bookings, completed, budget>>

\* Mutant: an exception also clears the checkpoint.
ConfirmRaisesClearing(r, c) ==
  /\ BeginStep(r)
  /\ step[r] = 5 /\ page[r] = 5
  /\ Order(r)
  /\ FlowRaises(r, c)
  /\ checkpoint' = 0
  /\ UNCHANGED <<stop, completed, budget>>

\* The order is placed, but waiting for the next page raises: step 5 fails.
ConfirmRaises(r, c) ==
  /\ BeginStep(r)
  /\ step[r] = 5 /\ page[r] = 5
  /\ Order(r)
  /\ FlowRaises(r, c)
  /\ UNCHANGED <<checkpoint, stop, completed, budget>>

\* Mutant: after its checkpoint the step is done once more.
SaveStepAgain(r) ==
  /\ pc[r] = "save"
  /\ checkpoint' = step[r] + 1
  /\ Goto(r, "gap")
  /\ UNCHANGED <<stop, attempt, resume, step, outcome, cause, siteVars,
                 ghostVars, budget>>

SaveStep(r) ==
  /\ pc[r] = "save"
  /\ checkpoint' = step[r] + 1
  /\ step' = [step EXCEPT ![r] = @ + 1]
  /\ Goto(r, "gap")
  /\ UNCHANGED <<stop, attempt, resume, outcome, cause, siteVars, ghostVars,
                 budget>>

\* Mutant: no look at the stop event between two steps.
NextStepBlind(r) ==
  /\ pc[r] = "gap"
  /\ Goto(r, IF step[r] \in Steps THEN "step" ELSE "capture")
  /\ UNCHANGED <<checkpoint, stop, flowVars, siteVars, ghostVars, budget>>

\* Between two steps the stop event is looked at; what it stops keeps the
\* checkpoint.
NextStep(r) ==
  /\ pc[r] = "gap"
  /\ ~stop
  /\ Goto(r, IF step[r] \in Steps THEN "step" ELSE "capture")
  /\ UNCHANGED <<checkpoint, stop, flowVars, siteVars, ghostVars, budget>>

StepStopped(r) ==
  /\ pc[r] = "gap"
  /\ Stopped(r)
  /\ UNCHANGED <<checkpoint, stop, bookings, ghostVars, budget>>

\* The status read from a page: a word of error anywhere on it outweighs the
\* words of success, of which it takes two to confirm.
ParsedStatus(errorWord, successWords) ==
  CASE errorWord -> "error"
    [] ~errorWord /\ successWords >= 2 -> "confirmed"
    [] ~errorWord /\ successWords = 1 -> "submitted"
    [] ~errorWord /\ successWords = 0 -> "unknown"

\* What capture_confirmation makes of whatever page it is on; one that cannot
\* be read is like one without any of the words.
Captured == {ParsedStatus(e, n) : e \in BOOLEAN, n \in 0..2}

\* verify_booking is content with any booking word on a profile page.
AfterVerify(s) == {s, "verified"}

\* Whatever comes of them, the checkpoint is cleared.
Capture(r) ==
  /\ pc[r] = "capture"
  /\ \E s \in Captured : \E t \in AfterVerify(s) : FlowEnds(r, t, "")
  /\ checkpoint' = 0
  /\ UNCHANGED <<stop, cause, bookings, ghostVars, budget>>

CaptureFails(r, c) ==
  /\ pc[r] = "capture"
  /\ FlowRaises(r, c)
  /\ UNCHANGED <<checkpoint, stop, bookings, ghostVars, budget>>

-----------------------------------------------------------------------------
(* The surroundings: callers, the user, the site, the process.              *)

\* A thread calls smart_retry; every caller looks at the stop event first.
Launch(r) ==
  /\ pc[r] = "off"
  /\ ~stop
  /\ budget.launches < MaxLaunches
  /\ budget' = [budget EXCEPT !.launches = @ + 1]
  /\ attempt' = [attempt EXCEPT ![r] = 1]
  /\ outcome' = [outcome EXCEPT ![r] = "none"]
  /\ cause' = [cause EXCEPT ![r] = "none"]
  /\ late' = [late EXCEPT ![r] = 0]
  /\ bookings' = [bookings EXCEPT ![r] = 0]
  /\ Goto(r, "scheduled")
  /\ UNCHANGED <<checkpoint, stop, resume, step, page, completed>>

RequestStop ==
  /\ ~stop
  /\ stop' = TRUE
  /\ UNCHANGED <<checkpoint, pc, flowVars, siteVars, ghostVars, budget>>

\* A new run of the bot, a retry by hand or the scheduler clears the event,
\* whether or not the runs that were to be stopped have ended.
ClearStop ==
  /\ stop
  /\ stop' = FALSE
  /\ late' = [r \in Runs |-> 0]
  /\ UNCHANGED <<checkpoint, pc, flowVars, siteVars, completed, budget>>

SessionExpires(r) ==
  /\ page[r] \in Steps
  /\ pc[r] \in {"landed", "step", "gap"}
  /\ budget.expiries < MaxExpiries
  /\ budget' = [budget EXCEPT !.expiries = @ + 1]
  /\ page' = [page EXCEPT ![r] = 0]
  /\ UNCHANGED <<checkpoint, stop, pc, flowVars, bookings, ghostVars>>

\* The process dies: the threads, their browsers and the stop event are gone,
\* the database stays.
Crash ==
  /\ ~AllOff
  /\ budget.crashes < MaxCrashes
  /\ budget' = [budget EXCEPT !.crashes = @ + 1]
  /\ pc' = [r \in Runs |-> "off"]
  /\ outcome' = [r \in Runs |-> "none"]
  /\ page' = [r \in Runs |-> 0]
  /\ resume' = [r \in Runs |-> 0]
  /\ step' = [r \in Runs |-> 1]
  /\ stop' = FALSE
  /\ UNCHANGED <<checkpoint, attempt, cause, bookings, ghostVars>>

\* SIGTERM: checkpoint 1 is saved for a student whose row says running or
\* in_progress, and the process goes on.  No run of the bot writes these two,
\* the operator may (POST /students/status).
Shutdown ==
  /\ Marked
  /\ checkpoint' = 1
  /\ UNCHANGED <<stop, pc, flowVars, siteVars, ghostVars, budget>>

\* What a stop request cuts short: everything but the waits of Wait(r).
Work(r) ==
  \/ BackoffStopped(r) \/ Retry(r)
  \/ BrowserUp(r) \/ Poll(r) \/ PollAgain(r)
  \/ ScheduledStopped(r) \/ PollStopped(r) \/ GapStopped(r)
  \/ LogIn(r) \/ LandedStopped(r)
  \/ SkipStep(r) \/ FillStep(r) \/ Confirm(r) \/ ConfirmElsewhere(r)
  \/ SaveStep(r) \/ NextStep(r) \/ StepStopped(r) \/ Capture(r)
  \/ \E c \in Causes : \/ BrowserFails(r, c) \/ LandedFails(r, c)
                       \/ StepFails(r, c) \/ ConfirmRaises(r, c)
                       \/ CaptureFails(r, c)

\* What need not ever happen: the scheduled time, a free slot.
Wait(r) == OpenFlow(r) \/ InvalidDate(r) \/ SlotFound(r)

Next ==
  \/ \E r \in Runs : Work(r) \/ Wait(r) \/ Launch(r) \/ SessionExpires(r)
  \/ RequestStop \/ ClearStop \/ Crash \/ Shutdown

Spec == Init /\ [][Next]_vars

\* A thread that has something to do does it.
FairSpec == Spec /\ \A r \in Runs : WF_vars(Work(r))

-----------------------------------------------------------------------------
\* Types of the variables.
TypeOK ==
  /\ checkpoint \in 0..6
  /\ stop \in BOOLEAN
  /\ pc \in [Runs -> {"off", "scheduled", "opening", "polling", "inpoll",
                      "landed", "step", "save", "gap", "capture", "backoff"}]
  /\ attempt \in [Runs -> 1..(MaxSmartRetries + 1)]
  /\ resume \in [Runs -> 0..6]
  /\ step \in [Runs -> 1..6]
  /\ outcome \in [Runs -> {"none", "stopped", "failed", "error", "confirmed",
                           "submitted", "unknown", "verified"}]
  /\ cause \in [Runs -> Causes \cup {"none", "invalid-date"}]
  /\ page \in [Runs -> 0..6]
  /\ bookings \in [Runs -> Nat]
  /\ completed \in SUBSET Steps
  /\ late \in [Runs -> Nat]
  /\ budget \in [launches : 0..MaxLaunches, crashes : 0..MaxCrashes,
                 expiries : 0..MaxExpiries]

\* A checkpoint never claims a step that no run has done: whatever crashes,
\* stops, retries and other runs of the student come between
\* (save_checkpoint, and the skips by resume_step).
CheckpointHonest == \A k \in Steps : checkpoint > k => k \in completed

\* One call of smart_retry orders again only when the page it read after its
\* last order was taken for an error: not when the order was placed and what
\* came after it raised.  For a run alone with its checkpoint row, and by what is
\* assumed of the site; a new call, as webapp makes to re-queue a student, is
\* outside it.
RepeatOnlyAfterMisread ==
  [][\A r \in Runs : bookings'[r] > bookings[r] /\ bookings[r] > 0
       => outcome[r] = "error"]_vars

\* After a stop request that stands, a run begins at most one more wizard
\* step: the one it had already looked at the stop event for.
StopBoundsWork == \A r \in Runs : late[r] <= 1

\* The browser is never ahead of the program: the Continue click of a step
\* cannot fall on the review page and place the order.
NeverAheadOfStep ==
  \A r \in Runs : pc[r] = "step" => page[r] <= step[r]

\* After a stop request that nobody takes back, every run of the student comes
\* to an end (the stop checks of smart_retry and run_student_flow).
StopTerminates == stop ~> AllOff \/ ~stop

-----------------------------------------------------------------------------
(* What the documentation says and the code does not do.                    *)

\* README.md:55 - "No progress lost on restart": the saved checkpoint only goes
\* back when it is cleared.
CheckpointNeverRegresses ==
  [][checkpoint' < checkpoint => checkpoint' = 0]_vars

\* README.md:167 - "checkpoint resume on restart": the first step that a resumed
\* flow does itself finds its page, or the login page that leads to it.
ResumeFindsPage ==
  \A r \in Runs :
    pc[r] = "step" /\ resume[r] \in 2..5 /\ step[r] = resume[r]
      => page[r] \in {0, step[r]}

\* README.md:169 - a call of smart_retry that fails by transient errors only gets
\* the full retry budget.
TransientFullBudget ==
  \A r \in Runs :
    pc[r] = "off" /\ outcome[r] = "failed" /\ cause[r] = "transient"
      => attempt[r] = MaxSmartRetries + 1
=============================================================================
