------------------------------ MODULE BotControl ------------------------------
(***************************************************************************)
(* webapp.py: who starts and stops the bot, and run_students_web, the       *)
(* thread that books the loaded students with a semaphore of MAX_CONCURRENT *)
(* and one worker thread per student.  Start requests come from the         *)
(* dashboard, from Telegram and from /restart; the scheduler starts a run   *)
(* without asking; a student can be retried by hand from the chat.  All of  *)
(* them share bot_running, bot_stop_event and student_status.               *)
(*                                                                          *)
(* smart_retry is abstracted to a flow that ends at any time, and that ends *)
(* stopped once it has seen the stop event (StopTerminates of BookingFlow   *)
(* says that it does).  The students of a roster have distinct keys here.   *)
(***************************************************************************)
EXTENDS Naturals, FiniteSets

CONSTANTS
  Students,       \* the loaded students
  Runs,           \* threads of run_students_web, one per start (a bound)
  Handlers,       \* threads that serve start requests
  MaxConcurrent,  \* MAX_CONCURRENT
  RequeueMax,     \* REQUEUE_MAX_RETRIES
  Retryable,      \* students that may be retried by hand
  Scheduling,     \* whether a scheduled start may fire
  Impatient,      \* whether a start request may overtake a starting run
  DbMayFail       \* whether a write to the database may raise

ASSUME ControlAssumption ==
  /\ IsFiniteSet(Students)
  /\ MaxConcurrent \in Nat \ {0}
  /\ RequeueMax \in Nat
  /\ Retryable \subseteq Students
  /\ {Scheduling, Impatient, DbMayFail} \subseteq BOOLEAN

VARIABLES
  bot_running,
  stop,            \* bot_stop_event
  handler,         \* what each request thread is doing
  run,             \* where each thread of run_students_web is
  permits,         \* its concurrency_sem
  requeues,        \* its requeue_counts
  worker,          \* its worker threads (run_one)
  retry,           \* _retry_one_student for each student
  student_status

runVars == <<run, permits, requeues, worker>>
vars == <<bot_running, stop, handler, runVars, retry, student_status>>

Final == {"Stopped", "Failed", "Booked"}

Init ==
  /\ bot_running = FALSE
  /\ stop = FALSE
  /\ handler = [h \in Handlers |-> "idle"]
  /\ run = [r \in Runs |-> "none"]
  /\ permits = [r \in Runs |-> MaxConcurrent]
  /\ requeues = [r \in Runs |-> [s \in Students |-> 0]]
  /\ worker = [r \in Runs |-> [s \in Students |-> "none"]]
  /\ retry = [s \in Students |-> "off"]
  /\ student_status = [s \in Students |-> "none"]

-----------------------------------------------------------------------------
(* Starting and stopping.                                                   *)

Starting == {r \in Runs : run[r] \in {"started", "cleared"}}

\* A request that finds the bot not running goes on to load the students; any
\* other is told that the bot is already running.
AskToStart(h) ==
  /\ Impatient \/ Starting = {}
  /\ handler' = [handler EXCEPT
                    ![h] = IF bot_running THEN "idle" ELSE "checked"]
  /\ UNCHANGED <<bot_running, stop, runVars, retry, student_status>>

\* The dashboard's start request, or the owner's from Telegram.
CheckStart(h) == handler[h] = "idle" /\ AskToStart(h)

\* start_bot_from_telegram at the end of restart_bot.
StartFromTelegram(h) == handler[h] = "waiting" /\ AskToStart(h)

\* A thread of run_students_web begins.
NewRun ==
  \E r \in Runs : run[r] = "none" /\ run' = [run EXCEPT ![r] = "started"]

\* The request clears the status board and starts the thread.
Launch(h) ==
  /\ handler[h] = "checked"
  /\ NewRun
  /\ handler' = [handler EXCEPT ![h] = "idle"]
  /\ student_status' = [s \in Students |-> "none"]
  /\ UNCHANGED <<bot_running, stop, permits, requeues, worker, retry>>

\* restart_bot stops a running bot and waits for it, but not for ever; then it
\* asks like any other start request.
Restart(h) ==
  /\ handler[h] = "idle"
  /\ bot_running
  /\ stop' = TRUE
  /\ handler' = [handler EXCEPT ![h] = "waiting"]
  /\ UNCHANGED <<bot_running, runVars, retry, student_status>>

\* The end of scheduler_loop, which does not look at bot_running.
ScheduledStart ==
  /\ Scheduling
  /\ NewRun
  /\ stop' = FALSE
  /\ UNCHANGED <<bot_running, handler, permits, requeues, worker, retry,
                 student_status>>

\* The dashboard's stop is refused unless bot_running.
ApiStop ==
  /\ bot_running
  /\ stop' = TRUE
  /\ UNCHANGED <<bot_running, handler, runVars, retry, student_status>>

\* Stopping from Telegram or from the chat does not look.
StopAll ==
  /\ stop' = TRUE
  /\ UNCHANGED <<bot_running, handler, runVars, retry, student_status>>

-----------------------------------------------------------------------------
(* run_students_web.                                                        *)

ClearStop(r) ==
  /\ run[r] = "started"
  /\ stop' = FALSE
  /\ run' = [run EXCEPT ![r] = "cleared"]
  /\ UNCHANGED <<bot_running, handler, permits, requeues, worker, retry,
                 student_status>>

\* bot_running is set and the students are saved.
OpenRun(r) ==
  /\ run[r] = "cleared"
  /\ bot_running' = TRUE
  /\ run' = [run EXCEPT ![r] = "open"]
  /\ UNCHANGED <<stop, handler, permits, requeues, worker, retry,
                 student_status>>

\* save_students raises: the thread is gone and bot_running stays.
SaveFails(r) ==
  /\ DbMayFail
  /\ run[r] = "cleared"
  /\ bot_running' = TRUE
  /\ run' = [run EXCEPT ![r] = "dead"]
  /\ UNCHANGED <<stop, handler, permits, requeues, worker, retry,
                 student_status>>

Work(r, s, w) == worker' = [worker EXCEPT ![r][s] = w]
Show(s, v) == student_status' = [student_status EXCEPT ![s] = v]

StartWorker(r, s) ==
  /\ run[r] = "open"
  /\ worker[r][s] = "none"
  /\ Work(r, s, "queued")
  /\ Show(s, "Starting")
  /\ UNCHANGED <<bot_running, stop, handler, run, permits, requeues, retry>>

\* Mutant: the run does not wait for all of its workers.
FinishEarly(r) ==
  /\ run[r] = "open"
  /\ \E s \in Students : worker[r][s] = "done"
  /\ run' = [run EXCEPT ![r] = "done"]
  /\ bot_running' = FALSE
  /\ UNCHANGED <<stop, handler, permits, requeues, worker, retry,
                 student_status>>

\* All workers have been joined.
Finish(r) ==
  /\ run[r] = "open"
  /\ \A s \in Students : worker[r][s] = "done"
  /\ run' = [run EXCEPT ![r] = "done"]
  /\ bot_running' = FALSE
  /\ UNCHANGED <<stop, handler, permits, requeues, worker, retry,
                 student_status>>

-----------------------------------------------------------------------------
(* run_one, which holds its permit until it returns or raises.              *)

Acquire(r, s) ==
  /\ worker[r][s] = "queued"
  /\ permits[r] > 0
  /\ permits' = [permits EXCEPT ![r] = @ - 1]
  /\ Work(r, s, "top")
  /\ UNCHANGED <<bot_running, stop, handler, run, requeues, retry,
                 student_status>>

\* Mutant: the permit is not released.
EndWorkerKeeping(r, s) ==
  /\ Work(r, s, "done")
  /\ UNCHANGED <<bot_running, stop, handler, run, permits, retry>>

\* The worker is over and its finally branch releases the permit.
EndWorker(r, s) ==
  /\ permits' = [permits EXCEPT ![r] = @ + 1]
  /\ Work(r, s, "done")
  /\ UNCHANGED <<bot_running, stop, handler, run, retry>>

BeginFlow(r, s) ==
  /\ worker[r][s] = "top"
  /\ ~stop
  /\ Work(r, s, "flow")
  /\ Show(s, "Waiting")
  /\ UNCHANGED <<bot_running, stop, handler, run, permits, requeues, retry>>

\* Mutant: the worker returns without a word on the status board.
SeeStopSilent(r, s) ==
  /\ worker[r][s] \in {"top", "delay"}
  /\ stop
  /\ EndWorker(r, s)
  /\ UNCHANGED <<requeues, student_status>>

\* The stop event is seen at the top of the loop or during the re-queue delay.
SeeStop(r, s) ==
  /\ worker[r][s] \in {"top", "delay"}
  /\ stop
  /\ Show(s, "Stopped")
  /\ EndWorker(r, s)
  /\ UNCHANGED requeues

\* smart_retry has seen the stop event and closes its browser.
FlowSeesStop(r, s) ==
  /\ worker[r][s] = "flow"
  /\ stop
  /\ Work(r, s, "quitting")
  /\ UNCHANGED <<bot_running, stop, handler, run, permits, requeues, retry,
                 student_status>>

FlowStopped(r, s) ==
  /\ worker[r][s] = "quitting"
  /\ Show(s, "Stopped")
  /\ EndWorker(r, s)
  /\ UNCHANGED requeues

FlowBooks(r, s) ==
  /\ worker[r][s] = "flow"
  /\ Show(s, "Booked")
  /\ EndWorker(r, s)
  /\ UNCHANGED requeues

\* Mutant: what raises after the flow skips the release of the permit.
FlowBooksUnsavedLeaking(r, s) ==
  /\ DbMayFail
  /\ worker[r][s] = "flow"
  /\ Work(r, s, "done")
  /\ UNCHANGED <<bot_running, stop, handler, run, permits, requeues, retry,
                 student_status>>

\* update_student_status raises before the status board is written.
FlowBooksUnsaved(r, s) ==
  /\ DbMayFail
  /\ worker[r][s] = "flow"
  /\ EndWorker(r, s)
  /\ UNCHANGED <<requeues, student_status>>

\* Mutant: one re-queue too many.
RequeueOnceMore(r, s) ==
  /\ worker[r][s] = "flow"
  /\ requeues[r][s] <= RequeueMax
  /\ requeues' = [requeues EXCEPT ![r][s] = @ + 1]
  /\ Work(r, s, "delay")
  /\ Show(s, "Re-queued")
  /\ UNCHANGED <<bot_running, stop, handler, run, permits, retry>>

Requeue(r, s) ==
  /\ worker[r][s] = "flow"
  /\ requeues[r][s] < RequeueMax
  /\ requeues' = [requeues EXCEPT ![r][s] = @ + 1]
  /\ Work(r, s, "delay")
  /\ Show(s, "Re-queued")
  /\ UNCHANGED <<bot_running, stop, handler, run, permits, retry>>

GiveUp(r, s) ==
  /\ worker[r][s] = "flow"
  /\ requeues[r][s] >= RequeueMax
  /\ requeues' = [requeues EXCEPT ![r][s] = @ + 1]
  /\ Show(s, "Failed")
  /\ EndWorker(r, s)

\* Mutant: the permit is released for the delay and not taken again.
DelayOverReleasing(r, s) ==
  /\ worker[r][s] = "delay"
  /\ permits' = [permits EXCEPT ![r] = @ + 1]
  /\ Work(r, s, "top")
  /\ UNCHANGED <<bot_running, stop, handler, run, requeues, retry,
                 student_status>>

DelayOver(r, s) ==
  /\ worker[r][s] = "delay"
  /\ Work(r, s, "top")
  /\ UNCHANGED <<bot_running, stop, handler, run, permits, requeues, retry,
                 student_status>>

-----------------------------------------------------------------------------
(* _retry_one_student, in a thread of its own.                              *)

RetryStudent(s) ==
  /\ s \in Retryable
  /\ retry[s] = "off"
  /\ stop' = FALSE
  /\ retry' = [retry EXCEPT ![s] = "flow"]
  /\ UNCHANGED <<bot_running, handler, runVars, student_status>>

RetrySeesStop(s) ==
  /\ retry[s] = "flow"
  /\ stop
  /\ retry' = [retry EXCEPT ![s] = "quitting"]
  /\ UNCHANGED <<bot_running, stop, handler, runVars, student_status>>

RetryEnds(s) ==
  /\ \/ retry[s] = "quitting" /\ Show(s, "Stopped")
     \/ retry[s] = "flow" /\ \E v \in {"Booked", "Failed"} : Show(s, v)
  /\ retry' = [retry EXCEPT ![s] = "off"]
  /\ UNCHANGED <<bot_running, stop, handler, runVars>>

-----------------------------------------------------------------------------
RunStep(r) == ClearStop(r) \/ OpenRun(r) \/ SaveFails(r) \/ Finish(r)

\* What a worker does by itself, without its flow coming to a result.
WorkerStep(r, s) ==
  \/ StartWorker(r, s) \/ Acquire(r, s) \/ BeginFlow(r, s) \/ SeeStop(r, s)
  \/ FlowSeesStop(r, s) \/ FlowStopped(r, s) \/ DelayOver(r, s)

FlowResult(r, s) ==
  \/ FlowBooks(r, s) \/ FlowBooksUnsaved(r, s) \/ Requeue(r, s) \/ GiveUp(r, s)

Next ==
  \/ \E h \in Handlers : \/ CheckStart(h) \/ StartFromTelegram(h)
                        \/ Launch(h) \/ Restart(h)
  \/ ScheduledStart \/ ApiStop \/ StopAll
  \/ \E r \in Runs :
       RunStep(r) \/ \E s \in Students : WorkerStep(r, s) \/ FlowResult(r, s)
  \/ \E s \in Students : RetryStudent(s) \/ RetrySeesStop(s) \/ RetryEnds(s)

Spec == Init /\ [][Next]_vars

\* Threads run; a flow sees the stop event.  Nothing is assumed of the users.
Fairness ==
  \A r \in Runs : /\ WF_vars(RunStep(r))
                  /\ \A s \in Students : WF_vars(WorkerStep(r, s))

FairSpec == Spec /\ Fairness

-----------------------------------------------------------------------------
InFlow(r, s) == worker[r][s] \in {"flow", "quitting"}
Holding(r, s) == InFlow(r, s) \/ worker[r][s] \in {"top", "delay"}
Retries == {s \in Students : retry[s] # "off"}
Live == {r \in Runs : run[r] \in {"started", "cleared", "open"}}

\* Types of the variables.
TypeOK ==
  /\ bot_running \in BOOLEAN
  /\ stop \in BOOLEAN
  /\ handler \in [Handlers -> {"idle", "checked", "waiting"}]
  /\ run \in [Runs -> {"none", "started", "cleared", "open", "done", "dead"}]
  /\ permits \in [Runs -> 0..MaxConcurrent]
  /\ requeues \in [Runs -> [Students -> 0..(RequeueMax + 1)]]
  /\ worker \in [Runs -> [Students -> {"none", "queued", "top", "flow",
                                       "quitting", "delay", "done"}]]
  /\ retry \in [Students -> {"off", "flow", "quitting"}]
  /\ student_status \in [Students -> Final \cup {"none", "Starting", "Waiting",
                                                 "Re-queued"}]

\* However the workers of a run return, stop or raise, each permit of its
\* semaphore is either free or held by exactly one of them.
PermitsConserved ==
  \A r \in Runs :
    permits[r] + Cardinality({s \in Students : Holding(r, s)}) = MaxConcurrent

\* A student that is given up has failed RequeueMax + 1 times in that run, and
\* one that waits to be tried again has not.
RequeueBudget ==
  \A r \in Runs : \A s \in Students :
    /\ requeues[r][s] > RequeueMax => worker[r][s] = "done"
    /\ worker[r][s] = "delay" => requeues[r][s] \in 1..RequeueMax

\* A stop request that nobody takes back ends every run of the bot, with the
\* workers that are queued for a permit or wait to be tried again.
StopEndsRuns == stop ~> Live = {} \/ ~stop

\* Seen from outside, the bot is the switch of Booker.
Outside == INSTANCE Booker WITH
  Limit <- MaxConcurrent,
  on <- bot_running,
  working <- {s \in Students : \E r \in Runs : InFlow(r, s)} \cup Retries

BookerSpec == Outside!Spec

\* The status board is settled when the bot is off: nobody is left shown as
\* waiting (the returns of run_one).
BoardSettled ==
  ~bot_running /\ Live = {} =>
    \A s \in Students : student_status[s] \in Final \cup {"none"}

=============================================================================
