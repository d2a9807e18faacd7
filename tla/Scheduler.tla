------------------------------- MODULE Scheduler -------------------------------
(***************************************************************************)
(* webapp.py: the scheduled start of the bot.  Each request to schedule a   *)
(* start makes a thread of scheduler_loop; all of them look at one stop     *)
(* event and one field that /schedule-status shows.  BotControl has what a  *)
(* scheduled start does to the bot; this module has which of them happen.   *)
(* A request names its time without a zone, as the dashboard's page and the  *)
(* Postman collection send it: one with a zone, which api_schedule_start     *)
(* accepts, ends its thread with a TypeError at the first look at the clock. *)
(***************************************************************************)

CONSTANT Schedulers  \* scheduler threads, one per request (a bound)

VARIABLES
  scheduler,      \* where each thread is
  schedulerStop,  \* scheduler_stop
  scheduledStart, \* the thread whose time scheduled_start shows
  standing,       \* requests neither cancelled since they were made nor served
  begun           \* threads that have started the bot

vars == <<scheduler, schedulerStop, scheduledStart, standing, begun>>

Nobody == "nobody"

Init ==
  /\ scheduler = [s \in Schedulers |-> "off"]
  /\ schedulerStop = FALSE
  /\ scheduledStart = Nobody
  /\ standing = {}
  /\ begun = {}

Goto(s, l) == scheduler' = [scheduler EXCEPT ![s] = l]

-----------------------------------------------------------------------------
\* Mutant: a request leaves the event as the last cancellation left it.
ScheduleStartUncleared(s) ==
  /\ scheduler[s] = "off"
  /\ scheduledStart' = s
  /\ standing' = standing \cup {s}
  /\ Goto(s, "looping")
  /\ UNCHANGED <<schedulerStop, begun>>

\* The new thread joins those of earlier requests.
ScheduleStart(s) ==
  /\ scheduler[s] = "off"
  /\ schedulerStop' = FALSE
  /\ scheduledStart' = s
  /\ standing' = standing \cup {s}
  /\ Goto(s, "looping")
  /\ UNCHANGED begun

\* Setting the event wakes every thread that waits for it.
ScheduleCancel ==
  /\ schedulerStop' = TRUE
  /\ scheduledStart' = Nobody
  /\ standing' = {}
  /\ scheduler' = [s \in Schedulers |->
                     IF scheduler[s] = "waiting" THEN "looping"
                                                 ELSE scheduler[s]]
  /\ UNCHANGED begun

-----------------------------------------------------------------------------
\* The head of the loop: the event, then the clock, which may have come to the
\* time of the request or not.
Loop(s) ==
  /\ scheduler[s] = "looping"
  /\ IF schedulerStop THEN Goto(s, "leaving")
                      ELSE Goto(s, "waiting") \/ Goto(s, "leaving")
  /\ UNCHANGED <<schedulerStop, scheduledStart, standing, begun>>

\* The wait of at most 15 seconds before the time of the request is over.
TimeComes(s) ==
  /\ scheduler[s] = "waiting"
  /\ Goto(s, "leaving")
  /\ UNCHANGED <<schedulerStop, scheduledStart, standing, begun>>

\* Out of the loop, the event is read again.
Leave(s) ==
  /\ scheduler[s] = "leaving"
  /\ IF schedulerStop
     THEN Goto(s, "over") /\ UNCHANGED scheduledStart
     ELSE Goto(s, "loading") /\ scheduledStart' = Nobody
  /\ standing' = IF schedulerStop THEN standing ELSE standing \ {s}
  /\ UNCHANGED <<schedulerStop, begun>>

\* The students are loaded, which reads the sheet; with none the bot is left
\* alone.
StartBot(s) ==
  /\ scheduler[s] = "loading"
  /\ Goto(s, "over")
  /\ begun' \in {begun, begun \cup {s}}
  /\ UNCHANGED <<schedulerStop, scheduledStart, standing>>

SchedulerStep(s) == Loop(s) \/ TimeComes(s) \/ Leave(s) \/ StartBot(s)

Next ==
  \/ ScheduleCancel
  \/ \E s \in Schedulers : ScheduleStart(s) \/ SchedulerStep(s)

Spec == Init /\ [][Next]_vars

-----------------------------------------------------------------------------
\* Types of the variables.
TypeOK ==
  /\ scheduler \in [Schedulers -> {"off", "looping", "waiting", "leaving",
                                   "loading", "over"}]
  /\ schedulerStop \in BOOLEAN
  /\ scheduledStart \in Schedulers \cup {Nobody}
  /\ standing \in SUBSET Schedulers
  /\ begun \in SUBSET Schedulers

\* A request is served unless it is cancelled after it was made, whatever was
\* cancelled before and whichever threads of earlier requests are still about.
StandingIsServed == \A s \in Schedulers : s \in standing ~> s \notin standing
=============================================================================
