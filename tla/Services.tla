------------------------------- MODULE Services -------------------------------
(***************************************************************************)
(* The services around the booking flows, and the poll of a flow in time.   *)
(* Each has a module of its own, and none shares state with another one:    *)
(* what matters of them together is what matters of each, so a behaviour of *)
(* this module is one of a single service while the others rest.            *)
(***************************************************************************)
EXTENDS Integers

CONSTANTS
  Focus,                             \* the services that are explored
  Monitors, Timeout, Interval,       \* DeadMan
  Clients, Priorities, MaxId,        \* StudentQueue
  Schedulers,                        \* Scheduler
  MaxUpdate,                         \* TelegramPoll
  Viewers, MaxEntry,                 \* LogStream
  Callers, Levels, Refreshers,       \* ScheduleCache
  Names, MaxRows, TTL, Latency,      \* Sheet, with Callers
  Proxies, Flows,                    \* ProxyPool (Flows: also CircuitBreaker)
  Students, Uploads,                 \* LoginSession
  Connections,                       \* AuthForward
  Cards,                             \* Gui
  Keys, Unlevelled, Files, MaxKey, MaxSize, \* Roster
  Early, BurstBefore, BurstAfter, Near, CheckEvery, StartMax, ApiMax, PageMax,
  RestMax, BurstRest, BackoffMax,    \* Polling
  Addresses, RateLimit, RateWindow, LockoutThreshold, Lockout,
  SessionLife, MaxToken, LastMoment, \* Dashboard, with Callers
  Threshold, Cooldown, MaxFailures   \* CircuitBreaker

VARIABLES
  focus,
  since, alive, stopped, monitor, timer, checked, hung, alerts,
  rows, nextId, active, held, missed,
  scheduler, schedulerStop, scheduledStart, standing, begun,
  sent, kept, offset, batch, handling, handled, newest, poll, pollStop,
  notifying,
  pushed, logQueue, sending, viewers, broken, seen,
  schedule, fresh, inProgress, caller, refresher, todo, found,
  sheet, cacheAge, cacheTs, call, asked, answer, target, row, disturbed,
  blacklist, getting, candidate,
  cookies, profile, injected, loginAt, tries, live,
  relay, socket, pipe, silent,
  running, guiStop, botThread, flow, posted, card, torn,
  loaded, db, lastId, onSheet, shown, starting, added, saves,
  clock, at, rest, scheduled, burst, pageLoaded, stopping, waited, due,
  time, attempts, globalFailures, lockedUntil, sessions, expires, request,
  admitted, mistakes, endedTokens,
  state, failures, left, pc

Dead == INSTANCE DeadMan
Queue == INSTANCE StudentQueue
Sched == INSTANCE Scheduler
Telegram == INSTANCE TelegramPoll
Log == INSTANCE LogStream
Exams == INSTANCE ScheduleCache
Sheets == INSTANCE Sheet
Proxy == INSTANCE ProxyPool
Login == INSTANCE LoginSession
Forward == INSTANCE AuthForward
Window == INSTANCE Gui
Rosters == INSTANCE Roster
Poll == INSTANCE Polling
Board == INSTANCE Dashboard
Breaker == INSTANCE CircuitBreaker

ASSUME ServicesAssumption ==
  /\ Dead!DeadManAssumption
  /\ Queue!QueueAssumption
  /\ Telegram!TelegramAssumption
  /\ Sheets!SheetAssumption
  /\ Rosters!RosterAssumption
  /\ Poll!PollingAssumption
  /\ Log!LogStreamAssumption
  /\ Login!LoginSessionAssumption
  /\ Board!DashboardAssumption
  /\ Breaker!BreakerAssumption

deadManVars == <<since, alive, stopped, monitor, timer, checked, hung, alerts>>
studentQueueVars == <<rows, nextId, active, held, missed>>
schedulerVars == <<scheduler, schedulerStop, scheduledStart, standing, begun>>
telegramPollVars ==
  <<sent, kept, offset, batch, handling,
    handled, newest, poll, pollStop, notifying>>
logStreamVars == <<pushed, logQueue, sending, viewers, broken, seen>>
scheduleCacheVars ==
  <<schedule, fresh, inProgress, caller,
    refresher, todo, found>>
sheetVars ==
  <<sheet, cacheAge, cacheTs, call,
    asked, answer, target, row, disturbed>>
proxyPoolVars == <<blacklist, getting, candidate>>
loginSessionVars == <<cookies, profile, injected, loginAt, tries, live>>
authForwardVars == <<relay, socket, pipe, silent>>
guiVars == <<running, guiStop, botThread, flow, posted, card, torn>>
rosterVars == <<loaded, db, lastId, onSheet, shown, starting, added, saves>>
pollingVars ==
  <<clock, at, rest, scheduled, burst, pageLoaded, stopping, waited, due>>
dashboardVars ==
  <<time, attempts, globalFailures, lockedUntil, sessions, expires, request,
    admitted, mistakes, endedTokens>>
circuitBreakerVars == <<state, failures, left, pc>>

vars == <<focus, deadManVars, studentQueueVars, schedulerVars,
          telegramPollVars, logStreamVars, scheduleCacheVars,
          sheetVars, proxyPoolVars, loginSessionVars, authForwardVars,
          guiVars, rosterVars, pollingVars, dashboardVars,
          circuitBreakerVars>>

Init ==
  /\ focus \in Focus
  /\ Dead!Init /\ Queue!Init /\ Sched!Init /\ Telegram!Init /\ Log!Init
  /\ Exams!Init /\ Sheets!Init /\ Proxy!Init /\ Login!Init /\ Forward!Init
  /\ Window!Init /\ Rosters!Init /\ Poll!Init /\ Board!Init
  /\ Breaker!Init
  /\ focus # "roster" => loaded = Rosters!NoFile \* one state for all others

\* A step of service s, which all others sit out.
Alone(s) ==
  /\ focus = s
  /\ UNCHANGED focus
  /\ IF s = "dead man" THEN TRUE ELSE UNCHANGED deadManVars
  /\ IF s = "queue" THEN TRUE ELSE UNCHANGED studentQueueVars
  /\ IF s = "scheduler" THEN TRUE ELSE UNCHANGED schedulerVars
  /\ IF s = "telegram" THEN TRUE ELSE UNCHANGED telegramPollVars
  /\ IF s = "log" THEN TRUE ELSE UNCHANGED logStreamVars
  /\ IF s = "exams" THEN TRUE ELSE UNCHANGED scheduleCacheVars
  /\ IF s = "sheet" THEN TRUE ELSE UNCHANGED sheetVars
  /\ IF s = "proxies" THEN TRUE ELSE UNCHANGED proxyPoolVars
  /\ IF s = "login" THEN TRUE ELSE UNCHANGED loginSessionVars
  /\ IF s = "forwarder" THEN TRUE ELSE UNCHANGED authForwardVars
  /\ IF s = "window" THEN TRUE ELSE UNCHANGED guiVars
  /\ IF s = "roster" THEN TRUE ELSE UNCHANGED rosterVars
  /\ IF s = "polling" THEN TRUE ELSE UNCHANGED pollingVars
  /\ IF s = "dashboard" THEN TRUE ELSE UNCHANGED dashboardVars
  /\ IF s = "breaker" THEN TRUE ELSE UNCHANGED circuitBreakerVars

Next ==
  \/ Alone("dead man") /\ Dead!Next
  \/ Alone("queue") /\ Queue!Next
  \/ Alone("scheduler") /\ Sched!Next
  \/ Alone("telegram") /\ Telegram!Next
  \/ Alone("log") /\ Log!Next
  \/ Alone("exams") /\ Exams!Next
  \/ Alone("sheet") /\ Sheets!Next
  \/ Alone("proxies") /\ Proxy!Next
  \/ Alone("login") /\ Login!Next
  \/ Alone("forwarder") /\ Forward!Next
  \/ Alone("window") /\ Window!Next
  \/ Alone("roster") /\ Rosters!Next
  \/ Alone("polling") /\ Poll!Next
  \/ Alone("dashboard") /\ Board!Next
  \/ Alone("breaker") /\ Breaker!Next

Spec == Init /\ [][Next]_vars

-----------------------------------------------------------------------------
(* Fairness: a thread of the program that can go on does, and time passes.  *)
(* What clients, owners, networks and Google do is never fair.              *)

FairSpec ==
  /\ Spec
  /\ WF_vars(Alone("dead man") /\ Dead!Tick)
  /\ \A m \in Monitors : WF_vars(Alone("dead man") /\ Dead!MonitorStep(m))
  /\ \A s \in Schedulers : WF_vars(Alone("scheduler") /\ Sched!SchedulerStep(s))
  /\ \A f \in Flows : WF_vars(Alone("proxies") /\ Proxy!GetStep(f))
  /\ \A s \in Students : WF_vars(Alone("login") /\ Login!LoginStep(s))
  /\ \A c \in Connections : WF_vars(Alone("forwarder") /\ Forward!PipeEnds(c))
  /\ WF_vars(Alone("breaker") /\ Breaker!Tick)
  /\ \A f \in Flows : WF_vars(Alone("breaker") /\ Breaker!AskToPoll(f))
                   /\ WF_vars(Alone("breaker") /\ Breaker!AskToRetry(f))

-----------------------------------------------------------------------------
(* The properties; each is stated and explained in the module of its        *)
(* service.                                                                 *)

\* Types of the variables of all services.
TypeOK ==
  /\ Dead!TypeOK
  /\ Queue!TypeOK
  /\ Sched!TypeOK
  /\ Telegram!TypeOK
  /\ Log!TypeOK
  /\ Exams!TypeOK
  /\ Sheets!TypeOK
  /\ Proxy!TypeOK
  /\ Login!TypeOK
  /\ Forward!TypeOK
  /\ Window!TypeOK
  /\ Rosters!TypeOK
  /\ Poll!TypeOK
  /\ Board!TypeOK
  /\ Breaker!TypeOK
  /\ focus \in Focus

\* The dead man switch is taken for dead only after its timeout.
DeadMeansSilent == Dead!DeadMeansSilent

\* Its alarm is not later than the timeout and one interval.
AlarmInTime == Dead!AlarmInTime

\* The queue's active student is in progress, but for ids sent as texts.
ActiveInProgress == Queue!ActiveInProgress

\* The scraping flag is set only while a refresh will clear it.
FlagHasRefresh == Exams!FlagHasRefresh

\* The sheet's cache serves no rows older than it may.
ServedFresh == Sheets!ServedFresh

\* An idle window has no thread of a run left.
IdleMeansDone == Window!IdleMeansDone

\* An id of the database in an old listing denotes the student it was shown with.
StaleIdHarmless == Rosters!StaleIdHarmless

\* Runs repeat no key in the listing but those of the file.
CopiesBounded == Rosters!CopiesBounded

\* The poll for a slot answers the opening and a stop request in bounded time.
ReactsInTime == Poll!ReactsInTime

\* The dashboard turns nobody away without a reason.
TurnedAwayRightly == Board!TurnedAwayRightly

\* The breaker is not closed after as many failures as the largest threshold.
ClosedWithinBudget == Breaker!ClosedWithinBudget

\* The breaker is tripped only by as many failures as the smallest threshold.
TrippedOnlyByFailures == Breaker!TrippedOnlyByFailures

\* Nobody is let through during the cooldown.
CooldownRespected == Breaker!CooldownRespected

\* The breaker keeps the promise of the gate.
GateSpec == Breaker!GateSpec

\* Once the failures end, nobody waits for the breaker for ever.
WaitersReleased == Breaker!WaitersReleased

\* When the heartbeats end, a waiting monitor raises the alarm.
SilenceIsReported == Dead!SilenceIsReported

\* The queue keeps the promise of the waiting room.
RoomSpec == Queue!RoomSpec

\* The id that enqueue returns is the student's own, or of a less urgent one.
ReceiptMeansSelf == Queue!ReceiptMeansSelf

\* A scheduled start happens unless it is cancelled.
StandingIsServed == Sched!StandingIsServed

\* The Telegram commander keeps the promise of the mailbox.
MailboxSpec == Telegram!MailboxSpec

\* A viewer of the log sees every entry from its first on, in order.
NoGaps == Log!NoGaps

\* The sheet is written to in the row that was meant.
WritesHitTheirRow == Sheets!WritesHitTheirRow

\* A flow that asks for a proxy gets an answer.
GetReturns == Proxy!GetReturns

\* Every login comes to an end.
LoginSettles == Login!LoginSettles

\* The threads of a forwarded connection end together.
ThreadsExit == Forward!ThreadsExit

-----------------------------------------------------------------------------
(* What the documentation says and the code does not do.                    *)

\* circuit_breaker.py:16 - one probe is let through when the cooldown is over.
OneProbe == Breaker!OneProbe

\* docs/BCP.md:15 - when booking hangs while a monitor is on, it is reported.
HangIsReported == Dead!HangIsReported

\* README.md:153 - a flow is logged in with its own student's account.
AccountIsOwn == Login!AccountIsOwn

=============================================================================
