# A model of the booking bot

The bot waits for exam dates on the Goethe-Institut's site and books them for a
list of students, each in a browser of its own, driven from a web dashboard,
from Telegram, from a schedule or from a desktop window. This directory holds
TLA+ specifications of its parts, TLC configurations that check them on small
instances, and TLAPS proofs of every safety property for every instance. The
facts about the code are in `PROJECT.json`: which definition models which lines
(`map`), what is checked by which run (`runs`), what could go wrong where
(`hazards`), and where the code does something else than its documentation says
(`findings`). Line numbers in this file are those of the Python files under
`src/`.

## How to run it

    tlc -workers 2 -config BookingFlow_one.cfg MCBookingFlow.tla
    tlapm CircuitBreakerProofs.tla

The module of every configuration is given in the table of runs below.

## The system

| part | code | its state | its operations |
|---|---|---|---|
| circuit breaker | circuit_breaker.py | state, failures per type, end of the cooldown; one object for all threads | allow_request, record_failure, record_success, wait_until_allowed, reset |
| booking flow | booking_helper.py: smart_retry, run_student_flow | attempt, step, browser; checkpoint row of the student key | poll for the slot, log in, five wizard steps, capture and verify, retry with backoff |
| bot control | webapp.py: start, stop, restart, run_students_web | bot_running, bot_stop_event, a semaphore and re-queue counts per run, the status board | start requests, stop requests, workers, re-queueing, retry by hand |
| dead man switch | deadman.py | time of the last heartbeat, alive flag, stop event | ping, check, start_monitor, stop_monitor |
| student queue | student_queue.py, db.py | table queue_history, _active | enqueue, dequeue, complete, fail, reset, clear |
| scheduler | webapp.py 1158-1217 | scheduled_start, scheduler_stop, a thread per request | schedule, cancel, fire |
| Telegram commander | telegram_commander.py | _offset, stop event, one polling thread | getUpdates, handle an update, start, stop |
| log stream | websocket_handler.py | LOG_QUEUE, _clients | push, register, unregister, broadcast loop |
| schedule cache | goethe_scraper.py | _last_cache, _scraping_in_progress | get_schedule, refresh in the background, forced refresh |
| sheet | google_sheets.py | _sheet_cache; the sheet itself is the owner's | load, delete a row, fill a cell, append |
| proxy pool | proxy_rotator.py | list, blacklist with times | get, mark_failed, mark_success |
| polling in time | booking_helper.py: burst_poll_gap, adaptive_backoff, scheduled_wait, the loop of step 1 | the time until the booking, what the flow does and how long it still takes | scheduled_wait, ask the API, load the page, rest, back off |
| dashboard sessions | webapp.py 241-254 and 503-616, db.py 321-353 | attempts per address, failures, end of the lockout, table sessions | login, require_auth (_check_auth, validate_token), logout, refresh (exchanging a token), clean-up; forgot-password answers the same whatever happens and changes nothing |
| login and cookies | booking_helper.py 1206-1415 | the row goethe_cookies, a browser profile per student | inject saved cookies, log in with the own credentials, save cookies |
| proxy forwarder | proxy_auth_forward.py | two sockets and two threads per connection | accept, connect, relay, close |
| desktop window | gui.py | running, stop event, bot thread, a card per student | start, stop, reload, join, report |
| roster | webapp.py 726-826 and 1430-1473, db.py | config_path, table students; the sheet | load a file, list, add, delete, replace by a run or by the command line |

How they interact: the dashboard's request threads, the Telegram thread and the
scheduler threads call bot control; a run of it starts one worker thread per
student, which calls smart_retry of the booking flow; a flow asks the circuit
breaker before it polls and reports to it afterwards, takes a proxy from the
pool, logs in through the login part and saves its checkpoint in the database.
All threads share one process, one stop event and one database file; only the
database and the browser profiles outlive the process. A run starts a monitor
of the dead man switch, and lists its students from the roster, which reads the
sheet through its cache. The window is a second front end of the flows, with a
stop event of its own. The student queue is used by clients of the REST
endpoints only, and the rest (log stream, schedule cache) serves the dashboard.

What is hard about it: stop events that are set, cleared and read by threads at
different times; permits that must come back whichever way a worker leaves;
checkpoints that survive what the browser does not; a site that logs out, fails
or repeats a page at any moment; start requests that overtake each other;
caches filled and emptied in several steps by several threads; redelivered
commands; and threads that wait for one another. For each part the properties
that make it right are those of its module, listed under the runs.

## The modules

| module | models | in the style of |
|---|---|---|
| `BreakerGate` | what a breaker promises: a gate that shuts between two numbers of strikes and opens again | abstract specification |
| `CircuitBreaker` | the breaker with the threads that use it | implements `BreakerGate`; a part of `Services` |
| `CircuitBreakerProofs` | theorems about it | TLAPS |
| `BookingFlow` | smart_retry and run_student_flow of one student key, its checkpoint row, crashes | detailed specification |
| `BookingFlowProofs` | theorems about it | TLAPS |
| `Booker` | what the dashboard promises of the bot: a switch, and at most Limit students in work | abstract specification |
| `BotControl` | starts, stops, runs, workers, permits, re-queueing | implements `Booker` when runs do not overlap |
| `BotControlProofs` | theorems about it | TLAPS |
| `WaitingRoom` | what the queue promises its clients: a student is in one place, and the first in line is called | abstract specification |
| `StudentQueue` | the queue, its rows and the clients of its endpoints | implements `WaitingRoom` |
| `StudentQueueProofs` | theorems about it | TLAPS |
| `Mailbox` | what the commander promises its owner: commands are read in order, all of them, each once in a life | abstract specification |
| `TelegramPoll` | the polling loop and /notify | implements `Mailbox` |
| `TelegramPollProofs` | theorems about it | TLAPS |
| `DeadMan`, `DeadManProofs` | the heartbeat and its monitors | detailed specification and TLAPS |
| `Polling`, `PollingProofs` | how a flow spends its time until it finds a slot | detailed specification and TLAPS |
| `Scheduler`, `LogStream`, `ScheduleCache`, `Sheet`, `ProxyPool`, `LoginSession`, `AuthForward`, `Gui`, `Roster`, `Dashboard` | one service each | detailed specifications |
| `Subsequences` | what a list comprehension with a condition keeps of a list, as `Roster` and `Dashboard` use it | a helper; it takes the positions as a set, since no proof can be about an operator that takes one |
| `Services`, `ServicesProofs` | all of these side by side | composition and TLAPS |
| `MC...` | constants for TLC | |

Variables carry the names of the code's where it has one (`bot_running`,
`student_status`, `offset`, `blacklist`), and `pc`-like variables say where each
thread is. An action is what a thread does without another one being able to
interfere: a method under its lock, or the code between two accesses to shared
state. Code that reads shared state and acts on it later is two actions: the
test and the set of `_scraping_in_progress` (`LookAtFlag`, `Claim`), the check
of `bot_running` and the start of the run (`CheckStart`, `Launch`), the reading
of the cookie row and the injection of what was read, the two assignments that
fill the sheet's cache.

Definitions that begin with "Mutant:" are not part of a specification. Each is
a plausible slip in the definition after it; with it in place, the property
named in `PROJECT.json` fails, which shows that the property depends on the
code being as it is.

### Circuit breaker

`CircuitBreaker` has the breaker's state and a thread for each booking flow,
which polls (`AskToPoll`, `PollFailed`, `SlotFound`) or waits before its next
attempt (`AskToRetry`, wait_until_allowed). Time is `left`, the ticks of the
cooldown that remain. A straggler, one that got permission before the breaker
opened, may report at any time.

### Booking flow

`BookingFlow` has a set of runs of one student: usually one, two when the roster
has a student twice or somebody retries by hand. `pc` follows run_student_flow:
scheduled wait, browser, polling, login, the steps 1 to 5, capture. The site is
a choice: after a click on Continue it stays where it is or shows the next page
(`AfterClick`), it logs the flow out, accepts or refuses a login, and its pages
after the last click read like a success, like an error or like nothing. One
thing is assumed of it: the booking button opens a new booking, on its first page or on
the login page, also in a browser that create_driver starts with the profile of
an earlier one (booking_helper.py 416-419); what a profile keeps is taken to be
the login and not the page of the wizard. `ResumeFindsPage`, `NeverAheadOfStep`
and `RepeatOnlyAfterMisread` rest on that. The flows of one call of smart_retry
are given one booking_datetime, so that it is valid in all of them or in none
(`DateMayBeValid`, `DateMayBeInvalid`). The ghost `completed` records the steps
that some run has done, `bookings` the orders placed, `late` the steps begun after a stop request. A
crash ends all runs; the checkpoint row stays. The shutdown handler
(`Shutdown`) writes checkpoint 1 for rows whose status says running; no flow
writes that status, only an operator can (POST /students/status), which is the
constant `Marked`.

### Bot control

`BotControl` has the handlers of start requests, the runs with their semaphore,
and the workers with the places where they may leave: not begun, stopped before
or in a flow, booked, failed by the database, re-queued, given up.
`smart_retry` is abstracted to a flow that ends at any time and ends stopped
once it has seen the stop event; `StopTerminates` of `BookingFlow` says that it
does. `Booker` is its abstract view, with the refinement mapping in `Outside`.

### Services

None of the fifteen parts in `Services` shares state with another one in a way that matters
to its properties, so checking them one at a time loses nothing: the variable
`focus` of `Services` names the service that moves, and all others rest (the
variable initial states of the roster are explored under its own focus only). Its
properties are those of the services, where they are explained.

* `DeadMan`: two monitors of runs that start and stop share the clock and its
  stop event; `Hang` is the ghost of booking threads that stop making progress.
* `StudentQueue`: methods run under a lock, one action each. The endpoints pass
  on any id, any number of times, from anybody, and as it was sent: a report has
  a number or a text, which SQLite takes for the same row and Python for another
  id than the one in _active. The ghost `held` is what each client has dequeued
  and nobody has reported on since, `missed` that the active student was reported
  on by a text. `Place` is where a student is seen from the waiting room.
* `Scheduler`: every request adds a thread, and all threads look at one event,
  at the head of their loop and once more behind it. A request names its time
  without a zone, as the page and the Postman collection do. One with a zone
  passes api_schedule_start and ends its thread with a TypeError at its first
  look at the clock (webapp.py 1166); that path is left out.
* `TelegramPoll`: Telegram keeps an update until it is asked for a later one;
  the offset is in memory only, and so is what /notify has set. The batch is a
  set of numbers, handled in their order.
* `LogStream`: a viewer may register, fail or leave between an entry's leaving
  the queue and its being sent.
* `ScheduleCache`: request threads and refreshing threads around one flag.
* `Sheet`: loads and writes of several threads, and the owner's edits. The age
  of cached rows stands for the rows; a thread takes no time without network.
* `ProxyPool`: flows that probe, blacklist and clear one list; looking at it and
  clearing it are two sections under the lock.
* `LoginSession`: whose session each browser profile and the cookie row hold;
  the form scanner reads the row once and injects it later.
* `AuthForward`: one connection with its two threads and two sockets.
* `Gui`: the window, its bot thread and its flows.
* `Roster`: file, database and sheet, listings that clients still look at, and
  the command line, which replaces the rows by the students of its own file. A
  row is told apart by name, level and city, and a file whose column of levels is
  named exam_level has rows without a level (`AsRead`); only a deletion looks at
  either name (`Listed`).
* `Polling`: one flow and the clock, which counts from the booking time. What
  the flow does takes a number of ticks between nothing and the longest;
  `Attentive` are the waits that a stop request ends at once, `Blind` what does
  not look at it (`time.sleep`, requests, loading a page, starting a browser).
* `Dashboard`: every request is a thread that filters, stores, tests and extends
  the list of attempts of its address in separate steps. A session is a token,
  in the order in which they are given out. The ghost `mistakes` has the times
  of the wrong passwords since the last ban began.

## What is checked

| run | module | instance | properties |
|---|---|---|---|
| `BookingFlow_one` | `MCBookingFlow` | 1 run, 2 retries, 3 launches, 2 crashes, 1 expired session, row not marked | `TypeOK`, `StopBoundsWork`, `NeverAheadOfStep`, `RepeatOnlyAfterMisread`, `StopTerminates` |
| `BookingFlow_two` | `MCBookingFlow` | 2 runs of one key, 2 launches, 1 crash, marked row | `CheckpointHonest` |
| `BotControl_serial` | `MCBotControl` | 3 students, 2 permits, 2 runs one after the other, 1 re-queue | `TypeOK`, `RequeueBudget`, `BoardSettled`, `BookerSpec` |
| `BotControl_overlap` | `MCBotControl` | 2 students, 1 permit, 2 runs that may overlap, scheduled start, retry by hand, failing database | `PermitsConserved`, `StopEndsRuns` |
| `Services` | `MCServices` | two of everything, see below | `TypeOK`; `DeadMeansSilent`, `AlarmInTime`; `RoomSpec`, `ReceiptMeansSelf`, `ActiveInProgress`; `MailboxSpec`; `NoGaps`; `FlagHasRefresh`; `ServedFresh`, `WritesHitTheirRow`; `IdleMeansDone`; `StaleIdHarmless`, `CopiesBounded`; `ReactsInTime`; `TurnedAwayRightly`; `ClosedWithinBudget`, `TrippedOnlyByFailures`, `CooldownRespected`, `GateSpec` |
| `Services_live` | `MCServices` | the six services that promise an end | `WaitersReleased`, `SilenceIsReported`, `StandingIsServed`, `GetReturns`, `LoginSettles`, `ThreadsExit` |

What they show, beyond types:

* Breaker. However failures of three types and of several threads mix, it is
  open after at most the largest threshold and not before the smallest
  (`ClosedWithinBudget`, `TrippedOnlyByFailures`); nobody is let through during
  the cooldown noted last (`CooldownRespected`); whoever waits is released once
  the failures end (`WaitersReleased`); and it implements `BreakerGate`.
* Flow. The checkpoint never claims a step that was not done, so that resuming
  never skips one (`CheckpointHonest`), by crashes, stops, retries and a second
  run of the same key. One call of smart_retry orders again only when it took the
  page behind its last order for an error, not when the order was placed and
  what came after it raised (`RepeatOnlyAfterMisread`); that the dashboard calls
  smart_retry again for a student it re-queues is outside this. After a
  stop request at most one more step is begun (`StopBoundsWork`), and the run
  ends (`StopTerminates`). The browser is never ahead of the program
  (`NeverAheadOfStep`).
* Control. Permits are conserved by every way out of a worker
  (`PermitsConserved`), a stop that nobody takes back ends all runs
  (`StopEndsRuns`), re-queueing is bounded (`RequeueBudget`), the status board
  is settled when the bot is off (`BoardSettled`), and from outside the bot is a
  switch with at most MAX_CONCURRENT students in work (`BookerSpec`).
* Services. No early and no late alarm (`DeadMeansSilent`, `AlarmInTime`,
  `SilenceIsReported`). The queue implements the waiting room (`RoomSpec`): a
  student whom nobody has reported on is with one client only, the order is that
  of priority and arrival, and ids are not used twice. Who may report, how often
  and how late is no part of the promise, since the code does not ask: a late
  report does overwrite an outcome. The cached active id is right unless it was
  reported on as a text (`ActiveInProgress`), and the id that enqueue returns is
  wrong only when somebody of lower priority waits (`ReceiptMeansSelf`). A scheduled start that
  stands is served (`StandingIsServed`). The commander implements the mailbox
  (`MailboxSpec`): no command is lost, and none is read twice in one life of the
  process. A viewer of the log has no gaps (`NoGaps`). The scraping flag never
  sticks (`FlagHasRefresh`). The sheet's cache serves nothing older than its
  time to live and the time of an answer (`ServedFresh`), and rows that have not
  moved are hit (`WritesHitTheirRow`). A flow left alone gets a proxy or none
  (`GetReturns`). A login settles (`LoginSettles`). The threads of a connection
  end together (`ThreadsExit`). A window that is idle has no thread left
  (`IdleMeansDone`). Old ids never denote another student of the database
  (`StaleIdHarmless`; negative ids are positions in the listing, and may), and
  a key, which is what the merge compares, is listed once, once more for every
  time it was added, and, if a file has it, once more for every time the rows
  were replaced (`CopiesBounded`). A flow looks at the page in time
  after the booking opens, and notices a stop request in time
  (`ReactsInTime`). No address is refused before its own attempts in the window
  have reached the limit, and no token before it expires or its holder signs out
  or exchanges it, however the lists are overwritten; the ban, which is on
  everybody for what anybody did, takes a wrong password within its duration, so
  that the attempts it rejects do not prolong it (`TurnedAwayRightly`).

### Findings

Six runs check what a document or a comment says and find it violated by what the
code does.

| run | what is said | what the code does |
|---|---|---|
| `Services_OneProbe` | one probe request is allowed when half open (circuit_breaker.py:16) | every thread is let through |
| `BookingFlow_CheckpointNeverRegresses` | no progress is lost on restart (src/README.md:55) | a resumed flow saves checkpoint 1 over its own when it finds the slot again |
| `BookingFlow_ResumeFindsPage` | the wizard resumes at its checkpoint on restart (src/README.md:167) | the steps behind the checkpoint are skipped by the program, while the browser is on the first page of a new booking |
| `BookingFlow_TransientFullBudget` | transient errors get the full retry budget (src/README.md:169) | the exception path sets no error text, so that every exception counts as permanent |
| `Services_HangIsReported` | a booking that hangs is reported (src/docs/BCP.md:15) | the heartbeat comes from whoever polls /heartbeat |
| `Services_AccountIsOwn` | a flow logs in with the student's email and password (src/README.md:153) | it continues in the account whose cookies were saved last |

Others are noted with the hazards, and bounded by a property that says how far
they go: the id that enqueue returns is that of the last pending row
(student_queue.py:20, `ReceiptMeansSelf`); a listing repeats the students of the
file once a run has saved them (webapp.py:1430, `CopiesBounded`); a confirmation
page that reads like an error makes the flow order again (booking_helper.py:2378,
`RepeatOnlyAfterMisread`); and the burst "10s before booking time, refreshes
every 2-3s" (src/README.md:151) is kept by no flow for certain, since one that
is scheduled waits until the booking time and one that polls may begin a rest of
minutes before the burst does (`ReactsInTime`). At the sign-in, attempts that
two threads count at once are lost, so that more get through than the limit;
`TurnedAwayRightly` is the other direction. Three more are behaviours of the
models, with properties that stop short of them:

* An item that is reported on by its id as a text, which the endpoints accept
  (webapp.py 72), is over and stays the active one (student_queue.py 51), unlike
  the one of src/tests/test_queue.py:20; `ActiveInProgress` excepts it.
* The count of failures is not reset when a ban is over, so that a single wrong
  password begins the next one (webapp.py 569), while src/README.md:51 has a ban
  for 30; `TurnedAwayRightly` asks for one.
* The listing of "DB + CSV + Sheets students (deduped by name+level+city)"
  (src/docs/session-summary.md:1691) has a student of a file whose column is
  named exam_level (src/README.md:131) once more from the sheet, since the merge
  looks at level only (webapp.py 1459); `CopiesBounded` is per key as the merge
  compares it.

### Bounds, and why they are enough

* `BookingFlow`: three launches and two crashes allow a resumed run to be
  interrupted and resumed again; one expired session hits each step. The second
  instance gives up retries for a second run, and lets an operator mark the
  row. Elsewhere the row is unmarked, so that what is found, and what
  `RepeatOnlyAfterMisread` says, is not about the operator's doing. All safety
  properties are also proved, for all bounds.
* `BotControl`: a third student queues for two permits, a second run starts
  while and after the first one ends; the switches `Scheduling`, `Impatient`,
  `Retryable` and `DbMayFail` add the behaviours that break `BookerSpec` only in
  the run that does not claim it.
* `Services`: two threads of the breaker make every race of a straggler and a
  waiting thread; its thresholds (2, 4, 4) and cooldowns (3, 1, 3) keep the order
  of the real ones, so that mixes of types lie between them; six failures trip
  the breaker, half-open it and trip it again, and so do the four of
  `Services_live`. The timeout of the dead man switch is two and a half of its
  intervals, as 300 s are of 120 s. Three rows of two priorities make a later
  one overtake an earlier one and be overtaken. Three schedulers are a
  request, one before it and one after. Three commands and log entries make a
  gap, a repetition and a reordering possible. The sheet has two rows, a cache
  of two ticks and an answer of one, so that a stamp can outlive its data.
  Two proxies and two flows clear and fill the blacklist under one another. The
  roster has a student, the same without a level, a file with the student in a
  column exam_level, and ids up to three: the file's row has another key than the
  same student on the sheet. A tick of
  `Polling` is so long that the burst is one before and six after the booking
  time, a page takes at most two and a rest at most four: every kind of wait can
  begin before and end after the booking time and the burst. The dashboard has
  two threads of one address, a limit of two in a window of two ticks, a ban after
  two wrong passwords, and two tokens. Clients of the queue, and callers, are
  symmetric. In
  `Services_live` and `Services_AccountIsOwn` the operator uploads no cookies
  but may delete them. A level of the schedule stands for all three, which are
  read one after another.

`MaxFailures`, `MaxLaunches`, `MaxCrashes`, `MaxExpiries`, `MaxId`, `MaxUpdate`,
`MaxEntry`, `MaxRows`, `MaxKey`, `MaxSize`, `MaxToken`, `LastMoment`, `Early`,
and the sets `Runs`, `Schedulers` and
`Refreshers` are bounds of the models, not of the code. The services of the
dashboard have an environment that can always do something, and deadlock is
checked in every run.

### Fairness

Weak fairness is assumed of a thread that can go on: a polling or waiting thread
of the breaker, a flow's own steps, the loops of a run and its workers, a
monitor, a scheduler, a call of the proxy pool, a login attempt, the closing of
a connection; and of the clock. All of these are threads of one process under a
preemptive scheduler, whose waits have timeouts (the event waits of 15 s,
POLL_TIMEOUT, the driver's 30 s), so that each comes back by itself. No fairness
is assumed of what others do: clients, the owner, the operator, the site, and
which way a step of the site goes. `WaitersReleased` and `GetReturns` therefore
have hypotheses, that the failures end and that others keep off the blacklist:
without them the code gives no such promise.

## What is proved

`CircuitBreakerProofs`, for every set of threads and all positive thresholds and
cooldowns (`BreakerAssumption`):

* `TypeCorrect`, `ClosedBudget`, `TrippedBudget`, `CooldownHolds`, and
  `ImplementsGate`, that the breaker refines `BreakerGate`.
* The argument: every step of the system is one of five steps of the breaker
  (`StepIsBreakerStep`), so that nothing depends on the client's place. The
  inductive invariant is `TypeOK` with `Budget`, the conjunction of the two
  budget properties, and that no cooldown is left unless the breaker is open,
  which the two alone do not say. `BandOfThresholds` gives the least and the
  greatest threshold, and `TotalSteps` how the sum of the failures moves.

`BookingFlowProofs`, for every set of concurrent runs of a student and all
bounds on retries, launches, crashes and expiries, whether or not an operator
marks the row (`FlowAssumption`), of a site whose booking button opens a new
booking (see above):

* `TypeCorrect`, `CheckpointIsHonest`, `StopIsBounded` and `BrowserNeverAhead`;
  and `OneOrder`, that a second order within one call of smart_retry is placed only
  after the page that followed the first was read as an error, when no other run has the
  student and no operator marks its row (`Alone`). Without that hypothesis it is
  false: what another run writes, or a SIGTERM that finds the row marked as
  running, takes back the row the order is noted in.
* The argument: `CheckpointHonest` is not inductive, since the checkpoint is
  read long before it is relied on. `IInv` adds that what a run read was honest
  (`ResumeHonest`), that a run has done, or resumed over, all steps behind it
  (`StepsBehind`), how far its browser can be (`PageBehind`), and that a run
  which began a step late cannot come back to a step (`LateOnce`). Steps by
  which a run goes on and those by which it ends are lemmas of their own
  (`RunsOn`, `RunEnds`, `EndIsSafe`). `OneOrder` needs more (`OnceInv`): the flow
  is called twice at most, and after an order either it has read an error off its
  last page, or the row is at 5 or 6 (`RowFollows`, `Ordered`), from where the
  second call skips the steps before the review.

`BotControlProofs`, for every finite set of students, all runs, request threads
and permits, with overlap, scheduled starts, retries and failing writes
(`ControlAssumption`):

* `TypeCorrect`, `PermitsAreConserved` and `RequeuesAreBounded`; and from the
  first, `NobodyWaitsAlone`: a worker that finds no permit has a colleague of the
  same run that holds one, so that workers never all wait for one another.
* When starts come one at a time (`OneByOne`: no scheduled start, nobody who asks
  for a restart before the old run is over, no retry by hand, one request thread):
  `ImplementsBooker`, that the bot refines `Booker`; and `BoardIsSettled`, if
  besides what is booked can be saved (`~DbMayFail`). The hypotheses are those of
  the run `BotControl_serial`. Overlapping starts break the first, which is a
  hazard above and not an accident of the proof; a write that raises kills its
  worker and leaves its student shown as it was.
* The argument: every step of the system leaves permits, counts and workers
  alone or is one of four moves of one worker (`StepOfWorkers`), of which two
  change who holds a permit (`HoldersMove`). That the semaphore stays within its
  bound is not inductive by itself; it follows from the sum being conserved.
  `Serial` says what one start at a time means: at most one run is alive, whoever
  may still start one has found the bot off, and only an open run has workers in
  work. `Settling` adds what the board shows: a worker that is over has left a
  final status, and a run that has not begun to work has an empty board. A
  settled board alone is not inductive, since the bot is switched off by a step
  that does not look at it.

`StudentQueueProofs`, for all clients, priorities and numbers of students
(`QueueAssumption`):

* `TypeCorrect`, `ActiveIsInProgress`, `ReceiptIsOwn`, and
  `ImplementsWaitingRoom`, that the queue refines `WaitingRoom`, with reports on
  any id, by anybody, at any time, as a number or a text.
* The argument: the code looks neither at the status nor at the caller of a
  report, so that the proof may not rely on clients that report only what they
  hold. What it rests on is `HeldAlone`: only a student in progress, whom nobody
  has reported on since, is with a client, and with one only. With it each method
  is one step of the room (`EnqueueArrives`, `DequeueCalls`, `ReportSends`) or,
  for ids without a row, none; a restart is none.

`TelegramPollProofs`, for all commands and numbers of them
(`TelegramAssumption`):

* `TypeCorrect`, and `ImplementsMailbox`, that the poll refines `Mailbox`.
* The argument is one of accounting: every command was handled, is being
  handled, is in the batch, or is kept by Telegram behind the offset
  (`ForgottenHandled`, `PassedHandled`, `BatchWhole`, `OffsetBetween`).

`DeadManProofs`, for all monitors, timeouts and intervals
(`DeadManAssumption`):

* `TypeCorrect`, `NoFalseAlarm` and `NoLateAlarm`.
* The argument: `AlarmInTime` speaks of waiting monitors only. `AgeAtPlace` adds
  how old the heartbeat may be at the other places of a monitor's loop.

`PollingProofs`, for all durations with `PollingAssumption`:

* `TypeCorrect` and `Reacts`.
* The argument: the time that has passed and the rest of what the flow is doing
  add up to a deadline, and a tick moves one from the other (`StopBudget`,
  `OpeningBudget`). `PollingAssumption` says that a page and the rest after it
  are shorter than the burst. With the code's values that is so for pages that
  take less than some 150 seconds; the code sets no limit on loading a page.

`ServicesProofs`, for all constants of all services (`ServicesAssumption`), every
invariant, every action property and every refinement that the run `Services` checks. A behaviour of
`Services`, seen by the variables of one service, is one of that service
(`SwitchRuns`, `FuseRuns`, `BoardRuns` and so on).

* Carried over from the modules above: `ClosedBudget`, `TrippedBudget`,
  `CooldownHolds`, `ImplementsGate`, `NoFalseAlarm`, `NoLateAlarm`,
  `ActiveIsInProgress`, `ReceiptIsOwn`, `ImplementsWaitingRoom`,
  `ImplementsMailbox`, `Reacts`.
* `FlagIsCleared` (`ScheduleCache`): the property is inductive with the types;
  several refreshes may be under way, and the flag is set only by one that will
  clear it.
* `IdleIsDone` (`Gui`): `RunIsNested`, that the bot thread lives within a run, the
  flows live while the bot thread joins them, and the end of a run is posted by
  its last act.
* `NothingMissed` (`LogStream`): `InOrder`, that the queue holds the entries from
  the one after the last sent to the last pushed, and that whoever is registered
  has got the last one sent, or none at all.
* `ServesFresh` (`Sheet`): `CacheIsYoung`. Data and stamp may come from different
  loads; the data is older than the stamp says by one answer at most, and a thread
  between its two stores has just stored data.
* `WritesHit` (`Sheet`): `RowsAreFound`, for the writers whose sheet has not been
  disturbed since they read it; `RowRemoved` and `RowInserted` say what an edit
  does to the other rows.
* `StaleIdsAreHarmless` (`Roster`): `IdsName`. An id names one student, and none
  that was ever shown is above the last one given out, which never goes down.
* `CopiesAreBounded` (`Roster`), for files that have no key twice (`NoTwins`):
  `RowsBounded` counts the rows of a student, and those of a run that is about to
  save them, against how often the student was added and the listing saved
  (`HitsOfConcat`, `HitsOfPicked`, `UnseenOnce`). The loader does not look for
  twins within a file, so that a file that has a key n times lists it n
  times from the beginning, and the bound, which counts a file as one, is false
  of it. With a column exam_level the keys lack the level, and such a file may
  have one twice although it names two students.
* `RefusalsHaveReasons` (`Dashboard`): the threads of one address overwrite one
  another's lists, so that the list is neither the attempts let in nor a part of
  them. What holds (`Counted`) is that at no moment, now or later, more of its
  times are in the window than of the attempts let in; and the list a thread has
  filtered and not yet stored is such a list too (`Tested`). A ban ends no later than its
  duration after a wrong password that is still remembered (`BanInv`). A token that is not
  in the table was given back or has expired (`Gone`), and a thread that is about
  to make a session has room for it within the bound (`Room`).
* `TypeCorrect`: the types of all services. Four need more than the types
  (`PoolTyped`: a flow that probes has a proxy; `LoginFits`: a login that injects
  cookies has some; `EntriesFit`: no viewer is ahead of the log; `SheetFits`: the
  sheet has no more rows than its bound).

Three theorems prove what some liveness properties rest on and needs no fairness.
They do not say that a thread goes on, only that no step of any actor keeps it
from its end:

* `RequestsComeDue`, for `StandingIsServed`: a request that is neither cancelled
  nor served has a scheduler thread, the event that would send it away is clear,
  and its thread only goes on, towards starting the bot.
* `LoginsDescend`, for `LoginSettles`: a login has nine steps at most
  (`StepsLeft`), and every step of its own leaves fewer, while the operator, expiry
  and the logins of others leave them as they are.
* `ThreadsAreFreed`, for `ThreadsExit`: when one thread of a forwarded connection
  has ended, both sockets are shut down, so that the other is not blocked in recv;
  and nothing that is down comes up again before the connection is closed.

Some of these are about counting, by induction over numbers. The induction
theorems of the library take an operator, which the provers cannot instantiate;
`Least` and `Greatest` of `StudentQueueProofs`, that a set of numbers has a least
and a bounded one a greatest element, do without. `Subsequences` is written for
`NthIs`, `PickedIs` and `RankIs`, which say that a filter keeps the order of a list
and every element that passes.

Only model-checked: the liveness properties `WaitersReleased`, `StopTerminates`,
`StopEndsRuns`, `SilenceIsReported`, `StandingIsServed`, `GetReturns`,
`LoginSettles` and `ThreadsExit`, since fairness and ENABLED are out of the
prover's reach (for three of them all but that step is proved, see above); and what the runs that expect a violation show. No specification
uses a recursive operator.

## What is not modelled

* The DOM work: which selectors find a field, what is typed, stealth, captchas.
  Its outcomes are choices of the site.
* Passwords, two-factor codes and encryption: calls of libraries. Of the
  dashboard's requests, `Dashboard` has those about signing in; which of the
  other endpoints ask for a session is not modelled.
* database.py, the SQLAlchemy layer that the dashboard uses instead of db.py
  when DATABASE_URL names PostgreSQL, while the flows stay on SQLite. The models
  have one database; with two, the checkpoints of the flows and the rows the
  dashboard shows drift apart.
* async_worker.py and plugin_manager.py, which nothing imports; notifications,
  the language model of the assistant, the page in frontend/, the scripts and
  the deployment files.

## Plan

Order of work: what books exams and what may book them wrongly first (breaker,
flow, control), then the services around it, then proofs.

1. Done: the modules above, their runs and theorems.
2. Next, the model: the flows of the command line (booking_helper.py 2434-2478)
   beside those of the dashboard; the fallback file of the schedule, which the
   refresh of each level overwrites with that one level (goethe_scraper.py 139);
   the refresh of the schedule while the sheet is filled; the two databases; and
   an abstract specification of the log stream (an entry is delivered once, in
   order).
3. Then, proofs: done for every safety property of the passing runs. What is added
   to the model under 2 is to come with its invariants, and an abstract
   specification of the log stream with its refinement.
