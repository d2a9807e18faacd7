---------------------------- MODULE ServicesProofs ----------------------------
(***************************************************************************)
(* What is proved about single services holds of all of them together.  A   *)
(* behaviour of Services, seen by the variables of one service, is one of   *)
(* that service; the theorems of its proof module apply.                    *)
(***************************************************************************)
EXTENDS Services, Subsequences, SequenceTheorems, FunctionTheorems,
        FiniteSetTheorems, TLAPS

\* The modules of the services once more, with their theorems.  The names below
\* and those of Services mean the same of the same variables.
Switch == INSTANCE DeadManProofs
Line == INSTANCE StudentQueueProofs
Inbox == INSTANCE TelegramPollProofs
Timing == INSTANCE PollingProofs
Fuse == INSTANCE CircuitBreakerProofs

-----------------------------------------------------------------------------
(* The dead man switch.                                                     *)

LEMMA SwitchRuns == Spec => Switch!Spec
<1>1. Init => Switch!Init
  BY DEF Init, Dead!Init, Switch!Init
<1>2. Dead!Next => Switch!Next
  BY DEF Dead!Next, Switch!Next, Dead!MonitorStep, Switch!MonitorStep,
         Dead!Ping, Switch!Ping, Dead!StopMonitor, Switch!StopMonitor,
         Dead!Hang, Switch!Hang, Dead!Tick, Switch!Tick, Dead!StartMonitor,
         Switch!StartMonitor, Dead!Loop, Switch!Loop, Dead!WaitOver,
         Switch!WaitOver, Dead!Check, Switch!Check, Dead!Alert, Switch!Alert,
         Dead!Goto, Switch!Goto, Dead!monitorVars, Switch!monitorVars,
         Dead!Longest, Switch!Longest
<1>3. [Next]_vars => [Switch!Next]_(Switch!vars)
  BY <1>2 DEF Next, vars, Alone, deadManVars, Switch!vars, Switch!monitorVars
<1> QED
  BY <1>1, <1>3, PTL DEF Spec, Switch!Spec

LEMMA SwitchAssumed == Switch!DeadManAssumption
BY ServicesAssumption DEF Dead!DeadManAssumption, Switch!DeadManAssumption

\* The dead man switch gives no alarm while its heartbeat is young enough.
THEOREM NoFalseAlarm == Spec => []DeadMeansSilent
<1>1. Switch!Spec => []Switch!DeadMeansSilent
  BY Switch!NoFalseAlarm, SwitchAssumed
<1>2. Switch!DeadMeansSilent => DeadMeansSilent
  BY DEF DeadMeansSilent, Dead!DeadMeansSilent, Switch!DeadMeansSilent
<1> QED
  BY <1>1, <1>2, SwitchRuns, PTL

\* It gives its alarm not later than the timeout and one interval.
THEOREM NoLateAlarm == Spec => []AlarmInTime
<1>1. Switch!Spec => []Switch!AlarmInTime
  BY Switch!NoLateAlarm, SwitchAssumed
<1>2. Switch!AlarmInTime => AlarmInTime
  BY DEF AlarmInTime, Dead!AlarmInTime, Switch!AlarmInTime
<1> QED
  BY <1>1, <1>2, SwitchRuns, PTL

-----------------------------------------------------------------------------
(* The student queue.                                                       *)

LEMMA LineRuns == Spec => Line!Spec
<1>1. Init => Line!Init
  BY DEF Init, Queue!Init, Line!Init, Queue!None, Line!None
<1>2. Queue!Next => Line!Next
  BY Zenon DEF Queue!Next, Line!Next, Queue!Enqueue, Line!Enqueue, Queue!Dequeue,
         Line!Dequeue, Queue!Complete, Line!Complete, Queue!Fail, Line!Fail,
         Queue!Reset, Line!Reset, Queue!Report, Line!Report, Queue!LetGo,
         Line!LetGo, Queue!SetStatus, Line!SetStatus, Queue!Clear, Line!Clear,
         Queue!Restart, Line!Restart, Queue!ghostVars, Line!ghostVars,
         Queue!FirstPending, Line!FirstPending, Queue!Pending, Line!Pending,
         Queue!Before, Line!Before, Queue!Ids, Line!Ids, Queue!None, Line!None
<1>3. [Next]_vars => [Line!Next]_(Line!vars)
  BY <1>2 DEF Next, vars, Alone, studentQueueVars, Line!vars, Line!ghostVars
<1> QED
  BY <1>1, <1>3, PTL DEF Spec, Line!Spec

LEMMA LineAssumed == Line!QueueAssumption
BY ServicesAssumption DEF Queue!QueueAssumption, Line!QueueAssumption

\* The queue's active student is in progress, but for ids sent as texts.
THEOREM ActiveIsInProgress == Spec => []ActiveInProgress
<1>1. Line!Spec => []Line!ActiveInProgress
  BY Line!ActiveIsInProgress, LineAssumed
<1>2. Line!ActiveInProgress => ActiveInProgress
  BY DEF ActiveInProgress, Queue!ActiveInProgress, Line!ActiveInProgress,
         Queue!None, Line!None, Queue!Ids, Line!Ids
<1> QED
  BY <1>1, <1>2, LineRuns, PTL

\* The queue keeps the promise of the waiting room.
THEOREM ImplementsWaitingRoom == Spec => RoomSpec
<1>1. Line!Spec => Line!RoomSpec
  BY Line!ImplementsWaitingRoom, LineAssumed
<1>2. Line!Room!Init => Queue!Room!Init
  BY DEF Queue!Room!Init, Line!Room!Init, Queue!Ids, Line!Ids, Queue!Place,
         Line!Place
<1>3. Line!Room!Next => Queue!Room!Next
  BY DEF Queue!Room!Next, Line!Room!Next, Queue!Room!Arrive, Line!Room!Arrive,
         Queue!Room!Clear, Line!Room!Clear, Queue!Room!Call,
         Line!Room!Call, Queue!Room!Send, Line!Room!Send, Queue!Room!Move,
         Line!Room!Move, Queue!Room!Present, Line!Room!Present,
         Queue!Room!Waiting, Line!Room!Waiting, Queue!Room!Behind,
         Line!Room!Behind, Queue!Ids, Line!Ids, Queue!Place, Line!Place
<1>4. UNCHANGED Line!Room!vars => UNCHANGED Queue!Room!vars
  BY DEF Queue!Room!vars, Line!Room!vars, Queue!Ids, Line!Ids, Queue!Place,
         Line!Place
<1>5. Line!Room!Spec => Queue!Room!Spec
  BY <1>2, <1>3, <1>4, PTL DEF Line!Room!Spec, Queue!Room!Spec
<1> QED
  BY <1>1, <1>5, LineRuns, PTL DEF RoomSpec, Queue!RoomSpec, Line!RoomSpec

\* The id that enqueue returns is the new student's own, unless somebody of lower
\* priority is waiting.
THEOREM ReceiptIsOwn == Spec => ReceiptMeansSelf
<1> DEFINE InLine == \A i \in Line!Ids' \ Line!Ids :
                       \/ Line!LastPending' = i
                       \/ rows'[Line!LastPending'].priority < rows'[i].priority
           InQueue == \A i \in Queue!Ids' \ Queue!Ids :
                       \/ Queue!LastPending' = i
                       \/ rows'[Queue!LastPending'].priority < rows'[i].priority
<1>1. Line!Spec => [][InLine]_(Line!vars)
  BY Line!ReceiptIsOwn, LineAssumed DEF Line!ReceiptMeansSelf
<1>2. [InLine]_(Line!vars) => [InQueue]_(Queue!vars)
  BY DEF Line!vars, Queue!vars, Line!ghostVars, Queue!ghostVars,
         Line!LastPending, Queue!LastPending,
         Line!Pending, Queue!Pending, Line!Before, Queue!Before, Line!Ids,
         Queue!Ids
<1> QED
  BY <1>1, <1>2, LineRuns, PTL DEF ReceiptMeansSelf, Queue!ReceiptMeansSelf

-----------------------------------------------------------------------------
(* The circuit breaker.                                                     *)

LEMMA FuseRuns == Spec => Fuse!Spec
<1>1. Init => Fuse!Init
  BY DEF Init, Breaker!Init, Fuse!Init, Breaker!NoFailures, Fuse!NoFailures,
         Breaker!Types, Fuse!Types
<1>2. ASSUME NEW c \in Flows, Breaker!Client(c) PROVE Fuse!Client(c)
  BY <1>2 DEF Breaker!Client, Fuse!Client, Breaker!StartFlow, Fuse!StartFlow,
         Breaker!BrowserUp, Fuse!BrowserUp, Breaker!AskToPoll, Fuse!AskToPoll,
         Breaker!PollAgain, Fuse!PollAgain, Breaker!PollFailed,
         Fuse!PollFailed, Breaker!SlotFound, Fuse!SlotFound,
         Breaker!FlowFailed, Fuse!FlowFailed, Breaker!FlowFailedQuietly,
         Fuse!FlowFailedQuietly, Breaker!AskToRetry, Fuse!AskToRetry,
         Breaker!Leave, Fuse!Leave, Breaker!AllowRequest, Fuse!AllowRequest,
         Breaker!RecordFailure, Fuse!RecordFailure, Breaker!CloseBreaker,
         Fuse!CloseBreaker, Breaker!Goto, Fuse!Goto, Breaker!Total, Fuse!Total,
         Breaker!NoFailures, Fuse!NoFailures, Breaker!Types, Fuse!Types
<1>3. Breaker!Next => Fuse!Next
  BY <1>2 DEF Breaker!Next, Fuse!Next, Breaker!Reset, Fuse!Reset,
         Breaker!Tick, Fuse!Tick, Breaker!CloseBreaker, Fuse!CloseBreaker,
         Breaker!NoFailures, Fuse!NoFailures, Breaker!Types, Fuse!Types
<1>4. [Next]_vars => [Fuse!Next]_(Fuse!vars)
  BY <1>3 DEF Next, vars, Alone, circuitBreakerVars, Fuse!vars
<1> QED
  BY <1>1, <1>4, PTL DEF Spec, Fuse!Spec

LEMMA FuseAssumed == Fuse!BreakerAssumption
BY ServicesAssumption DEF Breaker!BreakerAssumption, Fuse!BreakerAssumption,
   Breaker!Types, Fuse!Types

\* However the failures of the threads mix, the breaker is not closed at the
\* largest threshold.
THEOREM ClosedBudget == Spec => []ClosedWithinBudget
<1>1. Fuse!Spec => []Fuse!ClosedWithinBudget
  BY Fuse!ClosedBudget, FuseAssumed
<1>2. Fuse!ClosedWithinBudget => ClosedWithinBudget
  BY DEF ClosedWithinBudget, Breaker!ClosedWithinBudget,
         Fuse!ClosedWithinBudget, Breaker!Total, Fuse!Total, Breaker!Types,
         Fuse!Types
<1> QED
  BY <1>1, <1>2, FuseRuns, PTL

\* It is not open or half-open before the smallest threshold.
THEOREM TrippedBudget == Spec => []TrippedOnlyByFailures
<1>1. Fuse!Spec => []Fuse!TrippedOnlyByFailures
  BY Fuse!TrippedBudget, FuseAssumed
<1>2. Fuse!TrippedOnlyByFailures => TrippedOnlyByFailures
  BY DEF TrippedOnlyByFailures, Breaker!TrippedOnlyByFailures,
         Fuse!TrippedOnlyByFailures, Breaker!Total, Fuse!Total, Breaker!Types,
         Fuse!Types
<1> QED
  BY <1>1, <1>2, FuseRuns, PTL

\* It lets nobody through during its cooldown.
THEOREM CooldownHolds == Spec => CooldownRespected
<1>1. Fuse!Spec => Fuse!CooldownRespected
  BY Fuse!CooldownHolds, FuseAssumed
<1>2. [Fuse!Permission => left = 0]_(Fuse!vars)
        => [Breaker!Permission => left = 0]_(Breaker!vars)
  BY DEF Fuse!Permission, Breaker!Permission, Fuse!vars, Breaker!vars
<1> QED
  BY <1>1, <1>2, FuseRuns, PTL
     DEF CooldownRespected, Breaker!CooldownRespected, Fuse!CooldownRespected

\* It keeps the promise of the gate.
THEOREM ImplementsGate == Spec => GateSpec
<1>1. Fuse!Spec => Fuse!GateSpec
  BY Fuse!ImplementsGate, FuseAssumed
<1> USE DEF Breaker!Total, Fuse!Total, Breaker!Types, Fuse!Types, Breaker!Low,
            Fuse!Low, Breaker!High, Fuse!High
<1>2. Fuse!Gate!Init => Breaker!Gate!Init
  BY DEF Breaker!Gate!Init, Fuse!Gate!Init
<1>3. Fuse!Gate!Next => Breaker!Gate!Next
  BY DEF Breaker!Gate!Next, Fuse!Gate!Next, Breaker!Gate!Strike,
         Fuse!Gate!Strike, Breaker!Gate!Forgive, Fuse!Gate!Forgive,
         Breaker!Gate!Expire, Fuse!Gate!Expire
<1>4. UNCHANGED Fuse!Gate!gateVars => UNCHANGED Breaker!Gate!gateVars
  BY DEF Breaker!Gate!gateVars, Fuse!Gate!gateVars
<1>5. Fuse!Gate!Spec => Breaker!Gate!Spec
  BY <1>2, <1>3, <1>4, PTL DEF Fuse!Gate!Spec, Breaker!Gate!Spec
<1> QED
  BY <1>1, <1>5, FuseRuns, PTL
     DEF GateSpec, Breaker!GateSpec, Fuse!GateSpec

-----------------------------------------------------------------------------
(* The Telegram commander.                                                  *)

LEMMA InboxRuns == Spec => Inbox!Spec
<1>1. Init => Inbox!Init
  BY DEF Init, Telegram!Init, Inbox!Init
<1>2. Telegram!Next => Inbox!Next
  BY DEF Telegram!Next, Inbox!Next, Telegram!Send, Inbox!Send,
         Telegram!StartPolling, Inbox!StartPolling, Telegram!StopPolling,
         Inbox!StopPolling, Telegram!Fetch, Inbox!Fetch, Telegram!FetchFails,
         Inbox!FetchFails, Telegram!Take, Inbox!Take, Telegram!Handle,
         Inbox!Handle, Telegram!Pause, Inbox!Pause, Telegram!RestartPolling,
         Inbox!RestartPolling, Telegram!Commands, Inbox!Commands
<1>3. [Next]_vars => [Inbox!Next]_(Inbox!vars)
  BY <1>2 DEF Next, vars, Alone, telegramPollVars, Inbox!vars
<1> QED
  BY <1>1, <1>3, PTL DEF Spec, Inbox!Spec

LEMMA InboxAssumed == Inbox!TelegramAssumption
BY ServicesAssumption DEF Telegram!TelegramAssumption, Inbox!TelegramAssumption

\* The commander keeps the promise of the mailbox.
THEOREM ImplementsMailbox == Spec => MailboxSpec
<1>1. Inbox!Spec => Inbox!MailboxSpec
  BY Inbox!ImplementsMailbox, InboxAssumed
<1>2. Inbox!Box!Init => Telegram!Box!Init
  BY DEF Telegram!Box!Init, Inbox!Box!Init, Telegram!Commands, Inbox!Commands
<1>3. Inbox!Box!Next => Telegram!Box!Next
  BY DEF Telegram!Box!Next, Inbox!Box!Next, Telegram!Box!Send, Inbox!Box!Send,
         Telegram!Box!NewLife, Inbox!Box!NewLife, Telegram!Box!Read,
         Inbox!Box!Read, Telegram!Box!vars, Inbox!Box!vars, Telegram!Commands,
         Inbox!Commands
<1>4. UNCHANGED Inbox!Box!vars => UNCHANGED Telegram!Box!vars
  BY DEF Telegram!Box!vars, Inbox!Box!vars
<1>5. Inbox!Box!Spec => Telegram!Box!Spec
  BY <1>2, <1>3, <1>4, PTL DEF Inbox!Box!Spec, Telegram!Box!Spec
<1> QED
  BY <1>1, <1>5, InboxRuns, PTL
     DEF MailboxSpec, Telegram!MailboxSpec, Inbox!MailboxSpec

-----------------------------------------------------------------------------
(* The poll for a slot.                                                     *)

LEMMA TimingRuns == Spec => Timing!Spec
<1>1. Init => Timing!Init
  BY DEF Init, Poll!Init, Timing!Init
<1>2. Poll!Next => Timing!Next
  BY DEF Poll!Next, Timing!Next, Poll!Begin, Timing!Begin, Poll!SeeStop,
         Timing!SeeStop, Poll!ScheduledWait, Timing!ScheduledWait, Poll!Head,
         Timing!Head, Poll!Held, Timing!Held, Poll!Allowed, Timing!Allowed,
         Poll!Woken, Timing!Woken, Poll!ApiSaysNo, Timing!ApiSaysNo,
         Poll!ApiPasses, Timing!ApiPasses, Poll!Blocked, Timing!Blocked,
         Poll!NoSlot, Timing!NoSlot, Poll!NoFinder, Timing!NoFinder,
         Poll!PageFails, Timing!PageFails, Poll!SlotFound, Timing!SlotFound,
         Poll!RequestStop, Timing!RequestStop, Poll!ClearStop,
         Timing!ClearStop, Poll!Tick, Timing!Tick, Poll!Leave, Timing!Leave,
         Poll!Do, Timing!Do, Poll!InBurst, Timing!InBurst, Poll!Attentive,
         Timing!Attentive, Poll!Blind, Timing!Blind, Poll!Heads, Timing!Heads,
         Poll!StopMax, Timing!StopMax
<1>3. [Next]_vars => [Timing!Next]_(Timing!vars)
  BY <1>2 DEF Next, vars, Alone, pollingVars, Timing!vars
<1> QED
  BY <1>1, <1>3, PTL DEF Spec, Timing!Spec

LEMMA TimingAssumed == Timing!PollingAssumption
BY ServicesAssumption DEF Poll!PollingAssumption, Timing!PollingAssumption

\* The poll answers the opening and a stop request in bounded time.
THEOREM Reacts == Spec => []ReactsInTime
<1>1. Timing!Spec => []Timing!ReactsInTime
  BY Timing!Reacts, TimingAssumed
<1>2. Timing!ReactsInTime => ReactsInTime
  BY DEF ReactsInTime, Poll!ReactsInTime, Timing!ReactsInTime,
         Poll!OpeningIsSeen, Timing!OpeningIsSeen, Poll!StopSeenInTime,
         Timing!StopSeenInTime, Poll!StopMax, Timing!StopMax
<1> QED
  BY <1>1, <1>2, TimingRuns, PTL

-----------------------------------------------------------------------------
(* The exam schedule.                                                       *)

LEMMA ExamsRun == Spec => Exams!Spec
<1>1. Init => Exams!Init
  BY DEF Init
<1>2. [Next]_vars => [Exams!Next]_(Exams!vars)
  BY DEF Next, vars, Alone, scheduleCacheVars, Exams!vars, Exams!refreshVars
<1> QED
  BY <1>1, <1>2, PTL DEF Spec, Exams!Spec

LEMMA ExamsTyped == ASSUME Exams!TypeOK, [Exams!Next]_(Exams!vars)
                    PROVE  Exams!TypeOK'
<1> USE DEF Exams!TypeOK, Exams!Goto, Exams!refreshVars
<1>1. CASE Exams!Expire
  <2>1. fresh' \in BOOLEAN
    BY <1>1, Zenon DEF Exams!Expire
  <2> QED
    BY <1>1, <2>1 DEF Exams!Expire
<1>2. ASSUME NEW c \in Callers, Exams!Get(c) \/ Exams!LookAtFlag(c)
      PROVE  Exams!TypeOK'
  BY <1>2 DEF Exams!Get, Exams!LookAtFlag
<1>3. ASSUME NEW c \in Callers, Exams!Claim(c) PROVE Exams!TypeOK'
  <2>1. inProgress' \in BOOLEAN
    BY <1>3, Zenon DEF Exams!Claim
  <2> QED
    BY <1>3, <2>1 DEF Exams!Claim
<1>4. ASSUME NEW c \in Callers, Exams!StartRefresh(c) PROVE Exams!TypeOK'
  BY <1>4 DEF Exams!StartRefresh, Exams!Threads
<1>5. ASSUME NEW c \in Callers, Exams!Force(c) PROVE Exams!TypeOK'
  BY <1>5 DEF Exams!Force, Exams!Threads
<1>6. ASSUME NEW t \in Exams!Threads, Exams!Store(t)
      PROVE  /\ schedule' \in SUBSET Levels /\ fresh' \in BOOLEAN
             /\ found' \in [Exams!Threads -> SUBSET Levels]
  <2>1. fresh' \in BOOLEAN
    BY <1>6, Zenon DEF Exams!Store
  <2> QED
    BY <1>6, <2>1 DEF Exams!Store
<1>7. ASSUME NEW c \in Callers, Exams!ForcedEnds(c) PROVE Exams!TypeOK'
  BY <1>6, <1>7 DEF Exams!ForcedEnds, Exams!Threads
<1>8. ASSUME NEW r \in Refreshers, Exams!RefreshEnds(r) PROVE Exams!TypeOK'
  <2>1. inProgress' \in BOOLEAN
    BY <1>8, Zenon DEF Exams!RefreshEnds
  <2> QED
    BY <1>6, <1>8, <2>1 DEF Exams!RefreshEnds, Exams!Threads
<1>9. ASSUME NEW t \in Exams!Threads, Exams!ScrapeLevel(t) PROVE Exams!TypeOK'
  BY <1>9 DEF Exams!ScrapeLevel, Exams!Entries
<1>10. CASE UNCHANGED Exams!vars
  BY <1>10 DEF Exams!vars
<1> QED
  BY <1>1, <1>2, <1>3, <1>4, <1>5, <1>7, <1>8, <1>9, <1>10
     DEF Exams!Next, Exams!CallerStep

\* A thread that starts a refresh hands the flag over to it, and a refresh takes
\* the flag down with it when it ends, whoever else has put it up meanwhile.
LEMMA FlagKept ==
  ASSUME Exams!TypeOK, Exams!FlagHasRefresh, [Exams!Next]_(Exams!vars)
  PROVE  Exams!FlagHasRefresh'
<1> USE DEF Exams!TypeOK, Exams!FlagHasRefresh, Exams!Goto
<1>1. CASE Exams!Expire
  BY <1>1 DEF Exams!Expire
<1>2. ASSUME NEW c \in Callers,
             Exams!Get(c) \/ Exams!Force(c) \/ Exams!LookAtFlag(c)
      PROVE  Exams!FlagHasRefresh'
  BY <1>2 DEF Exams!Get, Exams!Force, Exams!LookAtFlag
<1>3. ASSUME NEW c \in Callers, Exams!Claim(c) PROVE Exams!FlagHasRefresh'
  BY <1>3 DEF Exams!Claim
<1>4. ASSUME NEW c \in Callers, Exams!StartRefresh(c)
      PROVE  Exams!FlagHasRefresh'
  <2>1. PICK r \in Refreshers :
               refresher' = [refresher EXCEPT ![r] = "reading"]
    BY <1>4 DEF Exams!StartRefresh
  <2> QED
    BY <2>1
<1>5. ASSUME NEW c \in Callers, Exams!ForcedEnds(c)
      PROVE  Exams!FlagHasRefresh'
  BY <1>5 DEF Exams!ForcedEnds, Exams!Store, Exams!Reading
<1>6. ASSUME NEW r \in Refreshers, Exams!RefreshEnds(r)
      PROVE  Exams!FlagHasRefresh'
  BY <1>6, Zenon DEF Exams!RefreshEnds
<1>7. ASSUME NEW t \in Exams!Threads, Exams!ScrapeLevel(t)
      PROVE  Exams!FlagHasRefresh'
  BY <1>7 DEF Exams!ScrapeLevel
<1>8. CASE UNCHANGED Exams!vars
  BY <1>8 DEF Exams!vars
<1> QED
  BY <1>1, <1>2, <1>3, <1>4, <1>5, <1>6, <1>7, <1>8
     DEF Exams!Next, Exams!CallerStep

\* The flag is never left set without a refresh that will clear it, however many
\* callers find it clear at the same time and however their refreshes end.
THEOREM FlagIsCleared == Spec => []FlagHasRefresh
<1> DEFINE I == Exams!TypeOK /\ Exams!FlagHasRefresh
<1>1. Exams!Init => I
  <2>1. Exams!Init => fresh \in BOOLEAN /\ inProgress \in BOOLEAN
    BY Zenon DEF Exams!Init
  <2> QED
    BY <2>1 DEF Exams!Init, Exams!TypeOK, Exams!FlagHasRefresh
<1>2. I /\ [Exams!Next]_(Exams!vars) => I'
  BY ExamsTyped, FlagKept
<1>3. I => FlagHasRefresh
  BY DEF FlagHasRefresh
<1> QED
  BY <1>1, <1>2, <1>3, ExamsRun, PTL DEF Exams!Spec

-----------------------------------------------------------------------------
(* The desktop window.                                                      *)

LEMMA WindowRuns == Spec => Window!Spec
<1>1. Init => Window!Init
  BY DEF Init
<1>2. [Next]_vars => [Window!Next]_(Window!vars)
  BY DEF Next, vars, Alone, guiVars, Window!vars
<1> QED
  BY <1>1, <1>2, PTL DEF Spec, Window!Spec

\* The bot thread lives within a run, the flows live while it joins them, and
\* the end of the run is posted by its last act.
RunIsNested ==
  /\ botThread # "none" => running
  /\ \A c \in Cards : flow[c] # "none" => botThread = "joining"
  /\ posted => running /\ botThread = "none"

LEMMA WindowTyped == ASSUME Window!TypeOK, [Window!Next]_(Window!vars)
                     PROVE  Window!TypeOK'
<1> USE DEF Window!TypeOK, Window!Texts, Window!Show
<1>1. /\ running' \in BOOLEAN /\ guiStop' \in BOOLEAN
      /\ posted' \in BOOLEAN /\ torn' \in BOOLEAN
  BY Zenon DEF Window!Next, Window!vars, Window!StartBot, Window!StopBot,
     Window!RebuildCards, Window!RunStep, Window!Spawn, Window!Join,
     Window!WriteOutcome, Window!OnBotFinished, Window!FlowEnds
<1>2. botThread' \in {"none", "spawning", "joining", "writing"}
  BY DEF Window!Next, Window!vars, Window!StartBot, Window!StopBot,
     Window!RebuildCards, Window!RunStep, Window!Spawn, Window!Join,
     Window!WriteOutcome, Window!OnBotFinished, Window!FlowEnds
<1>3. flow' \in [Cards -> {"none", "booking"}]
  BY DEF Window!Next, Window!vars, Window!StartBot, Window!StopBot,
     Window!RebuildCards, Window!RunStep, Window!Spawn, Window!Join,
     Window!WriteOutcome, Window!OnBotFinished, Window!FlowEnds
<1>4. \/ card' = card
      \/ \E c \in Cards, text \in Window!Texts :
           card' = [card EXCEPT ![c] = text]
      \/ \E text \in Window!Texts : Window!Show(text)
  BY DEF Window!Next, Window!vars, Window!StartBot, Window!StopBot,
     Window!RebuildCards, Window!RunStep, Window!Spawn, Window!Join,
     Window!WriteOutcome, Window!OnBotFinished, Window!FlowEnds
<1>5. card' \in [Cards -> Window!Texts]
  BY <1>4
<1> QED
  BY <1>1, <1>2, <1>3, <1>5

LEMMA NestingKept ==
  ASSUME Window!TypeOK, RunIsNested, [Window!Next]_(Window!vars)
  PROVE  RunIsNested'
<1> USE DEF RunIsNested, Window!TypeOK
<1>1. CASE Window!StartBot
  BY <1>1, Zenon DEF Window!StartBot
<1>2. CASE Window!StopBot
  BY <1>2 DEF Window!StopBot
<1>3. CASE Window!RebuildCards
  BY <1>3 DEF Window!RebuildCards
<1>4. CASE Window!Spawn
  BY <1>4 DEF Window!Spawn
<1>5. CASE Window!Join
  BY <1>5 DEF Window!Join
<1>6. CASE Window!WriteOutcome
  BY <1>6 DEF Window!WriteOutcome
<1>7. CASE Window!OnBotFinished
  BY <1>7, Zenon DEF Window!OnBotFinished
<1>8. ASSUME NEW c \in Cards, Window!FlowEnds(c) PROVE RunIsNested'
  BY <1>8 DEF Window!FlowEnds
<1>9. CASE UNCHANGED Window!vars
  BY <1>9 DEF Window!vars
<1> QED
  BY <1>1, <1>2, <1>3, <1>4, <1>5, <1>6, <1>7, <1>8, <1>9
     DEF Window!Next, Window!RunStep

\* Two runs of the desktop window never overlap: when it takes the run for over,
\* its bot thread and all its flows have ended, torn cards or not.
THEOREM IdleIsDone == Spec => []IdleMeansDone
<1> DEFINE I == Window!TypeOK /\ RunIsNested
<1>1. Window!Init => I
  <2>1. Window!Init => /\ running \in BOOLEAN /\ guiStop \in BOOLEAN
                       /\ posted \in BOOLEAN /\ torn \in BOOLEAN
                       /\ ~posted
    BY Zenon DEF Window!Init
  <2> QED
    BY <2>1 DEF Window!Init, Window!TypeOK, Window!Texts, RunIsNested
<1>2. I /\ [Window!Next]_(Window!vars) => I'
  BY WindowTyped, NestingKept
<1>3. I => IdleMeansDone
  BY DEF RunIsNested, IdleMeansDone, Window!IdleMeansDone
<1> QED
  BY <1>1, <1>2, <1>3, WindowRuns, PTL DEF Window!Spec

-----------------------------------------------------------------------------
(* The stream of log entries.                                               *)

LEMMA LogRuns == Spec => Log!Spec
<1>1. Init => Log!Init
  BY DEF Init
<1>2. [Next]_vars => [Log!Next]_(Log!vars)
  BY DEF Next, vars, Alone, logStreamVars, Log!vars
<1> QED
  BY <1>1, <1>2, PTL DEF Spec, Log!Spec

\* The last entry that was sent, to whoever was there.
Broadcasted == pushed - Len(logQueue) - (IF sending = 0 THEN 0 ELSE 1)

\* The entries wait in the order they were pushed, the one that is being sent is
\* the first of them, and whoever is registered has got the last one that was
\* sent, or none at all.
InOrder ==
  /\ pushed \in Nat /\ sending \in Nat /\ logQueue \in Seq(Nat)
  /\ Broadcasted \in Nat
  /\ \A i \in 1..Len(logQueue) : logQueue[i] = pushed - Len(logQueue) + i
  /\ sending # 0 => sending = Broadcasted + 1
  /\ viewers \in SUBSET Viewers /\ broken \in SUBSET Viewers
  /\ seen \in [Viewers -> Nat]
  /\ \A v \in viewers : seen[v] \in {0, Broadcasted}

LEMMA OrderKept == ASSUME InOrder, [Log!Next]_(Log!vars) PROVE InOrder'
<1> USE DEF InOrder, Broadcasted
<1>1. CASE Log!Push
  <2>1. /\ pushed' = pushed + 1
        /\ logQueue' = Append(logQueue, pushed + 1)
        /\ UNCHANGED <<sending, viewers, broken, seen>>
    BY <1>1 DEF Log!Push
  <2>2. /\ logQueue' \in Seq(Nat) /\ Len(logQueue') = Len(logQueue) + 1
        /\ \A i \in 1..Len(logQueue) : logQueue'[i] = logQueue[i]
        /\ logQueue'[Len(logQueue) + 1] = pushed + 1
    BY <2>1, AppendProperties
  <2>3. ASSUME NEW i \in 1..Len(logQueue')
        PROVE  logQueue'[i] = pushed' - Len(logQueue') + i
    BY <2>1, <2>2
  <2>4. UNCHANGED Broadcasted /\ pushed' \in Nat
    BY <2>1, <2>2
  <2> QED
    BY <2>1, <2>2, <2>3, <2>4
<1>2. CASE Log!TakeEntry
  <2>1. /\ sending = 0 /\ logQueue # << >>
        /\ sending' = Head(logQueue) /\ logQueue' = Tail(logQueue)
        /\ UNCHANGED <<pushed, viewers, broken, seen>>
    BY <1>2 DEF Log!TakeEntry
  <2>2. /\ logQueue' \in Seq(Nat) /\ Len(logQueue') = Len(logQueue) - 1
        /\ \A i \in 1..Len(logQueue') : logQueue'[i] = logQueue[i + 1]
        /\ sending' = logQueue[1] /\ Len(logQueue) > 0
    BY <2>1, HeadTailProperties
  <2>3. sending' = pushed - Len(logQueue) + 1
    BY <2>2
  <2>4. sending' # 0 /\ sending' \in Nat
    BY <2>1, <2>3
  <2>5. UNCHANGED Broadcasted
    BY <2>1, <2>2, <2>4
  <2>6. ASSUME NEW i \in 1..Len(logQueue')
        PROVE  logQueue'[i] = pushed' - Len(logQueue') + i
    BY <2>1, <2>2
  <2> QED
    BY <2>1, <2>2, <2>3, <2>4, <2>5, <2>6
<1>3. CASE Log!Broadcast
  <2>1. /\ sending # 0 /\ sending' = 0 /\ viewers' = viewers \ broken
        /\ seen' = [v \in Viewers |->
                      IF v \in viewers \ broken THEN sending ELSE seen[v]]
        /\ UNCHANGED <<pushed, logQueue, broken>>
    BY <1>3 DEF Log!Broadcast
  <2>2. Broadcasted = pushed - Len(logQueue) - 1 /\ Len(logQueue) \in Nat
    BY <2>1
  <2>3. Broadcasted' = pushed - Len(logQueue) /\ Broadcasted' = sending
    BY <2>1, <2>2
  <2>4. viewers' \in SUBSET Viewers /\ broken' \in SUBSET Viewers
    BY <2>1
  <2>5. seen' \in [Viewers -> Nat]
    BY <2>1
  <2>6. \A v \in viewers' : seen'[v] = sending
    BY <2>1
  <2> QED
    BY <2>1, <2>3, <2>4, <2>5, <2>6
<1>4. ASSUME NEW v \in Viewers, Log!Register(v) PROVE InOrder'
  <2>1. /\ UNCHANGED <<pushed, logQueue, sending>>
        /\ viewers' = viewers \cup {v} /\ broken' = broken \ {v}
        /\ seen' = [seen EXCEPT ![v] = 0]
    BY <1>4 DEF Log!Register
  <2>2. seen' \in [Viewers -> Nat] /\ Broadcasted' = Broadcasted
    BY <2>1
  <2>3. \A w \in viewers' : seen'[w] \in {0, Broadcasted}
    BY <2>1
  <2> QED
    BY <2>1, <2>2, <2>3
<1>5. ASSUME NEW v \in Viewers, Log!Unregister(v) \/ Log!Falter(v)
      PROVE  InOrder'
  <2>1. /\ UNCHANGED <<pushed, logQueue, sending, seen>>
        /\ viewers' \subseteq viewers /\ broken' \subseteq broken \cup {v}
    BY <1>5 DEF Log!Unregister, Log!Falter
  <2> QED
    BY <2>1
<1>6. CASE UNCHANGED Log!vars
  BY <1>6 DEF Log!vars
<1> QED
  BY <1>1, <1>2, <1>3, <1>4, <1>5, <1>6 DEF Log!Next

\* A viewer of the log sees every entry from its first one on, in order, however
\* connections come, go and fail while entries are pushed and sent.
THEOREM NothingMissed == Spec => NoGaps
<1> DEFINE Gapless == \A v \in Viewers :
      seen[v] # 0 /\ seen'[v] # 0 => seen'[v] \in {seen[v], seen[v] + 1}
<1>1. Log!Init => InOrder
  BY DEF Log!Init, InOrder, Broadcasted
<1>2. InOrder /\ [Log!Next]_(Log!vars) => InOrder'
  BY OrderKept
<1>3. InOrder /\ [Log!Next]_(Log!vars) => [Gapless]_(Log!vars)
  <2>1. ASSUME InOrder, Log!Broadcast PROVE Gapless
    BY <2>1 DEF Log!Broadcast, InOrder, Broadcasted
  <2>2. ASSUME InOrder, NEW v \in Viewers, Log!Register(v) PROVE Gapless
    BY <2>2 DEF Log!Register, InOrder
  <2>3. ASSUME UNCHANGED seen PROVE Gapless
    BY <2>3
  <2> QED
    BY <2>1, <2>2, <2>3 DEF Log!Next, Log!vars, Log!Push, Log!TakeEntry,
       Log!Unregister, Log!Falter
<1>4. Log!Spec => [][Gapless]_(Log!vars)
  BY <1>1, <1>2, <1>3, PTL DEF Log!Spec
<1> QED
  BY <1>4, LogRuns, PTL DEF NoGaps, Log!NoGaps

-----------------------------------------------------------------------------
(* The sheet of students.                                                   *)

LEMMA SheetsRun == Spec => Sheets!Spec
<1>1. Init => Sheets!Init
  BY DEF Init
<1>2. [Next]_vars => [Sheets!Next]_(Sheets!vars)
  BY DEF Next, vars, Alone, sheetVars, Sheets!vars, Sheets!loadVars,
         Sheets!writeVars
<1> QED
  BY <1>1, <1>2, PTL DEF Spec, Sheets!Spec

LEMMA SheetAssumed == /\ Names # {} /\ Sheets!Anyone \in Names
                      /\ MaxRows \in Nat /\ TTL \in Nat /\ Latency \in Nat
BY ServicesAssumption DEF Sheets!SheetAssumption, Sheets!Anyone

\* The content of a sheet that loses or gets a row.
LEMMA RowRemoved ==
  ASSUME NEW S, NEW s \in Seq(S), NEW i \in 1..Len(s)
  PROVE  /\ Sheets!RemoveAt(s, i) \in Seq(S)
         /\ Len(Sheets!RemoveAt(s, i)) = Len(s) - 1
<1>1. /\ SubSeq(s, 1, i - 1) \in Seq(S) /\ Len(SubSeq(s, 1, i - 1)) = i - 1
      /\ SubSeq(s, i + 1, Len(s)) \in Seq(S)
      /\ Len(SubSeq(s, i + 1, Len(s))) = Len(s) - i
  <2>1. i - 1 \in Int /\ i + 1 \in Int /\ Len(s) \in Int /\ 1 \in Int
    OBVIOUS
  <2>2. /\ \A j \in 1..(i - 1) : s[j] \in S
        /\ \A j \in (i + 1)..Len(s) : s[j] \in S
    OBVIOUS
  <2> QED
    BY <2>1, <2>2, SubSeqProperties
<1>2. PICK a \in Seq(S), b \in Seq(S) :
        /\ a = SubSeq(s, 1, i - 1) /\ Len(a) = i - 1
        /\ b = SubSeq(s, i + 1, Len(s)) /\ Len(b) = Len(s) - i
  BY <1>1
<1>3. a \o b \in Seq(S) /\ Len(a \o b) = Len(a) + Len(b)
  BY ConcatProperties
<1>4. Sheets!RemoveAt(s, i) = a \o b
  BY <1>2, Zenon DEF Sheets!RemoveAt
<1>5. Len(a) + Len(b) = Len(s) - 1
  <2>1. i \in Int /\ Len(s) \in Int
    OBVIOUS
  <2>2. Len(a) = i - 1 /\ Len(b) = Len(s) - i
    BY <1>2, Zenon
  <2> QED
    BY <2>1, <2>2
<1> QED
  BY <1>3, <1>4, <1>5, Zenon

LEMMA RowInserted ==
  ASSUME NEW S, NEW s \in Seq(S), NEW i \in 1..(Len(s) + 1), NEW e \in S
  PROVE  /\ Sheets!InsertAt(s, i, e) \in Seq(S)
         /\ Len(Sheets!InsertAt(s, i, e)) = Len(s) + 1
<1>1. /\ SubSeq(s, 1, i - 1) \in Seq(S) /\ Len(SubSeq(s, 1, i - 1)) = i - 1
      /\ SubSeq(s, i, Len(s)) \in Seq(S)
      /\ Len(SubSeq(s, i, Len(s))) = Len(s) - i + 1
  <2>1. i - 1 \in Int /\ i \in Int /\ Len(s) \in Int /\ 1 \in Int
    OBVIOUS
  <2>2. /\ \A j \in 1..(i - 1) : s[j] \in S
        /\ \A j \in i..Len(s) : s[j] \in S
    OBVIOUS
  <2> QED
    BY <2>1, <2>2, SubSeqProperties
<1>2. PICK a \in Seq(S), b \in Seq(S) :
        /\ a = SubSeq(s, 1, i - 1) /\ Len(a) = i - 1
        /\ b = SubSeq(s, i, Len(s)) /\ Len(b) = Len(s) - i + 1
  BY <1>1
<1> DEFINE one == <<e>>
<1>3. a \o one \in Seq(S) /\ Len(a \o one) = i
  <2>1. one \in Seq(S) /\ Len(one) = 1
    OBVIOUS
  <2> HIDE DEF one
  <2>2. a \o one \in Seq(S) /\ Len(a \o one) = Len(a) + Len(one)
    BY <2>1, ConcatProperties
  <2> QED
    BY <1>2, <2>1, <2>2
<1>4. PICK c \in Seq(S) : c = a \o one /\ Len(c) = i
  BY <1>3
<1>5. c \o b \in Seq(S) /\ Len(c \o b) = Len(c) + Len(b)
  BY ConcatProperties
<1>6. Sheets!InsertAt(s, i, e) = c \o b
  BY <1>2, <1>4, Zenon DEF Sheets!InsertAt
<1>7. Len(c) + Len(b) = Len(s) + 1
  <2>1. i \in Int /\ Len(s) \in Int
    OBVIOUS
  <2>2. Len(c) = i /\ Len(b) = Len(s) - i + 1
    BY <1>2, <1>4, Zenon
  <2> QED
    BY <2>1, <2>2
<1> QED
  BY <1>5, <1>6, <1>7, Zenon

SheetFits == Sheets!TypeOK /\ Len(sheet) <= MaxRows

LEMMA SheetTyped ==
  ASSUME SheetFits, [Sheets!Next]_(Sheets!vars) PROVE SheetFits'
<1> USE SheetAssumed DEF SheetFits, Sheets!TypeOK, Sheets!Oldest, Sheets!NoData
<1>1. sheet' \in Seq(Names) /\ Len(sheet') <= MaxRows
  <2>1. CASE Sheets!EditByHand
    <3>1. CASE \E i \in DOMAIN sheet : sheet' = Sheets!RemoveAt(sheet, i)
      BY <3>1, RowRemoved
    <3>2. CASE /\ Len(sheet) < MaxRows
               /\ \E i \in 1..(Len(sheet) + 1), n \in Names :
                    sheet' = Sheets!InsertAt(sheet, i, n)
      BY <3>2, RowInserted
    <3> QED
      BY <2>1, <3>1, <3>2 DEF Sheets!EditByHand
  <2>2. ASSUME NEW c \in Callers, Sheets!DeleteRow(c)
        PROVE  sheet' \in Seq(Names) /\ Len(sheet') <= MaxRows
    BY <2>2, RowRemoved DEF Sheets!DeleteRow
  <2>3. ASSUME NEW c \in Callers, NEW n \in Names, Sheets!AppendStudent(c, n)
        PROVE  sheet' \in Seq(Names) /\ Len(sheet') <= MaxRows
    BY <2>3, AppendProperties DEF Sheets!AppendStudent
  <2>4. CASE UNCHANGED sheet
    BY <2>4
  <2> QED
    BY <2>1, <2>2, <2>3, <2>4 DEF Sheets!Next, Sheets!vars, Sheets!SheetTick,
       Sheets!LoadHit, Sheets!ReturnCached, Sheets!LoadMiss, Sheets!Answered,
       Sheets!StoreData, Sheets!StoreTs, Sheets!BustData, Sheets!BustTs,
       Sheets!FillRow, Sheets!Find
<1>2. /\ cacheAge' \in 0..(TTL + Latency + 2)
      /\ cacheTs' \in 0..(TTL + Latency + 1)
  <2>1. CASE Sheets!SheetTick
    BY <2>1 DEF Sheets!SheetTick, Sheets!Older
  <2>2. ASSUME NEW c \in Callers, Sheets!StoreData(c) \/ Sheets!StoreTs(c)
        PROVE  /\ cacheAge' \in 0..(TTL + Latency + 2)
               /\ cacheTs' \in 0..(TTL + Latency + 1)
    <3>1. answer[c] \in 0..Latency /\ asked[c] \in 0..(TTL + Latency + 1)
      OBVIOUS
    <3> QED
      BY <2>2, <3>1 DEF Sheets!StoreData, Sheets!StoreTs
  <2>3. ASSUME NEW c \in Callers, Sheets!BustData(c) \/ Sheets!BustTs(c)
        PROVE  /\ cacheAge' \in 0..(TTL + Latency + 2)
               /\ cacheTs' \in 0..(TTL + Latency + 1)
    BY <2>3 DEF Sheets!BustData, Sheets!BustTs
  <2>4. CASE UNCHANGED <<cacheAge, cacheTs>>
    BY <2>4
  <2> QED
    BY <2>1, <2>2, <2>3, <2>4 DEF Sheets!Next, Sheets!vars,
       Sheets!LoadHit, Sheets!ReturnCached, Sheets!LoadMiss, Sheets!Answered,
       Sheets!FillRow, Sheets!Find, Sheets!DeleteRow, Sheets!AppendStudent,
       Sheets!EditByHand
<1>3. call' \in [Callers -> {"idle", "returning", "asking", "answered",
                             "stamping", "deleting", "filling", "busting",
                             "bustingTs"}]
  BY DEF Sheets!Next, Sheets!vars, Sheets!SheetTick,
       Sheets!LoadHit, Sheets!ReturnCached, Sheets!LoadMiss, Sheets!Answered,
       Sheets!StoreData, Sheets!StoreTs, Sheets!BustData, Sheets!BustTs,
       Sheets!FillRow, Sheets!Find, Sheets!DeleteRow, Sheets!AppendStudent,
       Sheets!EditByHand, Sheets!Goto
<1>4. /\ asked' \in [Callers -> 0..(TTL + Latency + 1)]
      /\ answer' \in [Callers -> 0..Latency]
  <2>1. CASE Sheets!SheetTick
    BY <2>1 DEF Sheets!SheetTick, Sheets!Older
  <2>2. ASSUME NEW c \in Callers, Sheets!Forget(c)
        PROVE  /\ asked' \in [Callers -> 0..(TTL + Latency + 1)]
               /\ answer' \in [Callers -> 0..Latency]
    BY <2>2 DEF Sheets!Forget
  <2>3. CASE UNCHANGED <<asked, answer>>
    BY <2>3
  <2> QED
    BY <2>1, <2>2, <2>3 DEF Sheets!Next, Sheets!vars,
       Sheets!LoadHit, Sheets!ReturnCached, Sheets!LoadMiss, Sheets!Answered,
       Sheets!StoreData, Sheets!StoreTs, Sheets!BustData, Sheets!BustTs,
       Sheets!FillRow, Sheets!Find, Sheets!DeleteRow, Sheets!AppendStudent,
       Sheets!EditByHand, Sheets!loadVars
<1>5. target' \in [Callers -> Names] /\ row' \in [Callers -> 0..MaxRows]
  <2>1. ASSUME NEW c \in Callers, NEW n \in Names, NEW next,
               Sheets!Find(c, n, next)
        PROVE  target' \in [Callers -> Names] /\ row' \in [Callers -> 0..MaxRows]
    <3>1. PICK i \in DOMAIN sheet : row' = [row EXCEPT ![c] = i]
      BY <2>1, Zenon DEF Sheets!Find, Sheets!Rows
    <3>2. i \in 0..MaxRows
      OBVIOUS
    <3> QED
      BY <2>1, <3>1, <3>2 DEF Sheets!Find
  <2>2. ASSUME NEW c \in Callers, Sheets!ForgetRow(c)
        PROVE  target' \in [Callers -> Names] /\ row' \in [Callers -> 0..MaxRows]
    BY <2>2 DEF Sheets!ForgetRow
  <2>3. CASE UNCHANGED <<target, row>>
    BY <2>3
  <2> QED
    BY <2>1, <2>2, <2>3 DEF Sheets!Next, Sheets!vars, Sheets!SheetTick,
       Sheets!LoadHit, Sheets!ReturnCached, Sheets!LoadMiss, Sheets!Answered,
       Sheets!StoreData, Sheets!StoreTs, Sheets!BustData, Sheets!BustTs,
       Sheets!FillRow, Sheets!DeleteRow, Sheets!AppendStudent,
       Sheets!EditByHand, Sheets!writeVars
<1>6. disturbed' \in [Callers -> BOOLEAN]
  BY DEF Sheets!Next, Sheets!vars, Sheets!SheetTick,
       Sheets!LoadHit, Sheets!ReturnCached, Sheets!LoadMiss, Sheets!Answered,
       Sheets!StoreData, Sheets!StoreTs, Sheets!BustData, Sheets!BustTs,
       Sheets!FillRow, Sheets!Find, Sheets!DeleteRow, Sheets!AppendStudent,
       Sheets!EditByHand, Sheets!writeVars, Sheets!Disturb, Sheets!Writing
<1> QED
  BY <1>1, <1>2, <1>3, <1>4, <1>5, <1>6

-----------------------------------------------------------------------------
(* The age of what the sheet's cache serves.                                *)

\* Data and time stamp of the cache may come from different loads, but the data
\* is older than the stamp says by no more than an answer takes, and a thread
\* on the way to its stamp has just stored data.  Who is about to return the
\* cache has found the stamp good in the same moment.
CacheIsYoung ==
  /\ cacheAge # Sheets!NoData => cacheAge <= cacheTs + Latency
  /\ \A c \in Callers :
       /\ call[c] = "stamping" =>
            cacheAge = Sheets!NoData \/ cacheAge <= Latency
       /\ call[c] = "returning" =>
            /\ 0 < TTL
            /\ cacheAge = Sheets!NoData \/ cacheAge < TTL + Latency

LEMMA YouthKept ==
  ASSUME SheetFits, CacheIsYoung, [Sheets!Next]_(Sheets!vars)
  PROVE  CacheIsYoung'
<1> USE SheetAssumed DEF SheetFits, Sheets!TypeOK, CacheIsYoung,
                         Sheets!Oldest, Sheets!NoData, Sheets!Goto
<1>1. CASE Sheets!EditByHand
  BY <1>1 DEF Sheets!EditByHand
<1>2. CASE Sheets!SheetTick
  <2>1. /\ \A c \in Callers : call[c] \notin {"returning", "stamping"}
        /\ call' = call
    BY <1>2 DEF Sheets!SheetTick
  <2>2. /\ cacheAge' = IF cacheAge = Sheets!NoData THEN Sheets!NoData
                                                   ELSE Sheets!Older(cacheAge)
        /\ cacheTs' = Sheets!Older(cacheTs)
    BY <1>2 DEF Sheets!SheetTick
  <2>3. cacheAge' # Sheets!NoData => cacheAge' <= cacheTs' + Latency
    BY <2>2 DEF Sheets!Older
  <2> QED
    BY <2>1, <2>3
<1>3. ASSUME NEW c \in Callers, Sheets!LoadHit(c) PROVE CacheIsYoung'
  BY <1>3 DEF Sheets!LoadHit
<1>4. ASSUME NEW c \in Callers, Sheets!LoadMiss(c) \/ Sheets!ReturnCached(c)
      PROVE  CacheIsYoung'
  BY <1>4 DEF Sheets!LoadMiss, Sheets!ReturnCached
<1>5. ASSUME NEW c \in Callers, Sheets!Answered(c) PROVE CacheIsYoung'
  BY <1>5 DEF Sheets!Answered
<1>6. ASSUME NEW c \in Callers, Sheets!StoreData(c) PROVE CacheIsYoung'
  <2>1. cacheAge' \in 0..Latency /\ cacheTs' = cacheTs
    BY <1>6 DEF Sheets!StoreData
  <2>2. \A d \in Callers : call'[d] = "returning" => call[d] = "returning"
    BY <1>6 DEF Sheets!StoreData
  <2> QED
    BY <2>1, <2>2
<1>7. ASSUME NEW c \in Callers, Sheets!StoreTs(c) PROVE CacheIsYoung'
  <2>1. /\ call[c] = "stamping" /\ cacheAge' = cacheAge
        /\ cacheTs' = asked[c] /\ call' = [call EXCEPT ![c] = "idle"]
    BY <1>7 DEF Sheets!StoreTs
  <2>2. asked[c] \in 0..(TTL + Latency + 1)
    OBVIOUS
  <2> QED
    BY <2>1, <2>2
<1>8. ASSUME NEW c \in Callers, Sheets!BustData(c) \/ Sheets!BustTs(c)
      PROVE  CacheIsYoung'
  <2>1. \/ cacheAge' = Sheets!NoData
        \/ cacheAge' = cacheAge /\ cacheTs' = TTL + Latency + 1
    BY <1>8 DEF Sheets!BustData, Sheets!BustTs
  <2>2. \A d \in Callers : \/ call'[d] = call[d]
                           \/ call'[d] \notin {"stamping", "returning"}
    BY <1>8 DEF Sheets!BustData, Sheets!BustTs
  <2>3. cacheAge' # Sheets!NoData => cacheAge' <= cacheTs' + Latency
    BY <2>1
  <2>4. cacheAge' = Sheets!NoData \/ cacheAge' = cacheAge
    BY <2>1
  <2> QED
    BY <2>2, <2>3, <2>4
<1>9. ASSUME NEW c \in Callers, Sheets!DeleteRow(c) \/ Sheets!FillRow(c)
      PROVE  CacheIsYoung'
  BY <1>9 DEF Sheets!DeleteRow, Sheets!FillRow
<1>10. ASSUME NEW c \in Callers, NEW n \in Names,
              \/ Sheets!Find(c, n, "deleting") \/ Sheets!Find(c, n, "filling")
              \/ Sheets!AppendStudent(c, n)
       PROVE  CacheIsYoung'
  BY <1>10 DEF Sheets!Find, Sheets!AppendStudent
<1>11. CASE UNCHANGED Sheets!vars
  BY <1>11 DEF Sheets!vars
<1> QED
  BY <1>1, <1>2, <1>3, <1>4, <1>5, <1>6, <1>7, <1>8, <1>9, <1>10, <1>11
     DEF Sheets!Next

LEMMA SheetStarts ==
  ASSUME Sheets!Init PROVE SheetFits /\ CacheIsYoung
<1>1. /\ sheet \in Seq(Names) /\ Len(sheet) = 0
      /\ disturbed \in [Callers -> BOOLEAN]
  BY DEF Sheets!Init
<1>2. \A c \in Callers : call[c] = "idle"
  BY DEF Sheets!Init
<1> QED
  BY <1>1, <1>2, SheetAssumed DEF Sheets!Init, SheetFits, Sheets!TypeOK,
     CacheIsYoung, Sheets!Oldest, Sheets!NoData

\* The dashboard is never shown students older than the cache's time to live and
\* the time of an answer, although threads store data and stamp apart.
THEOREM ServesFresh == Spec => ServedFresh
<1> DEFINE I == SheetFits /\ CacheIsYoung
           Fresh == \A c \in Callers :
             /\ call[c] = "returning" /\ call'[c] = "idle"
             /\ cacheAge # Sheets!NoData
             => cacheAge < TTL + Latency
<1>1. Sheets!Init => I
  BY SheetStarts
<1>2. I /\ [Sheets!Next]_(Sheets!vars) => I'
  BY SheetTyped, YouthKept
<1>3. I => [Fresh]_(Sheets!vars)
  BY DEF CacheIsYoung
<1>4. Sheets!Spec => [][Fresh]_(Sheets!vars)
  BY <1>1, <1>2, <1>3, PTL DEF Sheets!Spec
<1> QED
  BY <1>4, SheetsRun, PTL DEF ServedFresh, Sheets!ServedFresh

-----------------------------------------------------------------------------
(* The rows the sheet is written to by number.                              *)

\* The row a writer has found is there and is its student's, unless the rows
\* have moved since.
RowsAreFound ==
  \A c \in Callers :
    Sheets!Writing(c) /\ ~disturbed[c]
      => row[c] \in 1..Len(sheet) /\ sheet[row[c]] = target[c]

LEMMA FoundKept ==
  ASSUME SheetFits, RowsAreFound, [Sheets!Next]_(Sheets!vars)
  PROVE  RowsAreFound'
<1> USE DEF SheetFits, Sheets!TypeOK, RowsAreFound, Sheets!Writing, Sheets!Goto
<1>1. ASSUME NEW by, Sheets!Disturb(by), UNCHANGED call,
             \A c \in by : ~Sheets!Writing(c)
      PROVE  RowsAreFound'
  BY <1>1 DEF Sheets!Disturb
<1>2. CASE Sheets!EditByHand
  BY <1>1, <1>2 DEF Sheets!EditByHand
<1>3. ASSUME NEW c \in Callers, Sheets!DeleteRow(c) PROVE RowsAreFound'
  <2>1. /\ \A d \in Callers \ {c} : call'[d] = call[d]
        /\ call'[c] \notin {"deleting", "filling"}
    BY <1>3 DEF Sheets!DeleteRow
  <2>2. /\ \A d \in Callers \ {c} : row'[d] = row[d] /\ target'[d] = target[d]
    BY <1>3 DEF Sheets!DeleteRow, Sheets!ForgetRow
  <2>3. CASE Sheets!Disturb({c})
    BY <2>1, <2>3 DEF Sheets!Disturb
  <2>4. CASE /\ sheet' = sheet
             /\ disturbed' = [disturbed EXCEPT ![c] = FALSE]
    <3>1. \A d \in Callers \ {c} : disturbed'[d] = disturbed[d]
      BY <2>4, Zenon
    <3> QED
      BY <2>1, <2>2, <2>4, <3>1
  <2> QED
    BY <1>3, <2>3, <2>4 DEF Sheets!DeleteRow
<1>4. ASSUME NEW c \in Callers, Sheets!FillRow(c) PROVE RowsAreFound'
  <2>1. /\ \A d \in Callers \ {c} : call'[d] = call[d]
        /\ call'[c] = "idle" /\ sheet' = sheet
    BY <1>4 DEF Sheets!FillRow
  <2>2. \A d \in Callers \ {c} : row'[d] = row[d] /\ target'[d] = target[d]
    BY <1>4 DEF Sheets!FillRow, Sheets!ForgetRow
  <2>3. \A d \in Callers \ {c} : disturbed'[d] = disturbed[d]
    BY <1>4, Zenon DEF Sheets!FillRow
  <2> QED
    BY <2>1, <2>2, <2>3
<1>5. ASSUME NEW c \in Callers, NEW n \in Names, NEW next,
             Sheets!Find(c, n, next)
      PROVE  RowsAreFound'
  <2>1. PICK i \in 1..Len(sheet) :
               sheet[i] = n /\ row' = [row EXCEPT ![c] = i]
    <3>1. PICK i \in DOMAIN sheet :
                 sheet[i] = n /\ row' = [row EXCEPT ![c] = i]
      BY <1>5, Zenon DEF Sheets!Find, Sheets!Rows
    <3>2. DOMAIN sheet = 1..Len(sheet)
      BY LenProperties
    <3> QED
      BY <3>1, <3>2, Zenon
  <2>2. /\ target' = [target EXCEPT ![c] = n]
        /\ call' = [call EXCEPT ![c] = next]
        /\ UNCHANGED <<sheet, disturbed>>
    BY <1>5 DEF Sheets!Find
  <2> QED
    BY <2>1, <2>2
<1>6. ASSUME NEW c \in Callers, NEW n \in Names, Sheets!AppendStudent(c, n)
      PROVE  RowsAreFound'
  <2>1. /\ Len(sheet') = Len(sheet) + 1
        /\ \A i \in 1..Len(sheet) : sheet'[i] = sheet[i]
    BY <1>6, AppendProperties DEF Sheets!AppendStudent
  <2>2. UNCHANGED <<call, target, row, disturbed>>
    BY <1>6 DEF Sheets!AppendStudent, Sheets!writeVars
  <2>3. ASSUME NEW i \in 1..Len(sheet)
        PROVE  i \in 1..Len(sheet') /\ sheet'[i] = sheet[i]
    BY <2>1
  <2> QED
    BY <2>2, <2>3
<1>7. ASSUME NEW c \in Callers, NEW l, call[c] \notin {"deleting", "filling"},
             l \notin {"deleting", "filling"},
             \/ call' = [call EXCEPT ![c] = l] \/ call' = call,
             UNCHANGED <<sheet, target, row, disturbed>>
      PROVE  RowsAreFound'
  BY <1>7
<1>8. ASSUME NEW c \in Callers,
             \/ Sheets!LoadHit(c) \/ Sheets!ReturnCached(c)
             \/ Sheets!LoadMiss(c) \/ Sheets!StoreData(c)
             \/ Sheets!StoreTs(c) \/ Sheets!BustData(c) \/ Sheets!BustTs(c)
      PROVE  RowsAreFound'
  BY <1>7, <1>8 DEF Sheets!LoadHit, Sheets!ReturnCached, Sheets!LoadMiss,
     Sheets!StoreData, Sheets!StoreTs, Sheets!BustData, Sheets!BustTs,
     Sheets!writeVars
<1>9. ASSUME NEW c \in Callers, Sheets!Answered(c) PROVE RowsAreFound'
  BY <1>7, <1>9 DEF Sheets!Answered, Sheets!writeVars
<1>10. CASE Sheets!SheetTick \/ UNCHANGED Sheets!vars
  BY <1>10 DEF Sheets!SheetTick, Sheets!vars, Sheets!writeVars
<1> QED
  BY <1>2, <1>3, <1>4, <1>5, <1>6, <1>8, <1>9, <1>10 DEF Sheets!Next

\* A row of the sheet is deleted or filled only for the student it belongs to,
\* unless the rows have moved since its number was read.
THEOREM WritesHit == Spec => WritesHitTheirRow
<1> DEFINE I == SheetFits /\ RowsAreFound
           Hit == \A c \in Callers :
             Sheets!Writing(c) /\ call'[c] # call[c] /\ row[c] \in DOMAIN sheet
               => sheet[row[c]] = target[c] \/ disturbed[c]
<1>1. Sheets!Init => I
  <2>1. Sheets!Init => SheetFits
    BY SheetStarts
  <2>2. Sheets!Init => RowsAreFound
    BY DEF Sheets!Init, RowsAreFound, Sheets!Writing
  <2> QED
    BY <2>1, <2>2
<1>2. I /\ [Sheets!Next]_(Sheets!vars) => I'
  BY SheetTyped, FoundKept
<1>3. I => [Hit]_(Sheets!vars)
  BY DEF RowsAreFound
<1>4. Sheets!Spec => [][Hit]_(Sheets!vars)
  BY <1>1, <1>2, <1>3, PTL DEF Sheets!Spec
<1> QED
  BY <1>4, SheetsRun, PTL DEF WritesHitTheirRow, Sheets!WritesHitTheirRow

-----------------------------------------------------------------------------
(* What a filter keeps of a sequence.                                       *)

LEMMA IsSequence ==
  ASSUME NEW S, NEW n \in Nat, NEW f \in [1..n -> S]
  PROVE  f \in Seq(S) /\ Len(f) = n /\ DOMAIN f = 1..n
<1>1. f \in Seq(S)
  BY SeqDef
<1> QED
  BY <1>1

\* A set of n numbers has a k-th smallest for every k up to n.
LEMMA NthIs ==
  ASSUME NEW n \in Nat, NEW P \in SUBSET (1..n), NEW k \in 1..Cardinality(P)
  PROVE  /\ Nth(P, k) \in P
         /\ Cardinality({j \in P : j < Nth(P, k)}) = k - 1
<1> DEFINE Below(i) == {j \in P : j < i}
<1>0. P \in SUBSET Nat
  OBVIOUS
<1>1. IsFiniteSet(P) /\ Cardinality(P) \in Nat
  <2>1. IsFiniteSet(1..n)
    BY FS_Interval
  <2> QED
    BY <2>1, FS_Subset, FS_CardinalityType
<1>2. ASSUME NEW i
      PROVE  IsFiniteSet(Below(i)) /\ Cardinality(Below(i)) \in Nat
  BY <1>1, FS_Subset, FS_CardinalityType
<1>3. ASSUME NEW Q \in SUBSET P, Q # {}
      PROVE  \E x \in Q : \A y \in Q : y <= x
  <2>1. Q \in SUBSET (0..n)
    OBVIOUS
  <2> QED
    BY <1>3, <2>1, Line!Greatest, LineAssumed
<1> DEFINE B == {i \in P : Cardinality(Below(i)) >= k - 1}
<1>4. B # {}
  <2>1. P # {}
    BY FS_EmptySet
  <2>2. PICK x \in P : \A y \in P : y <= x
    BY <1>3, <2>1
  <2>3. Below(x) = P \ {x}
    <3>1. x \in Nat /\ \A y \in P : y \in Nat /\ y <= x
      BY <1>0, <2>2
    <3>2. \A y \in P : y < x <=> y # x
      BY <3>1
    <3> QED
      BY <3>2
  <2>4. Cardinality(Below(x)) = Cardinality(P) - 1
    BY <1>1, <2>3, FS_RemoveElement
  <2>5. Cardinality(Below(x)) >= k - 1
    BY <1>1, <2>4
  <2> QED
    BY <2>5
<1>5. PICK m \in B : \A i \in B : m <= i
  <2>1. B \in SUBSET Nat
    BY <1>0
  <2> QED
    BY <1>4, <2>1, Line!Least, LineAssumed
<1>6. Cardinality(Below(m)) = k - 1
  <2> SUFFICES ASSUME Cardinality(Below(m)) # k - 1 PROVE FALSE
    OBVIOUS
  <2>1. Cardinality(Below(m)) >= k
    BY <1>2, <1>5
  <2>2. Below(m) # {}
    BY <2>1, FS_EmptySet
  <2>3. PICK x \in Below(m) : \A y \in Below(m) : y <= x
    BY <1>3, <2>2
  <2>4. Below(x) = Below(m) \ {x}
    <3>1. /\ x \in Nat /\ m \in Nat /\ x \in P /\ x < m
          /\ \A y \in P : y \in Nat /\ (y < m => y <= x)
      BY <1>0, <2>3
    <3>2. \A y \in P : y < x <=> y < m /\ y # x
      BY <3>1
    <3> QED
      BY <3>2
  <2>5. Cardinality(Below(x)) = Cardinality(Below(m)) - 1
    <3>1. IsFiniteSet(Below(m)) /\ x \in Below(m)
      BY <1>2, <2>3
    <3> HIDE DEF Below
    <3> QED
      BY <2>4, <3>1, FS_RemoveElement
  <2>6. x \in B
    BY <1>2, <2>1, <2>3, <2>5
  <2>7. m <= x /\ x < m
    BY <1>5, <2>3, <2>6
  <2> QED
    BY <2>7
<1>7. \E i \in P : Cardinality({j \in P : j < i}) = k - 1
  BY <1>6
<1> QED
  BY <1>7 DEF Nth

\* What is picked of a sequence is a sequence of some of its elements, each from
\* a place of its own.
LEMMA PickedIs ==
  ASSUME NEW S, NEW s \in Seq(S), NEW P \in SUBSET DOMAIN s
  PROVE  /\ Cardinality(P) \in Nat
         /\ \A k \in 1..Cardinality(P) : Nth(P, k) \in P
         /\ \A j, k \in 1..Cardinality(P) : Nth(P, j) = Nth(P, k) => j = k
         /\ Picked(s, P) \in Seq(S)
         /\ DOMAIN Picked(s, P) = 1..Cardinality(P)
         /\ \A k \in 1..Cardinality(P) : Picked(s, P)[k] = s[Nth(P, k)]
<1>1. Len(s) \in Nat /\ DOMAIN s = 1..Len(s) /\ \A i \in DOMAIN s : s[i] \in S
  OBVIOUS
<1>2. Cardinality(P) \in Nat
  <2>1. IsFiniteSet(1..Len(s))
    BY <1>1, FS_Interval
  <2> QED
    BY <1>1, <2>1, FS_Subset, FS_CardinalityType
<1>3. ASSUME NEW k \in 1..Cardinality(P)
      PROVE  /\ Nth(P, k) \in P
             /\ Cardinality({j \in P : j < Nth(P, k)}) = k - 1
  BY <1>1, NthIs
<1>4. ASSUME NEW j \in 1..Cardinality(P), NEW k \in 1..Cardinality(P),
             Nth(P, j) = Nth(P, k)
      PROVE  j = k
  <2>1. j - 1 = k - 1
    BY <1>3, <1>4
  <2> QED
    BY <2>1
<1>5. /\ DOMAIN Picked(s, P) = 1..Cardinality(P)
      /\ \A k \in 1..Cardinality(P) : Picked(s, P)[k] = s[Nth(P, k)]
  BY DEF Picked
<1>6. \A k \in 1..Cardinality(P) : s[Nth(P, k)] \in S
  BY <1>1, <1>3
<1>7. Picked(s, P) \in [1..Cardinality(P) -> S]
  BY <1>6 DEF Picked
<1>8. Picked(s, P) \in Seq(S)
  BY <1>2, <1>7, IsSequence
<1> QED
  BY <1>2, <1>3, <1>4, <1>5, <1>8

-----------------------------------------------------------------------------
(* The students the dashboard lists.                                        *)

LEMMA RostersRun == Spec => Rosters!Spec
<1>1. Init => Rosters!Init
  BY DEF Init
<1>2. [Next]_vars => [Rosters!Next]_(Rosters!vars)
  BY DEF Next, vars, Alone, rosterVars, Rosters!vars, Rosters!ghostVars
<1> QED
  BY <1>1, <1>2, PTL DEF Spec, Rosters!Spec

LEMMA RosterAssumed ==
  /\ Unlevelled \in [Keys -> Keys]
  /\ Files \subseteq [students : Seq(Keys), column : {"level", "exam_level"}]
  /\ MaxKey \in Nat /\ MaxSize \in Nat
BY ServicesAssumption DEF Rosters!RosterAssumption

\* What the merge and save_students read of the files.
Lists == {Rosters!AsRead(file) : file \in Files}

LEMMA RosterPicks == \A s, P : Rosters!Picked(s, P) = Picked(s, P)
BY DEF Rosters!Picked, Picked, Rosters!Nth, Nth, Rosters!Cardinality, Cardinality

Entries == [id : Int, key : Keys]

LEMMA ListsAre ==
  /\ Lists \subseteq Seq(Keys)
  /\ Rosters!AsRead(Rosters!NoFile) = << >>
  /\ \A file \in Files \cup {Rosters!NoFile} :
       Rosters!AsRead(file) \in Lists \cup {<< >>}
<1>1. ASSUME NEW file \in Files PROVE Rosters!AsRead(file) \in Seq(Keys)
  <2>1. PICK s \in Seq(Keys) : s = file.students
    BY RosterAssumed
  <2>2. /\ Len(s) \in Nat /\ DOMAIN s = 1..Len(s)
        /\ \A i \in DOMAIN s : s[i] \in Keys
    BY LenProperties, ElementOfSeq
  <2>3. PICK t : t = [i \in DOMAIN s |-> Unlevelled[s[i]]]
    OBVIOUS
  <2>4. t \in [1..Len(s) -> Keys]
    BY <2>2, <2>3, RosterAssumed
  <2>5. t \in Seq(Keys)
    BY <2>2, <2>4, IsSequence
  <2>6. Rosters!AsRead(file) = s \/ Rosters!AsRead(file) = t
    BY <2>1, <2>3 DEF Rosters!AsRead
  <2> QED
    BY <2>5, <2>6
<1>2. Rosters!AsRead(Rosters!NoFile) = << >>
  BY DEF Rosters!AsRead, Rosters!NoFile
<1> QED
  BY <1>1, <1>2 DEF Lists

LEMMA UnnumberedIs ==
  ASSUME NEW keys \in Seq(Keys)
  PROVE  /\ Rosters!Unnumbered(keys) \in Seq([id : {0}, key : Keys])
         /\ DOMAIN Rosters!Unnumbered(keys) = DOMAIN keys
<1>1. Len(keys) \in Nat /\ DOMAIN keys = 1..Len(keys)
  OBVIOUS
<1>2. Rosters!Unnumbered(keys) \in [1..Len(keys) -> [id : {0}, key : Keys]]
  BY <1>1 DEF Rosters!Unnumbered
<1>3. Rosters!Unnumbered(keys) \in Seq([id : {0}, key : Keys])
  BY <1>1, <1>2, IsSequence
<1>4. DOMAIN Rosters!Unnumbered(keys) = DOMAIN keys
  BY DEF Rosters!Unnumbered
<1> QED
  BY <1>3, <1>4

LEMMA UnseenIs ==
  ASSUME Rosters!TypeOK, NEW others
  PROVE  Rosters!Unseen(others) \in Seq([id : {0}, key : Keys])
<1> DEFINE New == {i \in DOMAIN onSheet :
                     /\ onSheet[i] \notin Rosters!KeysOf(others)
                     /\ \A j \in 1..(i - 1) : onSheet[j] # onSheet[i]}
<1>1. Picked(onSheet, New) \in Seq(Keys)
  BY PickedIs DEF Rosters!TypeOK
<1>2. Rosters!Unseen(others) = Rosters!Unnumbered(Picked(onSheet, New))
  BY RosterPicks DEF Rosters!Unseen
<1> QED
  BY <1>1, <1>2, UnnumberedIs

\* A listing has the entries of the file, those of the database and those the
\* sheet has besides, where who has no id of the database gets one below zero.
LEMMA LoadedParts ==
  ASSUME Rosters!TypeOK
  PROVE  \E a, b \in Seq([id : {0}, key : Keys]) :
           /\ a = Rosters!Unnumbered(Rosters!AsRead(loaded))
           /\ b = Rosters!Unseen(a \o db)
           /\ {a, b, db, a \o db, (a \o db) \o b} \subseteq Seq(Entries)
           /\ DOMAIN Rosters!Loaded = DOMAIN ((a \o db) \o b)
           /\ \A i \in DOMAIN Rosters!Loaded :
                LET e == ((a \o db) \o b)[i]
                IN  /\ Rosters!Loaded[i] \in Entries
                    /\ Rosters!Loaded[i].key = e.key
                    /\ Rosters!Loaded[i].id = IF e.id = 0 THEN 0 - i ELSE e.id
<1>1. PICK a : a = Rosters!Unnumbered(Rosters!AsRead(loaded))
  OBVIOUS
<1>2. a \in Seq([id : {0}, key : Keys])
  <2>1. Rosters!AsRead(loaded) \in Seq(Keys)
    <3>1. Rosters!AsRead(loaded) \in Lists \cup {<< >>}
      BY ListsAre DEF Rosters!TypeOK
    <3> QED
      BY <3>1, ListsAre, EmptySeq
  <2> QED
    BY <1>1, <2>1, UnnumberedIs
<1>3. PICK b : b = Rosters!Unseen(a \o db)
  OBVIOUS
<1>4. b \in Seq([id : {0}, key : Keys])
  BY <1>3, UnseenIs
<1>5. db \in Seq([id : 1..MaxKey, key : Keys])
  BY DEF Rosters!TypeOK
<1>6. PICK all : all = (a \o db) \o b
  OBVIOUS
<1>7. {a, b, db, a \o db, all} \subseteq Seq(Entries)
  <2>1. a \in Seq(Entries) /\ db \in Seq(Entries) /\ b \in Seq(Entries)
    <3>1. [id : {0}, key : Keys] \subseteq Entries
      BY DEF Entries
    <3>2. [id : 1..MaxKey, key : Keys] \subseteq Entries
      BY RosterAssumed DEF Entries
    <3> QED
      BY <1>2, <1>4, <1>5, <3>1, <3>2, SeqMonotonic
  <2>2. a \o db \in Seq(Entries)
    BY <2>1, ConcatProperties
  <2>3. all \in Seq(Entries)
    BY <1>6, <2>1, <2>2, ConcatProperties
  <2> QED
    BY <2>1, <2>2, <2>3
<1>8. Rosters!Loaded = [i \in DOMAIN all |->
                          [all[i] EXCEPT !.id = IF @ = 0 THEN 0 - i ELSE @]]
  BY <1>1, <1>3, <1>6 DEF Rosters!Loaded
<1>9. ASSUME NEW i \in DOMAIN all
      PROVE  /\ Rosters!Loaded[i] \in Entries
             /\ Rosters!Loaded[i].key = all[i].key
             /\ Rosters!Loaded[i].id = IF all[i].id = 0 THEN 0 - i ELSE all[i].id
  <2>1. all[i] \in Entries /\ i \in Nat /\ i >= 1
    BY <1>7, LenProperties, ElementOfSeq
  <2>2. PICK e : e = all[i]
    OBVIOUS
  <2>3. Rosters!Loaded[i] = [e EXCEPT !.id = IF e.id = 0 THEN 0 - i ELSE e.id]
    BY <1>8, <2>2
  <2> QED
    BY <2>1, <2>2, <2>3 DEF Entries
<1>10. DOMAIN Rosters!Loaded = DOMAIN all
  BY <1>8
<1>11. \A i \in DOMAIN Rosters!Loaded :
         LET e == ((a \o db) \o b)[i]
         IN  /\ Rosters!Loaded[i] \in Entries
             /\ Rosters!Loaded[i].key = e.key
             /\ Rosters!Loaded[i].id = IF e.id = 0 THEN 0 - i ELSE e.id
  BY <1>6, <1>9, <1>10
<1>12. /\ {a, b, db, a \o db, (a \o db) \o b} \subseteq Seq(Entries)
       /\ DOMAIN Rosters!Loaded = DOMAIN ((a \o db) \o b)
  BY <1>6, <1>7, <1>10
<1>13. b = Rosters!Unseen(a \o db)
  BY <1>3
<1> QED
  BY <1>1, <1>2, <1>4, <1>11, <1>12, <1>13, Zenon

\* A listing is a sequence of entries, and an id of the database in it comes from
\* a row of the database.
LEMMA LoadedIs ==
  ASSUME Rosters!TypeOK
  PROVE  /\ Rosters!Loaded \in Seq(Entries)
         /\ \A i \in DOMAIN Rosters!Loaded : Rosters!Loaded[i].id > 0 =>
              \E j \in DOMAIN db : /\ Rosters!Loaded[i].id = db[j].id
                                   /\ Rosters!Loaded[i].key = db[j].key
<1>1. PICK a \in Seq([id : {0}, key : Keys]), b \in Seq([id : {0}, key : Keys]) :
        /\ {a, b, db, a \o db, (a \o db) \o b} \subseteq Seq(Entries)
        /\ DOMAIN Rosters!Loaded = DOMAIN ((a \o db) \o b)
        /\ \A i \in DOMAIN Rosters!Loaded :
             LET e == ((a \o db) \o b)[i]
             IN  /\ Rosters!Loaded[i] \in Entries
                 /\ Rosters!Loaded[i].key = e.key
                 /\ Rosters!Loaded[i].id = IF e.id = 0 THEN 0 - i ELSE e.id
  BY LoadedParts
<1>2. PICK all : all = (a \o db) \o b
  OBVIOUS
<1>3. /\ all \in Seq(Entries)
      /\ \A i \in DOMAIN all : all[i].id # 0 => \E j \in DOMAIN db : all[i] = db[j]
  <2>1. a \in Seq(Entries) /\ db \in Seq(Entries) /\ b \in Seq(Entries)
    BY <1>1
  <2>2. /\ a \o db \in Seq(Entries)
        /\ Len(a \o db) = Len(a) + Len(db)
        /\ \A i \in 1..(Len(a) + Len(db)) :
             (a \o db)[i] = IF i <= Len(a) THEN a[i] ELSE db[i - Len(a)]
    BY <2>1, ConcatProperties
  <2>3. PICK c : c = a \o db
    OBVIOUS
  <2>4. /\ all \in Seq(Entries)
        /\ Len(all) = Len(c) + Len(b)
        /\ \A i \in 1..(Len(c) + Len(b)) :
             all[i] = IF i <= Len(c) THEN c[i] ELSE b[i - Len(c)]
    BY <1>2, <2>1, <2>2, <2>3, ConcatProperties
  <2>5. ASSUME NEW i \in DOMAIN all, all[i].id # 0
        PROVE  \E j \in DOMAIN db : all[i] = db[j]
    <3>1. i \in 1..(Len(c) + Len(b))
      BY <2>4
    <3>2. CASE i > Len(c)
      <4>1. all[i] = b[i - Len(c)] /\ i - Len(c) \in 1..Len(b)
        BY <2>1, <2>2, <2>3, <2>4, <3>1, <3>2
      <4>2. b[i - Len(c)] \in [id : {0}, key : Keys]
        BY <1>1, <4>1, ElementOfSeq
      <4> QED
        BY <2>5, <4>1, <4>2
    <3>3. CASE i <= Len(a)
      <4>1. all[i] = a[i] /\ i \in 1..Len(a)
        BY <2>1, <2>2, <2>3, <2>4, <3>1, <3>3
      <4>2. a[i] \in [id : {0}, key : Keys]
        BY <1>1, <4>1, ElementOfSeq
      <4> QED
        BY <2>5, <4>1, <4>2
    <3>4. CASE i <= Len(c) /\ i > Len(a)
      <4>1. all[i] = db[i - Len(a)] /\ i - Len(a) \in 1..Len(db)
        BY <2>1, <2>2, <2>3, <2>4, <3>1, <3>4
      <4> QED
        BY <4>1
    <3>5. Len(a) \in Int /\ Len(c) \in Int /\ i \in Int
      BY <2>1, <2>2, <2>3, <3>1
    <3> QED
      BY <3>2, <3>3, <3>4, <3>5
  <2> QED
    BY <2>4, <2>5
<1>4. /\ DOMAIN Rosters!Loaded = DOMAIN all
      /\ \A i \in DOMAIN all :
           /\ Rosters!Loaded[i] \in Entries
           /\ Rosters!Loaded[i].key = all[i].key
           /\ Rosters!Loaded[i].id = IF all[i].id = 0 THEN 0 - i ELSE all[i].id
  BY <1>1, <1>2
<1>5. Rosters!Loaded \in Seq(Entries)
  <2>1. Len(all) \in Nat /\ DOMAIN all = 1..Len(all)
    BY <1>3
  <2>2. Rosters!Loaded = [i \in DOMAIN Rosters!Loaded |-> Rosters!Loaded[i]]
    BY Zenon DEF Rosters!Loaded
  <2>3. Rosters!Loaded \in [1..Len(all) -> Entries]
    BY <1>4, <2>1, <2>2
  <2> QED
    BY <2>1, <2>3, IsSequence
<1>6. ASSUME NEW i \in DOMAIN Rosters!Loaded, Rosters!Loaded[i].id > 0
      PROVE  \E j \in DOMAIN db : /\ Rosters!Loaded[i].id = db[j].id
                                  /\ Rosters!Loaded[i].key = db[j].key
  <2>1. i \in DOMAIN all /\ i \in Nat
    BY <1>3, <1>4
  <2>2. all[i].id # 0 /\ Rosters!Loaded[i].id = all[i].id
    BY <1>4, <1>6, <2>1
  <2> QED
    BY <1>3, <1>4, <2>1, <2>2
<1> QED
  BY <1>5, <1>6

\* What a listing shows of keys.
LEMMA LoadedKeys ==
  ASSUME Rosters!TypeOK
  PROVE  [i \in DOMAIN Rosters!Loaded |-> Rosters!Loaded[i].key] \in Seq(Keys)
<1>1. /\ Len(Rosters!Loaded) \in Nat
      /\ DOMAIN Rosters!Loaded = 1..Len(Rosters!Loaded)
      /\ \A i \in DOMAIN Rosters!Loaded : Rosters!Loaded[i] \in Entries
  BY LoadedIs, LenProperties, ElementOfSeq
<1>2. [i \in DOMAIN Rosters!Loaded |-> Rosters!Loaded[i].key]
        \in [1..Len(Rosters!Loaded) -> Keys]
  BY <1>1 DEF Entries
<1> QED
  BY <1>1, <1>2, IsSequence

\* New rows get new ids.
LEMMA RowsSaved ==
  ASSUME Rosters!TypeOK, NEW keys \in Seq(Keys), Rosters!SaveStudents(keys)
  PROVE  /\ db' \in Seq([id : 1..MaxKey, key : Keys])
         /\ DOMAIN db' = DOMAIN keys
         /\ \A i \in DOMAIN keys : db'[i] = [id |-> lastId + i, key |-> keys[i]]
         /\ lastId' = lastId + Len(keys) /\ lastId' \in lastId..MaxKey
         /\ saves' = saves + 1 /\ added' = added
<1>1. /\ Len(keys) \in Nat /\ DOMAIN keys = 1..Len(keys)
      /\ \A i \in DOMAIN keys : keys[i] \in Keys
  BY LenProperties, ElementOfSeq
<1>2. lastId \in Nat /\ lastId + Len(keys) <= MaxKey
  BY RosterAssumed DEF Rosters!TypeOK, Rosters!SaveStudents
<1>3. db' = [i \in DOMAIN keys |-> [id |-> lastId + i, key |-> keys[i]]]
  BY DEF Rosters!SaveStudents
<1>4. \A i \in 1..Len(keys) : lastId + i \in 1..MaxKey
  BY <1>1, <1>2, RosterAssumed
<1>5. db' \in [1..Len(keys) -> [id : 1..MaxKey, key : Keys]]
  BY <1>1, <1>3, <1>4
<1>6. db' \in Seq([id : 1..MaxKey, key : Keys])
  BY <1>1, <1>5, IsSequence
<1>7. PICK last : last = lastId + Len(keys)
  OBVIOUS
<1>8. lastId' = last /\ saves' = saves + 1 /\ added' = added
  BY <1>7 DEF Rosters!SaveStudents
<1>9. last \in lastId..MaxKey
  BY <1>1, <1>2, <1>7, RosterAssumed
<1> QED
  BY <1>3, <1>6, <1>7, <1>8, <1>9, Zenon

\* Every step of the roster, by what it does to the rows.
LEMMA RosterTyped ==
  ASSUME Rosters!TypeOK, [Rosters!Next]_(Rosters!vars) PROVE Rosters!TypeOK'
<1> USE DEF Rosters!TypeOK, Rosters!ghostVars
<1>1. ASSUME NEW k \in Keys, Rosters!AddToSheet(k) PROVE Rosters!TypeOK'
  <2>1. Append(onSheet, k) \in Seq(Keys)
    BY AppendProperties
  <2> QED
    BY <1>1, <2>1 DEF Rosters!AddToSheet
<1>2. ASSUME NEW k \in Keys, Rosters!AddStudent(k) PROVE Rosters!TypeOK'
  <2>1. Append(onSheet, k) \in Seq(Keys)
    BY AppendProperties
  <2>2. PICK last : last = lastId + 1
    OBVIOUS
  <2>3. last \in 1..MaxKey /\ lastId' = last
    BY <1>2, <2>2, RosterAssumed DEF Rosters!AddStudent
  <2>4. Append(db, [id |-> last, key |-> k]) \in Seq([id : 1..MaxKey, key : Keys])
    BY <2>3, AppendProperties
  <2>5. db' = Append(db, [id |-> last, key |-> k])
    BY <1>2, <2>2 DEF Rosters!AddStudent
  <2>6. added' \in [Keys -> Nat]
    BY <1>2 DEF Rosters!AddStudent
  <2>7. /\ onSheet' \in {onSheet, Append(onSheet, k)}
        /\ UNCHANGED <<loaded, shown, starting, saves>>
    BY <1>2 DEF Rosters!AddStudent
  <2>8. lastId' \in 0..MaxKey
    BY <2>3, RosterAssumed
  <2> QED
    BY <2>1, <2>4, <2>5, <2>6, <2>7, <2>8
<1>3. CASE Rosters!LoadFile
  BY <1>3 DEF Rosters!LoadFile
<1>4. CASE Rosters!ListStudents
  <2>1. \A i \in DOMAIN Rosters!Loaded : Rosters!Loaded[i] \in Entries
    BY LoadedIs, LenProperties, ElementOfSeq
  <2> QED
    BY <1>4, <2>1 DEF Rosters!ListStudents, Entries
<1>5. ASSUME Rosters!DeleteStudent(shown.id) PROVE Rosters!TypeOK'
  <2>1. CASE shown.id > 0
    <3>1. db' = Picked(db, {i \in DOMAIN db : db[i].id # shown.id})
      BY <1>5, <2>1, RosterPicks DEF Rosters!DeleteStudent
    <3>2. db' \in Seq([id : 1..MaxKey, key : Keys])
      BY <3>1, PickedIs
    <3>3. UNCHANGED <<loaded, lastId, shown, starting, added, saves, onSheet>>
      BY <1>5, <2>1 DEF Rosters!DeleteStudent
    <3> QED
      BY <3>2, <3>3
  <2>2. CASE ~(shown.id > 0)
    <3>1. \E Q : onSheet' = Picked(onSheet, DOMAIN onSheet \ Q)
      BY <1>5, <2>2, RosterPicks DEF Rosters!DeleteStudent
    <3>2. onSheet' \in Seq(Keys)
      BY <3>1, PickedIs
    <3>3. UNCHANGED <<loaded, lastId, shown, starting, added, saves, db>>
      BY <1>5, <2>2 DEF Rosters!DeleteStudent
    <3> QED
      BY <3>2, <3>3
  <2> QED
    BY <2>1, <2>2
<1>6. CASE Rosters!StartRun
  <2>1. PICK keys \in Seq(Keys) :
          keys = [i \in DOMAIN Rosters!Loaded |-> Rosters!Loaded[i].key]
    BY LoadedKeys
  <2>2. PICK S \in SUBSET Keys :
          starting' = Picked(keys, {i \in DOMAIN Rosters!Loaded :
                                      Rosters!Loaded[i].key \in S})
    BY <1>6, <2>1, RosterPicks DEF Rosters!StartRun
  <2>3. starting' \in Seq(Keys)
    BY <2>1, <2>2, PickedIs
  <2> QED
    BY <1>6, <2>3 DEF Rosters!StartRun
<1>7. CASE Rosters!OpenRun
  <2>1. Rosters!SaveStudents(starting)
    BY <1>7 DEF Rosters!OpenRun
  <2>2. /\ db' \in Seq([id : 1..MaxKey, key : Keys])
        /\ lastId' \in lastId..MaxKey /\ saves' = saves + 1 /\ added' = added
    BY <2>1, RowsSaved
  <2>3. UNCHANGED <<loaded, onSheet, shown>> /\ starting' = << >>
    BY <1>7 DEF Rosters!OpenRun, Rosters!NoRun
  <2>4. starting' \in Seq(Keys)
    BY <2>3, EmptySeq
  <2>5. lastId' \in 0..MaxKey /\ saves' \in Nat
    BY <2>2, RosterAssumed
  <2> QED
    BY <2>2, <2>3, <2>4, <2>5
<1>8. CASE Rosters!CommandLine
  <2>1. PICK f \in Lists : Rosters!SaveStudents(f)
    BY <1>8 DEF Rosters!CommandLine, Lists
  <2>2. f \in Seq(Keys)
    BY ListsAre
  <2>3. /\ db' \in Seq([id : 1..MaxKey, key : Keys])
        /\ lastId' \in lastId..MaxKey /\ saves' = saves + 1 /\ added' = added
    BY <2>1, <2>2, RowsSaved
  <2>4. UNCHANGED <<loaded, onSheet, shown, starting>>
    BY <1>8 DEF Rosters!CommandLine
  <2>5. lastId' \in 0..MaxKey /\ saves' \in Nat
    BY <2>3, RosterAssumed
  <2> QED
    BY <2>3, <2>4, <2>5
<1>9. CASE UNCHANGED Rosters!vars
  BY <1>9 DEF Rosters!vars
<1> QED
  BY <1>1, <1>2, <1>3, <1>4, <1>5, <1>6, <1>7, <1>8, <1>9 DEF Rosters!Next

\* An id of the database names one student, and is not above the last one given
\* out; nor is one that was ever shown.
IdsName ==
  /\ \A i, j \in DOMAIN db : db[i].id = db[j].id => db[i].key = db[j].key
  /\ \A i \in DOMAIN db : db[i].id <= lastId
  /\ shown.id <= lastId

StaleInv == Rosters!TypeOK /\ IdsName /\ StaleIdHarmless

LEMMA RowsAre ==
  ASSUME Rosters!TypeOK
  PROVE  /\ lastId \in Nat /\ shown.id \in Int
         /\ db \in Seq(Entries)
         /\ Len(db) \in Nat /\ DOMAIN db = 1..Len(db)
         /\ \A j \in DOMAIN db : db[j].id \in Nat /\ db[j].id > 0
<1>1. db \in Seq([id : 1..MaxKey, key : Keys])
  BY DEF Rosters!TypeOK
<1>2. Len(db) \in Nat /\ DOMAIN db = 1..Len(db)
  BY <1>1, LenProperties
<1>3. \A j \in DOMAIN db : db[j] \in [id : 1..MaxKey, key : Keys]
  BY <1>1, <1>2, ElementOfSeq
<1>4. \A j \in DOMAIN db : db[j].id \in Nat /\ db[j].id > 0
  BY <1>3, RosterAssumed
<1>5. [id : 1..MaxKey, key : Keys] \subseteq Entries
  BY RosterAssumed DEF Entries
<1>6. db \in Seq(Entries)
  BY <1>1, <1>5, SeqMonotonic
<1>7. lastId \in Nat
  BY RosterAssumed DEF Rosters!TypeOK
<1>8. shown.id \in Int
  <2>1. CASE shown = Rosters!NoRow
    BY <2>1 DEF Rosters!NoRow
  <2>2. CASE shown \in [id : Int, key : Keys]
    BY <2>2
  <2> QED
    BY <2>1, <2>2 DEF Rosters!TypeOK
<1> QED
  BY <1>2, <1>4, <1>6, <1>7, <1>8

\* Rows that were all there before.
LEMMA FewerRows ==
  ASSUME StaleInv, Rosters!TypeOK',
         \A i \in DOMAIN db' : \E j \in DOMAIN db : db'[i] = db[j],
         UNCHANGED <<lastId, shown>>
  PROVE  StaleInv'
BY DEF StaleInv, IdsName, StaleIdHarmless, Rosters!StaleIdHarmless

\* Rows with new ids.
LEMMA NewRows ==
  ASSUME StaleInv, Rosters!TypeOK', NEW keys \in Seq(Keys),
         Rosters!SaveStudents(keys), UNCHANGED shown
  PROVE  StaleInv'
<1>1. PICK list \in Seq([id : 1..MaxKey, key : Keys]), last \in lastId..MaxKey :
        /\ list = db' /\ last = lastId' /\ last = lastId + Len(keys)
        /\ DOMAIN list = DOMAIN keys
        /\ \A i \in DOMAIN keys : list[i] = [id |-> lastId + i, key |-> keys[i]]
  BY RowsSaved DEF StaleInv
<1>2. lastId \in Nat /\ shown.id \in Int /\ shown.id <= lastId
  BY RowsAre DEF StaleInv, IdsName
<1>3. \A i \in DOMAIN list : /\ list[i].id = lastId + i /\ i \in 1..Len(keys)
  BY <1>1, LenProperties
<1>4. /\ \A i, j \in DOMAIN list : list[i].id = list[j].id => i = j
      /\ \A i \in DOMAIN list : list[i].id <= last
      /\ shown.id <= last
      /\ \A i \in DOMAIN list : list[i].id # shown.id
  <2>1. Len(keys) \in Nat
    BY LenProperties
  <2>2. last \in Int /\ last >= lastId
    BY <1>2
  <2> QED
    BY <1>1, <1>2, <1>3, <2>1, <2>2
<1>5. UNCHANGED shown /\ list = db' /\ last = lastId'
  BY <1>1
<1> QED
  BY <1>4, <1>5, Zenon DEF StaleInv, IdsName, StaleIdHarmless, Rosters!StaleIdHarmless

\* Another row is added, with the next id.
LEMMA AnotherRow ==
  ASSUME StaleInv, Rosters!TypeOK', NEW k \in Keys, Rosters!AddStudent(k)
  PROVE  StaleInv'
<1>1. PICK last : last = lastId + 1
  OBVIOUS
<1>2. PICK r : r = [id |-> last, key |-> k]
  OBVIOUS
<1>3. db \in Seq(Entries) /\ lastId \in Nat /\ shown.id \in Int
  BY RowsAre DEF StaleInv
<1>4. r \in Entries /\ last \in Int /\ last > lastId
  BY <1>1, <1>2, <1>3 DEF Entries
<1>5. PICK list : list = Append(db, r)
  OBVIOUS
<1>6. /\ DOMAIN list = 1..(Len(db) + 1) /\ DOMAIN db = 1..Len(db)
      /\ Len(db) \in Nat
      /\ \A i \in 1..Len(db) : list[i] = db[i]
      /\ list[Len(db) + 1] = r
  BY <1>3, <1>4, <1>5, AppendProperties, LenProperties
<1>7. \A i \in DOMAIN list : list[i] = r \/ \E j \in DOMAIN db : list[i] = db[j]
  <2>1. \A i \in DOMAIN list : i \in 1..Len(db) \/ i = Len(db) + 1
    BY <1>6
  <2> QED
    BY <1>6, <2>1
<1>8. \A i \in DOMAIN db : db[i].id <= lastId /\ db[i].id \in Int
  BY RowsAre DEF StaleInv, IdsName
<1>9. r.id = last /\ r.key = k
  BY <1>2
<1>10. \A i \in DOMAIN list : list[i].id <= last /\ (list[i] = r \/ list[i].id < last)
  BY <1>3, <1>4, <1>7, <1>8, <1>9
<1>11. \A i, j \in DOMAIN list : list[i].id = list[j].id => list[i].key = list[j].key
  <2> SUFFICES ASSUME NEW i \in DOMAIN list, NEW j \in DOMAIN list,
                      list[i].id = list[j].id
               PROVE  list[i].key = list[j].key
    OBVIOUS
  <2>1. CASE list[i] = r
    BY <1>3, <1>4, <1>7, <1>8, <1>9, <2>1
  <2>2. CASE list[j] = r
    BY <1>3, <1>4, <1>7, <1>8, <1>9, <2>2
  <2>3. CASE list[i] # r /\ list[j] # r
    BY <1>7, <2>3 DEF StaleInv, IdsName
  <2> QED
    BY <2>1, <2>2, <2>3
<1>12. \A i \in DOMAIN list : shown.id = list[i].id => shown.key = list[i].key
  <2> SUFFICES ASSUME NEW i \in DOMAIN list, shown.id = list[i].id
               PROVE  shown.key = list[i].key
    OBVIOUS
  <2>1. list[i] # r
    BY <1>3, <1>4, <1>9 DEF StaleInv, IdsName
  <2> QED
    BY <1>7, <2>1 DEF StaleInv, StaleIdHarmless, Rosters!StaleIdHarmless
<1>13. shown.id <= last
  BY <1>3, <1>4 DEF StaleInv, IdsName
<1>14. db' = list /\ lastId' = last /\ UNCHANGED shown
  BY <1>1, <1>2, <1>5 DEF Rosters!AddStudent
<1> QED
  BY <1>10, <1>11, <1>12, <1>13, <1>14, Zenon
     DEF StaleInv, IdsName, StaleIdHarmless, Rosters!StaleIdHarmless

LEMMA StaleKept ==
  ASSUME StaleInv, [Rosters!Next]_(Rosters!vars) PROVE StaleInv'
<1>0. Rosters!TypeOK'
  BY RosterTyped DEF StaleInv
<1>1. CASE UNCHANGED <<db, lastId, shown>>
  BY <1>0, <1>1, FewerRows
<1>2. ASSUME NEW k \in Keys, Rosters!AddToSheet(k) \/ Rosters!AddStudent(k)
      PROVE  StaleInv'
  BY <1>0, <1>1, <1>2, AnotherRow DEF Rosters!AddToSheet
<1>3. CASE Rosters!ListStudents
  <2>1. PICK i \in DOMAIN Rosters!Loaded : shown' = Rosters!Loaded[i]
    BY <1>3 DEF Rosters!ListStudents
  <2>2. PICK e : e = Rosters!Loaded[i]
    OBVIOUS
  <2>3. e.id \in Int
    <3>1. e \in Entries
      BY <2>2, LoadedIs, LenProperties, ElementOfSeq DEF StaleInv
    <3> QED
      BY <3>1 DEF Entries
  <2>4. e.id > 0 => \E j \in DOMAIN db : e.id = db[j].id /\ e.key = db[j].key
    BY <2>2, LoadedIs DEF StaleInv
  <2>5. lastId \in Nat /\ \A j \in DOMAIN db : db[j].id \in Nat /\ db[j].id > 0
    BY RowsAre DEF StaleInv
  <2>6. e.id <= lastId
    BY <2>3, <2>4, <2>5 DEF StaleInv, IdsName
  <2>7. \A j \in DOMAIN db : e.id = db[j].id => e.key = db[j].key
    BY <2>3, <2>4, <2>5 DEF StaleInv, IdsName
  <2>8. UNCHANGED <<db, lastId>> /\ shown' = e
    BY <1>3, <2>1, <2>2 DEF Rosters!ListStudents
  <2> QED
    BY <1>0, <2>6, <2>7, <2>8, Zenon
       DEF StaleInv, IdsName, StaleIdHarmless, Rosters!StaleIdHarmless
<1>4. ASSUME Rosters!DeleteStudent(shown.id) PROVE StaleInv'
  <2>1. CASE shown.id > 0
    <3>1. db' = Picked(db, {i \in DOMAIN db : db[i].id # shown.id})
      BY <1>4, <2>1, RosterPicks DEF Rosters!DeleteStudent
    <3>2. db \in Seq([id : 1..MaxKey, key : Keys])
      BY DEF StaleInv, Rosters!TypeOK
    <3>3. \A i \in DOMAIN db' : \E j \in DOMAIN db : db'[i] = db[j]
      <4>1. PICK P \in SUBSET DOMAIN db : db' = Picked(db, P)
        BY <3>1
      <4>2. /\ DOMAIN db' = 1..Cardinality(P)
            /\ \A k \in 1..Cardinality(P) :
                 Nth(P, k) \in P /\ db'[k] = db[Nth(P, k)]
        BY <3>2, <4>1, PickedIs
      <4> QED
        BY <4>2
    <3>4. UNCHANGED <<lastId, shown>>
      BY <1>4 DEF Rosters!DeleteStudent
    <3> QED
      BY <1>0, <3>3, <3>4, FewerRows
  <2>2. CASE ~(shown.id > 0)
    BY <1>1, <1>4, <2>2 DEF Rosters!DeleteStudent
  <2> QED
    BY <2>1, <2>2
<1>5. CASE Rosters!OpenRun
  <2>1. Rosters!SaveStudents(starting) /\ UNCHANGED shown
    BY <1>5 DEF Rosters!OpenRun
  <2>2. starting \in Seq(Keys)
    BY DEF StaleInv, Rosters!TypeOK
  <2> QED
    BY <1>0, <2>1, <2>2, NewRows
<1>6. CASE Rosters!CommandLine
  <2>1. PICK f \in Lists : Rosters!SaveStudents(f)
    BY <1>6 DEF Rosters!CommandLine, Lists
  <2>2. f \in Seq(Keys) /\ UNCHANGED shown
    BY <1>6, ListsAre DEF Rosters!CommandLine
  <2> QED
    BY <1>0, <2>1, <2>2, NewRows
<1>7. CASE Rosters!LoadFile \/ Rosters!StartRun \/ UNCHANGED Rosters!vars
  BY <1>1, <1>7 DEF Rosters!LoadFile, Rosters!StartRun, Rosters!vars
<1> QED
  BY <1>2, <1>3, <1>4, <1>5, <1>6, <1>7 DEF Rosters!Next

LEMMA RosterInit == ASSUME Rosters!Init PROVE StaleInv
<1>1. db = << >> /\ lastId = 0 /\ shown = Rosters!NoRow
  BY DEF Rosters!Init
<1>2. Rosters!TypeOK
  <2>1. << >> \in Seq([id : 1..MaxKey, key : Keys]) /\ << >> \in Seq(Keys)
    BY EmptySeq
  <2>2. /\ db = << >> /\ onSheet = << >> /\ starting = << >>
        /\ loaded \in Files \cup {Rosters!NoFile} /\ shown = Rosters!NoRow
    BY DEF Rosters!Init, Rosters!NoRun
  <2>3. lastId \in 0..MaxKey /\ added \in [Keys -> Nat] /\ saves \in Nat
    BY RosterAssumed DEF Rosters!Init
  <2> QED
    BY <2>1, <2>2, <2>3, Zenon DEF Rosters!TypeOK
<1>3. DOMAIN db = {}
  BY <1>1
<1> QED
  BY <1>1, <1>2, <1>3
     DEF StaleInv, IdsName, StaleIdHarmless, Rosters!StaleIdHarmless, Rosters!NoRow

\* However many runs replaced the rows since, an id of the database in an old
\* listing denotes the student it was shown with, or nobody.  Negative ids, which
\* are positions in the listing, are not meant.
THEOREM StaleIdsAreHarmless == Spec => []StaleIdHarmless
<1>1. Rosters!Init => StaleInv
  BY RosterInit
<1>2. StaleInv /\ [Rosters!Next]_(Rosters!vars) => StaleInv'
  BY StaleKept
<1>3. StaleInv => StaleIdHarmless
  BY DEF StaleInv
<1> QED
  BY <1>1, <1>2, <1>3, RostersRun, PTL DEF Rosters!Spec

-----------------------------------------------------------------------------
(* How often the elements of a set occur in a sequence.                     *)

Hits(s, Q) == {i \in DOMAIN s : s[i] \in Q}

LEMMA HitsFinite ==
  ASSUME NEW S, NEW s \in Seq(S), NEW Q
  PROVE  IsFiniteSet(Hits(s, Q)) /\ Cardinality(Hits(s, Q)) \in Nat
<1>1. Len(s) \in Nat /\ DOMAIN s = 1..Len(s)
  BY LenProperties
<1>2. IsFiniteSet(1..Len(s))
  BY <1>1, FS_Interval
<1>3. Hits(s, Q) \subseteq 1..Len(s)
  BY <1>1 DEF Hits
<1> QED
  BY <1>2, <1>3, FS_Subset, FS_CardinalityType

LEMMA HitsOfConcat ==
  ASSUME NEW S, NEW s \in Seq(S), NEW t \in Seq(S), NEW Q
  PROVE  Cardinality(Hits(s \o t, Q))
           = Cardinality(Hits(s, Q)) + Cardinality(Hits(t, Q))
<1>1. /\ Len(s) \in Nat /\ DOMAIN s = 1..Len(s)
      /\ Len(t) \in Nat /\ DOMAIN t = 1..Len(t)
  BY LenProperties
<1>2. PICK c \in Seq(S) : c = s \o t
  BY ConcatProperties
<1>3. /\ DOMAIN c = 1..(Len(s) + Len(t))
      /\ \A i \in 1..(Len(s) + Len(t)) :
           c[i] = IF i <= Len(s) THEN s[i] ELSE t[i - Len(s)]
  BY <1>2, ConcatProperties, LenProperties
<1> DEFINE B == {i \in DOMAIN c : i > Len(s) /\ c[i] \in Q}
           f == [i \in Hits(t, Q) |-> i + Len(s)]
<1>4. Hits(c, Q) = Hits(s, Q) \cup B /\ Hits(s, Q) \cap B = {}
  <2>1. ASSUME NEW i \in Hits(c, Q) PROVE i \in Hits(s, Q) \cup B
    BY <1>1, <1>3, <2>1 DEF Hits
  <2>2. ASSUME NEW i \in Hits(s, Q) PROVE i \in Hits(c, Q) /\ i \notin B
    BY <1>1, <1>3, <2>2 DEF Hits
  <2>3. B \subseteq Hits(c, Q)
    BY DEF Hits
  <2> QED
    BY <2>1, <2>2, <2>3
<1>5. f \in Bijection(Hits(t, Q), B)
  <2>1. ASSUME NEW i \in Hits(t, Q) PROVE i \in Nat /\ i + Len(s) \in B
    BY <1>1, <1>3 DEF Hits
  <2>2. ASSUME NEW i \in B
        PROVE  i - Len(s) \in Hits(t, Q) /\ (i - Len(s)) + Len(s) = i
    BY <1>1, <1>3 DEF Hits
  <2>3. f \in [Hits(t, Q) -> B]
    BY <2>1
  <2>4. \A i, j \in Hits(t, Q) : f[i] = f[j] => i = j
    BY <1>1, <2>1
  <2>5. \A i \in B : \E j \in Hits(t, Q) : f[j] = i
    BY <2>2
  <2> QED
    BY <2>3, <2>4, <2>5, Fun_IsBij
<1>6. IsFiniteSet(B) /\ Cardinality(B) = Cardinality(Hits(t, Q))
  BY <1>5, HitsFinite, FS_Bijection DEF ExistsBijection
<1> HIDE DEF B
<1>7. Cardinality(Hits(s, Q) \cup B)
        = Cardinality(Hits(s, Q)) + Cardinality(B) - Cardinality({})
  BY <1>4, <1>6, HitsFinite, FS_Union
<1>8. Cardinality({}) = 0 /\ Cardinality(Hits(s, Q)) \in Nat
      /\ Cardinality(Hits(t, Q)) \in Nat
  BY FS_EmptySet, HitsFinite
<1> QED
  BY <1>2, <1>4, <1>6, <1>7, <1>8

LEMMA HitsOfPicked ==
  ASSUME NEW S, NEW s \in Seq(S), NEW P \in SUBSET DOMAIN s, NEW Q
  PROVE  Cardinality(Hits(Picked(s, P), Q)) <= Cardinality(Hits(s, Q))
<1> DEFINE f == [k \in Hits(Picked(s, P), Q) |-> Nth(P, k)]
<1>1. /\ DOMAIN Picked(s, P) = 1..Cardinality(P)
      /\ \A k \in 1..Cardinality(P) :
           Nth(P, k) \in P /\ Picked(s, P)[k] = s[Nth(P, k)]
      /\ \A j, k \in 1..Cardinality(P) : Nth(P, j) = Nth(P, k) => j = k
  BY PickedIs
<1>2. \A k \in Hits(Picked(s, P), Q) :
        k \in 1..Cardinality(P) /\ Nth(P, k) \in Hits(s, Q)
  BY <1>1 DEF Hits
<1>3. f \in [Hits(Picked(s, P), Q) -> Hits(s, Q)]
  BY <1>2
<1>4. \A j, k \in Hits(Picked(s, P), Q) : f[j] = f[k] => j = k
  BY <1>1, <1>2
<1>5. f \in Injection(Hits(Picked(s, P), Q), Hits(s, Q))
  BY <1>3, <1>4, Fun_IsInj
<1> QED
  BY <1>5, HitsFinite, FS_Injection

LEMMA HitsOfAppend ==
  ASSUME NEW S, NEW s \in Seq(S), NEW x \in S, NEW Q
  PROVE  Cardinality(Hits(Append(s, x), Q))
           = IF x \in Q THEN Cardinality(Hits(s, Q)) + 1 ELSE Cardinality(Hits(s, Q))
<1>1. Len(s) \in Nat /\ DOMAIN s = 1..Len(s)
  BY LenProperties
<1>2. /\ DOMAIN Append(s, x) = 1..(Len(s) + 1)
      /\ \A i \in 1..Len(s) : Append(s, x)[i] = s[i]
      /\ Append(s, x)[Len(s) + 1] = x
  BY <1>1, AppendProperties, LenProperties
<1>3. \A i : i \in 1..(Len(s) + 1) <=> i \in 1..Len(s) \/ i = Len(s) + 1
  BY <1>1
<1>4. Hits(Append(s, x), Q) = IF x \in Q THEN Hits(s, Q) \cup {Len(s) + 1}
                                         ELSE Hits(s, Q)
  BY <1>1, <1>2, <1>3 DEF Hits
<1>5. Len(s) + 1 \notin Hits(s, Q)
  BY <1>1 DEF Hits
<1>6. IsFiniteSet(Hits(s, Q))
  BY HitsFinite
<1>7. Cardinality(Hits(s, Q) \cup {Len(s) + 1}) = Cardinality(Hits(s, Q)) + 1
  BY <1>5, <1>6, FS_AddElement
<1> QED
  BY <1>4, <1>7

\* What occurs at one place only occurs at most once.
LEMMA OnceAtMost ==
  ASSUME NEW H, \A i, j \in H : i = j
  PROVE  Cardinality(H) <= 1 /\ (Cardinality(H) = 1 \/ H = {})
<1>1. CASE H = {}
  <2>1. Cardinality(H) = 0
    BY <1>1, FS_EmptySet
  <2> QED
    BY <1>1, <2>1
<1>2. CASE H # {}
  <2>1. \E i : H = {i}
    BY <1>2
  <2>2. Cardinality(H) = 1
    BY <2>1, FS_Singleton
  <2> QED
    BY <2>2
<1> QED
  BY <1>1, <1>2

-----------------------------------------------------------------------------
(* How often a key is listed: what the merge compares, so that a student has *)
(* the one key in a file with exam_level and the other one elsewhere.        *)

Named(k) == [id : Int, key : {k}]
InFile(k) == \E f \in Lists : \E i \in DOMAIN f : f[i] = k

\* No file has a key twice.
NoTwins == \A f \in Lists : \A i, j \in DOMAIN f : f[i] = f[j] => i = j

\* How often a student is listed besides the place in a file or on the sheet.
Again(k) == added[k] + (IF InFile(k) THEN saves ELSE 0)

\* Entries without an id of the database name whom the keys name.
LEMMA HitsOfUnnumbered ==
  ASSUME NEW keys \in Seq(Keys), NEW k
  PROVE  Hits(Rosters!Unnumbered(keys), Named(k)) = Hits(keys, {k})
<1>1. /\ DOMAIN Rosters!Unnumbered(keys) = DOMAIN keys
      /\ \A i \in DOMAIN keys :
           Rosters!Unnumbered(keys)[i] = [id |-> 0, key |-> keys[i]]
  BY DEF Rosters!Unnumbered
<1>2. \A i \in DOMAIN keys :
        Rosters!Unnumbered(keys)[i] \in Named(k) <=> keys[i] \in {k}
  BY <1>1 DEF Named
<1> QED
  BY <1>1, <1>2 DEF Hits

\* Of the sheet comes who is not among the others, and only once.
LEMMA UnseenOnce ==
  ASSUME Rosters!TypeOK, NEW others \in Seq(Entries), NEW k \in Keys
  PROVE  /\ Cardinality(Hits(Rosters!Unseen(others), Named(k))) <= 1
         /\ Cardinality(Hits(Rosters!Unseen(others), Named(k))) = 0
              \/ Hits(others, Named(k)) = {}
<1> DEFINE New == {i \in DOMAIN onSheet :
                     /\ onSheet[i] \notin Rosters!KeysOf(others)
                     /\ \A j \in 1..(i - 1) : onSheet[j] # onSheet[i]}
           p == Picked(onSheet, New)
<1>1. /\ onSheet \in Seq(Keys) /\ New \in SUBSET DOMAIN onSheet
      /\ \A i \in New : /\ onSheet[i] \notin Rosters!KeysOf(others)
                        /\ \A j \in 1..(i - 1) : onSheet[j] # onSheet[i]
  BY DEF Rosters!TypeOK
<1>0. Rosters!Unseen(others) = Rosters!Unnumbered(p)
  BY RosterPicks DEF Rosters!Unseen
<1> HIDE DEF New
<1>2. /\ p \in Seq(Keys)
      /\ DOMAIN p = 1..Cardinality(New)
      /\ \A n \in DOMAIN p : Nth(New, n) \in New /\ p[n] = onSheet[Nth(New, n)]
      /\ \A m, n \in DOMAIN p : Nth(New, m) = Nth(New, n) => m = n
  BY <1>1, PickedIs
<1>4. Hits(Rosters!Unseen(others), Named(k)) = Hits(p, {k})
  BY <1>0, <1>2, HitsOfUnnumbered
<1>5. \A m, n \in Hits(p, {k}) : m = n
  <2> SUFFICES ASSUME NEW m \in Hits(p, {k}), NEW n \in Hits(p, {k}) PROVE m = n
    OBVIOUS
  <2>1. /\ m \in DOMAIN p /\ p[m] = k /\ n \in DOMAIN p /\ p[n] = k
    BY DEF Hits
  <2>2. PICK i \in New, j \in New : i = Nth(New, m) /\ j = Nth(New, n)
    BY <1>2, <2>1
  <2>3. onSheet[i] = onSheet[j]
    BY <1>2, <2>1, <2>2
  <2>4. i \in Nat /\ j \in Nat /\ i >= 1 /\ j >= 1
    BY <1>1, LenProperties
  <2>5. i = j
    <3>1. CASE i < j
      <4>1. i \in 1..(j - 1)
        BY <2>4, <3>1
      <4> QED
        BY <1>1, <2>3, <4>1
    <3>2. CASE j < i
      <4>1. j \in 1..(i - 1)
        BY <2>4, <3>2
      <4> QED
        BY <1>1, <2>3, <4>1
    <3> QED
      BY <2>4, <3>1, <3>2
  <2> QED
    BY <1>2, <2>1, <2>2, <2>5
<1>6. Hits(p, {k}) # {} => Hits(others, Named(k)) = {}
  <2> SUFFICES ASSUME NEW m \in Hits(p, {k}), NEW j \in Hits(others, Named(k))
               PROVE  FALSE
    OBVIOUS
  <2>1. m \in DOMAIN p /\ p[m] = k /\ j \in DOMAIN others /\ others[j] \in Named(k)
    BY DEF Hits
  <2>2. k \notin Rosters!KeysOf(others)
    BY <1>1, <1>2, <2>1
  <2>3. others[j].key = k
    BY <2>1 DEF Named
  <2> QED
    BY <2>1, <2>2, <2>3 DEF Rosters!KeysOf
<1> HIDE DEF p
<1>7. Cardinality(Hits(p, {k})) <= 1
  BY <1>5, OnceAtMost
<1>8. Hits(p, {k}) = {} => Cardinality(Hits(p, {k})) = 0
  BY FS_EmptySet
<1> QED
  BY <1>4, <1>6, <1>7, <1>8

\* A file names nobody twice, and nobody whom no file names.
LEMMA HitsOfFile ==
  ASSUME NoTwins, NEW f \in Lists \cup {<< >>}, NEW k \in Keys
  PROVE  /\ f \in Seq(Keys)
         /\ Cardinality(Hits(f, {k})) <= IF InFile(k) THEN 1 ELSE 0
<1>1. f \in Seq(Keys)
  BY ListsAre, EmptySeq
<1>2. \A i, j \in Hits(f, {k}) : i = j
  BY DEF Hits, NoTwins
<1>3. Hits(f, {k}) # {} => InFile(k)
  BY DEF Hits, InFile
<1>4. Cardinality(Hits(f, {k})) <= 1
  BY <1>2, OnceAtMost
<1>5. ~ InFile(k) => Cardinality(Hits(f, {k})) = 0
  BY <1>3, FS_EmptySet
<1> QED
  BY <1>1, <1>4, <1>5

\* A student is listed where the file, the database or the sheet names the
\* student, and the sheet does so only for whom the others do not name.
LEMMA CopiesAre ==
  ASSUME Rosters!TypeOK, NoTwins, NEW k \in Keys
  PROVE  LET copies == {i \in DOMAIN Rosters!Loaded : Rosters!Loaded[i].key = k}
             inDb == Cardinality(Hits(db, Named(k)))
         IN  /\ Cardinality(copies) \in Nat /\ inDb \in Nat
             /\ Cardinality(copies) <= IF InFile(k) \/ inDb = 0 THEN 1 + inDb ELSE inDb
<1>1. PICK a \in Seq([id : {0}, key : Keys]), b \in Seq([id : {0}, key : Keys]) :
        /\ a = Rosters!Unnumbered(Rosters!AsRead(loaded))
        /\ b = Rosters!Unseen(a \o db)
        /\ {a, b, db, a \o db, (a \o db) \o b} \subseteq Seq(Entries)
        /\ DOMAIN Rosters!Loaded = DOMAIN ((a \o db) \o b)
        /\ \A i \in DOMAIN Rosters!Loaded :
             LET e == ((a \o db) \o b)[i]
             IN  /\ Rosters!Loaded[i] \in Entries
                 /\ Rosters!Loaded[i].key = e.key
  BY LoadedParts
<1>2. PICK c : c = a \o db
  OBVIOUS
<1>3. PICK all : all = c \o b
  OBVIOUS
<1>4. /\ {a, b, c, db, all} \subseteq Seq(Entries)
      /\ DOMAIN Rosters!Loaded = DOMAIN all
      /\ \A i \in DOMAIN all : Rosters!Loaded[i].key = all[i].key
      /\ b = Rosters!Unseen(c)
  BY <1>1, <1>2, <1>3
<1>5. {i \in DOMAIN Rosters!Loaded : Rosters!Loaded[i].key = k} = Hits(all, Named(k))
  <2>1. \A i \in DOMAIN all : all[i] \in Entries
    BY <1>4, LenProperties, ElementOfSeq
  <2>2. \A i \in DOMAIN all : all[i].key = k <=> all[i] \in Named(k)
    BY <2>1 DEF Named, Entries
  <2> QED
    BY <1>4, <2>2 DEF Hits
<1> DEFINE A == Cardinality(Hits(a, Named(k)))
           B == Cardinality(Hits(b, Named(k)))
           C == Cardinality(Hits(c, Named(k)))
           D == Cardinality(Hits(db, Named(k)))
<1>6. Cardinality(Hits(all, Named(k))) = C + B /\ C = A + D
  <2>1. a \in Seq(Entries) /\ b \in Seq(Entries) /\ c \in Seq(Entries) /\ db \in Seq(Entries)
    BY <1>4
  <2>2. Cardinality(Hits(c \o b, Named(k))) = C + B
    BY <2>1, HitsOfConcat
  <2>3. Cardinality(Hits(a \o db, Named(k))) = A + D
    BY <2>1, HitsOfConcat
  <2> QED
    BY <1>2, <1>3, <2>2, <2>3
<1>7. A \in Nat /\ B \in Nat /\ C \in Nat /\ D \in Nat
  BY <1>4, HitsFinite
<1>8. A <= IF InFile(k) THEN 1 ELSE 0
  <2>1. PICK f \in Lists \cup {<< >>} : f = Rosters!AsRead(loaded)
    BY ListsAre DEF Rosters!TypeOK
  <2>2. f \in Seq(Keys) /\ Cardinality(Hits(f, {k})) <= IF InFile(k) THEN 1 ELSE 0
    BY HitsOfFile
  <2> QED
    BY <1>1, <2>1, <2>2, HitsOfUnnumbered
<1>9. B <= 1 /\ (B = 0 \/ C = 0)
  <2>1. B <= 1 /\ (B = 0 \/ Hits(c, Named(k)) = {})
    BY <1>4, UnseenOnce
  <2> QED
    BY <2>1, FS_EmptySet
<1>10. PICK n : n = Cardinality(Hits(all, Named(k)))
  OBVIOUS
<1> HIDE DEF A, B, C, D
<1>11. n = C + B /\ C = A + D
  BY <1>6, <1>10 DEF A, B, C, D
<1>12. n \in Nat /\ n <= IF InFile(k) \/ D = 0 THEN 1 + D ELSE D
  BY <1>7, <1>8, <1>9, <1>11
<1> QED
  BY <1>5, <1>7, <1>10, <1>12 DEF D

\* A student has at most one row in the database for every time the student was
\* added or, in a file, saved; who is in no file has one more of a listing, and
\* a run is started with no more.
Few(k, list, keys, again) ==
  /\ Cardinality(Hits(list, Named(k))) <= IF InFile(k) THEN again ELSE 1 + again
  /\ Cardinality(Hits(keys, {k})) <= 1 + again
RowsBounded == \A k \in Keys : Few(k, db, starting, Again(k))

CopiesInv == Rosters!TypeOK /\ RowsBounded

LEMMA AgainIs ==
  ASSUME Rosters!TypeOK, NEW k \in Keys
  PROVE  /\ added[k] \in Nat /\ saves \in Nat /\ Again(k) \in Nat
         /\ Cardinality(Hits(db, Named(k))) \in Nat
         /\ Cardinality(Hits(starting, {k})) \in Nat
<1>1. added[k] \in Nat /\ saves \in Nat
  BY DEF Rosters!TypeOK
<1>2. Again(k) \in Nat
  BY <1>1 DEF Again
<1> QED
  BY <1>1, <1>2, HitsFinite DEF Rosters!TypeOK

LEMMA CopiesFew ==
  ASSUME CopiesInv, NoTwins, NEW k \in Keys
  PROVE  LET copies == {i \in DOMAIN Rosters!Loaded : Rosters!Loaded[i].key = k}
         IN  Cardinality(copies) \in Nat /\ Cardinality(copies) <= 1 + Again(k)
<1>1. PICK n, inDb :
        /\ n = Cardinality({i \in DOMAIN Rosters!Loaded : Rosters!Loaded[i].key = k})
        /\ inDb = Cardinality(Hits(db, Named(k)))
  OBVIOUS
<1>2. /\ n \in Nat /\ inDb \in Nat
      /\ n <= IF InFile(k) \/ inDb = 0 THEN 1 + inDb ELSE inDb
  BY <1>1, CopiesAre DEF CopiesInv
<1>3. inDb <= IF InFile(k) THEN Again(k) ELSE 1 + Again(k)
  BY <1>1 DEF CopiesInv, RowsBounded, Few
<1>4. Again(k) \in Nat
  BY AgainIs DEF CopiesInv
<1>5. n <= 1 + Again(k)
  BY <1>2, <1>3, <1>4
<1> QED
  BY <1>1, <1>2, <1>5

\* With no row besides, and no student of a run besides, few rows stay few.
LEMMA FewStay ==
  ASSUME Rosters!TypeOK, NEW k \in Keys, Few(k, db, starting, Again(k)),
         NEW list \in Seq(Entries), NEW keys \in Seq(Keys), NEW again \in Nat,
         Again(k) <= again,
         \/ list = db
         \/ Cardinality(Hits(list, Named(k)))
              <= IF InFile(k) THEN again ELSE 1 + again,
         \/ keys = starting
         \/ Cardinality(Hits(keys, {k})) <= 1 + again
  PROVE  Few(k, list, keys, again)
<1>1. PICK n, m : n = Cardinality(Hits(db, Named(k)))
                  /\ m = Cardinality(Hits(starting, {k}))
  OBVIOUS
<1>2. PICK x : x = Again(k)
  OBVIOUS
<1>3. n \in Nat /\ m \in Nat /\ x \in Nat
  BY <1>1, <1>2, AgainIs
<1>4. n <= (IF InFile(k) THEN x ELSE 1 + x) /\ m <= 1 + x /\ x <= again
  BY <1>1, <1>2 DEF Few
<1>5. n <= (IF InFile(k) THEN again ELSE 1 + again) /\ m <= 1 + again
  BY <1>3, <1>4
<1> QED
  BY <1>1, <1>5, Zenon DEF Few

\* What a step does, in the values it leaves.
LEMMA CopiesStep ==
  ASSUME CopiesInv, Rosters!TypeOK',
         NEW list \in Seq(Entries), list = db',
         NEW keys \in Seq(Keys), keys = starting',
         NEW again, again = [k \in Keys |-> Again(k)'],
         \A k \in Keys :
           /\ again[k] \in Nat
           /\ Again(k) <= again[k]
           /\ \/ list = db
              \/ Cardinality(Hits(list, Named(k)))
                   <= IF InFile(k) THEN again[k] ELSE 1 + again[k]
           /\ \/ keys = starting
              \/ Cardinality(Hits(keys, {k})) <= 1 + again[k]
  PROVE  CopiesInv'
<1>1. \A k \in Keys : Few(k, list, keys, again[k])
  BY FewStay DEF CopiesInv, RowsBounded
<1>2. ASSUME NEW k \in Keys PROVE Few(k, db, starting, Again(k))'
  <2>1. Few(k, db', starting', Again(k)')
    BY <1>1
  <2> QED
    BY <2>1, Zenon DEF Few, Hits, Named, InFile
<1> QED
  BY <1>2 DEF CopiesInv, RowsBounded

\* New rows for keys are as many as the keys.
LEMMA HitsOfRows ==
  ASSUME NEW keys \in Seq(Keys), NEW list, DOMAIN list = DOMAIN keys,
         NEW n \in Nat,
         \A i \in DOMAIN keys : list[i] = [id |-> n + i, key |-> keys[i]],
         NEW k
  PROVE  Hits(list, Named(k)) = Hits(keys, {k})
<1>1. \A i \in DOMAIN keys : n + i \in Int
  BY LenProperties
<1>2. \A i \in DOMAIN keys : list[i] \in Named(k) <=> keys[i] \in {k}
  BY <1>1 DEF Named
<1> QED
  BY <1>2 DEF Hits

\* The rows of the database are replaced by those of keys.
LEMMA CopiesSaved ==
  ASSUME CopiesInv, Rosters!TypeOK', NEW keys \in Seq(Keys),
         Rosters!SaveStudents(keys),
         \A k \in Keys : Cardinality(Hits(keys, {k})) <= 1 + Again(k),
         UNCHANGED starting \/ starting' = << >>
  PROVE  CopiesInv'
<1>1. PICK list \in Seq([id : 1..MaxKey, key : Keys]) :
        /\ list = db' /\ DOMAIN list = DOMAIN keys
        /\ \A i \in DOMAIN keys : list[i] = [id |-> lastId + i, key |-> keys[i]]
  BY RowsSaved DEF CopiesInv
<1>2. list \in Seq(Entries)
  <2>1. [id : 1..MaxKey, key : Keys] \subseteq Entries
    BY RosterAssumed DEF Entries
  <2> QED
    BY <2>1, SeqMonotonic
<1>3. PICK run \in Seq(Keys) : run = starting' /\ (run = starting \/ run = << >>)
  BY EmptySeq DEF CopiesInv, Rosters!TypeOK
<1>4. PICK again : again = [k \in Keys |-> added[k] + IF InFile(k) THEN saves + 1 ELSE 0]
  OBVIOUS
<1>5. saves' = saves + 1 /\ added' = added
  BY RowsSaved DEF CopiesInv
<1>6. \A k \in Keys : Again(k)' = again[k]
  BY <1>4, <1>5, Zenon DEF Again, InFile
<1>7. again = [k \in Keys |-> Again(k)']
  BY <1>4, <1>6, Zenon
<1>8. ASSUME NEW k \in Keys
      PROVE  /\ again[k] \in Nat /\ Again(k) <= again[k]
             /\ Cardinality(Hits(list, Named(k)))
                  <= IF InFile(k) THEN again[k] ELSE 1 + again[k]
             /\ run = starting \/ Cardinality(Hits(run, {k})) <= 1 + again[k]
  <2>1. added[k] \in Nat /\ saves \in Nat /\ Again(k) \in Nat
    BY AgainIs DEF CopiesInv
  <2>2. /\ Again(k) = added[k] + IF InFile(k) THEN saves ELSE 0
        /\ again[k] = added[k] + IF InFile(k) THEN saves + 1 ELSE 0
    BY <1>4 DEF Again
  <2>3. Cardinality(Hits(keys, {k})) \in Nat
    BY HitsFinite
  <2>4. lastId \in Nat
    BY RowsAre DEF CopiesInv
  <2>5. Hits(list, Named(k)) = Hits(keys, {k})
    BY <1>1, <2>4, HitsOfRows
  <2>6. Cardinality(Hits(keys, {k})) <= 1 + Again(k)
    OBVIOUS
  <2>7. run = << >> => Cardinality(Hits(run, {k})) = 0
    <3>1. Hits(<< >>, {k}) = {}
      BY DEF Hits
    <3> QED
      BY <3>1, FS_EmptySet
  <2>8. again[k] \in Nat /\ Again(k) <= again[k]
    BY <2>1, <2>2
  <2>9. Cardinality(Hits(keys, {k})) <= IF InFile(k) THEN again[k] ELSE 1 + again[k]
    BY <2>1, <2>2, <2>3, <2>6
  <2>10. run = starting \/ Cardinality(Hits(run, {k})) <= 1 + again[k]
    BY <1>3, <2>7, <2>8
  <2> QED
    BY <2>5, <2>8, <2>9, <2>10
<1> QED
  BY <1>1, <1>2, <1>3, <1>7, <1>8, CopiesStep

\* No row and no student of a run besides.
LEMMA NoneBesides ==
  ASSUME CopiesInv, Rosters!TypeOK', UNCHANGED <<added, saves>>,
         NEW list \in Seq(Entries), list = db',
         \/ list = db
         \/ \A k \in Keys : Cardinality(Hits(list, Named(k)))
              <= IF InFile(k) THEN Again(k) ELSE 1 + Again(k),
         NEW keys \in Seq(Keys), keys = starting',
         \/ keys = starting
         \/ \A k \in Keys : Cardinality(Hits(keys, {k})) <= 1 + Again(k)
  PROVE  CopiesInv'
<1>1. PICK again : again = [k \in Keys |-> Again(k)]
  OBVIOUS
<1>2. \A k \in Keys : Again(k)' = Again(k)
  BY Zenon DEF Again, InFile
<1>3. again = [k \in Keys |-> Again(k)']
  BY <1>1, <1>2, Zenon
<1>4. \A k \in Keys : again[k] = Again(k) /\ again[k] \in Nat
  BY <1>1, AgainIs DEF CopiesInv
<1>5. ASSUME NEW k \in Keys
      PROVE  /\ again[k] \in Nat /\ Again(k) <= again[k]
             /\ \/ list = db
                \/ Cardinality(Hits(list, Named(k)))
                     <= IF InFile(k) THEN again[k] ELSE 1 + again[k]
             /\ keys = starting \/ Cardinality(Hits(keys, {k})) <= 1 + again[k]
  BY <1>4
<1> QED
  BY <1>3, <1>5, CopiesStep

LEMMA RowsStay ==
  ASSUME CopiesInv
  PROVE  db \in Seq(Entries) /\ starting \in Seq(Keys)
BY RowsAre DEF CopiesInv, Rosters!TypeOK

LEMMA CopiesAdded ==
  ASSUME CopiesInv, Rosters!TypeOK', NEW e \in Keys, Rosters!AddStudent(e)
  PROVE  CopiesInv'
<1>1. PICK r : r = [id |-> lastId + 1, key |-> e]
  OBVIOUS
<1>2. r \in Entries
  BY <1>1, RowsAre DEF CopiesInv, Entries
<1>3. PICK list \in Seq(Entries) : list = Append(db, r)
  BY <1>2, RowsStay, AppendProperties
<1>4. PICK again : again = [k \in Keys |-> IF k = e THEN Again(k) + 1 ELSE Again(k)]
  OBVIOUS
<1>5. list = db' /\ added' = [added EXCEPT ![e] = @ + 1] /\ UNCHANGED <<starting, saves>>
  BY <1>1, <1>3 DEF Rosters!AddStudent
<1>6. ASSUME NEW k \in Keys
      PROVE  /\ again[k] = Again(k)'
             /\ again[k] \in Nat /\ Again(k) <= again[k]
             /\ Cardinality(Hits(list, Named(k)))
                  <= IF InFile(k) THEN again[k] ELSE 1 + again[k]
  <2>1. added \in [Keys -> Nat] /\ added[k] \in Nat /\ saves \in Nat /\ Again(k) \in Nat
    BY AgainIs DEF CopiesInv, Rosters!TypeOK
  <2>2. again[k] = IF k = e THEN Again(k) + 1 ELSE Again(k)
    BY <1>4
  <2>3. PICK x : x = IF k = e THEN added[k] + 1 ELSE added[k]
    OBVIOUS
  <2>4. added'[k] = x
    BY <1>5, <2>1, <2>3
  <2>5. Again(k)' = x + IF InFile(k) THEN saves ELSE 0
    BY <1>5, <2>4, Zenon DEF Again, InFile
  <2>6. again[k] = x + IF InFile(k) THEN saves ELSE 0
    BY <2>1, <2>2, <2>3 DEF Again
  <2>7. r \in Named(k) <=> k = e
    BY <1>1, <1>2 DEF Named, Entries
  <2>8. Cardinality(Hits(list, Named(k)))
          = IF k = e THEN Cardinality(Hits(db, Named(k))) + 1
                     ELSE Cardinality(Hits(db, Named(k)))
    BY <1>2, <1>3, <2>7, RowsStay, HitsOfAppend
  <2>9. /\ Cardinality(Hits(db, Named(k))) \in Nat
        /\ Cardinality(Hits(db, Named(k))) <= IF InFile(k) THEN Again(k) ELSE 1 + Again(k)
    BY AgainIs DEF CopiesInv, RowsBounded, Few
  <2>10. Cardinality(Hits(list, Named(k))) <= IF InFile(k) THEN again[k] ELSE 1 + again[k]
    BY <2>1, <2>2, <2>8, <2>9
  <2>11. again[k] = Again(k)'
    BY <2>5, <2>6
  <2> QED
    BY <2>1, <2>2, <2>10, <2>11
<1>7. again = [k \in Keys |-> Again(k)']
  BY <1>4, <1>6, Zenon
<1>8. starting \in Seq(Keys) /\ starting = starting'
  BY <1>5, RowsStay
<1> QED
  BY <1>5, <1>6, <1>7, <1>8, CopiesStep

LEMMA CopiesStarted ==
  ASSUME CopiesInv, Rosters!TypeOK', NoTwins, Rosters!StartRun PROVE CopiesInv'
<1>1. PICK keys \in Seq(Keys) :
        keys = [i \in DOMAIN Rosters!Loaded |-> Rosters!Loaded[i].key]
  BY LoadedKeys DEF CopiesInv
<1>2. PICK P \in SUBSET DOMAIN keys : starting' = Picked(keys, P)
  BY <1>1, RosterPicks DEF Rosters!StartRun
<1>3. PICK run \in Seq(Keys) : run = starting' /\ run = Picked(keys, P)
  BY <1>2, PickedIs
<1>4. ASSUME NEW k \in Keys PROVE Cardinality(Hits(run, {k})) <= 1 + Again(k)
  <2>1. Hits(keys, {k}) = {i \in DOMAIN Rosters!Loaded : Rosters!Loaded[i].key = k}
    BY <1>1 DEF Hits
  <2>2. Cardinality(Hits(keys, {k})) <= 1 + Again(k)
    BY <2>1, CopiesFew
  <2>3. Cardinality(Hits(run, {k})) <= Cardinality(Hits(keys, {k}))
    BY <1>3, HitsOfPicked
  <2>4. /\ Cardinality(Hits(run, {k})) \in Nat /\ Cardinality(Hits(keys, {k})) \in Nat
        /\ Again(k) \in Nat
    BY HitsFinite, AgainIs DEF CopiesInv
  <2> QED
    BY <2>2, <2>3, <2>4
<1>5. UNCHANGED <<db, added, saves>>
  BY DEF Rosters!StartRun, Rosters!ghostVars
<1>6. db \in Seq(Entries) /\ db = db'
  BY <1>5, RowsStay
<1> QED
  BY <1>3, <1>4, <1>5, <1>6, NoneBesides

LEMMA CopiesDeleted ==
  ASSUME CopiesInv, Rosters!TypeOK', Rosters!DeleteStudent(shown.id)
  PROVE  CopiesInv'
<1>1. UNCHANGED <<starting, added, saves>>
  BY DEF Rosters!DeleteStudent, Rosters!ghostVars
<1>2. starting \in Seq(Keys) /\ starting = starting'
  BY <1>1, RowsStay
<1>3. CASE db' = db
  BY <1>1, <1>2, <1>3, RowsStay, NoneBesides
<1>4. CASE db' # db
  <2>1. PICK P \in SUBSET DOMAIN db : db' = Picked(db, P)
    BY <1>4, RosterPicks DEF Rosters!DeleteStudent
  <2>2. PICK list \in Seq(Entries) : list = db' /\ list = Picked(db, P)
    BY <2>1, PickedIs, RowsStay
  <2>3. ASSUME NEW k \in Keys
        PROVE  Cardinality(Hits(list, Named(k)))
                 <= IF InFile(k) THEN Again(k) ELSE 1 + Again(k)
    <3>1. Cardinality(Hits(list, Named(k))) <= Cardinality(Hits(db, Named(k)))
      BY <2>2, RowsStay, HitsOfPicked
    <3>2. /\ Cardinality(Hits(list, Named(k))) \in Nat
          /\ Cardinality(Hits(db, Named(k))) \in Nat /\ Again(k) \in Nat
      BY HitsFinite, AgainIs DEF CopiesInv
    <3>3. Cardinality(Hits(db, Named(k))) <= IF InFile(k) THEN Again(k) ELSE 1 + Again(k)
      BY DEF CopiesInv, RowsBounded, Few
    <3> QED
      BY <3>1, <3>2, <3>3
  <2> QED
    BY <1>1, <1>2, <2>2, <2>3, NoneBesides
<1> QED
  BY <1>3, <1>4

LEMMA CopiesKept ==
  ASSUME CopiesInv, NoTwins, [Rosters!Next]_(Rosters!vars) PROVE CopiesInv'
<1>0. Rosters!TypeOK'
  BY RosterTyped DEF CopiesInv
<1>1. CASE UNCHANGED <<db, starting, added, saves>>
  <2>1. db \in Seq(Entries) /\ db = db' /\ starting \in Seq(Keys) /\ starting = starting'
    BY <1>1, RowsStay
  <2> QED
    BY <1>0, <1>1, <2>1, NoneBesides
<1>2. ASSUME NEW k \in Keys, Rosters!AddToSheet(k) \/ Rosters!AddStudent(k)
      PROVE  CopiesInv'
  BY <1>0, <1>1, <1>2, CopiesAdded DEF Rosters!AddToSheet, Rosters!ghostVars
<1>3. CASE Rosters!StartRun
  BY <1>0, <1>3, CopiesStarted
<1>4. CASE Rosters!DeleteStudent(shown.id)
  BY <1>0, <1>4, CopiesDeleted
<1>5. CASE Rosters!OpenRun
  <2>1. Rosters!SaveStudents(starting) /\ starting' = << >>
    BY <1>5 DEF Rosters!OpenRun, Rosters!NoRun
  <2>2. \A k \in Keys : Cardinality(Hits(starting, {k})) <= 1 + Again(k)
    BY DEF CopiesInv, RowsBounded, Few
  <2> QED
    BY <1>0, <2>1, <2>2, RowsStay, CopiesSaved
<1>6. CASE Rosters!CommandLine
  <2>1. PICK f \in Lists : Rosters!SaveStudents(f)
    BY <1>6 DEF Rosters!CommandLine, Lists
  <2>2. f \in Seq(Keys) /\ UNCHANGED starting
    BY <1>6, ListsAre DEF Rosters!CommandLine
  <2>3. ASSUME NEW k \in Keys PROVE Cardinality(Hits(f, {k})) <= 1 + Again(k)
    <3>1. Again(k) \in Nat /\ Cardinality(Hits(f, {k})) \in Nat
      BY <2>2, AgainIs, HitsFinite DEF CopiesInv
    <3>2. Cardinality(Hits(f, {k})) <= IF InFile(k) THEN 1 ELSE 0
      BY HitsOfFile
    <3> QED
      BY <3>1, <3>2
  <2> QED
    BY <1>0, <2>1, <2>2, <2>3, CopiesSaved
<1>7. CASE Rosters!LoadFile \/ Rosters!ListStudents \/ UNCHANGED Rosters!vars
  BY <1>1, <1>7 DEF Rosters!LoadFile, Rosters!ListStudents, Rosters!vars, Rosters!ghostVars
<1> QED
  BY <1>2, <1>3, <1>4, <1>5, <1>6, <1>7 DEF Rosters!Next

LEMMA CopiesInit == ASSUME Rosters!Init PROVE CopiesInv
<1>1. Rosters!TypeOK
  BY RosterInit DEF StaleInv
<1>2. db = << >> /\ starting = << >>
  BY DEF Rosters!Init, Rosters!NoRun
<1>3. \A k \in Keys : Again(k) \in Nat
  BY <1>1, AgainIs
<1>4. ASSUME NEW Q PROVE Cardinality(Hits(<< >>, Q)) = 0
  <2>1. Hits(<< >>, Q) = {}
    BY DEF Hits
  <2> QED
    BY <2>1, FS_EmptySet
<1> QED
  BY <1>1, <1>2, <1>3, <1>4 DEF CopiesInv, RowsBounded, Few

\* If no file has a key twice, a key is listed once and once more for every time
\* it was added; only one that is in a file once more for every run that replaced
\* the rows.
THEOREM CopiesAreBounded ==
  ASSUME NoTwins PROVE Spec => []CopiesBounded
<1>1. Rosters!Init => CopiesInv
  BY CopiesInit
<1>2. CopiesInv /\ [Rosters!Next]_(Rosters!vars) => CopiesInv'
  BY NoTwins, CopiesKept
<1>3. CopiesInv => CopiesBounded
  <2> SUFFICES ASSUME CopiesInv, NEW k \in Keys
               PROVE  LET copies == Rosters!Cardinality({i \in DOMAIN Rosters!Loaded :
                                                    Rosters!Loaded[i].key = k})
                          inFile == \E f \in Files :
                                      k \in Rosters!ToSet(Rosters!AsRead(f))
                      IN  copies <= 1 + added[k] + (IF inFile THEN saves ELSE 0)
    BY DEF CopiesBounded, Rosters!CopiesBounded
  <2>1. PICK n : n = Cardinality({i \in DOMAIN Rosters!Loaded : Rosters!Loaded[i].key = k})
    OBVIOUS
  <2>2. n \in Nat /\ n <= 1 + Again(k)
    BY <2>1, CopiesFew
  <2>3. Rosters!Cardinality({i \in DOMAIN Rosters!Loaded : Rosters!Loaded[i].key = k}) = n
    BY <2>1, Zenon DEF Rosters!Cardinality, Cardinality
  <2>4. InFile(k) <=> \E f \in Files : k \in Rosters!ToSet(Rosters!AsRead(f))
    <3>1. \A f \in Lists : (\E i \in DOMAIN f : f[i] = k) <=> k \in Rosters!ToSet(f)
      BY DEF Rosters!ToSet
    <3> QED
      BY <3>1 DEF InFile, Lists
  <2>5. added[k] \in Nat /\ saves \in Nat
    BY AgainIs DEF CopiesInv
  <2> QED
    BY <2>2, <2>3, <2>4, <2>5 DEF Again
<1> QED
  BY <1>1, <1>2, <1>3, RostersRun, PTL DEF Rosters!Spec


\* An element of P is the k-th smallest for some k.
LEMMA RankIs ==
  ASSUME NEW n \in Nat, NEW P \in SUBSET (1..n), NEW i \in P
  PROVE  \E k \in 1..Cardinality(P) :
           k = Cardinality({j \in P : j < i}) + 1 /\ Nth(P, k) = i
<1> DEFINE Below(x) == {j \in P : j < x}
<1>1. IsFiniteSet(P) /\ Cardinality(P) \in Nat
  <2>1. IsFiniteSet(1..n)
    BY FS_Interval
  <2> QED
    BY <2>1, FS_Subset, FS_CardinalityType
<1>2. ASSUME NEW x \in P
      PROVE  IsFiniteSet(Below(x)) /\ Cardinality(Below(x)) \in Nat
  BY <1>1, FS_Subset, FS_CardinalityType
<1>3. ASSUME NEW x \in P, NEW y \in P, x < y
      PROVE  Cardinality(Below(x)) < Cardinality(Below(y))
  <2>1. x \in Nat /\ y \in Nat /\ \A j \in P : j \in Nat
    OBVIOUS
  <2>2. Below(x) \cup {x} \subseteq Below(y) /\ x \notin Below(x)
    <3>1. \A j \in P : (j < x => j < y) /\ ~(x < x)
      BY <1>3, <2>1
    <3> QED
      BY <1>3, <3>1
  <2>3. IsFiniteSet(Below(x)) /\ IsFiniteSet(Below(y))
    BY <1>2
  <2>4. Cardinality(Below(x)) \in Nat /\ Cardinality(Below(y)) \in Nat
    BY <1>2
  <2> HIDE DEF Below
  <2>5. Cardinality(Below(x) \cup {x}) = Cardinality(Below(x)) + 1
    BY <2>2, <2>3, FS_AddElement
  <2>6. Cardinality(Below(x) \cup {x}) <= Cardinality(Below(y))
    BY <2>2, <2>3, FS_Subset
  <2> QED
    BY <2>4, <2>5, <2>6
<1>4. Cardinality(Below(i)) + 1 \in 1..Cardinality(P)
  <2>1. Below(i) \subseteq P \ {i}
    OBVIOUS
  <2>2. IsFiniteSet(P \ {i}) /\ Cardinality(P \ {i}) = Cardinality(P) - 1
    BY <1>1, FS_RemoveElement
  <2>3. Cardinality(Below(i)) \in Nat
    BY <1>2
  <2> HIDE DEF Below
  <2>4. Cardinality(Below(i)) <= Cardinality(P \ {i})
    BY <2>1, <2>2, FS_Subset
  <2> QED
    BY <1>1, <2>2, <2>3, <2>4
<1>5. PICK k \in 1..Cardinality(P) : k = Cardinality(Below(i)) + 1
  BY <1>4
<1>6. Nth(P, k) \in P /\ Cardinality(Below(Nth(P, k))) = k - 1
  BY NthIs
<1>7. PICK m \in P : m = Nth(P, k) /\ Cardinality(Below(m)) = k - 1
  BY <1>6
<1>8. m \in Nat /\ i \in Nat /\ Cardinality(Below(m)) \in Nat
      /\ Cardinality(Below(i)) \in Nat
  BY <1>2
<1>9. m = i
  <2>1. Cardinality(Below(m)) = Cardinality(Below(i))
    BY <1>5, <1>7, <1>8
  <2>2. ~(m < i) /\ ~(i < m)
    BY <1>3, <1>8, <2>1
  <2> QED
    BY <1>8, <2>2
<1> QED
  BY <1>5, <1>7, <1>9


\* A filter keeps what passes it.
LEMMA HitsOfKept ==
  ASSUME NEW S, NEW s \in Seq(S), NEW R, NEW Q \in SUBSET R
  PROVE  LET picked == Picked(s, {i \in DOMAIN s : s[i] \in R})
         IN  Cardinality(Hits(picked, Q)) = Cardinality(Hits(s, Q))
<1> DEFINE P == {i \in DOMAIN s : s[i] \in R}
           picked == Picked(s, P)
           rank == [i \in Hits(s, Q) |-> Cardinality({j \in P : j < i}) + 1]
<1>1. Len(s) \in Nat /\ P \in SUBSET (1..Len(s)) /\ P \in SUBSET DOMAIN s
  BY LenProperties
<1>2. Hits(s, Q) \subseteq P
  BY DEF Hits
<1> HIDE DEF P
<1>3. /\ picked \in Seq(S) /\ DOMAIN picked = 1..Cardinality(P)
      /\ \A k \in 1..Cardinality(P) : picked[k] = s[Nth(P, k)]
  BY <1>1, PickedIs
<1>4. ASSUME NEW i \in Hits(s, Q)
      PROVE  rank[i] \in Hits(picked, Q) /\ Nth(P, rank[i]) = i
  <2>1. PICK k \in 1..Cardinality(P) :
          k = Cardinality({j \in P : j < i}) + 1 /\ Nth(P, k) = i
    BY <1>1, <1>2, RankIs
  <2>2. picked[k] = s[i] /\ s[i] \in Q
    BY <1>3, <2>1 DEF Hits
  <2>3. k \in Hits(picked, Q)
    BY <1>3, <2>1, <2>2 DEF Hits
  <2> QED
    BY <2>1, <2>3
<1>5. rank \in [Hits(s, Q) -> Hits(picked, Q)]
  BY <1>4
<1>6. \A i, j \in Hits(s, Q) : rank[i] = rank[j] => i = j
  BY <1>4
<1>7. rank \in Injection(Hits(s, Q), Hits(picked, Q))
  BY <1>5, <1>6, Fun_IsInj
<1>8. IsFiniteSet(Hits(picked, Q)) /\ Cardinality(Hits(picked, Q)) \in Nat
      /\ Cardinality(Hits(s, Q)) \in Nat
  BY <1>3, HitsFinite
<1>9. Cardinality(Hits(s, Q)) <= Cardinality(Hits(picked, Q))
  BY <1>7, <1>8, FS_Injection
<1>10. Cardinality(Hits(picked, Q)) <= Cardinality(Hits(s, Q))
  BY <1>1, HitsOfPicked
<1> QED
  BY <1>8, <1>9, <1>10 DEF P

-----------------------------------------------------------------------------
(* Signing in to the dashboard.                                             *)

LEMMA BoardRuns == Spec => Board!Spec
<1>1. Init => Board!Init
  BY DEF Init
<1>2. [Next]_vars => [Board!Next]_(Board!vars)
  BY DEF Next, vars, Alone, dashboardVars, Board!vars, Board!ghostVars
<1> QED
  BY <1>1, <1>2, PTL DEF Spec, Board!Spec

LEMMA BoardAssumed ==
  /\ LockoutThreshold \in Nat /\ Lockout \in Nat /\ SessionLife \in Nat
  /\ MaxToken \in Nat /\ LastMoment \in Nat
  /\ RateLimit \in Nat /\ RateWindow \in Nat /\ RateWindow > 0
  /\ "none" \notin Addresses
<1>1. Board!DashboardAssumption
  BY ServicesAssumption
<1> QED
  BY <1>1 DEF Board!DashboardAssumption

LEMMA BoardPicks ==
  /\ \A s, P : Board!Picked(s, P) = Picked(s, P)
  /\ \A S : Board!Cardinality(S) = Cardinality(S)
<1>1. \A s, P : Board!Picked(s, P) = Picked(s, P)
  BY DEF Board!Picked, Picked, Board!Nth, Nth, Board!Cardinality, Cardinality
<1>2. \A S : Board!Cardinality(S) = Cardinality(S)
  BY Zenon DEF Board!Cardinality, Cardinality
<1> QED
  BY <1>1, <1>2

\* The parts of the invariant, of values of the variables.

Requests(now, ex) ==
  [at : {"idle", "storing", "testing", "recording", "checking", "creating",
         "signing out", "exchanging"},
   from : Addresses \cup {"none"}, token : DOMAIN ex \cup {0},
   recent : Seq(0..now), answer : {"none", "refused", "locked", "unauthorized"}]

Times(now) == [Addresses -> Seq(0..now)]

Typed(now, att, adm, fail, locked, sess, ex, ended, req) ==
  /\ now \in 0..LastMoment
  /\ att \in Times(now) /\ adm \in Times(now)
  /\ fail \in 0..LockoutThreshold /\ locked \in 0..(LastMoment + Lockout)
  /\ ex \in Seq(Nat) /\ Len(ex) <= MaxToken
  /\ sess \subseteq DOMAIN ex /\ ended \subseteq DOMAIN ex
  /\ req \in [Callers -> Requests(now, ex)]

\* A thread that is about to make a session has been promised the room for it.
Promised(req) == {c \in Callers : req[c].at \in {"creating", "exchanging"}}
Room(ex, req) ==
  /\ IsFiniteSet(Promised(req))
  /\ Len(ex) + Cardinality(Promised(req)) <= MaxToken

\* Who is at work has no answer yet.
Unanswered(r) ==
  /\ r.at # "idle" => r.answer = "none"
  /\ r.at \in {"storing", "testing", "recording"} => r.from \in Addresses

\* The times that are in the window at n, and how many of s are.
Moments(n) == {x \in Nat : n < x + RateWindow}
Within(s, n) == Cardinality(Hits(s, Moments(n)))
Covers(s, t, now) == \A n \in Nat : n >= now => Within(t, n) <= Within(s, n)
AllIn(s, now) == \A i \in DOMAIN s : s[i] \in Moments(now)

\* Of the attempts that are counted, now or later, no more are in the window than
\* were let in.  Nothing outside the window is tested.
Counted(now, att, adm) == \A a \in Addresses : Covers(adm[a], att[a], now)
Tested(now, att, adm, r) ==
  /\ r.at = "storing" => Covers(adm[r.from], r.recent, now) /\ AllIn(r.recent, now)
  /\ r.at = "testing" => AllIn(att[r.from], now)

\* A token that is not in the table has expired or was given back.
Gone(now, sess, ex, ended) ==
  \A t \in DOMAIN ex : t \in sess \/ t \in ended \/ ex[t] < now

BoardInv ==
  /\ Typed(time, attempts, admitted, globalFailures, lockedUntil, sessions, expires,
           endedTokens, request)
  /\ Room(expires, request)
  /\ \A c \in Callers : Unanswered(request[c])
  /\ Counted(time, attempts, admitted)
  /\ \A c \in Callers : Tested(time, attempts, admitted, request[c])
  /\ Gone(time, sessions, expires, endedTokens)

\* The ban, if there was one, is for a wrong password.
BanInv ==
  /\ mistakes \in Seq(0..time)
  /\ lockedUntil > 0 =>
       \E i \in DOMAIN mistakes : lockedUntil <= mistakes[i] + Lockout

\* The tokens are numbered from 1.
LEMMA TokensAre ==
  ASSUME NEW ex \in Seq(Nat)
  PROVE  /\ DOMAIN ex = 1..Len(ex) /\ Len(ex) \in Nat
         /\ Cardinality(DOMAIN ex) = Len(ex)
<1>1. DOMAIN ex = 1..Len(ex) /\ Len(ex) \in Nat
  BY LenProperties
<1>2. Cardinality(1..Len(ex)) = IF 1 > Len(ex) THEN 0 ELSE Len(ex) - 1 + 1
  BY <1>1, FS_Interval
<1> QED
  BY <1>1, <1>2

LEMMA BoardTyped == BoardInv /\ BanInv => Board!TypeOK
<1> SUFFICES ASSUME BoardInv, BanInv PROVE Board!TypeOK
  OBVIOUS
<1>1. Typed(time, attempts, admitted, globalFailures, lockedUntil, sessions, expires,
            endedTokens, request)
  BY DEF BoardInv
<1>2. /\ DOMAIN expires = 1..Len(expires)
      /\ Board!Cardinality(DOMAIN expires) = Len(expires)
  BY <1>1, TokensAre, BoardPicks DEF Typed
<1>3. Board!Tokens = DOMAIN expires
  BY DEF Board!Tokens
<1> QED
  BY <1>1, <1>2, <1>3 DEF BanInv, Typed, Times, Requests, Board!TypeOK, Board!RawPassword

LEMMA BoardStarts == Board!Init => BoardInv
<1> SUFFICES ASSUME Board!Init PROVE BoardInv
  OBVIOUS
<1>1. /\ time = 0 /\ globalFailures = 0 /\ lockedUntil = 0 /\ expires = << >>
      /\ attempts = [a \in Addresses |-> << >>] /\ admitted = attempts
      /\ sessions = {} /\ endedTokens = {}
      /\ request = [c \in Callers |-> Board!NoRequest]
  BY DEF Board!Init
<1>2. \A S : << >> \in Seq(S)
  BY EmptySeq
<1>3. DOMAIN expires = {} /\ Len(expires) = 0
  BY <1>1
<1>4. /\ Board!NoRequest = [at |-> "idle", from |-> "none", token |-> 0,
                            recent |-> << >>, answer |-> "none"]
      /\ Board!NoRequest \in Requests(0, expires)
  BY <1>2 DEF Board!NoRequest, Board!RawPassword, Requests
<1>5. Typed(time, attempts, admitted, globalFailures, lockedUntil, sessions, expires,
            endedTokens, request)
  <2>1. time \in 0..LastMoment /\ globalFailures \in 0..LockoutThreshold
        /\ lockedUntil \in 0..(LastMoment + Lockout) /\ Len(expires) <= MaxToken
    BY <1>1, <1>3, BoardAssumed
  <2>2. /\ attempts \in [Addresses -> Seq(0..time)]
        /\ admitted \in [Addresses -> Seq(0..time)] /\ expires \in Seq(Nat)
    BY <1>1, <1>2
  <2> QED
    BY <1>1, <1>4, <2>1, <2>2, Zenon DEF Typed, Times
<1>6. \A c \in Callers : request[c].at = "idle"
  BY <1>1, <1>4
<1>7. Room(expires, request)
  <2>1. Promised(request) = {}
    BY <1>6 DEF Promised
  <2> QED
    BY <1>3, <2>1, FS_EmptySet, BoardAssumed DEF Room
<1>8. Counted(time, attempts, admitted)
  <2>1. \A a \in Addresses : attempts[a] = << >> /\ admitted[a] = << >>
    BY <1>1
  <2>2. \A n \in Nat : Within(<< >>, n) \in Nat
    BY EmptySeq, HitsFinite DEF Within
  <2> QED
    BY <2>1, <2>2 DEF Counted, Covers
<1> QED
  BY <1>3, <1>5, <1>6, <1>7, <1>8 DEF BoardInv, Unanswered, Tested, Gone


\* A request takes the place of another.
LEMMA OneRequest ==
  ASSUME BoardInv, NEW c \in Callers, NEW r \in Requests(time, expires), Unanswered(r),
         NEW req, req = [request EXCEPT ![c] = r]
  PROVE  /\ req \in [Callers -> Requests(time, expires)]
         /\ req[c] = r
         /\ \A d \in Callers : d # c => req[d] = request[d]
         /\ \A d \in Callers : Unanswered(req[d])
<1>1. /\ request \in [Callers -> Requests(time, expires)]
      /\ \A d \in Callers : Unanswered(request[d])
  BY DEF BoardInv, Typed
<1>2. /\ req \in [Callers -> Requests(time, expires)]
      /\ req[c] = r /\ \A d \in Callers : d # c => req[d] = request[d]
  BY <1>1
<1> QED
  BY <1>1, <1>2

LEMMA Promises ==
  ASSUME BoardInv, NEW c \in Callers, NEW req,
         \A d \in Callers : d # c => req[d] = request[d]
  PROVE  /\ IsFiniteSet(Promised(req)) /\ Cardinality(Promised(req)) \in Nat
         /\ Cardinality(Promised(request)) \in Nat
         /\ Cardinality(Promised(req))
              + (IF c \in Promised(request) THEN 1 ELSE 0)
            = Cardinality(Promised(request)) + (IF c \in Promised(req) THEN 1 ELSE 0)
<1> DEFINE A == Promised(request)
           B == Promised(req)
<1>1. IsFiniteSet(A)
  BY DEF BoardInv, Room
<1>2. \A d \in Callers : d # c => (d \in A <=> d \in B)
  BY DEF Promised
<1>3. A \subseteq Callers /\ B \subseteq Callers
  BY DEF Promised
<1> HIDE DEF A, B
<1>4. IsFiniteSet(B) /\ Cardinality(B) = Cardinality(A)
        + (IF c \in B THEN 1 ELSE 0) - (IF c \in A THEN 1 ELSE 0)
  <2>0. Cardinality(A) \in Nat
    BY <1>1, FS_CardinalityType
  <2>1. CASE c \in A /\ c \notin B
    <3>1. B = A \ {c}
      BY <1>2, <1>3, <2>1
    <3>2. IsFiniteSet(B) /\ Cardinality(B) = Cardinality(A) - 1
      BY <1>1, <2>1, <3>1, FS_RemoveElement
    <3> QED
      BY <2>0, <2>1, <3>2
  <2>2. CASE c \notin A /\ c \in B
    <3>1. B = A \cup {c}
      BY <1>2, <1>3, <2>2
    <3>2. IsFiniteSet(B) /\ Cardinality(B) = Cardinality(A) + 1
      BY <1>1, <2>2, <3>1, FS_AddElement
    <3> QED
      BY <2>0, <2>2, <3>2
  <2>3. CASE c \in A <=> c \in B
    <3>1. B = A
      BY <1>2, <1>3, <2>3
    <3> QED
      BY <1>1, <2>0, <2>3, <3>1
  <2> QED
    BY <2>1, <2>2, <2>3
<1>5. Cardinality(A) \in Nat /\ Cardinality(B) \in Nat
  BY <1>1, <1>4, FS_CardinalityType
<1>6. Cardinality(B) + (IF c \in A THEN 1 ELSE 0)
        = Cardinality(A) + (IF c \in B THEN 1 ELSE 0)
  BY <1>4, <1>5
<1> QED
  BY <1>4, <1>5, <1>6 DEF A, B

\* A step of a request that records nothing and makes no session.
LEMMA BoardQuiet ==
  ASSUME BoardInv, NEW c \in Callers,
         NEW r \in Requests(time, expires), Unanswered(r),
         Tested(time, attempts, admitted, r),
         r.at \in {"creating", "exchanging"} =>
           \/ request[c].at \in {"creating", "exchanging"}
           \/ Len(expires) + Cardinality(Promised(request)) < MaxToken,
         request' = [request EXCEPT ![c] = r],
         UNCHANGED <<time, attempts, admitted, expires>>,
         globalFailures' \in 0..LockoutThreshold, lockedUntil' \in 0..(LastMoment + Lockout),
         NEW sess \in SUBSET DOMAIN expires, sess = sessions',
         NEW ended \in SUBSET DOMAIN expires, ended = endedTokens',
         Gone(time, sess, expires, ended)
  PROVE  BoardInv'
<1>1. PICK req : req = request' /\ req = [request EXCEPT ![c] = r]
  OBVIOUS
<1>2. /\ req \in [Callers -> Requests(time, expires)]
      /\ req[c] = r
      /\ \A d \in Callers : d # c => req[d] = request[d]
      /\ \A d \in Callers : Unanswered(req[d])
  BY <1>1, OneRequest
<1>3. Room(expires, req)
  <2>1. /\ IsFiniteSet(Promised(req)) /\ Cardinality(Promised(req)) \in Nat
        /\ Cardinality(Promised(request)) \in Nat
        /\ Cardinality(Promised(req))
             + (IF c \in Promised(request) THEN 1 ELSE 0)
           = Cardinality(Promised(request)) + (IF c \in Promised(req) THEN 1 ELSE 0)
    BY <1>2, Promises
  <2>2. Len(expires) + Cardinality(Promised(request)) <= MaxToken
    BY DEF BoardInv, Room
  <2>3. c \in Promised(req) =>
          \/ c \in Promised(request)
          \/ Len(expires) + Cardinality(Promised(request)) < MaxToken
    BY <1>2 DEF Promised
  <2>4. Len(expires) \in Nat /\ MaxToken \in Nat
    BY BoardAssumed, LenProperties DEF BoardInv, Typed
  <2>5. Len(expires) + Cardinality(Promised(req)) <= MaxToken
    BY <2>1, <2>2, <2>3, <2>4
  <2> QED
    BY <2>1, <2>5 DEF Room
<1>4. \A d \in Callers : Tested(time, attempts, admitted, req[d])
  BY <1>2 DEF BoardInv
<1>5. Typed(time, attempts, admitted, globalFailures', lockedUntil', sess, expires, ended, req)
  BY <1>2 DEF BoardInv, Typed
<1>6. Counted(time, attempts, admitted)
  BY DEF BoardInv
<1> QED
  BY <1>1, <1>2, <1>3, <1>4, <1>5, <1>6 DEF BoardInv

\* A request that is over.
LEMMA Over ==
  ASSUME NEW now, NEW att, NEW adm, NEW r, r.at = "idle"
  PROVE  Unanswered(r) /\ Tested(now, att, adm, r)
         /\ r.at \notin {"creating", "exchanging"}
BY DEF Unanswered, Tested

\* Requests that are made from none.
LEMMA NewRequests ==
  ASSUME NEW now, NEW ex
  PROVE  /\ Board!NoRequest \in Requests(now, ex)
         /\ Board!NoRequest.at = "idle" /\ Board!NoRequest.answer = "none"
<1>1. Board!NoRequest = [at |-> "idle", from |-> "none", token |-> 0,
                         recent |-> << >>, answer |-> "none"]
  BY Zenon DEF Board!NoRequest, Board!RawPassword
<1> QED
  BY <1>1, EmptySeq DEF Requests

\* The sessions that have expired may be forgotten, and the others given back.
LEMMA GoneLive ==
  ASSUME BoardInv
  PROVE  /\ Board!Live \in SUBSET DOMAIN expires
         /\ Gone(time, Board!Live, expires, endedTokens)
<1>1. /\ time \in Nat /\ expires \in Seq(Nat) /\ sessions \subseteq DOMAIN expires
      /\ Gone(time, sessions, expires, endedTokens)
  BY BoardAssumed DEF BoardInv, Typed
<1>2. \A t \in DOMAIN expires : expires[t] \in Nat
  BY <1>1, LenProperties, ElementOfSeq
<1> QED
  BY <1>1, <1>2 DEF Gone, Board!Live

LEMMA GoneReturned ==
  ASSUME BoardInv, NEW token \in DOMAIN expires \cup {0}
  PROVE  LET sess == sessions \ {token}
             ended == (endedTokens \cup {token}) \ {0}
         IN  /\ sess \in SUBSET DOMAIN expires /\ ended \in SUBSET DOMAIN expires
             /\ Gone(time, sess, expires, ended)
<1>1. /\ sessions \subseteq DOMAIN expires /\ endedTokens \subseteq DOMAIN expires
      /\ Gone(time, sessions, expires, endedTokens) /\ expires \in Seq(Nat)
  BY DEF BoardInv, Typed
<1>2. 0 \notin DOMAIN expires
  BY <1>1, TokensAre
<1> QED
  BY <1>1, <1>2 DEF Gone


\* What is known of a thread's request.
LEMMA RequestIs ==
  ASSUME BoardInv, NEW c \in Callers
  PROVE  /\ request[c] \in Requests(time, expires) /\ Unanswered(request[c])
         /\ Tested(time, attempts, admitted, request[c])
         /\ time \in Nat /\ expires \in Seq(Nat)
         /\ globalFailures \in 0..LockoutThreshold /\ lockedUntil \in 0..(LastMoment + Lockout)
         /\ sessions \in SUBSET DOMAIN expires /\ endedTokens \in SUBSET DOMAIN expires
         /\ Gone(time, sessions, expires, endedTokens)
BY BoardAssumed DEF BoardInv, Typed

\* A request that goes on to where nothing is stored or tested.
LEMMA GoesOn ==
  ASSUME BoardInv, NEW c \in Callers, request[c].at # "idle",
         NEW place \in {"recording", "checking", "creating"},
         place = "recording" => request[c].from \in Addresses
  PROVE  LET r == [request[c] EXCEPT !.at = place]
         IN  /\ r \in Requests(time, expires) /\ Unanswered(r) /\ r.at = place
             /\ Tested(time, attempts, admitted, r)
<1>1. request[c] \in Requests(time, expires) /\ Unanswered(request[c])
  BY RequestIs
<1>2. PICK q : q = request[c]
  OBVIOUS
<1> QED
  BY <1>1, <1>2 DEF Requests, Unanswered, Tested

LEMMA LoginKeeps ==
  ASSUME BoardInv, NEW c \in Callers, Board!Login(c) PROVE BoardInv'
<1>1. PICK a \in Addresses :
        request' = [request EXCEPT ![c] =
                      IF time < lockedUntil
                      THEN [Board!NoRequest EXCEPT !.from = a, !.answer = "locked"]
                      ELSE [Board!NoRequest EXCEPT !.from = a, !.at = "storing",
                                   !.recent = Board!Recent(attempts[a])]]
  BY DEF Board!Login
<1>2. PICK recent : recent = Board!Recent(attempts[a])
  OBVIOUS
<1>3. PICK r : r = IF time < lockedUntil
                   THEN [Board!NoRequest EXCEPT !.from = a, !.answer = "locked"]
                   ELSE [Board!NoRequest EXCEPT !.from = a, !.at = "storing",
                                                !.recent = recent]
  OBVIOUS
<1>4. request' = [request EXCEPT ![c] = r]
  BY <1>1, <1>2, <1>3
<1>5. attempts[a] \in Seq(0..time)
  BY DEF BoardInv, Typed, Times
<1>6. recent = Picked(attempts[a], {i \in DOMAIN attempts[a] :
                                      time < attempts[a][i] + RateWindow})
  BY <1>2, BoardPicks DEF Board!Recent, Board!InWindow
<1>7. PICK P \in SUBSET DOMAIN attempts[a] :
        /\ recent = Picked(attempts[a], P)
        /\ \A i \in P : time < attempts[a][i] + RateWindow
  BY <1>6
<1>8. recent \in Seq(0..time) /\ AllIn(recent, time)
  <2>1. /\ recent \in Seq(0..time) /\ DOMAIN recent = 1..Cardinality(P)
        /\ \A k \in 1..Cardinality(P) :
             Nth(P, k) \in P /\ recent[k] = attempts[a][Nth(P, k)]
    BY <1>5, <1>7, PickedIs
  <2>2. \A k \in DOMAIN recent : time < recent[k] + RateWindow
    BY <1>7, <2>1
  <2>3. \A k \in DOMAIN recent : recent[k] \in Nat
    <3>1. \A k \in 1..Len(recent) : recent[k] \in 0..time
      BY <2>1, ElementOfSeq
    <3>2. DOMAIN recent = 1..Len(recent)
      BY <2>1, LenProperties
    <3> QED
      BY <3>1, <3>2, RequestIs
  <2> QED
    BY <2>1, <2>2, <2>3 DEF AllIn, Moments
<1>9. Covers(admitted[a], recent, time)
  <2> SUFFICES ASSUME NEW n \in Nat, n >= time
               PROVE  Within(recent, n) <= Within(admitted[a], n)
    BY DEF Covers
  <2>1. Within(recent, n) <= Within(attempts[a], n)
    BY <1>5, <1>7, HitsOfPicked DEF Within
  <2>2. Within(attempts[a], n) <= Within(admitted[a], n)
    BY DEF BoardInv, Counted, Covers
  <2>3. admitted[a] \in Seq(0..time)
    BY DEF BoardInv, Typed, Times
  <2>4. /\ Within(recent, n) \in Nat /\ Within(attempts[a], n) \in Nat
        /\ Within(admitted[a], n) \in Nat
    BY <1>5, <1>8, <2>3, HitsFinite DEF Within
  <2> QED
    BY <2>1, <2>2, <2>4
<1>10. /\ r \in Requests(time, expires) /\ Unanswered(r)
       /\ Tested(time, attempts, admitted, r)
       /\ r.at \notin {"creating", "exchanging"}
  <2>1. CASE time < lockedUntil
    <3>1. PICK q \in Requests(time, expires) : q = Board!NoRequest /\ q.at = "idle"
      BY NewRequests
    <3>2. r = [q EXCEPT !.from = a, !.answer = "locked"]
      BY <1>3, <2>1, <3>1
    <3>3. r \in Requests(time, expires) /\ r.at = "idle"
      BY <3>1, <3>2 DEF Requests
    <3> QED
      BY <3>3, Over
  <2>2. CASE ~(time < lockedUntil)
    <3>1. PICK q \in Requests(time, expires) :
            q = Board!NoRequest /\ q.at = "idle" /\ q.answer = "none"
      BY NewRequests
    <3>2. r = [q EXCEPT !.from = a, !.at = "storing", !.recent = recent]
      BY <1>3, <2>2, <3>1
    <3>3. /\ r \in Requests(time, expires) /\ r.at = "storing" /\ r.from = a
          /\ r.recent = recent /\ r.answer = "none"
      BY <1>8, <3>1, <3>2 DEF Requests
    <3> QED
      BY <1>8, <1>9, <3>3 DEF Unanswered, Tested
  <2> QED
    BY <2>1, <2>2
<1>11. UNCHANGED <<time, attempts, admitted, expires, globalFailures, lockedUntil,
                   sessions, endedTokens>>
  BY DEF Board!Login, Board!ghostVars
<1> QED
  BY <1>4, <1>10, <1>11, RequestIs, BoardQuiet

LEMMA TestKeeps ==
  ASSUME BoardInv, NEW c \in Callers, Board!TestLimit(c) PROVE BoardInv'
<1>1. UNCHANGED <<time, attempts, admitted, expires, globalFailures, lockedUntil,
                  sessions, endedTokens>>
  BY DEF Board!TestLimit, Board!ghostVars
<1>2. request[c].at = "testing" /\ request[c].from \in Addresses
  BY RequestIs DEF Board!TestLimit, Unanswered
<1>3. \E r \in Requests(time, expires) :
        /\ Unanswered(r) /\ Tested(time, attempts, admitted, r)
        /\ r.at \notin {"creating", "exchanging"}
        /\ request' = [request EXCEPT ![c] = r]
  <2>1. CASE Board!Refused(c)
    <3>1. PICK q \in Requests(time, expires) : q = Board!NoRequest /\ q.at = "idle"
      BY NewRequests
    <3>2. PICK r : r = [q EXCEPT !.answer = "refused", !.from = request[c].from]
      OBVIOUS
    <3>3. request' = [request EXCEPT ![c] = r]
      BY <2>1, <3>1, <3>2 DEF Board!Refused
    <3>4. r \in Requests(time, expires) /\ r.at = "idle"
      BY <1>2, <3>1, <3>2 DEF Requests
    <3> QED
      BY <3>3, <3>4, Over
  <2>2. CASE Board!Goto(c, "recording")
    <3>1. PICK r : r = [request[c] EXCEPT !.at = "recording"]
      OBVIOUS
    <3>2. request' = [request EXCEPT ![c] = r]
      BY <2>2, <3>1 DEF Board!Goto
    <3>3. r \in Requests(time, expires) /\ Unanswered(r) /\ r.at = "recording"
          /\ Tested(time, attempts, admitted, r)
      BY <1>2, <3>1, GoesOn
    <3> QED
      BY <3>2, <3>3
  <2> QED
    BY <2>1, <2>2 DEF Board!TestLimit
<1> QED
  BY <1>1, <1>3, RequestIs, BoardQuiet

LEMMA PasswordKeeps ==
  ASSUME BoardInv, NEW c \in Callers, Board!WrongPassword(c) \/ Board!RightPassword(c)
  PROVE  BoardInv'
<1>1. UNCHANGED <<time, attempts, admitted, expires, sessions, endedTokens>>
  BY DEF Board!WrongPassword, Board!RightPassword, Board!ghostVars
<1>2. globalFailures \in 0..LockoutThreshold /\ lockedUntil \in 0..(LastMoment + Lockout)
      /\ time \in 0..LastMoment
  BY RequestIs DEF BoardInv, Typed
<1>3. CASE Board!WrongPassword(c)
  <2>1. PICK f, l : f = globalFailures' /\ l = lockedUntil'
    OBVIOUS
  <2>2. f = (IF globalFailures < LockoutThreshold THEN globalFailures + 1 ELSE globalFailures)
        /\ (l = time + Lockout \/ l = lockedUntil)
    BY <1>3, <2>1 DEF Board!WrongPassword
  <2>3. f \in 0..LockoutThreshold /\ l \in 0..(LastMoment + Lockout)
    BY <1>2, <2>2, BoardAssumed
  <2>4. PICK r \in Requests(time, expires) : r = Board!NoRequest /\ r.at = "idle"
    BY NewRequests
  <2>5. request' = [request EXCEPT ![c] = r]
    BY <1>3, <2>4 DEF Board!WrongPassword, Board!Answered
  <2>6. Unanswered(r) /\ Tested(time, attempts, admitted, r)
        /\ r.at \notin {"creating", "exchanging"}
    BY <2>4, Over
  <2> QED
    BY <1>1, <2>1, <2>3, <2>5, <2>6, RequestIs, BoardQuiet
<1>4. CASE Board!RightPassword(c)
  <2>1. globalFailures' = 0 /\ lockedUntil' = lockedUntil /\ request[c].at = "checking"
    BY <1>4 DEF Board!RightPassword
  <2>2. globalFailures' \in 0..LockoutThreshold /\ lockedUntil' \in 0..(LastMoment + Lockout)
    BY <1>2, <2>1, BoardAssumed
  <2>3. Len(expires) + Cardinality(Promised(request)) < MaxToken
    <3>1. Board!CanCreate
      BY <1>4 DEF Board!RightPassword
    <3> QED
      BY <3>1, BoardPicks, RequestIs, TokensAre DEF Board!CanCreate, Board!Tokens, Promised
  <2>4. PICK r : r = [request[c] EXCEPT !.at = "creating"]
    OBVIOUS
  <2>5. request' = [request EXCEPT ![c] = r]
    BY <1>4, <2>4 DEF Board!RightPassword, Board!Goto
  <2>6. r \in Requests(time, expires) /\ Unanswered(r)
        /\ Tested(time, attempts, admitted, r)
    BY <2>1, <2>4, GoesOn
  <2> QED
    BY <1>1, <2>2, <2>3, <2>5, <2>6, RequestIs, BoardQuiet
<1> QED
  BY <1>3, <1>4

LEMMA TokenKeeps ==
  ASSUME BoardInv, NEW c \in Callers, Board!Authorize(c) \/ Board!TurnAway(c)
  PROVE  BoardInv'
<1>1. UNCHANGED <<time, attempts, admitted, expires, globalFailures, lockedUntil, endedTokens>>
      /\ sessions' = Board!Live
  BY DEF Board!Authorize, Board!TurnAway, Board!ghostVars
<1>2. \E r \in Requests(time, expires) :
        /\ Unanswered(r) /\ Tested(time, attempts, admitted, r)
        /\ r.at \in {"creating", "exchanging"} =>
             Len(expires) + Cardinality(Promised(request)) < MaxToken
        /\ request' = [request EXCEPT ![c] = r]
  <2>1. CASE Board!Authorize(c)
    <3>1. PICK t \in Board!Live \cup {0}, next \in {"signing out", "exchanging"} :
            /\ next = "exchanging" => Board!CanCreate
            /\ request' = [request EXCEPT ![c] =
                             [Board!NoRequest EXCEPT !.token = t, !.at = next]]
      BY <2>1 DEF Board!Authorize, Board!RawPassword
    <3>2. PICK q \in Requests(time, expires) :
            q = Board!NoRequest /\ q.at = "idle" /\ q.answer = "none"
      BY NewRequests
    <3>3. PICK r : r = [q EXCEPT !.token = t, !.at = next]
      OBVIOUS
    <3>4. t \in DOMAIN expires \cup {0}
      BY GoneLive
    <3>5. r \in Requests(time, expires) /\ r.at = next /\ r.answer = "none"
      BY <3>2, <3>3, <3>4 DEF Requests
    <3>6. next = "exchanging" => Len(expires) + Cardinality(Promised(request)) < MaxToken
      BY <3>1, BoardPicks, RequestIs, TokensAre DEF Board!CanCreate, Board!Tokens, Promised
    <3>7. Unanswered(r) /\ Tested(time, attempts, admitted, r)
      BY <3>5 DEF Unanswered, Tested
    <3>8. request' = [request EXCEPT ![c] = r]
      BY <3>1, <3>2, <3>3
    <3> QED
      BY <3>5, <3>6, <3>7, <3>8
  <2>2. CASE Board!TurnAway(c)
    <3>1. PICK t \in DOMAIN expires :
            request' = [request EXCEPT ![c] =
                          [Board!NoRequest EXCEPT !.token = t, !.answer = "unauthorized"]]
      BY <2>2 DEF Board!TurnAway, Board!Tokens
    <3>2. PICK q \in Requests(time, expires) : q = Board!NoRequest /\ q.at = "idle"
      BY NewRequests
    <3>3. PICK r : r = [q EXCEPT !.token = t, !.answer = "unauthorized"]
      OBVIOUS
    <3>4. r \in Requests(time, expires) /\ r.at = "idle"
      BY <3>2, <3>3 DEF Requests
    <3>5. request' = [request EXCEPT ![c] = r]
      BY <3>1, <3>2, <3>3
    <3> QED
      BY <3>4, <3>5, Over
  <2> QED
    BY <2>1, <2>2
<1> QED
  BY <1>1, <1>2, RequestIs, GoneLive, BoardQuiet


LEMMA ReturnKeeps ==
  ASSUME BoardInv, NEW c \in Callers, Board!SignOut(c) \/ Board!Exchange(c)
  PROVE  BoardInv'
<1>1. UNCHANGED <<time, attempts, admitted, expires, globalFailures, lockedUntil>>
  BY DEF Board!SignOut, Board!Exchange
<1>2. PICK token \in DOMAIN expires \cup {0} : token = request[c].token
  BY RequestIs DEF Requests
<1>3. PICK sess, ended : sess = sessions \ {token} /\ ended = (endedTokens \cup {token}) \ {0}
  OBVIOUS
<1>4. sess = sessions' /\ ended = endedTokens'
  BY <1>2, <1>3 DEF Board!SignOut, Board!Exchange, Board!RawPassword
<1>5. /\ sess \in SUBSET DOMAIN expires /\ ended \in SUBSET DOMAIN expires
      /\ Gone(time, sess, expires, ended)
  BY <1>3, GoneReturned
<1>6. \E r \in Requests(time, expires) :
        /\ Unanswered(r) /\ Tested(time, attempts, admitted, r)
        /\ r.at \in {"creating", "exchanging"} =>
             request[c].at \in {"creating", "exchanging"}
        /\ request' = [request EXCEPT ![c] = r]
  <2>1. CASE Board!SignOut(c)
    <3>1. PICK r \in Requests(time, expires) : r = Board!NoRequest /\ r.at = "idle"
      BY NewRequests
    <3>2. request' = [request EXCEPT ![c] = r]
      BY <2>1, <3>1 DEF Board!SignOut, Board!Answered
    <3> QED
      BY <3>1, <3>2, Over
  <2>2. CASE Board!Exchange(c)
    <3>1. PICK r : r = [request[c] EXCEPT !.at = "creating"]
      OBVIOUS
    <3>2. request' = [request EXCEPT ![c] = r] /\ request[c].at = "exchanging"
      BY <2>2, <3>1 DEF Board!Exchange, Board!Goto
    <3>3. r \in Requests(time, expires) /\ Unanswered(r)
          /\ Tested(time, attempts, admitted, r)
      BY <3>1, <3>2, GoesOn
    <3> QED
      BY <3>2, <3>3
  <2> QED
    BY <2>1, <2>2
<1>7. globalFailures' \in 0..LockoutThreshold /\ lockedUntil' \in 0..(LastMoment + Lockout)
  BY <1>1, RequestIs
<1> QED
  BY <1>1, <1>4, <1>5, <1>6, <1>7, BoardQuiet

\* A step that makes no session and promises none, and changes what is recorded.
LEMMA BoardRecords ==
  ASSUME BoardInv, NEW c \in Callers,
         NEW r \in Requests(time, expires), Unanswered(r),
         r.at \notin {"creating", "exchanging"},
         request' = [request EXCEPT ![c] = r],
         UNCHANGED <<time, globalFailures, lockedUntil, sessions, expires, endedTokens>>,
         NEW att \in Times(time), att = attempts',
         NEW adm \in Times(time), adm = admitted',
         Counted(time, att, adm), Tested(time, att, adm, r),
         \A d \in Callers : d # c => Tested(time, att, adm, request[d])
  PROVE  BoardInv'
<1>1. PICK req : req = request' /\ req = [request EXCEPT ![c] = r]
  OBVIOUS
<1>2. /\ req \in [Callers -> Requests(time, expires)]
      /\ req[c] = r
      /\ \A d \in Callers : d # c => req[d] = request[d]
      /\ \A d \in Callers : Unanswered(req[d])
  <2>1. /\ request \in [Callers -> Requests(time, expires)]
        /\ \A d \in Callers : Unanswered(request[d])
    BY DEF BoardInv, Typed
  <2>2. /\ req \in [Callers -> Requests(time, expires)]
        /\ req[c] = r /\ \A d \in Callers : d # c => req[d] = request[d]
    BY <1>1, <2>1
  <2> QED
    BY <2>1, <2>2
<1>3. Room(expires, req)
  <2>1. /\ IsFiniteSet(Promised(req)) /\ Cardinality(Promised(req)) \in Nat
        /\ Cardinality(Promised(request)) \in Nat
        /\ Cardinality(Promised(req))
             + (IF c \in Promised(request) THEN 1 ELSE 0)
           = Cardinality(Promised(request)) + (IF c \in Promised(req) THEN 1 ELSE 0)
    BY <1>2, Promises
  <2>2. Len(expires) + Cardinality(Promised(request)) <= MaxToken
    BY DEF BoardInv, Room
  <2>3. c \notin Promised(req)
    BY <1>2 DEF Promised
  <2>4. Len(expires) \in Nat /\ MaxToken \in Nat
    BY BoardAssumed, LenProperties DEF BoardInv, Typed
  <2>5. Len(expires) + Cardinality(Promised(req)) <= MaxToken
    BY <2>1, <2>2, <2>3, <2>4
  <2> QED
    BY <2>1, <2>5 DEF Room
<1>4. \A d \in Callers : Tested(time, att, adm, req[d])
  BY <1>2
<1>5. Typed(time, att, adm, globalFailures, lockedUntil, sessions, expires, endedTokens, req)
  BY <1>2 DEF BoardInv, Typed
<1>6. Gone(time, sessions, expires, endedTokens)
  BY DEF BoardInv
<1> QED
  BY <1>1, <1>2, <1>3, <1>4, <1>5, <1>6 DEF BoardInv

LEMMA StoreKeeps ==
  ASSUME BoardInv, NEW c \in Callers, Board!StoreRecent(c) PROVE BoardInv'
<1>1. PICK r : r = [request[c] EXCEPT !.at = "testing"]
  OBVIOUS
<1>2. request' = [request EXCEPT ![c] = r] /\ request[c].at = "storing"
  BY <1>1 DEF Board!StoreRecent, Board!Goto
<1>3. PICK q \in Requests(time, expires) :
        /\ q = request[c] /\ q.at = "storing" /\ Unanswered(q)
        /\ Tested(time, attempts, admitted, q)
  BY <1>2, RequestIs
<1>4. PICK a \in Addresses, recent \in Seq(0..time) : a = q.from /\ recent = q.recent
  BY <1>3 DEF Requests, Unanswered
<1>5. Covers(admitted[a], recent, time) /\ AllIn(recent, time)
  BY <1>3, <1>4 DEF Tested
<1>6. /\ r \in Requests(time, expires) /\ Unanswered(r) /\ r.from = a
      /\ r.at = "testing"
  <2>1. r = [q EXCEPT !.at = "testing"]
    BY <1>1, <1>3
  <2> QED
    BY <1>3, <1>4, <2>1 DEF Requests, Unanswered
<1>7. PICK att : att = [attempts EXCEPT ![a] = recent]
  OBVIOUS
<1>8. /\ attempts \in [Addresses -> Seq(0..time)]
      /\ admitted \in [Addresses -> Seq(0..time)]
      /\ Counted(time, attempts, admitted)
      /\ \A d \in Callers : Tested(time, attempts, admitted, request[d])
      /\ \A d \in Callers : Unanswered(request[d])
  BY DEF BoardInv, Typed, Times
<1>9. /\ att \in [Addresses -> Seq(0..time)] /\ att[a] = recent
      /\ \A b \in Addresses : b # a => att[b] = attempts[b]
  BY <1>7, <1>8
<1>10. att = attempts'
  BY <1>3, <1>4, <1>7 DEF Board!StoreRecent
<1>11. Counted(time, att, admitted)
  BY <1>5, <1>8, <1>9 DEF Counted
<1>12. Tested(time, att, admitted, r)
  BY <1>5, <1>6, <1>9 DEF Tested
<1>13. ASSUME NEW d \in Callers PROVE Tested(time, att, admitted, request[d])
  <2>1. request[d].at = "testing" => request[d].from \in Addresses
    BY <1>8 DEF Unanswered
  <2> QED
    BY <1>5, <1>8, <1>9, <2>1 DEF Tested
<1>14. att \in Times(time) /\ admitted \in Times(time)
  BY <1>8, <1>9 DEF Times
<1>15. UNCHANGED <<time, globalFailures, lockedUntil, sessions, expires, endedTokens, admitted>>
  BY DEF Board!StoreRecent, Board!ghostVars
<1> QED
  BY <1>2, <1>6, <1>10, <1>11, <1>12, <1>13, <1>14, <1>15, BoardRecords

\* An attempt that is recorded counts for both.
LEMMA WithinAppended ==
  ASSUME NEW now \in Nat, NEW s \in Seq(0..now), NEW n \in Nat
  PROVE  /\ Within(s, n) \in Nat /\ Within(Append(s, now), n) \in Nat
         /\ Within(Append(s, now), n)
              = IF now \in Moments(n) THEN Within(s, n) + 1 ELSE Within(s, n)
<1>1. Within(s, n) \in Nat
  BY HitsFinite DEF Within
<1>2. Within(Append(s, now), n)
        = IF now \in Moments(n) THEN Within(s, n) + 1 ELSE Within(s, n)
  BY HitsOfAppend DEF Within
<1> QED
  BY <1>1, <1>2

LEMMA RecordKeeps ==
  ASSUME BoardInv, NEW c \in Callers, Board!RecordAttempt(c) PROVE BoardInv'
<1>1. PICK r : r = [request[c] EXCEPT !.at = "checking"]
  OBVIOUS
<1>2. request' = [request EXCEPT ![c] = r] /\ request[c].at = "recording"
  BY <1>1 DEF Board!RecordAttempt, Board!Goto
<1>3. PICK a \in Addresses : a = request[c].from
  BY <1>2, RequestIs DEF Unanswered
<1>4. /\ r \in Requests(time, expires) /\ Unanswered(r) /\ r.at = "checking"
      /\ \A att, adm : Tested(time, att, adm, r)
  BY <1>1, <1>2, GoesOn DEF Tested
<1>5. PICK att, adm : /\ att = [attempts EXCEPT ![a] = Append(attempts[a], time)]
                      /\ adm = [admitted EXCEPT ![a] = Append(admitted[a], time)]
  OBVIOUS
<1>6. att = attempts' /\ adm = admitted'
      /\ UNCHANGED <<time, globalFailures, lockedUntil, sessions, expires, endedTokens>>
  BY <1>3, <1>5 DEF Board!RecordAttempt
<1>7. /\ attempts \in [Addresses -> Seq(0..time)]
      /\ admitted \in [Addresses -> Seq(0..time)]
      /\ Counted(time, attempts, admitted)
      /\ \A d \in Callers : Tested(time, attempts, admitted, request[d])
      /\ \A d \in Callers : Unanswered(request[d])
      /\ time \in Nat /\ time \in 0..time
  BY RequestIs DEF BoardInv, Typed, Times
<1>8. PICK s \in Seq(0..time), t \in Seq(0..time) : s = attempts[a] /\ t = admitted[a]
  BY <1>7
<1>9. Append(s, time) \in Seq(0..time) /\ Append(t, time) \in Seq(0..time)
  BY <1>7, AppendProperties
<1>10. /\ att \in [Addresses -> Seq(0..time)] /\ adm \in [Addresses -> Seq(0..time)]
       /\ att[a] = Append(s, time) /\ adm[a] = Append(t, time)
       /\ \A b \in Addresses : b # a => att[b] = attempts[b] /\ adm[b] = admitted[b]
  BY <1>5, <1>7, <1>8, <1>9
<1>11. Counted(time, att, adm)
  <2>1. Covers(Append(t, time), Append(s, time), time)
    <3> SUFFICES ASSUME NEW n \in Nat, n >= time
                 PROVE  Within(Append(s, time), n) <= Within(Append(t, time), n)
      BY DEF Covers
    <3>1. Within(s, n) <= Within(t, n)
      BY <1>7, <1>8 DEF Counted, Covers
    <3>2. /\ Within(s, n) \in Nat /\ Within(Append(s, time), n) \in Nat
          /\ Within(Append(s, time), n)
               = IF time \in Moments(n) THEN Within(s, n) + 1 ELSE Within(s, n)
      BY <1>7, WithinAppended
    <3>3. /\ Within(t, n) \in Nat /\ Within(Append(t, time), n) \in Nat
          /\ Within(Append(t, time), n)
               = IF time \in Moments(n) THEN Within(t, n) + 1 ELSE Within(t, n)
      BY <1>7, WithinAppended
    <3> QED
      BY <3>1, <3>2, <3>3
  <2> QED
    BY <1>7, <1>10, <2>1 DEF Counted
<1>12. ASSUME NEW d \in Callers PROVE Tested(time, att, adm, request[d])
  <2>1. PICK q \in Requests(time, expires) : q = request[d] /\ Unanswered(q)
                                             /\ Tested(time, attempts, admitted, q)
    BY RequestIs
  <2>2. CASE q.at = "storing"
    <3>1. q.recent \in Seq(0..time) /\ q.from \in Addresses
      BY <2>1, <2>2 DEF Requests, Unanswered
    <3>2. Covers(admitted[q.from], q.recent, time) /\ AllIn(q.recent, time)
      BY <2>1, <2>2 DEF Tested
    <3>3. Covers(adm[q.from], q.recent, time)
      <4>1. CASE q.from # a
        BY <1>10, <3>1, <3>2, <4>1
      <4>2. CASE q.from = a
        <5> SUFFICES ASSUME NEW n \in Nat, n >= time
                     PROVE  Within(q.recent, n) <= Within(Append(t, time), n)
          BY <1>10, <4>2 DEF Covers
        <5>1. Within(q.recent, n) <= Within(t, n)
          BY <1>8, <3>2, <4>2 DEF Covers
        <5>2. Within(q.recent, n) \in Nat
          BY <3>1, HitsFinite DEF Within
        <5>3. /\ Within(t, n) \in Nat
              /\ Within(Append(t, time), n)
                   = IF time \in Moments(n) THEN Within(t, n) + 1 ELSE Within(t, n)
          BY <1>7, WithinAppended
        <5> QED
          BY <5>1, <5>2, <5>3
      <4> QED
        BY <4>1, <4>2
    <3> QED
      BY <2>1, <2>2, <3>2, <3>3 DEF Tested
  <2>3. CASE q.at = "testing"
    <3>1. q.from \in Addresses /\ AllIn(attempts[q.from], time)
      BY <2>1, <2>3 DEF Tested, Unanswered
    <3>2. AllIn(att[q.from], time)
      <4>1. CASE q.from # a
        BY <1>10, <3>1, <4>1
      <4>2. CASE q.from = a
        <5>1. /\ Len(s) \in Nat /\ DOMAIN s = 1..Len(s)
              /\ DOMAIN Append(s, time) = 1..(Len(s) + 1)
              /\ \A i \in 1..Len(s) : Append(s, time)[i] = s[i]
              /\ Append(s, time)[Len(s) + 1] = time
          BY <1>7, AppendProperties, LenProperties
        <5>2. \A i \in 1..(Len(s) + 1) : i \in 1..Len(s) \/ i = Len(s) + 1
          BY <5>1
        <5>3. time \in Moments(time)
          BY <1>7, BoardAssumed DEF Moments
        <5>4. \A i \in 1..Len(s) : s[i] \in Moments(time)
          BY <1>8, <3>1, <4>2, <5>1 DEF AllIn
        <5>5. AllIn(Append(s, time), time)
          BY <5>1, <5>2, <5>3, <5>4 DEF AllIn
        <5> QED
          BY <1>10, <4>2, <5>5
      <4> QED
        BY <4>1, <4>2
    <3> QED
      BY <2>1, <2>3, <3>2 DEF Tested
  <2>4. CASE q.at \notin {"storing", "testing"}
    BY <2>1, <2>4 DEF Tested
  <2> QED
    BY <2>2, <2>3, <2>4
<1>13. att \in Times(time) /\ adm \in Times(time)
  BY <1>10 DEF Times
<1> QED
  BY <1>2, <1>4, <1>6, <1>11, <1>12, <1>13, BoardRecords


LEMMA CreateKeeps ==
  ASSUME BoardInv, NEW c \in Callers, Board!CreateSession(c) PROVE BoardInv'
<1>1. PICK ex, t, sess, req :
        /\ ex = Append(expires, time + SessionLife)
        /\ t = Len(expires) + 1
        /\ sess = Board!Live \cup {t}
        /\ req = [request EXCEPT ![c] = Board!NoRequest]
  OBVIOUS
<1>2. /\ expires \in Seq(Nat) /\ Len(expires) \in Nat /\ DOMAIN expires = 1..Len(expires)
      /\ Cardinality(DOMAIN expires) = Len(expires)
      /\ time \in Nat /\ request[c].at = "creating"
  BY RequestIs, TokensAre DEF Board!CreateSession
<1>3. ex = expires' /\ sess = sessions' /\ req = request'
  BY <1>1, <1>2, BoardPicks
     DEF Board!CreateSession, Board!Tokens, Board!Answered
<1>4. UNCHANGED <<time, attempts, globalFailures, lockedUntil, admitted, endedTokens>>
  BY DEF Board!CreateSession, Board!ghostVars
<1>5. time + SessionLife \in Nat
  BY <1>2, BoardAssumed
<1>6. /\ ex \in Seq(Nat) /\ Len(ex) = Len(expires) + 1
      /\ DOMAIN ex = 1..(Len(expires) + 1)
      /\ \A i \in 1..Len(expires) : ex[i] = expires[i]
  BY <1>1, <1>2, <1>5, AppendProperties, LenProperties
<1>7. DOMAIN ex = DOMAIN expires \cup {t}
  BY <1>1, <1>2, <1>6
<1>8. Requests(time, expires) \subseteq Requests(time, ex)
  BY <1>7 DEF Requests
<1>9. request \in [Callers -> Requests(time, expires)]
  BY DEF BoardInv, Typed
<1>10. /\ req \in [Callers -> Requests(time, ex)]
       /\ req[c] = Board!NoRequest /\ \A d \in Callers : d # c => req[d] = request[d]
  BY <1>1, <1>8, <1>9, NewRequests
<1>11. Room(ex, req)
  <2>1. /\ IsFiniteSet(Promised(req)) /\ Cardinality(Promised(req)) \in Nat
        /\ Cardinality(Promised(request)) \in Nat
        /\ Cardinality(Promised(req))
             + (IF c \in Promised(request) THEN 1 ELSE 0)
           = Cardinality(Promised(request)) + (IF c \in Promised(req) THEN 1 ELSE 0)
    BY <1>10, Promises
  <2>2. Len(expires) + Cardinality(Promised(request)) <= MaxToken
    BY DEF BoardInv, Room
  <2>3. c \in Promised(request) /\ c \notin Promised(req)
    BY <1>2, <1>10, NewRequests DEF Promised
  <2>4. Len(ex) + Cardinality(Promised(req)) <= MaxToken
    BY <1>2, <1>6, <2>1, <2>2, <2>3, BoardAssumed
  <2> QED
    BY <2>1, <2>4 DEF Room
<1>12. Len(ex) <= MaxToken
  <2>1. Cardinality(Promised(req)) \in Nat
    BY <1>11, FS_CardinalityType DEF Room
  <2> QED
    BY <1>2, <1>6, <1>11, <2>1, BoardAssumed DEF Room
<1>13. sess \subseteq DOMAIN ex /\ endedTokens \subseteq DOMAIN ex
  BY <1>1, <1>7, GoneLive, RequestIs
<1>14. Typed(time, attempts, admitted, globalFailures, lockedUntil, sess, ex, endedTokens, req)
  BY <1>6, <1>10, <1>12, <1>13 DEF BoardInv, Typed
<1>15. Gone(time, sess, ex, endedTokens)
  BY <1>1, <1>2, <1>6, <1>7, GoneLive DEF Gone
<1>16. \A d \in Callers : Unanswered(req[d]) /\ Tested(time, attempts, admitted, req[d])
  BY <1>10, NewRequests, Over DEF BoardInv
<1> QED
  BY <1>3, <1>4, <1>11, <1>14, <1>15, <1>16 DEF BoardInv

LEMMA PassKeeps == ASSUME BoardInv, Board!Pass PROVE BoardInv'
<1>1. PICK now, adm :
        /\ now = time + 1
        /\ adm = [a \in Addresses |-> Board!InWindow(admitted[a], now)]
  OBVIOUS
<1>2. now = time' /\ adm = admitted'
      /\ UNCHANGED <<attempts, globalFailures, lockedUntil, sessions, expires, request,
                     endedTokens>>
      /\ \A c \in Callers : request[c].at = "idle"
  BY <1>1 DEF Board!Pass
<1>3. /\ time \in Nat /\ attempts \in [Addresses -> Seq(0..time)]
      /\ admitted \in [Addresses -> Seq(0..time)] /\ expires \in Seq(Nat)
      /\ request \in [Callers -> Requests(time, expires)]
  BY BoardAssumed DEF BoardInv, Typed, Times
<1>4. now \in 0..LastMoment
  BY <1>1, <1>3, BoardAssumed DEF Board!Pass
<1>5. Seq(0..time) \subseteq Seq(0..now)
  <2>1. 0..time \subseteq 0..now
    BY <1>1, <1>3
  <2> QED
    BY <2>1, SeqMonotonic
<1>6. ASSUME NEW a \in Addresses
      PROVE  /\ adm[a] \in Seq(0..now)
             /\ \A n \in Nat : n >= now => Within(adm[a], n) = Within(admitted[a], n)
  <2> DEFINE R == {x \in Nat : now < x + RateWindow}
  <2>1. PICK s \in Seq(0..time) : s = admitted[a]
    BY <1>3
  <2>2. \A i \in DOMAIN s : s[i] \in Nat
    <3>1. \A i \in DOMAIN s : s[i] \in 0..time
      BY LenProperties, ElementOfSeq
    <3> QED
      BY <1>3, <3>1
  <2>3. {i \in DOMAIN s : s[i] \in R} = {i \in DOMAIN s : now < s[i] + RateWindow}
    BY <2>2
  <2>4. adm[a] = Picked(s, {i \in DOMAIN s : s[i] \in R})
    BY <1>1, <2>1, <2>3, BoardPicks DEF Board!InWindow
  <2>5. PICK P \in SUBSET DOMAIN s : P = {i \in DOMAIN s : s[i] \in R}
    OBVIOUS
  <2>6. Picked(s, P) \in Seq(0..time)
    BY PickedIs
  <2>7. ASSUME NEW n \in Nat, n >= now PROVE Within(adm[a], n) = Within(admitted[a], n)
    <3>1. Moments(n) \subseteq R
      BY <1>1, <1>3, <2>7, BoardAssumed DEF Moments
    <3> HIDE DEF R
    <3>2. Cardinality(Hits(Picked(s, {i \in DOMAIN s : s[i] \in R}), Moments(n)))
            = Cardinality(Hits(s, Moments(n)))
      BY <3>1, HitsOfKept
    <3> QED
      BY <2>1, <2>4, <3>2 DEF Within
  <2> QED
    BY <1>5, <2>4, <2>5, <2>6, <2>7
<1>7. adm \in Times(now) /\ attempts \in Times(now)
  <2>1. attempts \in Times(now)
    BY <1>3, <1>5 DEF Times
  <2>2. adm \in Times(now)
    BY <1>1, <1>6 DEF Times
  <2> QED
    BY <2>1, <2>2
<1>8. Requests(time, expires) \subseteq Requests(now, expires)
  BY <1>5 DEF Requests
<1>9. Typed(now, attempts, adm, globalFailures, lockedUntil, sessions, expires, endedTokens,
            request)
  BY <1>3, <1>4, <1>7, <1>8 DEF BoardInv, Typed
<1>10. Counted(now, attempts, adm)
  <2> SUFFICES ASSUME NEW a \in Addresses, NEW n \in Nat, n >= now
               PROVE  Within(attempts[a], n) <= Within(adm[a], n)
    BY DEF Counted, Covers
  <2>1. n >= time
    BY <1>1, <1>3
  <2>2. Within(attempts[a], n) <= Within(admitted[a], n)
    BY <2>1 DEF BoardInv, Counted, Covers
  <2> QED
    BY <1>6, <2>2
<1>11. \A c \in Callers : Tested(now, attempts, adm, request[c])
  BY <1>2, Over
<1>12. Gone(now, sessions, expires, endedTokens)
  <2>1. \A t \in DOMAIN expires : expires[t] \in Nat
    BY <1>3, LenProperties, ElementOfSeq
  <2>2. \A t \in DOMAIN expires : expires[t] < time => expires[t] < now
    BY <1>1, <1>3, <2>1
  <2>3. Gone(time, sessions, expires, endedTokens)
    BY DEF BoardInv
  <2> QED
    BY <2>2, <2>3 DEF Gone
<1>13. Room(expires, request) /\ \A c \in Callers : Unanswered(request[c])
  BY DEF BoardInv
<1> QED
  BY <1>2, <1>9, <1>10, <1>11, <1>12, <1>13 DEF BoardInv

LEMMA BoardKept == ASSUME BoardInv, [Board!Next]_(Board!vars) PROVE BoardInv'
<1>1. CASE Board!Pass
  BY <1>1, PassKeeps
<1>2. ASSUME NEW c \in Callers,
             \/ Board!Login(c) \/ Board!StoreRecent(c) \/ Board!TestLimit(c)
             \/ Board!RecordAttempt(c)
             \/ Board!WrongPassword(c) \/ Board!RightPassword(c)
             \/ Board!CreateSession(c)
             \/ Board!Authorize(c) \/ Board!TurnAway(c) \/ Board!SignOut(c)
             \/ Board!Exchange(c)
      PROVE  BoardInv'
  BY <1>2, LoginKeeps, StoreKeeps, TestKeeps, RecordKeeps, PasswordKeeps,
     CreateKeeps, TokenKeeps, ReturnKeeps
<1>3. CASE UNCHANGED Board!vars
  BY <1>3 DEF Board!vars, Board!ghostVars, BoardInv
<1> QED
  BY <1>1, <1>2, <1>3 DEF Board!Next

\* A ban is for the wrong password at which it begins, and what is let in or kept
\* out later does not prolong it.
LEMMA BanKept ==
  ASSUME BoardInv, BanInv, [Board!Next]_(Board!vars) PROVE BanInv'
<1>1. /\ time \in Nat /\ Lockout \in Nat /\ lockedUntil \in Nat
      /\ mistakes \in Seq(0..time)
  BY BoardAssumed DEF BoardInv, Typed, BanInv
<1>2. CASE Board!Pass
  <2>1. time' = time + 1 /\ UNCHANGED <<lockedUntil, mistakes>>
    BY <1>2 DEF Board!Pass
  <2>2. 0..time \subseteq 0..(time + 1)
    BY <1>1
  <2>3. mistakes \in Seq(0..(time + 1))
    BY <1>1, <2>2, SeqMonotonic
  <2> QED
    BY <2>1, <2>3 DEF BanInv
<1>3. ASSUME NEW c \in Callers, Board!WrongPassword(c) PROVE BanInv'
  <2>1. /\ time' = time
        /\ \/ lockedUntil' = time + Lockout /\ mistakes' = <<time>>
           \/ lockedUntil' = lockedUntil /\ mistakes' = Append(mistakes, time)
    BY <1>3 DEF Board!WrongPassword
  <2>2. time \in 0..time
    BY <1>1
  <2>3. CASE lockedUntil' = time + Lockout /\ mistakes' = <<time>>
    <3>1. 1 \in DOMAIN <<time>> /\ <<time>>[1] = time
      OBVIOUS
    <3>2. time + Lockout <= time + Lockout
      BY <1>1
    <3>3. mistakes' \in Seq(0..time)
      BY <2>2, <2>3
    <3>4. 1 \in DOMAIN mistakes' /\ lockedUntil' <= mistakes'[1] + Lockout
      BY <2>3, <3>1, <3>2
    <3> QED
      BY <2>1, <3>3, <3>4 DEF BanInv
  <2>4. CASE lockedUntil' = lockedUntil /\ mistakes' = Append(mistakes, time)
    <3>1. /\ mistakes' \in Seq(0..time)
          /\ DOMAIN mistakes \subseteq DOMAIN mistakes'
          /\ \A i \in DOMAIN mistakes : mistakes'[i] = mistakes[i]
      BY <1>1, <2>2, <2>4, AppendProperties, LenProperties
    <3> QED
      BY <2>1, <2>4, <3>1 DEF BanInv
  <2> QED
    BY <2>1, <2>3, <2>4
<1>4. ASSUME NEW c \in Callers,
             \/ Board!Login(c) \/ Board!StoreRecent(c) \/ Board!TestLimit(c)
             \/ Board!RecordAttempt(c) \/ Board!RightPassword(c)
             \/ Board!CreateSession(c)
             \/ Board!Authorize(c) \/ Board!TurnAway(c) \/ Board!SignOut(c)
             \/ Board!Exchange(c)
      PROVE  UNCHANGED <<time, lockedUntil, mistakes>>
  BY <1>4 DEF Board!Login, Board!StoreRecent, Board!TestLimit, Board!RecordAttempt,
     Board!RightPassword, Board!CreateSession, Board!Authorize, Board!TurnAway,
     Board!SignOut, Board!Exchange, Board!ghostVars
<1>5. CASE UNCHANGED <<time, lockedUntil, mistakes>>
  BY <1>5 DEF BanInv
<1>6. CASE UNCHANGED Board!vars
  BY <1>5, <1>6 DEF Board!vars, Board!ghostVars
<1> QED
  BY <1>2, <1>3, <1>4, <1>5, <1>6 DEF Board!Next

\* At the start nobody is banned.
LEMMA BanStarts == Board!Init => BanInv
<1> SUFFICES ASSUME Board!Init PROVE BanInv
  OBVIOUS
<1>1. lockedUntil = 0 /\ mistakes = << >>
  BY DEF Board!Init
<1>2. << >> \in Seq(0..time)
  BY EmptySeq
<1> QED
  BY <1>1, <1>2 DEF BanInv

\* Why a request may have the answer it has.
Rightly(r) ==
  /\ r.answer = "refused" => Len(admitted[r.from]) >= RateLimit
  /\ r.answer = "locked" => \E i \in DOMAIN mistakes : time < mistakes[i] + Lockout
  /\ r.answer = "unauthorized" => r.token \in endedTokens \/ expires[r.token] < time

\* Most steps of a request give it no answer, and the ban gives one rightly.
LEMMA NoAnswer ==
  ASSUME BoardInv, BanInv, NEW c \in Callers,
         \/ Board!Login(c) \/ Board!StoreRecent(c) \/ Board!RecordAttempt(c)
         \/ Board!WrongPassword(c) \/ Board!RightPassword(c)
         \/ Board!CreateSession(c) \/ Board!Authorize(c)
         \/ Board!SignOut(c) \/ Board!Exchange(c)
  PROVE  \E r : request' = [request EXCEPT ![c] = r] /\ Rightly(r)
<1>1. PICK q, p \in Requests(time, expires) :
        /\ q = Board!NoRequest /\ p = request[c] /\ q.answer = "none"
        /\ p.at # "idle" => p.answer = "none"
  BY NewRequests, RequestIs DEF Unanswered
<1>2. CASE Board!Login(c)
  <2>1. PICK a : request' = [request EXCEPT ![c] =
                   IF time < lockedUntil
                   THEN [q EXCEPT !.from = a, !.answer = "locked"]
                   ELSE [q EXCEPT !.from = a, !.at = "storing",
                                  !.recent = Board!Recent(attempts[a])]]
    BY <1>1, <1>2 DEF Board!Login
  <2>2. PICK s : s = Board!Recent(attempts[a])
    OBVIOUS
  <2>3. [q EXCEPT !.from = a, !.at = "storing", !.recent = s].answer = "none"
    BY <1>1 DEF Requests
  <2>4. CASE time < lockedUntil
    <3>1. [q EXCEPT !.from = a, !.answer = "locked"].answer = "locked"
      BY <1>1 DEF Requests
    <3>2. time \in Nat /\ lockedUntil \in Nat /\ Lockout \in Nat
      BY BoardAssumed DEF BoardInv, Typed
    <3>3. PICK i \in DOMAIN mistakes : lockedUntil <= mistakes[i] + Lockout
      BY <2>4, <3>2 DEF BanInv
    <3>4. mistakes[i] \in 0..time
      <4>1. mistakes \in Seq(0..time) /\ i \in 1..Len(mistakes)
        BY <3>3, LenProperties DEF BanInv
      <4> QED
        BY <4>1, ElementOfSeq
    <3>5. time < mistakes[i] + Lockout
      BY <2>4, <3>2, <3>3, <3>4
    <3> QED
      BY <2>1, <2>4, <3>1, <3>3, <3>5 DEF Rightly
  <2>5. CASE ~(time < lockedUntil)
    BY <2>1, <2>2, <2>3, <2>5 DEF Rightly
  <2> QED
    BY <2>4, <2>5
<1>3. CASE Board!Authorize(c)
  <2>1. PICK t, w : request' = [request EXCEPT ![c] = [q EXCEPT !.token = t, !.at = w]]
    BY <1>1, <1>3 DEF Board!Authorize
  <2>2. [q EXCEPT !.token = t, !.at = w].answer = "none"
    BY <1>1 DEF Requests
  <2> QED
    BY <2>1, <2>2 DEF Rightly
<1>4. CASE Board!WrongPassword(c) \/ Board!CreateSession(c) \/ Board!SignOut(c)
  BY <1>1, <1>4
     DEF Rightly, Board!WrongPassword, Board!CreateSession, Board!SignOut, Board!Answered
<1>5. CASE \/ Board!StoreRecent(c) \/ Board!RecordAttempt(c)
           \/ Board!RightPassword(c) \/ Board!Exchange(c)
  <2>1. PICK w : request' = [request EXCEPT ![c] = [p EXCEPT !.at = w]]
    BY <1>1, <1>5 DEF Board!StoreRecent, Board!RecordAttempt, Board!RightPassword,
                      Board!Exchange, Board!Goto
  <2>2. p.at # "idle"
    BY <1>1, <1>5 DEF Board!StoreRecent, Board!RecordAttempt, Board!RightPassword,
                      Board!Exchange
  <2>3. [p EXCEPT !.at = w].answer = "none"
    BY <1>1, <2>2 DEF Requests
  <2> QED
    BY <2>1, <2>3 DEF Rightly
<1> QED
  BY <1>2, <1>3, <1>4, <1>5

\* As many attempts as the limit are counted only when as many were let in.
LEMMA RefusedRightly ==
  ASSUME BoardInv, NEW c \in Callers, Board!TestLimit(c)
  PROVE  \E r : request' = [request EXCEPT ![c] = r] /\ Rightly(r)
<1>1. PICK q, p \in Requests(time, expires) :
        /\ q = Board!NoRequest /\ p = request[c] /\ p.at = "testing"
        /\ p.answer = "none" /\ p.from \in Addresses
        /\ Tested(time, attempts, admitted, p)
  BY NewRequests, RequestIs DEF Unanswered, Board!TestLimit
<1>2. CASE Len(attempts[p.from]) >= RateLimit
  <2>1. PICK a \in Addresses : a = p.from
    BY <1>1
  <2>2. PICK s \in Seq(0..time), t \in Seq(0..time) : s = attempts[a] /\ t = admitted[a]
    BY <2>1 DEF BoardInv, Typed, Times
  <2>3. time \in Nat
    BY RequestIs
  <2>4. Within(s, time) <= Within(t, time)
    BY <2>2, <2>3 DEF BoardInv, Counted, Covers
  <2>5. Hits(s, Moments(time)) = 1..Len(s) /\ Hits(t, Moments(time)) \subseteq 1..Len(t)
    <3>1. AllIn(s, time)
      BY <1>1, <2>1, <2>2 DEF Tested
    <3>2. DOMAIN s = 1..Len(s) /\ DOMAIN t = 1..Len(t)
      BY LenProperties
    <3> QED
      BY <3>1, <3>2 DEF Hits, AllIn
  <2>6. /\ Len(s) \in Nat /\ Len(t) \in Nat
        /\ Cardinality(1..Len(s)) = Len(s)
        /\ IsFiniteSet(1..Len(t)) /\ Cardinality(1..Len(t)) = Len(t)
    <3>1. Len(s) \in Nat /\ Len(t) \in Nat
      BY LenProperties
    <3>2. ASSUME NEW n \in Nat PROVE IsFiniteSet(1..n) /\ Cardinality(1..n) = n
      <4>1. IsFiniteSet(1..n)
        BY FS_Interval
      <4>2. Cardinality(1..n) = IF 1 > n THEN 0 ELSE n - 1 + 1
        BY FS_Interval
      <4> QED
        BY <4>1, <4>2
    <3> QED
      BY <3>1, <3>2
  <2>7. Within(t, time) <= Len(t)
    BY <2>5, <2>6, FS_Subset DEF Within
  <2>8. Within(s, time) = Len(s)
    BY <2>5, <2>6 DEF Within
  <2>9. Within(t, time) \in Nat
    BY HitsFinite DEF Within
  <2>10. Len(s) >= RateLimit
    BY <1>2, <2>1, <2>2
  <2>11. Len(admitted[a]) >= RateLimit
    BY <2>2, <2>4, <2>6, <2>7, <2>8, <2>9, <2>10, BoardAssumed
  <2>12. request' = [request EXCEPT ![c] = [q EXCEPT !.answer = "refused", !.from = a]]
    BY <1>1, <1>2, <2>1 DEF Board!TestLimit, Board!Refused
  <2>13. PICK r : r = [q EXCEPT !.answer = "refused", !.from = a]
    OBVIOUS
  <2>14. r.from = a /\ r.answer = "refused"
    BY <1>1, <2>13 DEF Requests
  <2>15. Rightly(r)
    BY <2>11, <2>14 DEF Rightly
  <2> QED
    BY <2>12, <2>13, <2>15
<1>3. CASE ~(Len(attempts[p.from]) >= RateLimit)
  <2>1. request' = [request EXCEPT ![c] = [p EXCEPT !.at = "recording"]]
    BY <1>1, <1>3 DEF Board!TestLimit, Board!Goto
  <2>2. [p EXCEPT !.at = "recording"].answer = "none"
    BY <1>1 DEF Requests
  <2> QED
    BY <2>1, <2>2 DEF Rightly
<1> QED
  BY <1>2, <1>3

\* A token that is not good any more has expired or was given back.
LEMMA UnauthorizedRightly ==
  ASSUME BoardInv, NEW c \in Callers, Board!TurnAway(c)
  PROVE  \E r : request' = [request EXCEPT ![c] = r] /\ Rightly(r)
<1>1. PICK q \in Requests(time, expires) : q = Board!NoRequest
  BY NewRequests
<1>2. PICK t \in DOMAIN expires \ Board!Live :
        request' = [request EXCEPT ![c] =
                      [q EXCEPT !.token = t, !.answer = "unauthorized"]]
  BY <1>1 DEF Board!TurnAway, Board!Tokens
<1>3. PICK r : r = [q EXCEPT !.token = t, !.answer = "unauthorized"]
  OBVIOUS
<1>4. r.token = t /\ r.answer = "unauthorized"
  BY <1>1, <1>3 DEF Requests
<1>5. t \in endedTokens \/ expires[t] < time
  BY GoneLive DEF Gone
<1> QED
  BY <1>2, <1>3, <1>4, <1>5 DEF Rightly

\* Nobody is turned away without a reason, for any limits and any number of
\* requests: the list of an address counts no attempt that was not let in,
\* whichever threads overwrite it, only its holder or its time takes a token out
\* of the table, and the ban, which is on everybody, is over Lockout after the
\* wrong password it is for, however many attempts it rejects.
THEOREM RefusalsHaveReasons == Spec => TurnedAwayRightly
<1>1. Board!Init => BoardInv /\ BanInv
  BY BoardStarts, BanStarts
<1>2. BoardInv /\ BanInv /\ [Board!Next]_(Board!vars) => (BoardInv /\ BanInv)'
  BY BoardKept, BanKept
<1>3. BoardInv /\ BanInv /\ [Board!Next]_(Board!vars) =>
        [\A c \in Callers : request'[c] # request[c] =>
           /\ request'[c].answer = "refused" =>
                Len(admitted[request'[c].from]) >= RateLimit
           /\ request'[c].answer = "locked" =>
                \E i \in DOMAIN mistakes : time < mistakes[i] + Lockout
           /\ request'[c].answer = "unauthorized" =>
                \/ request'[c].token \in endedTokens
                \/ expires[request'[c].token] < time]_(Board!vars)
  <2> SUFFICES ASSUME BoardInv, BanInv, Board!Next, NEW c \in Callers,
                      request'[c] # request[c]
               PROVE  Rightly(request'[c])
    BY DEF Rightly
  <2>1. request \in [Callers -> Requests(time, expires)]
    BY DEF BoardInv, Typed
  <2>2. \E d \in Callers : \E r :
          request' = [request EXCEPT ![d] = r] /\ Rightly(r)
    <3>1. CASE Board!Pass
      BY <3>1 DEF Board!Pass
    <3>2. ASSUME NEW d \in Callers,
                 \/ Board!Login(d) \/ Board!StoreRecent(d) \/ Board!TestLimit(d)
                 \/ Board!RecordAttempt(d)
                 \/ Board!WrongPassword(d) \/ Board!RightPassword(d)
                 \/ Board!CreateSession(d)
                 \/ Board!Authorize(d) \/ Board!TurnAway(d) \/ Board!SignOut(d)
                 \/ Board!Exchange(d)
          PROVE  \E r : request' = [request EXCEPT ![d] = r] /\ Rightly(r)
      BY <3>2, NoAnswer, RefusedRightly, UnauthorizedRightly
    <3> QED
      BY <3>1, <3>2 DEF Board!Next
  <2>3. PICK d \in Callers :
          \E r : request' = [request EXCEPT ![d] = r] /\ Rightly(r)
    BY <2>2
  <2>4. PICK r : request' = [request EXCEPT ![d] = r] /\ Rightly(r)
    BY <2>3
  <2>5. request'[c] = r
    BY <2>1, <2>4
  <2> QED
    BY <2>4, <2>5
<1> QED
  BY <1>1, <1>2, <1>3, BoardRuns, PTL
     DEF Board!Spec, TurnedAwayRightly, Board!TurnedAwayRightly
-----------------------------------------------------------------------------
(* The types of the services that keep no other invariant.                  *)

LEMMA SchedulerTyped == ASSUME Sched!TypeOK, [Sched!Next]_(Sched!vars)
                        PROVE  Sched!TypeOK'
<1> DEFINE Places == {"off", "looping", "waiting", "leaving", "loading", "over"}
<1>1. scheduler' \in [Schedulers -> Places]
  BY DEF Sched!TypeOK, Sched!Next, Sched!vars, Sched!ScheduleCancel,
         Sched!ScheduleStart, Sched!SchedulerStep, Sched!Loop, Sched!TimeComes,
         Sched!Leave, Sched!StartBot, Sched!Goto
<1>2. schedulerStop' \in BOOLEAN
  BY Zenon
     DEF Sched!TypeOK, Sched!Next, Sched!vars, Sched!ScheduleCancel,
         Sched!ScheduleStart, Sched!SchedulerStep, Sched!Loop, Sched!TimeComes,
         Sched!Leave, Sched!StartBot
<1>3. /\ scheduledStart' \in Schedulers \cup {Sched!Nobody}
      /\ standing' \in SUBSET Schedulers /\ begun' \in SUBSET Schedulers
  BY DEF Sched!TypeOK, Sched!Next, Sched!vars, Sched!ScheduleCancel,
         Sched!ScheduleStart, Sched!SchedulerStep, Sched!Loop, Sched!TimeComes,
         Sched!Leave, Sched!StartBot
<1> QED
  BY <1>1, <1>2, <1>3, Zenon DEF Sched!TypeOK

LEMMA SchedulersTyped == Spec => []Sched!TypeOK
<1>1. Init => Sched!TypeOK
  BY DEF Init, Sched!Init, Sched!TypeOK
<1>2. [Next]_vars => [Sched!Next]_(Sched!vars)
  BY DEF Next, vars, Alone, schedulerVars, Sched!vars
<1> QED
  BY <1>1, <1>2, SchedulerTyped, PTL DEF Spec

\* A flow that probes a proxy, or blacklists it, has one.
PoolTyped ==
  /\ Proxy!TypeOK
  /\ \A f \in Flows :
       getting[f] \in {"probing", "failing"} => candidate[f] \in Proxies

LEMMA PoolKept == ASSUME PoolTyped, [Proxy!Next]_(Proxy!vars)
                  PROVE  PoolTyped'
<1> USE DEF PoolTyped, Proxy!TypeOK
<1>1. ASSUME NEW f \in Flows, Proxy!Call(f) PROVE PoolTyped'
  BY <1>1 DEF Proxy!Call, Proxy!Goto
<1>2. ASSUME NEW f \in Flows, Proxy!Pick(f) PROVE PoolTyped'
  BY <1>2 DEF Proxy!Pick, Proxy!Goto, Proxy!Available
<1>3. ASSUME NEW f \in Flows, Proxy!PickCleared(f) PROVE PoolTyped'
  BY <1>3 DEF Proxy!PickCleared, Proxy!Goto
<1>10. ASSUME NEW f \in Flows, Proxy!FindNone(f) PROVE PoolTyped'
  BY <1>10 DEF Proxy!FindNone, Proxy!Goto
<1>4. ASSUME NEW f \in Flows, Proxy!Probe(f) PROVE PoolTyped'
  BY <1>4 DEF Proxy!Probe, Proxy!Goto
<1>5. ASSUME NEW f \in Flows, Proxy!FailedProbe(f) PROVE PoolTyped'
  BY <1>5 DEF Proxy!FailedProbe, Proxy!Goto
<1>6. ASSUME NEW f \in Flows, Proxy!Again(f) PROVE PoolTyped'
  BY <1>6 DEF Proxy!Again, Proxy!Goto
<1>7. ASSUME NEW f \in Flows, Proxy!FlowOver(f) PROVE PoolTyped'
  BY <1>7 DEF Proxy!FlowOver, Proxy!Goto
<1>8. CASE Proxy!Expire
  BY <1>8 DEF Proxy!Expire
<1>9. CASE UNCHANGED Proxy!vars
  BY <1>9 DEF Proxy!vars
<1> QED
  BY <1>1, <1>2, <1>3, <1>4, <1>5, <1>6, <1>7, <1>8, <1>9, <1>10
     DEF Proxy!Next, Proxy!GetStep

LEMMA PoolsTyped == Spec => []Proxy!TypeOK
<1>1. Init => PoolTyped
  BY DEF Init, Proxy!Init, PoolTyped, Proxy!TypeOK
<1>2. [Next]_vars => [Proxy!Next]_(Proxy!vars)
  BY DEF Next, vars, Alone, proxyPoolVars, Proxy!vars
<1>3. PoolTyped => Proxy!TypeOK
  BY DEF PoolTyped
<1> QED
  BY <1>1, <1>2, <1>3, PoolKept, PTL DEF Spec

\* A login that puts cookies into its browser has some.
LoginFits ==
  /\ Login!TypeOK
  /\ \A s \in Students : loginAt[s] = "injecting" => injected[s] \in Login!Sessions

LEMMA LoginTyped == ASSUME LoginFits, [Login!Next]_(Login!vars)
                    PROVE  LoginFits'
<1> USE DEF LoginFits, Login!TypeOK, Login!Sessions, Login!SaveCookies, Login!Goto
<1>1. CASE Login!OperatorSetsCookies
  <2>1. Uploads \subseteq Students
    BY ServicesAssumption DEF Login!LoginSessionAssumption
  <2> QED
    BY <1>1, <2>1 DEF Login!OperatorSetsCookies
<1>2. CASE Login!SessionExpires
  BY <1>2 DEF Login!SessionExpires
<1>3. ASSUME NEW s \in Students, Login!ArriveInside(s) PROVE LoginFits'
  BY <1>3 DEF Login!ArriveInside
<1>4. ASSUME NEW s \in Students,
             \/ Login!ArriveAtLogin(s) \/ Login!SessionLost(s) \/ Login!Quit(s)
      PROVE  LoginFits'
  BY <1>4 DEF Login!ArriveAtLogin, Login!SessionLost, Login!Quit
<1>5. ASSUME NEW s \in Students, Login!ScanForm(s) PROVE LoginFits'
  BY <1>5 DEF Login!ScanForm
<1>6. ASSUME NEW s \in Students, Login!ScanInjects(s) PROVE LoginFits'
  BY <1>6 DEF Login!ScanInjects
<1>7. ASSUME NEW s \in Students, Login!ReadCookies(s) PROVE LoginFits'
  BY <1>7 DEF Login!ReadCookies
<1>8. ASSUME NEW s \in Students, Login!InjectCookies(s) PROVE LoginFits'
  BY <1>8 DEF Login!InjectCookies
<1>9. ASSUME NEW s \in Students, Login!LoginAccepted(s) PROVE LoginFits'
  BY <1>9 DEF Login!LoginAccepted
<1>10. ASSUME NEW s \in Students, Login!LoginRefused(s) PROVE LoginFits'
  BY <1>10 DEF Login!LoginRefused
<1>11. ASSUME NEW s \in Students, Login!SaveLogin(s) PROVE LoginFits'
  BY <1>11 DEF Login!SaveLogin
<1>12. CASE UNCHANGED Login!vars
  BY <1>12 DEF Login!vars
<1> QED
  BY <1>1, <1>2, <1>3, <1>4, <1>5, <1>6, <1>7, <1>8, <1>9, <1>10, <1>11, <1>12
     DEF Login!Next, Login!LoginStep

LEMMA LoginsTyped == Spec => []Login!TypeOK
<1>1. Init => LoginFits
  BY DEF Init, Login!Init, LoginFits, Login!TypeOK, Login!Sessions
<1>2. [Next]_vars => [Login!Next]_(Login!vars)
  BY DEF Next, vars, Alone, loginSessionVars, Login!vars
<1>3. LoginFits => Login!TypeOK
  BY DEF LoginFits
<1> QED
  BY <1>1, <1>2, <1>3, LoginTyped, PTL DEF Spec

LEMMA ForwarderTyped == ASSUME Forward!TypeOK, [Forward!Next]_(Forward!vars)
                        PROVE  Forward!TypeOK'
<1> USE DEF Forward!TypeOK, Forward!Sides
<1>1. ASSUME NEW c \in Connections, Forward!Accept(c) PROVE Forward!TypeOK'
  BY <1>1 DEF Forward!Accept
<1>2. ASSUME NEW c \in Connections, Forward!Forget(c) PROVE Forward!TypeOK'
  BY <1>2 DEF Forward!Forget
<1>3. ASSUME NEW c \in Connections, Forward!Connect(c) PROVE Forward!TypeOK'
  BY <1>3 DEF Forward!Connect
<1>4. ASSUME NEW c \in Connections, Forward!ConnectFails(c) \/ Forward!Close(c)
      PROVE  Forward!TypeOK'
  BY <1>4 DEF Forward!ConnectFails, Forward!Close
<1>5. ASSUME NEW c \in Connections, NEW a \in Forward!Sides,
             Forward!HangUp(c, a)
      PROVE  Forward!TypeOK'
  BY <1>5 DEF Forward!HangUp
<1>8. ASSUME NEW c \in Connections, NEW a \in Forward!Sides,
             Forward!GoSilent(c, a)
      PROVE  Forward!TypeOK'
  <2>1. silent[c] \cup {a} \in SUBSET Forward!Sides
    OBVIOUS
  <2> QED
    BY <1>8, <2>1 DEF Forward!GoSilent
<1>6. ASSUME NEW c \in Connections, NEW a \in Forward!Sides,
             Forward!StopPipe(c, a)
      PROVE  Forward!TypeOK'
  BY <1>6 DEF Forward!StopPipe
<1>7. CASE UNCHANGED Forward!vars
  BY <1>7 DEF Forward!vars
<1> QED
  BY <1>1, <1>2, <1>3, <1>4, <1>5, <1>6, <1>7, <1>8
     DEF Forward!Next, Forward!PipeEnds, Forward!ReceiveEnds,
         Forward!SendFails, Forward!IdleTimeout

LEMMA ForwardersTyped == Spec => []Forward!TypeOK
<1>1. Init => Forward!TypeOK
  BY DEF Init, Forward!Init, Forward!TypeOK
<1>2. [Next]_vars => [Forward!Next]_(Forward!vars)
  BY DEF Next, vars, Alone, authForwardVars, Forward!vars
<1> QED
  BY <1>1, <1>2, ForwarderTyped, PTL DEF Spec

\* There are no more entries than the bound says, and no viewer is ahead of them.
EntriesFit == pushed <= MaxEntry /\ \A v \in Viewers : seen[v] <= pushed

LEMMA LogTyped == InOrder /\ EntriesFit => Log!TypeOK
<1> SUFFICES ASSUME InOrder, EntriesFit PROVE Log!TypeOK
  OBVIOUS
<1> USE DEF InOrder, EntriesFit
<1>1. MaxEntry \in Nat
  BY ServicesAssumption DEF Log!LogStreamAssumption
<1>2. Len(logQueue) \in Nat /\ Broadcasted \in 0..pushed
  BY DEF Broadcasted
<1>3. sending \in 0..pushed
  BY <1>2 DEF Broadcasted
<1>4. logQueue \in Seq(1..pushed)
  <2>1. \A i \in 1..Len(logQueue) : logQueue[i] \in 1..pushed
    BY <1>2 DEF Broadcasted
  <2> QED
    BY <2>1, IsSequence
<1> QED
  BY <1>1, <1>3, <1>4 DEF Log!TypeOK

LEMMA EntriesBounded ==
  ASSUME InOrder, EntriesFit, [Log!Next]_(Log!vars)
  PROVE  EntriesFit'
<1> USE DEF EntriesFit
<1>1. MaxEntry \in Nat /\ pushed \in Nat /\ seen \in [Viewers -> Nat]
  BY ServicesAssumption DEF Log!LogStreamAssumption, InOrder
<1>2. CASE Log!Push
  BY <1>1, <1>2 DEF Log!Push
<1>3. CASE Log!Broadcast
  <2>1. sending \in 0..pushed
    BY DEF InOrder, Broadcasted
  <2> QED
    BY <1>1, <1>3, <2>1 DEF Log!Broadcast
<1>4. ASSUME NEW v \in Viewers, Log!Register(v) PROVE EntriesFit'
  BY <1>1, <1>4 DEF Log!Register
<1>5. CASE UNCHANGED <<pushed, seen>>
  BY <1>5
<1> QED
  BY <1>2, <1>3, <1>4, <1>5 DEF Log!Next, Log!vars, Log!TakeEntry,
     Log!Unregister, Log!Falter

LEMMA LogsTyped == Spec => []Log!TypeOK
<1> DEFINE I == InOrder /\ EntriesFit
<1>1. Log!Init => I
  BY ServicesAssumption
     DEF Log!LogStreamAssumption, Log!Init, InOrder, Broadcasted,
         EntriesFit
<1>2. I /\ [Log!Next]_(Log!vars) => I'
  BY OrderKept, EntriesBounded
<1>3. I => Log!TypeOK
  BY LogTyped
<1> QED
  BY <1>1, <1>2, <1>3, LogRuns, PTL DEF Log!Spec

LEMMA SheetsTyped == Spec => []Sheets!TypeOK
<1>1. Sheets!Init => SheetFits
  BY SheetStarts
<1>2. SheetFits /\ [Sheets!Next]_(Sheets!vars) => SheetFits'
  BY SheetTyped
<1>3. SheetFits => Sheets!TypeOK
  BY DEF SheetFits
<1> QED
  BY <1>1, <1>2, <1>3, SheetsRun, PTL DEF Sheets!Spec

LEMMA RostersTyped == Spec => []Rosters!TypeOK
<1>1. Rosters!Init => StaleInv
  BY RosterInit
<1>2. StaleInv /\ [Rosters!Next]_(Rosters!vars) => StaleInv'
  BY StaleKept
<1>3. StaleInv => Rosters!TypeOK
  BY DEF StaleInv
<1> QED
  BY <1>1, <1>2, <1>3, RostersRun, PTL DEF Rosters!Spec

LEMMA BoardsTyped == Spec => []Board!TypeOK
<1>1. Board!Init => BoardInv /\ BanInv
  BY BoardStarts, BanStarts
<1>2. BoardInv /\ BanInv /\ [Board!Next]_(Board!vars) => (BoardInv /\ BanInv)'
  BY BoardKept, BanKept
<1>3. BoardInv /\ BanInv => Board!TypeOK
  BY BoardTyped
<1> QED
  BY <1>1, <1>2, <1>3, BoardRuns, PTL DEF Board!Spec

LEMMA ExamsAreTyped == Spec => []Exams!TypeOK
<1>1. Exams!Init => Exams!TypeOK
  <2>1. Exams!Init => fresh \in BOOLEAN /\ inProgress \in BOOLEAN
    BY Zenon DEF Exams!Init
  <2> QED
    BY <2>1 DEF Exams!Init, Exams!TypeOK
<1> QED
  BY <1>1, ExamsTyped, ExamsRun, PTL DEF Exams!Spec

LEMMA WindowsTyped == Spec => []Window!TypeOK
<1>1. Window!Init => Window!TypeOK
  <2>1. Window!Init => /\ running \in BOOLEAN /\ guiStop \in BOOLEAN
                       /\ posted \in BOOLEAN /\ torn \in BOOLEAN
    BY Zenon DEF Window!Init
  <2> QED
    BY <2>1 DEF Window!Init, Window!TypeOK, Window!Texts
<1> QED
  BY <1>1, WindowTyped, WindowRuns, PTL DEF Window!Spec

-----------------------------------------------------------------------------
(* The types of the services with a proof module of their own.              *)

LEMMA SwitchTyped == Spec => []Dead!TypeOK
<1>1. Switch!Spec => []Switch!TypeOK
  BY Switch!TypeCorrect, SwitchAssumed
<1>2. Switch!TypeOK => Dead!TypeOK
  BY Zenon DEF Switch!TypeOK, Dead!TypeOK, Switch!Longest, Dead!Longest
<1> QED
  BY <1>1, <1>2, SwitchRuns, PTL

LEMMA LineTyped == Spec => []Queue!TypeOK
<1>1. Line!Spec => []Line!TypeOK
  BY Line!TypeCorrect, LineAssumed
<1>2. Line!TypeOK => Queue!TypeOK
  BY Zenon DEF Line!TypeOK, Queue!TypeOK, Line!Ids, Queue!Ids, Line!Rows,
     Queue!Rows, Line!Statuses, Queue!Statuses
<1> QED
  BY <1>1, <1>2, LineRuns, PTL

LEMMA InboxTyped == Spec => []Telegram!TypeOK
<1>1. Inbox!Spec => []Inbox!TypeOK
  BY Inbox!TypeCorrect, InboxAssumed
<1>2. Inbox!TypeOK => Telegram!TypeOK
  BY Zenon DEF Inbox!TypeOK, Telegram!TypeOK, Inbox!Commands, Telegram!Commands
<1> QED
  BY <1>1, <1>2, InboxRuns, PTL

LEMMA TimingTyped == Spec => []Poll!TypeOK
<1>1. Timing!Spec => []Timing!TypeOK
  BY Timing!TypeCorrect, TimingAssumed
<1>2. Timing!TypeOK => Poll!TypeOK
  BY Zenon DEF Timing!TypeOK, Poll!TypeOK, Timing!Attentive, Poll!Attentive,
     Timing!Blind, Poll!Blind, Timing!Heads, Poll!Heads
<1> QED
  BY <1>1, <1>2, TimingRuns, PTL

LEMMA FuseTyped == Spec => []Breaker!TypeOK
<1>1. Fuse!Spec => []Fuse!TypeOK
  BY Fuse!TypeCorrect, FuseAssumed
<1>2. Fuse!TypeOK => Breaker!TypeOK
  BY Zenon DEF Fuse!TypeOK, Breaker!TypeOK, Fuse!Types, Breaker!Types
<1> QED
  BY <1>1, <1>2, FuseRuns, PTL

\* Every service keeps to the types of its variables, whatever the values of the
\* constants: no id leaves its range, no table of the dashboard grows past the
\* clock, no row number comes from a sheet longer than the bound.
THEOREM TypeCorrect == Spec => []TypeOK
<1>1. Spec => [](focus \in Focus)
  <2>1. Init => focus \in Focus
    BY DEF Init
  <2>2. focus \in Focus /\ [Next]_vars => (focus \in Focus)'
    BY DEF Next, vars, Alone
  <2> QED
    BY <2>1, <2>2, PTL DEF Spec
<1> QED
  BY <1>1, SwitchTyped, LineTyped, SchedulersTyped, InboxTyped, LogsTyped,
     ExamsAreTyped, SheetsTyped, PoolsTyped, LoginsTyped, ForwardersTyped,
     WindowsTyped, RostersTyped, TimingTyped, BoardsTyped, FuseTyped, PTL
     DEF TypeOK

-----------------------------------------------------------------------------
(* What the liveness of three services rests on, which needs no fairness:   *)
(* their threads go on to an end and never back, and nobody takes away what *)
(* they go on by.                                                           *)

\* A request that stands has a thread on its way to its time, which the event
\* does not send away.
StandingIsDue ==
  /\ schedulerStop \in BOOLEAN
  /\ \A s \in standing :
       /\ s \in Schedulers /\ ~schedulerStop
       /\ scheduler[s] \in {"looping", "waiting", "leaving"}

LEMMA DueKept == ASSUME Sched!TypeOK, StandingIsDue, [Sched!Next]_(Sched!vars)
                 PROVE  StandingIsDue'
<1> USE DEF Sched!TypeOK, StandingIsDue
<1>1. CASE Sched!ScheduleCancel
  BY <1>1, Zenon DEF Sched!ScheduleCancel
<1>2. ASSUME NEW s \in Schedulers, Sched!ScheduleStart(s) PROVE StandingIsDue'
  <2>1. schedulerStop' = FALSE
    BY <1>2, Zenon DEF Sched!ScheduleStart
  <2>2. \A t \in standing' : t \in Schedulers
                             /\ scheduler'[t] \in {"looping", "waiting", "leaving"}
    BY <1>2 DEF Sched!ScheduleStart, Sched!Goto
  <2> QED
    BY <2>1, <2>2, Zenon
<1>3. ASSUME NEW s \in Schedulers, Sched!SchedulerStep(s) PROVE StandingIsDue'
  BY <1>3 DEF Sched!SchedulerStep, Sched!Loop, Sched!TimeComes, Sched!Leave,
     Sched!StartBot, Sched!Goto
<1>4. CASE UNCHANGED Sched!vars
  BY <1>4 DEF Sched!vars
<1> QED
  BY <1>1, <1>2, <1>3, <1>4 DEF Sched!Next

\* The ways of a thread whose request goes on standing.
Onward == {<<"looping", "waiting">>, <<"looping", "leaving">>,
           <<"waiting", "leaving">>}

\* A request to start the bot at some time is never left without its thread, and
\* as long as it is neither cancelled nor served the thread only comes nearer to
\* serving it, whatever is requested and cancelled besides.
THEOREM RequestsComeDue ==
  Spec => /\ []StandingIsDue
          /\ [][\A s \in standing \cap standing' :
                  \/ scheduler'[s] = scheduler[s]
                  \/ <<scheduler[s], scheduler'[s]>> \in Onward]_(Sched!vars)
<1> DEFINE I == Sched!TypeOK /\ StandingIsDue
           A == \A s \in standing \cap standing' :
                  \/ scheduler'[s] = scheduler[s]
                  \/ <<scheduler[s], scheduler'[s]>> \in Onward
<1>1. Init => I
  <2>1. Init => schedulerStop \in BOOLEAN
    BY Zenon DEF Init, Sched!Init
  <2> QED
    BY <2>1 DEF Init, Sched!Init, Sched!TypeOK, StandingIsDue
<1>2. [Next]_vars => [Sched!Next]_(Sched!vars)
  BY DEF Next, vars, Alone, schedulerVars, Sched!vars
<1>3. I /\ [Sched!Next]_(Sched!vars) => I'
  BY SchedulerTyped, DueKept
<1>4. I /\ [Sched!Next]_(Sched!vars) => [A]_(Sched!vars)
  <2> SUFFICES ASSUME I, Sched!Next PROVE A
    OBVIOUS
  <2>1. CASE Sched!ScheduleCancel
    BY <2>1 DEF Sched!ScheduleCancel
  <2>2. ASSUME NEW s \in Schedulers, Sched!ScheduleStart(s) PROVE A
    BY <2>2 DEF Sched!ScheduleStart, Sched!Goto, Sched!TypeOK, StandingIsDue
  <2>3. ASSUME NEW s \in Schedulers, Sched!Loop(s) PROVE A
    BY <2>3 DEF Sched!Loop, Sched!Goto, Sched!TypeOK, Onward
  <2>4. ASSUME NEW s \in Schedulers, Sched!TimeComes(s) PROVE A
    BY <2>4 DEF Sched!TimeComes, Sched!Goto, Sched!TypeOK, Onward
  <2>5. ASSUME NEW s \in Schedulers, Sched!Leave(s) PROVE A
    BY <2>5 DEF Sched!Leave, Sched!Goto, Sched!TypeOK, StandingIsDue
  <2>6. ASSUME NEW s \in Schedulers, Sched!StartBot(s) PROVE A
    BY <2>6 DEF Sched!StartBot, Sched!Goto, Sched!TypeOK, StandingIsDue
  <2> QED
    BY <2>1, <2>2, <2>3, <2>4, <2>5, <2>6 DEF Sched!Next, Sched!SchedulerStep
<1> QED
  BY <1>1, <1>2, <1>3, <1>4, PTL DEF Spec

\* How many steps a login may still take.
StepsLeft(place, failed) ==
  CASE place = "scanning" -> 9
    [] place = "cookies" -> 8
    [] place = "injecting" -> 7
    [] place = "trying" -> 6 - failed
    [] place = "saving" -> 3
    [] OTHER -> 0

\* A login takes at most nine steps, three of them attempts with the student's own
\* password: no step of its own leaves it with more to do, and nothing that others
\* do to the saved cookies, the sessions or their own logins leads it back.
THEOREM LoginsDescend ==
  Spec => [][\A s \in Students :
               ~Login!Settled(s) =>
                 \/ UNCHANGED <<loginAt[s], tries[s]>>
                 \/ StepsLeft(loginAt'[s], tries'[s])
                      < StepsLeft(loginAt[s], tries[s])]_(Login!vars)
<1> DEFINE Down(s) == ~Login!Settled(s) =>
                        \/ UNCHANGED <<loginAt[s], tries[s]>>
                        \/ StepsLeft(loginAt'[s], tries'[s])
                             < StepsLeft(loginAt[s], tries[s])
<1>1. LoginFits /\ [Login!Next]_(Login!vars)
        => [\A s \in Students : Down(s)]_(Login!vars)
  <2> SUFFICES ASSUME LoginFits, Login!Next, NEW s \in Students PROVE Down(s)
    OBVIOUS
  <2> USE DEF LoginFits, Login!TypeOK, Login!Settled, Login!Goto
  <2>1. CASE Login!OperatorSetsCookies \/ Login!SessionExpires
    BY <2>1 DEF Login!OperatorSetsCookies, Login!SessionExpires
  <2>2. ASSUME NEW t \in Students,
               \/ Login!ArriveInside(t) \/ Login!ArriveAtLogin(t)
               \/ Login!ScanForm(t) \/ Login!SessionLost(t) \/ Login!Quit(t)
        PROVE  Down(s)
    BY <2>2 DEF Login!ArriveInside, Login!ArriveAtLogin, Login!ScanForm,
       Login!SessionLost, Login!Quit
  <2>3. ASSUME NEW t \in Students, Login!ScanInjects(t) PROVE Down(s)
    BY <2>3 DEF Login!ScanInjects, StepsLeft
  <2>4. ASSUME NEW t \in Students, Login!ReadCookies(t) PROVE Down(s)
    BY <2>4 DEF Login!ReadCookies, StepsLeft
  <2>5. ASSUME NEW t \in Students, Login!InjectCookies(t) PROVE Down(s)
    BY <2>5 DEF Login!InjectCookies, StepsLeft
  <2>6. ASSUME NEW t \in Students, Login!LoginAccepted(t) PROVE Down(s)
    BY <2>6 DEF Login!LoginAccepted, StepsLeft
  <2>7. ASSUME NEW t \in Students, Login!LoginRefused(t) PROVE Down(s)
    BY <2>7 DEF Login!LoginRefused, StepsLeft
  <2>8. ASSUME NEW t \in Students, Login!SaveLogin(t) PROVE Down(s)
    BY <2>8 DEF Login!SaveLogin, StepsLeft
  <2> QED
    BY <2>1, <2>2, <2>3, <2>4, <2>5, <2>6, <2>7, <2>8
       DEF Login!Next, Login!LoginStep
<1>2. Init => LoginFits
  BY DEF Init, Login!Init, LoginFits, Login!TypeOK, Login!Sessions
<1>3. [Next]_vars => [Login!Next]_(Login!vars)
  BY DEF Next, vars, Alone, loginSessionVars, Login!vars
<1> QED
  BY <1>1, <1>2, <1>3, LoginTyped, PTL DEF Spec


\* Neither thread of a connection can be left blocked in recv when the other has
\* ended or the connection is closed: both its sockets are shut down.
NeitherHangs ==
  \A c \in Connections :
    \/ relay[c] = "closed"
    \/ \E a \in Forward!Sides : pipe[c][a] = "ended"
    => \A b \in Forward!Sides : socket[c][b] = "shut"

PipesAfterHead ==
  \A c \in Connections : relay[c] \in {"off", "head"} =>
    \A a \in Forward!Sides : pipe[c][a] = "none"

HangInv ==
  /\ Forward!TypeOK
  /\ NeitherHangs
  /\ PipesAfterHead

LEMMA NeitherKept == ASSUME HangInv, [Forward!Next]_(Forward!vars)
                     PROVE  NeitherHangs' /\ PipesAfterHead'
<1> USE DEF HangInv, Forward!TypeOK, NeitherHangs, PipesAfterHead
<1>1. ASSUME NEW c \in Connections, Forward!Accept(c)
      PROVE  NeitherHangs' /\ PipesAfterHead'
  BY <1>1 DEF Forward!Accept, Forward!Sides
<1>2. ASSUME NEW c \in Connections, Forward!Forget(c)
      PROVE  NeitherHangs' /\ PipesAfterHead'
  BY <1>2 DEF Forward!Forget, Forward!Sides
<1>3. ASSUME NEW c \in Connections, Forward!Connect(c)
      PROVE  NeitherHangs' /\ PipesAfterHead'
  BY <1>3 DEF Forward!Connect, Forward!Sides
<1>4. ASSUME NEW c \in Connections, Forward!ConnectFails(c) \/ Forward!Close(c)
      PROVE  NeitherHangs' /\ PipesAfterHead'
  BY <1>4 DEF Forward!ConnectFails, Forward!Close, Forward!Sides
<1>5. ASSUME NEW c \in Connections, NEW a \in Forward!Sides,
             Forward!HangUp(c, a) \/ Forward!GoSilent(c, a)
      PROVE  NeitherHangs' /\ PipesAfterHead'
  BY <1>5 DEF Forward!HangUp, Forward!GoSilent, Forward!Sides
<1>6. ASSUME NEW c \in Connections, NEW a \in Forward!Sides,
             pipe[c][a] = "receiving", Forward!StopPipe(c, a)
      PROVE  NeitherHangs' /\ PipesAfterHead'
  BY <1>6 DEF Forward!StopPipe, Forward!Sides
<1>7. CASE UNCHANGED Forward!vars
  BY <1>7 DEF Forward!vars
<1> QED
  BY <1>1, <1>2, <1>3, <1>4, <1>5, <1>6, <1>7
     DEF Forward!Next, Forward!PipeEnds, Forward!ReceiveEnds,
         Forward!SendFails, Forward!IdleTimeout

\* A connection that is pumping comes down for good: no socket that has ended or
\* was shut down is open again, and no thread that has ended runs again, before
\* the connection is closed.
ComesDown(c) ==
  relay[c] = "pumping" =>
    /\ relay'[c] \in {"pumping", "closed"}
    /\ \A a \in Forward!Sides :
         /\ socket[c][a] # "open" => socket'[c][a] # "open"
         /\ pipe[c][a] = "ended" => pipe'[c][a] = "ended"

LEMMA DownKept == ASSUME HangInv, Forward!Next, NEW d \in Connections
                  PROVE  ComesDown(d)
<1> USE DEF HangInv, Forward!TypeOK, ComesDown
<1>1. ASSUME NEW c \in Connections,
             \/ Forward!Accept(c) \/ Forward!Forget(c)
             \/ Forward!Connect(c) \/ Forward!ConnectFails(c)
      PROVE  ComesDown(d)
  BY <1>1 DEF Forward!Accept, Forward!Forget, Forward!Connect,
     Forward!ConnectFails
<1>2. ASSUME NEW c \in Connections, Forward!Close(c) PROVE ComesDown(d)
  BY <1>2 DEF Forward!Close
<1>3. ASSUME NEW c \in Connections, NEW a \in Forward!Sides,
             Forward!HangUp(c, a) \/ Forward!GoSilent(c, a)
      PROVE  ComesDown(d)
  BY <1>3 DEF Forward!HangUp, Forward!GoSilent
<1>4. ASSUME NEW c \in Connections, NEW a \in Forward!Sides,
             Forward!StopPipe(c, a)
      PROVE  ComesDown(d)
  BY <1>4 DEF Forward!StopPipe
<1> QED
  BY <1>1, <1>2, <1>3, <1>4
     DEF Forward!Next, Forward!PipeEnds, Forward!ReceiveEnds,
         Forward!SendFails, Forward!IdleTimeout

\* When one thread of a forwarded connection has ended, nothing keeps the other
\* one in recv, and nothing brings the connection up again, whatever the two
\* peers send, or do not, for any number of connections.
THEOREM ThreadsAreFreed ==
  Spec => /\ []NeitherHangs
          /\ [][\A c \in Connections : ComesDown(c)]_(Forward!vars)
<1>1. Init => HangInv
  BY DEF Init, Forward!Init, HangInv, Forward!TypeOK, NeitherHangs,
     PipesAfterHead, Forward!Sides
<1>2. [Next]_vars => [Forward!Next]_(Forward!vars)
  BY DEF Next, vars, Alone, authForwardVars, Forward!vars
<1>3. HangInv /\ [Forward!Next]_(Forward!vars) => HangInv'
  BY ForwarderTyped, NeitherKept DEF HangInv
<1>4. HangInv /\ [Forward!Next]_(Forward!vars)
        => [\A c \in Connections : ComesDown(c)]_(Forward!vars)
  BY DownKept
<1>5. HangInv => NeitherHangs
  BY DEF HangInv
<1> QED
  BY <1>1, <1>2, <1>3, <1>4, <1>5, PTL DEF Spec
=============================================================================
