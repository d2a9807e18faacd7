--------------------------- MODULE BotControlProofs ---------------------------
(***************************************************************************)
(* The semaphore and the re-queue budget of run_students_web, proved for    *)
(* any number of students, runs, request threads and permits, and for       *)
(* whatever starts, stops, retries and failing writes come between.  Every  *)
(* step of the system does one of a few things to the permits and workers,  *)
(* and only those matter.  For starts that come one at a time, the bot is   *)
(* the switch of Booker and leaves its status board settled.                *)
(***************************************************************************)
EXTENDS BotControl, FiniteSetTheorems, TLAPS

Holders(r) == {s \in Students : Holding(r, s)}

\* The places where a worker has its permit.
Held == {"top", "flow", "quitting", "delay"}

\* A worker goes on, with its permit or without one.
GoesOn(r, s) ==
  /\ \E w \in {"queued", "top", "flow", "quitting"} :
       /\ Work(r, s, w)
       /\ worker[r][s] \in Held <=> w \in Held
  /\ worker[r][s] # "done"
  /\ permits' = permits /\ requeues' = requeues

\* A worker is over, and the last failure of its student was counted if any.
Leaves(r, s) ==
  /\ worker[r][s] \in Held
  /\ Work(r, s, "done")
  /\ permits' = [permits EXCEPT ![r] = @ + 1]
  /\ \/ requeues' = requeues
     \/ /\ worker[r][s] = "flow"
        /\ requeues' = [requeues EXCEPT ![r][s] = @ + 1]

Rests == UNCHANGED <<permits, requeues, worker>>

\* The part of TypeOK about these variables.
RunTypes ==
  /\ permits \in [Runs -> 0..MaxConcurrent]
  /\ requeues \in [Runs -> [Students -> 0..(RequeueMax + 1)]]
  /\ worker \in [Runs -> [Students -> {"none", "queued", "top", "flow",
                                       "quitting", "delay", "done"}]]

IInv == TypeOK /\ PermitsConserved /\ RequeueBudget

-----------------------------------------------------------------------------
\* Whatever a step does, it does one of these things to permits and workers.
LEMMA StepOfWorkers ==
  ASSUME [Next]_vars
  PROVE  \/ Rests
         \/ \E r \in Runs, s \in Students :
              GoesOn(r, s) \/ Acquire(r, s) \/ Leaves(r, s) \/ Requeue(r, s)
<1>1. ASSUME NEW h \in Handlers,
             CheckStart(h) \/ StartFromTelegram(h) \/ Launch(h) \/ Restart(h)
      PROVE  Rests
  BY <1>1 DEF CheckStart, StartFromTelegram, AskToStart, Launch, Restart, Rests,
              runVars
<1>2. CASE ScheduledStart \/ ApiStop \/ StopAll
  BY <1>2 DEF ScheduledStart, ApiStop, StopAll, Rests, runVars
<1>3. ASSUME NEW r \in Runs, RunStep(r) PROVE Rests
  BY <1>3 DEF RunStep, ClearStop, OpenRun, SaveFails, Finish, Rests
<1>4. ASSUME NEW r \in Runs, NEW s \in Students, WorkerStep(r, s)
      PROVE  GoesOn(r, s) \/ Acquire(r, s) \/ Leaves(r, s)
  <2>1. CASE StartWorker(r, s)
    BY <2>1 DEF StartWorker, GoesOn, Held
  <2>2. CASE BeginFlow(r, s)
    BY <2>2 DEF BeginFlow, GoesOn, Held
  <2>3. CASE FlowSeesStop(r, s)
    BY <2>3 DEF FlowSeesStop, GoesOn, Held
  <2>4. CASE DelayOver(r, s)
    BY <2>4 DEF DelayOver, GoesOn, Held
  <2>5. CASE SeeStop(r, s)
    BY <2>5 DEF SeeStop, EndWorker, Leaves, Held
  <2>6. CASE FlowStopped(r, s)
    BY <2>6 DEF FlowStopped, EndWorker, Leaves, Held
  <2> QED
    BY <1>4, <2>1, <2>2, <2>3, <2>4, <2>5, <2>6 DEF WorkerStep
<1>5. ASSUME NEW r \in Runs, NEW s \in Students, FlowResult(r, s)
      PROVE  Leaves(r, s) \/ Requeue(r, s)
  BY <1>5 DEF FlowResult, FlowBooks, FlowBooksUnsaved, GiveUp, EndWorker,
              Leaves, Held
<1>6. ASSUME NEW s \in Students,
             RetryStudent(s) \/ RetrySeesStop(s) \/ RetryEnds(s)
      PROVE  Rests
  BY <1>6 DEF RetryStudent, RetrySeesStop, RetryEnds, Rests, runVars
<1>7. CASE UNCHANGED vars
  BY <1>7 DEF vars, runVars, Rests
<1> QED
  BY <1>1, <1>2, <1>3, <1>4, <1>5, <1>6, <1>7 DEF Next

\* How the holders of permits change.
LEMMA HoldersMove ==
  ASSUME RunTypes, NEW r \in Runs, NEW s \in Students, NEW w, Work(r, s, w)
  PROVE  /\ \A q \in Runs \ {r} : Holders(q)' = Holders(q)
         /\ Holders(r)' = IF w \in Held THEN Holders(r) \cup {s}
                                        ELSE Holders(r) \ {s}
         /\ s \in Holders(r) <=> worker[r][s] \in Held
BY DEF RunTypes, Work, Holders, Holding, InFlow, Held

LEMMA HoldersFinite ==
  ASSUME ControlAssumption, NEW r
  PROVE  IsFiniteSet(Holders(r)) /\ Cardinality(Holders(r)) \in Nat
<1>1. Holders(r) \subseteq Students
  BY DEF Holders
<1> QED
  BY <1>1, FS_Subset, FS_CardinalityType DEF ControlAssumption

-----------------------------------------------------------------------------
\* Permits and their holders add up after every step.
LEMMA PermitsKept ==
  ASSUME ControlAssumption, RunTypes, PermitsConserved, [Next]_vars
  PROVE  PermitsConserved'
<1> DEFINE Sum(r) == permits[r] + Cardinality(Holders(r))
<1>1. \A r \in Runs : Sum(r) = MaxConcurrent
  BY DEF PermitsConserved, Holders
<1>2. SUFFICES \A r \in Runs : Sum(r)' = MaxConcurrent
  BY DEF PermitsConserved, Holders, Holding, InFlow
<1>3. CASE Rests
  BY <1>1, <1>3 DEF Rests, Holders, Holding, InFlow
<1>4. ASSUME NEW r \in Runs, NEW s \in Students, GoesOn(r, s)
      PROVE  \A q \in Runs : Sum(q)' = MaxConcurrent
  <2>1. PICK w : Work(r, s, w) /\ (worker[r][s] \in Held <=> w \in Held)
    BY <1>4 DEF GoesOn
  <2>2. \A q \in Runs : Holders(q)' = Holders(q)
    BY <2>1, HoldersMove
  <2> QED
    BY <1>1, <1>4, <2>2 DEF GoesOn
<1>5. ASSUME NEW r \in Runs, NEW s \in Students, Acquire(r, s)
      PROVE  \A q \in Runs : Sum(q)' = MaxConcurrent
  <2>1. /\ s \notin Holders(r) /\ Holders(r)' = Holders(r) \cup {s}
        /\ \A q \in Runs \ {r} : Holders(q)' = Holders(q)
    BY <1>5, HoldersMove DEF Acquire, Held
  <2>2. Cardinality(Holders(r)') = Cardinality(Holders(r)) + 1
    BY <2>1, HoldersFinite, FS_AddElement
  <2>3. /\ permits'[r] = permits[r] - 1
        /\ \A q \in Runs \ {r} : permits'[q] = permits[q]
    BY <1>5 DEF Acquire, RunTypes
  <2>4. Sum(r)' = MaxConcurrent
    BY <1>1, <2>2, <2>3, HoldersFinite DEF RunTypes, ControlAssumption
  <2> QED
    BY <1>1, <2>1, <2>3, <2>4
<1>6. ASSUME NEW r \in Runs, NEW s \in Students, Leaves(r, s)
      PROVE  \A q \in Runs : Sum(q)' = MaxConcurrent
  <2>1. /\ s \in Holders(r) /\ Holders(r)' = Holders(r) \ {s}
        /\ \A q \in Runs \ {r} : Holders(q)' = Holders(q)
    BY <1>6, HoldersMove DEF Leaves, Held
  <2>2. Cardinality(Holders(r)') = Cardinality(Holders(r)) - 1
    BY <2>1, HoldersFinite, FS_RemoveElement
  <2>3. /\ permits'[r] = permits[r] + 1
        /\ \A q \in Runs \ {r} : permits'[q] = permits[q]
    BY <1>6 DEF Leaves, RunTypes
  <2>4. Sum(r)' = MaxConcurrent
    BY <1>1, <2>2, <2>3, HoldersFinite DEF RunTypes, ControlAssumption
  <2> QED
    BY <1>1, <2>1, <2>3, <2>4
<1>7. ASSUME NEW r \in Runs, NEW s \in Students, Requeue(r, s)
      PROVE  \A q \in Runs : Sum(q)' = MaxConcurrent
  <2>1. \A q \in Runs : Holders(q)' = Holders(q)
    BY <1>7, HoldersMove DEF Requeue, Held
  <2> QED
    BY <1>1, <1>7, <2>1 DEF Requeue
<1> QED
  BY <1>3, <1>4, <1>5, <1>6, <1>7, StepOfWorkers

\* Each student is given up after its last failure, and not before.
LEMMA BudgetKept ==
  ASSUME ControlAssumption, RunTypes, RequeueBudget, [Next]_vars
  PROVE  RequeueBudget'
<1> USE DEF RunTypes, RequeueBudget, ControlAssumption
<1>1. CASE Rests
  BY <1>1 DEF Rests
<1>2. ASSUME NEW r \in Runs, NEW s \in Students, GoesOn(r, s)
      PROVE  RequeueBudget'
  BY <1>2 DEF GoesOn, Work
<1>3. ASSUME NEW r \in Runs, NEW s \in Students, Acquire(r, s)
      PROVE  RequeueBudget'
  BY <1>3 DEF Acquire, Work
<1>4. ASSUME NEW r \in Runs, NEW s \in Students, Leaves(r, s)
      PROVE  RequeueBudget'
  <2>1. worker'[r][s] = "done"
    BY <1>4 DEF Leaves, Work
  <2>2. ASSUME NEW q \in Runs, NEW x \in Students, <<q, x>> # <<r, s>>
        PROVE  /\ worker'[q][x] = worker[q][x]
               /\ requeues'[q][x] = requeues[q][x]
    BY <1>4, <2>2 DEF Leaves, Work
  <2> QED
    BY <2>1, <2>2
<1>5. ASSUME NEW r \in Runs, NEW s \in Students, Requeue(r, s)
      PROVE  RequeueBudget'
  <2>1. /\ worker'[r][s] = "delay"
        /\ requeues'[r][s] = requeues[r][s] + 1
        /\ requeues[r][s] < RequeueMax
    BY <1>5 DEF Requeue, Work
  <2>2. ASSUME NEW q \in Runs, NEW x \in Students, <<q, x>> # <<r, s>>
        PROVE  /\ worker'[q][x] = worker[q][x]
               /\ requeues'[q][x] = requeues[q][x]
    BY <1>5, <2>2 DEF Requeue, Work
  <2>3. requeues[r][s] \in 0..(RequeueMax + 1)
    OBVIOUS
  <2>4. requeues'[r][s] \in 1..RequeueMax
    BY <2>1, <2>3
  <2> QED
    BY <2>1, <2>2, <2>4
<1> QED
  BY <1>1, <1>2, <1>3, <1>4, <1>5, StepOfWorkers

\* The semaphore of a run never holds more than its permits, since they add up.
LEMMA RunTypesKept ==
  ASSUME ControlAssumption, RunTypes, PermitsConserved, RequeueBudget,
         [Next]_vars
  PROVE  RunTypes'
<1>1. worker' \in [Runs -> [Students -> {"none", "queued", "top", "flow",
                                         "quitting", "delay", "done"}]]
  <2>1. ASSUME NEW r \in Runs, NEW s \in Students,
               NEW w \in {"queued", "top", "flow", "quitting", "delay", "done"},
               Work(r, s, w)
        PROVE  worker' \in [Runs -> [Students ->
                 {"none", "queued", "top", "flow", "quitting", "delay", "done"}]]
    BY <2>1 DEF Work, RunTypes
  <2> QED
    BY <2>1, StepOfWorkers DEF Rests, GoesOn, Acquire, Leaves, Requeue, RunTypes
<1>2. requeues' \in [Runs -> [Students -> 0..(RequeueMax + 1)]]
  <2>1. ASSUME NEW r \in Runs, NEW s \in Students,
               worker[r][s] # "done",
               requeues' = [requeues EXCEPT ![r][s] = @ + 1]
        PROVE  requeues' \in [Runs -> [Students -> 0..(RequeueMax + 1)]]
    <3>1. requeues[r][s] + 1 \in 0..(RequeueMax + 1)
      BY <2>1 DEF RequeueBudget, RunTypes, ControlAssumption
    <3> QED
      BY <2>1, <3>1 DEF RunTypes
  <2> QED
    BY <2>1, StepOfWorkers DEF Rests, GoesOn, Acquire, Leaves, Requeue, RunTypes
<1>3. permits' \in [Runs -> 0..MaxConcurrent]
  <2>1. permits' \in [Runs -> Int]
    <3>1. ASSUME NEW r \in Runs, NEW n \in Int,
                 permits' = [permits EXCEPT ![r] = n]
          PROVE  permits' \in [Runs -> Int]
      BY <3>1 DEF RunTypes, ControlAssumption
    <3>2. \A r \in Runs : permits[r] \in Int
      BY DEF RunTypes, ControlAssumption
    <3> QED
      BY <3>1, <3>2, StepOfWorkers
         DEF Rests, GoesOn, Acquire, Leaves, Requeue, RunTypes
  <2>2. \A r \in Runs : permits'[r] >= 0
    BY StepOfWorkers DEF Rests, GoesOn, Acquire, Leaves, Requeue, RunTypes,
                         ControlAssumption
  <2>3. ASSUME NEW r \in Runs PROVE permits'[r] <= MaxConcurrent
    <3>1. permits'[r] + Cardinality(Holders(r)') = MaxConcurrent
      BY PermitsKept DEF PermitsConserved, Holders, Holding, InFlow
    <3>2. Cardinality(Holders(r)') \in Nat
      <4>1. Holders(r)' \subseteq Students
        BY DEF Holders
      <4> QED
        BY <4>1, FS_Subset, FS_CardinalityType DEF ControlAssumption
    <3> QED
      BY <2>1, <3>1, <3>2 DEF ControlAssumption
  <2> QED
    BY <2>1, <2>2, <2>3 DEF ControlAssumption
<1> QED
  BY <1>1, <1>2, <1>3 DEF RunTypes

\* The switch, the request threads and the status board stay in their types.
LEMMA TypeKept ==
  ASSUME ControlAssumption, TypeOK, RunTypes', [Next]_vars PROVE TypeOK'
<1> USE DEF TypeOK, RunTypes
<1>1. ASSUME NEW h \in Handlers, CheckStart(h) \/ StartFromTelegram(h)
      PROVE  TypeOK'
  BY <1>1 DEF CheckStart, StartFromTelegram, AskToStart, runVars
<1>2. ASSUME NEW h \in Handlers, Launch(h) PROVE TypeOK'
  BY <1>2 DEF Launch, NewRun
<1>3. ASSUME NEW h \in Handlers, Restart(h) PROVE TypeOK'
  BY <1>3 DEF Restart, runVars
<1>4. CASE ScheduledStart
  BY <1>4 DEF ScheduledStart, NewRun
<1>5. CASE ApiStop \/ StopAll
  BY <1>5 DEF ApiStop, StopAll, runVars
<1>6. ASSUME NEW r \in Runs, RunStep(r) PROVE TypeOK'
  BY <1>6 DEF RunStep, ClearStop, OpenRun, SaveFails, Finish
<1>7. ASSUME NEW r \in Runs, NEW s \in Students, WorkerStep(r, s)
      PROVE  TypeOK'
  <2>1. UNCHANGED <<bot_running, stop, handler, run, retry>>
    BY <1>7 DEF WorkerStep, StartWorker, Acquire, BeginFlow, SeeStop,
                FlowSeesStop, FlowStopped, DelayOver, EndWorker
  <2>2. \/ student_status' = student_status
        \/ \E v \in {"Starting", "Waiting", "Stopped"} : Show(s, v)
    BY <1>7 DEF WorkerStep, StartWorker, Acquire, BeginFlow, SeeStop,
                FlowSeesStop, FlowStopped, DelayOver
  <2>3. student_status' \in [Students -> Final \cup {"none", "Starting",
                                              "Waiting", "Re-queued"}]
    BY <2>2 DEF Show, Final
  <2>4. bot_running' \in BOOLEAN /\ stop' \in BOOLEAN
    BY <2>1, Zenon
  <2> QED
    BY <2>1, <2>3, <2>4
<1>8. ASSUME NEW r \in Runs, NEW s \in Students, FlowResult(r, s)
      PROVE  TypeOK'
  <2>1. UNCHANGED <<bot_running, stop, handler, run, retry>>
    BY <1>8 DEF FlowResult, FlowBooks, FlowBooksUnsaved, Requeue, GiveUp,
                EndWorker
  <2>2. \/ student_status' = student_status
        \/ \E v \in {"Booked", "Re-queued", "Failed"} : Show(s, v)
    BY <1>8 DEF FlowResult, FlowBooks, FlowBooksUnsaved, Requeue, GiveUp
  <2>3. student_status' \in [Students -> Final \cup {"none", "Starting",
                                              "Waiting", "Re-queued"}]
    BY <2>2 DEF Show, Final
  <2>4. bot_running' \in BOOLEAN /\ stop' \in BOOLEAN
    BY <2>1, Zenon
  <2> QED
    BY <2>1, <2>3, <2>4
<1>9. ASSUME NEW s \in Students,
             RetryStudent(s) \/ RetrySeesStop(s) \/ RetryEnds(s)
      PROVE  TypeOK'
  <2>1. retry' \in [Students -> {"off", "flow", "quitting"}]
    BY <1>9 DEF RetryStudent, RetrySeesStop, RetryEnds
  <2>2. /\ UNCHANGED <<bot_running, handler, run>>
        /\ stop' = stop \/ stop' = FALSE
    BY <1>9 DEF RetryStudent, RetrySeesStop, RetryEnds, runVars
  <2>3. \/ student_status' = student_status
        \/ \E v \in Final : Show(s, v)
    BY <1>9 DEF RetryStudent, RetrySeesStop, RetryEnds, Final
  <2>4. stop' \in BOOLEAN
    BY <2>2, Zenon
  <2> QED
    BY <2>1, <2>2, <2>3, <2>4 DEF Show
<1>10. CASE UNCHANGED vars
  BY <1>10 DEF vars, runVars
<1> QED
  BY <1>1, <1>2, <1>3, <1>4, <1>5, <1>6, <1>7, <1>8, <1>9, <1>10 DEF Next

-----------------------------------------------------------------------------
LEMMA InvInit == ASSUME ControlAssumption, Init PROVE IInv
<1>1. TypeOK
  <2>1. bot_running \in BOOLEAN /\ stop \in BOOLEAN
    BY Zenon DEF Init
  <2>2. /\ permits \in [Runs -> 0..MaxConcurrent]
        /\ requeues \in [Runs -> [Students -> 0..(RequeueMax + 1)]]
    BY DEF Init, ControlAssumption
  <2> QED
    BY <2>1, <2>2 DEF Init, TypeOK
<1>2. PermitsConserved
  <2>1. \A r \in Runs : {s \in Students : Holding(r, s)} = {}
    BY DEF Init, Holding, InFlow
  <2>2. \A r \in Runs : Cardinality({s \in Students : Holding(r, s)}) = 0
    BY <2>1, FS_EmptySet
  <2>3. \A r \in Runs : permits[r] = MaxConcurrent
    BY DEF Init
  <2> QED
    BY <2>2, <2>3 DEF PermitsConserved, ControlAssumption
<1>3. RequeueBudget
  BY DEF Init, RequeueBudget, ControlAssumption
<1> QED
  BY <1>1, <1>2, <1>3 DEF IInv

LEMMA InvKept == ASSUME ControlAssumption, IInv, [Next]_vars PROVE IInv'
<1>1. RunTypes
  BY DEF IInv, TypeOK, RunTypes
<1>2. RunTypes'
  BY <1>1, RunTypesKept DEF IInv
<1> QED
  BY <1>1, <1>2, TypeKept, PermitsKept, BudgetKept DEF IInv

\* The types of the variables hold in every state.
THEOREM TypeCorrect == Spec => []TypeOK
<1>1. Init => IInv
  BY InvInit, ControlAssumption
<1>2. IInv /\ [Next]_vars => IInv'
  BY InvKept, ControlAssumption
<1>3. IInv => TypeOK
  BY DEF IInv
<1> QED
  BY <1>1, <1>2, <1>3, PTL DEF Spec

\* Runs may overlap, start requests overtake one another and writes fail: every
\* permit of a run is free or held by exactly one of its workers.
THEOREM PermitsAreConserved == Spec => []PermitsConserved
<1>1. Init => IInv
  BY InvInit, ControlAssumption
<1>2. IInv /\ [Next]_vars => IInv'
  BY InvKept, ControlAssumption
<1>3. IInv => PermitsConserved
  BY DEF IInv
<1> QED
  BY <1>1, <1>2, <1>3, PTL DEF Spec

\* A worker never waits at the semaphore of its run for a permit that nobody will
\* give back: when there is none, some student of the same run holds one, which
\* frees it by ending, or by queueing again.
THEOREM NobodyWaitsAlone ==
  Spec => [](\A r \in Runs : permits[r] = 0 => \E t \in Students : Holding(r, t))
<1> DEFINE Shared == \A r \in Runs :
                      permits[r] = 0 => \E t \in Students : Holding(r, t)
<1>1. PermitsConserved => Shared
  <2> SUFFICES ASSUME PermitsConserved, NEW r \in Runs, permits[r] = 0,
                      \A t \in Students : ~Holding(r, t)
               PROVE  FALSE
    OBVIOUS
  <2>1. {t \in Students : Holding(r, t)} = {}
    OBVIOUS
  <2>2. Cardinality({t \in Students : Holding(r, t)}) = 0
    BY <2>1, FS_EmptySet
  <2> QED
    BY <2>2, ControlAssumption DEF PermitsConserved, ControlAssumption
<1> QED
  BY <1>1, PermitsAreConserved, PTL

\* A student is tried RequeueMax times again in a run, and no more.
THEOREM RequeuesAreBounded == Spec => []RequeueBudget
<1>1. Init => IInv
  BY InvInit, ControlAssumption
<1>2. IInv /\ [Next]_vars => IInv'
  BY InvKept, ControlAssumption
<1>3. IInv => RequeueBudget
  BY DEF IInv
<1> QED
  BY <1>1, <1>2, <1>3, PTL DEF Spec

-----------------------------------------------------------------------------
(* One start at a time: no scheduled start, no request that overtakes a     *)
(* starting run, no retry by hand and a single request thread.  Then the    *)
(* bot is the switch of Booker, and its board is settled when it is off.    *)
(* TLC shows that none of this is true of overlapping starts.               *)

OneByOne ==
  /\ ~Scheduling /\ ~Impatient
  /\ Retryable = {}
  /\ \A g, h \in Handlers : g = h

\* At most one run is alive, a request that may still start one has found the
\* bot off, and only an open run has workers that are neither new nor over.
Serial ==
  /\ retry = [s \in Students |-> "off"]
  /\ \A q, r \in Live : q = r
  /\ \A h \in Handlers : handler[h] = "checked" => Live = {} /\ ~bot_running
  /\ \A r \in Runs : run[r] \in {"started", "cleared"} => ~bot_running
  /\ \A r \in Runs : run[r] \in {"open", "dead"} => bot_running
  /\ \A r \in Runs : run[r] = "dead" => Live = {}
  /\ \A r \in Runs : run[r] # "open" =>
       \A s \in Students : worker[r][s] \in {"none", "done"}
  /\ \A r \in Runs : run[r] \notin {"open", "done"} =>
       \A s \in Students : worker[r][s] = "none"

\* What an open run does with a worker, as far as Serial is concerned.
Labours(r, s) ==
  /\ run[r] = "open"
  /\ \E w : Work(r, s, w)
  /\ UNCHANGED <<bot_running, stop, handler, run, retry>>

LEMMA WorkIsOfOpenRun ==
  ASSUME Serial, NEW r \in Runs, NEW s \in Students,
         WorkerStep(r, s) \/ FlowResult(r, s)
  PROVE  Labours(r, s)
<1>1. run[r] = "open"
  BY DEF Serial, WorkerStep, FlowResult, StartWorker, Acquire, BeginFlow,
         SeeStop, FlowSeesStop, FlowStopped, DelayOver, FlowBooks,
         FlowBooksUnsaved, Requeue, GiveUp
<1>2. \E w : Work(r, s, w)
  BY DEF WorkerStep, FlowResult, StartWorker, Acquire, BeginFlow,
         SeeStop, FlowSeesStop, FlowStopped, DelayOver, FlowBooks,
         FlowBooksUnsaved, Requeue, GiveUp, EndWorker
<1>3. UNCHANGED <<bot_running, stop, handler, run, retry>>
  BY DEF WorkerStep, FlowResult, StartWorker, Acquire, BeginFlow,
         SeeStop, FlowSeesStop, FlowStopped, DelayOver, FlowBooks,
         FlowBooksUnsaved, Requeue, GiveUp, EndWorker
<1> QED
  BY <1>1, <1>2, <1>3 DEF Labours

\* Without retries by hand, no step retries anybody.
LEMMA NobodyIsRetried ==
  ASSUME OneByOne, Serial, NEW s \in Students
  PROVE  ~(RetryStudent(s) \/ RetrySeesStop(s) \/ RetryEnds(s))
BY DEF OneByOne, Serial, RetryStudent, RetrySeesStop, RetryEnds

LEMMA SerialInit == ASSUME Init PROVE Serial
BY DEF Init, Serial, Live

LEMMA SerialKept ==
  ASSUME OneByOne, TypeOK, Serial, [Next]_vars PROVE Serial'
<1>1. ASSUME NEW h \in Handlers, CheckStart(h) \/ StartFromTelegram(h)
      PROVE  Serial'
  <2>1. handler' = [handler EXCEPT
                      ![h] = IF bot_running THEN "idle" ELSE "checked"]
    BY <1>1 DEF CheckStart, StartFromTelegram, AskToStart
  <2>2. Starting = {}
    BY <1>1 DEF CheckStart, StartFromTelegram, AskToStart, OneByOne
  <2>3. UNCHANGED <<bot_running, run, worker, retry>>
    BY <1>1 DEF CheckStart, StartFromTelegram, AskToStart, runVars
  <2>4. ~bot_running => Live = {}
    BY <2>2 DEF Serial, Starting, Live
  <2> QED
    BY <2>1, <2>3, <2>4 DEF Serial, Live, TypeOK
<1>2. ASSUME NEW h \in Handlers, Launch(h) PROVE Serial'
  <2>1. PICK r \in Runs : run[r] = "none" /\ run' = [run EXCEPT ![r] = "started"]
    BY <1>2 DEF Launch, NewRun
  <2>2. Live = {} /\ ~bot_running
    BY <1>2 DEF Launch, Serial
  <2>3. Live' = {r}
    BY <2>1, <2>2 DEF Live, TypeOK
  <2>4. \A g \in Handlers : handler'[g] # "checked"
    BY <1>2 DEF Launch, OneByOne, TypeOK
  <2>5. UNCHANGED <<bot_running, worker, retry>>
    BY <1>2 DEF Launch
  <2>6. \A q \in Runs : run[q] \notin {"open", "dead"}
    BY <2>2 DEF Serial
  <2> QED
    BY <2>1, <2>2, <2>3, <2>4, <2>5, <2>6 DEF Serial, TypeOK
<1>3. ASSUME NEW h \in Handlers, Restart(h) PROVE Serial'
  BY <1>3 DEF Restart, runVars, Serial, Live, TypeOK
<1>4. ~ScheduledStart
  BY DEF ScheduledStart, OneByOne
<1>5. CASE ApiStop \/ StopAll
  BY <1>5 DEF ApiStop, StopAll, runVars, Serial, Live
<1>6. ASSUME NEW r \in Runs, ClearStop(r) PROVE Serial'
  BY <1>6 DEF ClearStop, Serial, Live, TypeOK
<1>7. ASSUME NEW r \in Runs, OpenRun(r) \/ SaveFails(r) PROVE Serial'
  <2>1. /\ run[r] = "cleared" /\ Live = {r}
        /\ \A h \in Handlers : handler[h] # "checked"
    BY <1>7 DEF OpenRun, SaveFails, Serial, Live
  <2>2. UNCHANGED <<handler, worker, retry>>
    BY <1>7 DEF OpenRun, SaveFails
  <2>3. bot_running'
    BY <1>7 DEF OpenRun, SaveFails
  <2>4. CASE OpenRun(r)
    BY <2>1, <2>2, <2>3, <2>4 DEF OpenRun, Serial, Live, TypeOK
  <2>5. CASE SaveFails(r)
    <3>1. run' = [run EXCEPT ![r] = "dead"]
      BY <2>5 DEF SaveFails
    <3>2. Live' = {}
      BY <2>1, <3>1 DEF Live, TypeOK
    <3> QED
      BY <2>1, <2>2, <2>3, <3>1, <3>2 DEF Serial, TypeOK, Live
  <2> QED
    BY <1>7, <2>4, <2>5
<1>8. ASSUME NEW r \in Runs, Finish(r) PROVE Serial'
  <2>1. Live = {r} /\ \A q \in Runs : run[q] # "dead"
    BY <1>8 DEF Finish, Serial, Live
  <2>2. run' = [run EXCEPT ![r] = "done"]
    BY <1>8 DEF Finish
  <2>3. Live' = {}
    BY <2>1, <2>2 DEF Live, TypeOK
  <2>4. ~bot_running'
    BY <1>8 DEF Finish
  <2>5. UNCHANGED <<handler, worker, retry>>
    BY <1>8 DEF Finish
  <2>6. \A s \in Students : worker[r][s] = "done"
    BY <1>8 DEF Finish
  <2>7. \A q \in Runs : run[q] # "open" \/ q = r
    BY <2>1 DEF Live
  <2> QED
    BY <2>1, <2>2, <2>3, <2>4, <2>5, <2>6, <2>7 DEF Serial, TypeOK
<1>9. ASSUME NEW r \in Runs, NEW s \in Students, Labours(r, s) PROVE Serial'
  <2>1. \A q \in Runs \ {r} : worker'[q] = worker[q]
    BY <1>9 DEF Labours, Work, TypeOK
  <2> QED
    BY <1>9, <2>1 DEF Labours, Serial, Live
<1>10. CASE UNCHANGED vars
  BY <1>10 DEF vars, runVars, Serial, Live
<1> QED
  BY <1>1, <1>2, <1>3, <1>4, <1>5, <1>6, <1>7, <1>8, <1>9, <1>10,
     WorkIsOfOpenRun, NobodyIsRetried DEF Next, RunStep

-----------------------------------------------------------------------------
(* The status board, when writes to the database do not raise: a worker     *)
(* that is over leaves a final status, and a run starts with a clean board. *)

Settling ==
  /\ Live = {} => \A s \in Students : student_status[s] \in Final \cup {"none"}
  /\ \A r \in Runs : run[r] \in {"started", "cleared"} =>
       \A s \in Students : student_status[s] = "none"
  /\ \A r \in Runs : run[r] = "open" => \A s \in Students :
       worker[r][s] = "done" => student_status[s] \in Final

\* A worker's step shows the student as something, or leaves what is shown; it
\* ends with a final status.
LEMMA WorkersShow ==
  ASSUME ~DbMayFail, NEW r \in Runs, NEW s \in Students,
         WorkerStep(r, s) \/ FlowResult(r, s)
  PROVE  \E w : /\ Work(r, s, w)
                /\ \/ UNCHANGED student_status /\ w # "done"
                   \/ \E v : Show(s, v) /\ (w = "done" => v \in Final)
<1>1. CASE Acquire(r, s) \/ FlowSeesStop(r, s) \/ DelayOver(r, s)
  <2>1. \E w \in {"top", "quitting"} : Work(r, s, w)
    BY <1>1 DEF Acquire, FlowSeesStop, DelayOver
  <2> QED
    BY <1>1, <2>1 DEF Acquire, FlowSeesStop, DelayOver
<1>2. CASE StartWorker(r, s) \/ BeginFlow(r, s) \/ Requeue(r, s)
  <2>1. \E w \in {"queued", "flow", "delay"} : Work(r, s, w)
    BY <1>2 DEF StartWorker, BeginFlow, Requeue
  <2>2. \E v : Show(s, v)
    BY <1>2 DEF StartWorker, BeginFlow, Requeue
  <2> QED
    BY <2>1, <2>2
<1>3. CASE SeeStop(r, s) \/ FlowStopped(r, s) \/ FlowBooks(r, s) \/ GiveUp(r, s)
  <2>1. Work(r, s, "done")
    BY <1>3 DEF SeeStop, FlowStopped, FlowBooks, GiveUp, EndWorker
  <2>2. \E v \in Final : Show(s, v)
    BY <1>3 DEF SeeStop, FlowStopped, FlowBooks, GiveUp, Final
  <2> QED
    BY <2>1, <2>2
<1>4. ~FlowBooksUnsaved(r, s)
  BY DEF FlowBooksUnsaved
<1> QED
  BY <1>1, <1>2, <1>3, <1>4, Zenon DEF WorkerStep, FlowResult

LEMMA SettlingKept ==
  ASSUME OneByOne, ~DbMayFail, TypeOK, Serial, Settling, [Next]_vars
  PROVE  Settling'
<1>1. ASSUME NEW h \in Handlers,
             CheckStart(h) \/ StartFromTelegram(h) \/ Restart(h)
      PROVE  Settling'
  <2>1. UNCHANGED <<run, worker, student_status>>
    BY <1>1 DEF CheckStart, StartFromTelegram, AskToStart, Restart, runVars
  <2> QED
    BY <2>1 DEF Settling, Live
<1>2. ASSUME NEW h \in Handlers, Launch(h) PROVE Settling'
  <2>1. student_status' = [s \in Students |-> "none"]
    BY <1>2 DEF Launch
  <2>2. \A q \in Runs : run'[q] # "open"
    BY <1>2 DEF Launch, NewRun, Serial, Live, TypeOK
  <2> QED
    BY <2>1, <2>2 DEF Settling
<1>3. ~ScheduledStart
  BY DEF ScheduledStart, OneByOne
<1>4. CASE ApiStop \/ StopAll
  BY <1>4 DEF ApiStop, StopAll, runVars, Settling, Live
<1>5. ASSUME NEW r \in Runs, ClearStop(r) PROVE Settling'
  BY <1>5 DEF ClearStop, Settling, Live, TypeOK
<1>6. ASSUME NEW r \in Runs, OpenRun(r) PROVE Settling'
  <2>1. /\ UNCHANGED <<worker, student_status>>
        /\ run[r] = "cleared" /\ run' = [run EXCEPT ![r] = "open"]
    BY <1>6 DEF OpenRun
  <2>2. \A s \in Students : worker[r][s] = "none" /\ student_status[s] = "none"
    BY <2>1 DEF Serial, Settling
  <2> QED
    BY <2>1, <2>2 DEF Settling, TypeOK
<1>7. ASSUME NEW r \in Runs PROVE ~SaveFails(r)
  BY DEF SaveFails
<1>8. ASSUME NEW r \in Runs, Finish(r) PROVE Settling'
  <2>1. /\ UNCHANGED <<worker, student_status>>
        /\ run[r] = "open" /\ run' = [run EXCEPT ![r] = "done"]
        /\ \A s \in Students : worker[r][s] = "done"
    BY <1>8 DEF Finish
  <2>2. \A s \in Students : student_status[s] \in Final
    BY <2>1 DEF Settling
  <2>3. \A q \in Runs : q # r => run'[q] \notin {"started", "cleared", "open"}
    BY <2>1 DEF Serial, Live, TypeOK
  <2> QED
    BY <2>1, <2>2, <2>3 DEF Settling, TypeOK
<1>9. ASSUME NEW r \in Runs, NEW s \in Students,
             WorkerStep(r, s) \/ FlowResult(r, s)
      PROVE  Settling'
  <2>1. PICK w : /\ Work(r, s, w)
                 /\ \/ UNCHANGED student_status /\ w # "done"
                    \/ \E v : Show(s, v) /\ (w = "done" => v \in Final)
    BY <1>9, WorkersShow
  <2>2. run[r] = "open" /\ UNCHANGED run
    BY <1>9, WorkIsOfOpenRun DEF Labours
  <2>3. \A q \in Runs : q # r => run[q] \notin {"started", "cleared", "open"}
    BY <2>2 DEF Serial, Live
  <2>4. /\ w = "done" => student_status'[s] \in Final
        /\ \A x \in Students \ {s} : student_status'[x] = student_status[x]
    BY <2>1 DEF Show, TypeOK
  <2>5. /\ worker'[r][s] = w
        /\ \A x \in Students \ {s} : worker'[r][x] = worker[r][x]
    BY <2>1 DEF Work, TypeOK
  <2>6. Live' # {}
    BY <2>2 DEF Live
  <2> QED
    BY <2>1, <2>2, <2>3, <2>4, <2>5, <2>6 DEF Settling
<1>10. CASE UNCHANGED vars
  BY <1>10 DEF vars, runVars, Settling, Live
<1> QED
  BY <1>1, <1>2, <1>3, <1>4, <1>5, <1>6, <1>7, <1>8, <1>9, <1>10,
     NobodyIsRetried DEF Next, RunStep

\* When the bot is off, no student is left shown as waiting: as long as starts
\* come one at a time and what is booked can be saved.
THEOREM BoardIsSettled ==
  ASSUME OneByOne, ~DbMayFail PROVE Spec => []BoardSettled
<1> DEFINE Inv == IInv /\ Serial /\ Settling
<1>1. Init => Inv
  <2>1. Init => Settling
    BY DEF Init, Settling, Live
  <2> QED
    BY <2>1, InvInit, SerialInit, ControlAssumption
<1>2. Inv /\ [Next]_vars => Inv'
  BY InvKept, SerialKept, SettlingKept, ControlAssumption DEF IInv
<1>3. Inv => BoardSettled
  BY DEF Settling, BoardSettled
<1> QED
  BY <1>1, <1>2, <1>3, PTL DEF Spec

-----------------------------------------------------------------------------
(* The switch of Booker.                                                    *)

Working == {s \in Students : \E r \in Runs : InFlow(r, s)} \cup Retries

\* The students that are being booked are those of the open run.
LEMMA WorkingOfOpenRun ==
  ASSUME Serial, NEW r \in Runs, run[r] = "open"
  PROVE  Working = {s \in Students : InFlow(r, s)}
<1>1. Retries = {}
  BY DEF Retries, Serial
<1>2. \A q \in Runs : q # r => run[q] # "open"
  BY DEF Serial, Live
<1>3. \A q \in Runs \ {r} : \A s \in Students : ~InFlow(q, s)
  BY <1>2 DEF Serial, InFlow
<1> QED
  BY <1>1, <1>3 DEF Working

LEMMA NobodyWorks ==
  ASSUME Serial, \A r \in Runs : run[r] # "open" PROVE Working = {}
BY DEF Serial, InFlow, Working, Retries

\* A worker of the open run moves.
LEMMA WorkingMoves ==
  ASSUME TypeOK, Serial, NEW r \in Runs, NEW s \in Students,
         Labours(r, s), NEW w, Work(r, s, w)
  PROVE  /\ Working' = IF w \in {"flow", "quitting"} THEN Working \cup {s}
                                                     ELSE Working \ {s}
         /\ s \in Working <=> InFlow(r, s)
         /\ UNCHANGED bot_running
<1>1. Working = {x \in Students : InFlow(r, x)}
  BY WorkingOfOpenRun DEF Labours
<1>2. Retries' = {} /\ UNCHANGED bot_running
  BY DEF Labours, Retries, Serial
<1>3. \A q \in Runs \ {r} : \A x \in Students : ~InFlow(q, x)
  BY DEF Serial, InFlow, Live, Labours
<1>4. /\ worker'[r][s] = w
      /\ \A q \in Runs \ {r} : worker'[q] = worker[q]
      /\ \A x \in Students \ {s} : worker'[r][x] = worker[r][x]
  BY DEF Work, TypeOK
<1>5. Working' = {x \in Students : InFlow(r, x)'}
  BY <1>2, <1>3, <1>4 DEF Working, InFlow
<1> QED
  BY <1>1, <1>2, <1>4, <1>5 DEF InFlow

\* A worker that begins its flow holds a permit, so fewer than MaxConcurrent
\* others are in theirs.
LEMMA RoomForOne ==
  ASSUME ControlAssumption, IInv, Serial, NEW r \in Runs, NEW s \in Students,
         run[r] = "open", worker[r][s] = "top"
  PROVE  Cardinality(Working) < MaxConcurrent
<1>1. Working \subseteq Holders(r) \ {s}
  BY WorkingOfOpenRun DEF Holders, Holding, InFlow
<1>2. IsFiniteSet(Holders(r)) /\ Cardinality(Holders(r)) \in Nat
  BY HoldersFinite
<1>3. s \in Holders(r)
  BY DEF Holders, Holding
<1>4. /\ IsFiniteSet(Holders(r) \ {s})
      /\ Cardinality(Holders(r) \ {s}) = Cardinality(Holders(r)) - 1
  BY <1>2, <1>3, FS_RemoveElement
<1>5. /\ Cardinality(Working) <= Cardinality(Holders(r) \ {s})
      /\ IsFiniteSet(Working)
  BY <1>1, <1>4, FS_Subset
<1>6. Cardinality(Working) \in Nat
  BY <1>5, FS_CardinalityType
<1>7. permits[r] + Cardinality(Holders(r)) = MaxConcurrent
  BY DEF IInv, PermitsConserved, Holders
<1>8. permits[r] \in Nat
  BY DEF IInv, TypeOK, ControlAssumption
<1> QED
  BY <1>2, <1>4, <1>5, <1>6, <1>7, <1>8 DEF ControlAssumption

\* Every step turns the switch, begins or ends the booking of a student, or is
\* not seen from outside.
LEMMA StepOutside ==
  ASSUME ControlAssumption, OneByOne, IInv, Serial, [Next]_vars
  PROVE  [Outside!Next]_(Outside!bookerVars)
<1> DEFINE Unseen == UNCHANGED <<bot_running, Working>>
<1>0. ASSUME Unseen PROVE UNCHANGED Outside!bookerVars
  BY <1>0 DEF Outside!bookerVars, Working
<1>1. ASSUME NEW h \in Handlers,
             CheckStart(h) \/ StartFromTelegram(h) \/ Launch(h) \/ Restart(h)
      PROVE  Unseen
  BY <1>1 DEF CheckStart, StartFromTelegram, AskToStart, Launch, Restart,
              runVars, Working, InFlow, Retries
<1>2. ~ScheduledStart
  BY DEF ScheduledStart, OneByOne
<1>3. ASSUME ApiStop \/ StopAll PROVE Unseen
  <2>1. UNCHANGED <<bot_running, worker, retry>>
    BY <1>3, Zenon DEF ApiStop, StopAll, runVars
  <2> QED
    BY <2>1 DEF Working, InFlow, Retries
<1>4. ASSUME NEW r \in Runs, ClearStop(r) PROVE Unseen
  BY <1>4 DEF ClearStop, Working, InFlow, Retries
<1>5. ASSUME NEW r \in Runs, OpenRun(r) \/ SaveFails(r)
      PROVE  Outside!SwitchOn
  <2>1. ~bot_running
    BY <1>5 DEF OpenRun, SaveFails, Serial
  <2>2. bot_running' = TRUE
    BY <1>5 DEF OpenRun, SaveFails
  <2>3. UNCHANGED Working
    BY <1>5 DEF OpenRun, SaveFails, Working, InFlow, Retries
  <2> QED
    BY <2>1, <2>2, <2>3 DEF Outside!SwitchOn, Working
<1>6. ASSUME NEW r \in Runs, Finish(r) PROVE Outside!SwitchOff
  <2>1. bot_running
    BY <1>6 DEF Finish, Serial
  <2>2. Working = {}
    BY <1>6, WorkingOfOpenRun DEF Finish, InFlow
  <2>3. UNCHANGED Working
    BY <1>6 DEF Finish, Working, InFlow, Retries
  <2>4. bot_running' = FALSE
    BY <1>6 DEF Finish
  <2> QED
    BY <2>1, <2>2, <2>3, <2>4 DEF Outside!SwitchOff, Working
<1>7. ASSUME NEW r \in Runs, NEW s \in Students, BeginFlow(r, s)
      PROVE  Outside!Begin(s)
  <2>1. Labours(r, s) /\ Work(r, s, "flow") /\ worker[r][s] = "top"
    BY <1>7, WorkIsOfOpenRun DEF WorkerStep, BeginFlow
  <2>2. Working' = Working \cup {s} /\ s \notin Working /\ UNCHANGED bot_running
    BY <2>1, WorkingMoves DEF IInv, InFlow
  <2>3. bot_running
    BY <2>1 DEF Labours, Serial
  <2>4. Cardinality(Working) < MaxConcurrent
    BY <2>1, RoomForOne DEF Labours
  <2> QED
    BY <2>2, <2>3, <2>4, Zenon
       DEF Outside!Begin, Working, Outside!Cardinality, Cardinality
<1>8. ASSUME NEW r \in Runs, NEW s \in Students,
             FlowStopped(r, s) \/ FlowResult(r, s)
      PROVE  Outside!End(s)
  <2>1. \E w \in {"done", "delay"} : Work(r, s, w)
    BY <1>8 DEF FlowStopped, FlowResult, FlowBooks, FlowBooksUnsaved, Requeue,
                GiveUp, EndWorker
  <2>2. InFlow(r, s)
    BY <1>8 DEF FlowStopped, FlowResult, FlowBooks, FlowBooksUnsaved, Requeue,
                GiveUp, InFlow
  <2>3. Labours(r, s)
    BY <1>8, WorkIsOfOpenRun DEF WorkerStep
  <2>4. Working' = Working \ {s} /\ s \in Working /\ UNCHANGED bot_running
    BY <2>1, <2>2, <2>3, WorkingMoves DEF IInv
  <2> QED
    BY <2>4 DEF Outside!End, Working
<1>9. ASSUME NEW r \in Runs, NEW s \in Students,
             StartWorker(r, s) \/ Acquire(r, s) \/ SeeStop(r, s)
               \/ FlowSeesStop(r, s) \/ DelayOver(r, s)
      PROVE  Unseen
  <2>1. Labours(r, s)
    BY <1>9, WorkIsOfOpenRun DEF WorkerStep
  <2>2. CASE FlowSeesStop(r, s)
    BY <2>1, <2>2, WorkingMoves DEF IInv, InFlow, FlowSeesStop
  <2>3. CASE StartWorker(r, s) \/ Acquire(r, s) \/ SeeStop(r, s)
               \/ DelayOver(r, s)
    <3>1. \E w \in {"queued", "top", "done"} : Work(r, s, w)
      BY <2>3 DEF StartWorker, Acquire, SeeStop, DelayOver, EndWorker
    <3>2. ~InFlow(r, s)
      BY <2>3 DEF StartWorker, Acquire, SeeStop, DelayOver, InFlow
    <3> QED
      BY <2>1, <3>1, <3>2, WorkingMoves DEF IInv
  <2> QED
    BY <1>9, <2>2, <2>3
<1>10. ASSUME UNCHANGED vars PROVE Unseen
  <2>1. UNCHANGED <<bot_running, worker, retry>>
    BY <1>10, Zenon DEF vars, runVars
  <2> QED
    BY <2>1 DEF Working, InFlow, Retries
<1> HIDE DEF Unseen
<1> DEFINE Seen == \/ Unseen \/ Outside!SwitchOn \/ Outside!SwitchOff
                   \/ \E s \in Students : Outside!Begin(s) \/ Outside!End(s)
<1>11. ASSUME NEW r \in Runs, RunStep(r) PROVE Seen
  BY <1>4, <1>5, <1>6, <1>11, Zenon DEF RunStep
<1>12. ASSUME NEW r \in Runs, NEW s \in Students,
              WorkerStep(r, s) \/ FlowResult(r, s)
       PROVE  Seen
  BY <1>7, <1>8, <1>9, <1>12, Zenon DEF WorkerStep
<1>13. ASSUME Next PROVE Seen
  BY <1>1, <1>2, <1>3, <1>11, <1>12, <1>13, NobodyIsRetried, Zenon DEF Next
<1>14. Seen
  BY <1>10, <1>13, Zenon
<1> QED
  BY <1>0, <1>14 DEF Outside!Next

\* While starts come one at a time, run_students_web with its semaphore and its
\* worker threads implements the switch of Booker: whatever stops, restarts and
\* failing writes come between, students are booked only while the bot is on, at
\* most MaxConcurrent of them, and it goes off when nobody is being booked.
THEOREM ImplementsBooker == ASSUME OneByOne PROVE Spec => BookerSpec
<1> DEFINE Inv == IInv /\ Serial
<1>1. Init => Inv
  BY InvInit, SerialInit, ControlAssumption
<1>2. Inv /\ [Next]_vars => Inv'
  BY InvKept, SerialKept, ControlAssumption DEF IInv
<1>3. Init => Outside!Init
  <2>1. Init => bot_running = FALSE
    BY Zenon DEF Init
  <2>2. Init => Working = {}
    BY DEF Init, Working, InFlow, Retries
  <2> QED
    BY <2>1, <2>2 DEF Outside!Init, Working
<1>4. Inv /\ [Next]_vars => [Outside!Next]_(Outside!bookerVars)
  BY StepOutside, ControlAssumption
<1> QED
  BY <1>1, <1>2, <1>3, <1>4, PTL DEF Spec, BookerSpec, Outside!Spec
=============================================================================
