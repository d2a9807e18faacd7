---------------------------- MODULE DeadManProofs ----------------------------
(***************************************************************************)
(* The dead man switch is silent as long as heartbeats come and raises its  *)
(* alarm in time when they do not, proved for any monitors, timeout and     *)
(* interval.  The argument for the second is what is left: the age of the   *)
(* heartbeat and the rest of a monitor's wait grow and shrink together.     *)
(***************************************************************************)
EXTENDS DeadMan, TLAPS

\* How old the heartbeat may be, seen from each place of a monitor that has
\* found it in time before.  A monitor that has left its loop owes nothing.
AgeAtPlace ==
  \A m \in checked :
    /\ monitor[m] # "off"
    /\ monitor[m] = "looping" => since <= Timeout
    /\ monitor[m] = "waiting" => since <= Timeout + (Interval - timer[m])
    /\ monitor[m] = "checking" => since <= Timeout + Interval

IInv == TypeOK /\ DeadMeansSilent /\ AgeAtPlace

-----------------------------------------------------------------------------
LEMMA InvInit == ASSUME DeadManAssumption, Init PROVE IInv
<1> USE DEF DeadManAssumption, Init
<1>1. TypeOK
  <2>1. /\ alive \in BOOLEAN /\ stopped \in BOOLEAN
        /\ hung \in BOOLEAN /\ alerts \in BOOLEAN
    BY Zenon
  <2>2. since \in 0..Longest /\ timer \in [Monitors -> 0..Interval]
    BY DEF Longest
  <2> QED
    BY <2>1, <2>2 DEF TypeOK
<1>2. DeadMeansSilent /\ AgeAtPlace
  BY DEF DeadMeansSilent, AgeAtPlace
<1> QED
  BY <1>1, <1>2 DEF IInv

\* Every step keeps the types.
LEMMA TypeKept ==
  ASSUME DeadManAssumption, TypeOK, [Next]_vars PROVE TypeOK'
<1> USE DEF TypeOK, DeadManAssumption
<1>1. CASE Ping
  BY <1>1 DEF Ping, monitorVars, Longest
<1>2. CASE StopMonitor
  BY <1>2 DEF StopMonitor
<1>3. CASE Hang
  BY <1>3 DEF Hang, monitorVars
<1>4. CASE Tick
  <2>1. since' \in 0..Longest
    BY <1>4 DEF Tick, Longest
  <2>2. timer' \in [Monitors -> 0..Interval]
    BY <1>4 DEF Tick
  <2> QED
    BY <1>4, <2>1, <2>2 DEF Tick
<1>5. ASSUME NEW m \in Monitors, StartMonitor(m) PROVE TypeOK'
  BY <1>5 DEF StartMonitor, Goto
<1>6. ASSUME NEW m \in Monitors, Loop(m) PROVE TypeOK'
  BY <1>6 DEF Loop, Goto
<1>7. ASSUME NEW m \in Monitors, WaitOver(m) PROVE TypeOK'
  BY <1>7 DEF WaitOver, Goto
<1>8. ASSUME NEW m \in Monitors, Check(m) PROVE TypeOK'
  <2>1. alive' \in BOOLEAN
    BY <1>8, Zenon DEF Check
  <2> QED
    BY <1>8, <2>1 DEF Check, Goto
<1>9. ASSUME NEW m \in Monitors, Alert(m) PROVE TypeOK'
  BY <1>9 DEF Alert, Goto
<1>10. CASE UNCHANGED vars
  BY <1>10 DEF vars, monitorVars
<1> QED
  BY <1>1, <1>2, <1>3, <1>4, <1>5, <1>6, <1>7, <1>8, <1>9, <1>10
     DEF Next, MonitorStep

\* Only a check after the timeout ends the life of the switch, and only a
\* heartbeat makes it younger.
LEMMA SilentKept ==
  ASSUME DeadManAssumption, TypeOK, DeadMeansSilent, [Next]_vars
  PROVE  DeadMeansSilent'
<1> USE DEF TypeOK, DeadManAssumption, DeadMeansSilent
<1>1. CASE Ping
  BY <1>1 DEF Ping
<1>2. CASE Tick
  BY <1>2 DEF Tick, Longest
<1>3. ASSUME NEW m \in Monitors, Check(m) PROVE DeadMeansSilent'
  BY <1>3 DEF Check
<1>4. ASSUME UNCHANGED <<since, alive>> PROVE DeadMeansSilent'
  BY <1>4
<1> QED
  BY <1>1, <1>2, <1>3, <1>4
     DEF Next, MonitorStep, StopMonitor, Hang, StartMonitor, Loop, WaitOver,
         Alert, vars

\* The heartbeat is never older than the places of the monitors allow.
LEMMA AgeKept ==
  ASSUME DeadManAssumption, TypeOK, AgeAtPlace, [Next]_vars PROVE AgeAtPlace'
<1> USE DEF TypeOK, DeadManAssumption, AgeAtPlace
<1>1. CASE Ping
  BY <1>1 DEF Ping, monitorVars
<1>2. CASE StopMonitor
  BY <1>2 DEF StopMonitor
<1>3. CASE Hang
  BY <1>3 DEF Hang, monitorVars
<1>4. CASE Tick
  <2>1. since' <= since + 1 /\ monitor' = monitor /\ checked' = checked
    BY <1>4 DEF Tick, Longest
  <2>2. ASSUME NEW m \in checked, monitor[m] = "waiting"
        PROVE  since' <= Timeout + (Interval - timer'[m])
    <3>1. timer'[m] = timer[m] - 1
      BY <1>4, <2>2 DEF Tick
    <3>2. since <= Timeout + (Interval - timer[m])
      BY <2>2
    <3>3. timer[m] \in 0..Interval /\ since \in Nat /\ since' \in Nat
      BY <1>4 DEF Tick, Longest
    <3> QED
      BY <2>1, <3>1, <3>2, <3>3
  <2>3. \A m \in checked : monitor[m] \in {"over", "waiting"}
    BY <1>4 DEF Tick
  <2> QED
    BY <2>1, <2>2, <2>3
<1>5. ASSUME NEW m \in Monitors, StartMonitor(m) PROVE AgeAtPlace'
  BY <1>5 DEF StartMonitor, Goto
<1>6. ASSUME NEW m \in Monitors, Loop(m) PROVE AgeAtPlace'
  BY <1>6 DEF Loop, Goto
<1>7. ASSUME NEW m \in Monitors, WaitOver(m) PROVE AgeAtPlace'
  BY <1>7 DEF WaitOver, Goto
<1>8. ASSUME NEW m \in Monitors, Check(m) PROVE AgeAtPlace'
  <2>1. CASE alive'
    <3>1. since' <= Timeout
      BY <1>8, <2>1 DEF Check
    <3> QED
      BY <1>8, <2>1, <3>1 DEF Check, Goto
  <2>2. CASE ~alive'
    BY <1>8, <2>2 DEF Check, Goto
  <2> QED
    BY <2>1, <2>2
<1>9. ASSUME NEW m \in Monitors, Alert(m) PROVE AgeAtPlace'
  BY <1>9 DEF Alert, Goto
<1>10. CASE UNCHANGED vars
  BY <1>10 DEF vars, monitorVars
<1> QED
  BY <1>1, <1>2, <1>3, <1>4, <1>5, <1>6, <1>7, <1>8, <1>9, <1>10
     DEF Next, MonitorStep

LEMMA InvKept == ASSUME DeadManAssumption, IInv, [Next]_vars PROVE IInv'
BY TypeKept, SilentKept, AgeKept DEF IInv

-----------------------------------------------------------------------------
\* The types of the variables hold in every state.
THEOREM TypeCorrect == ASSUME DeadManAssumption PROVE Spec => []TypeOK
<1>1. Init => IInv
  BY InvInit
<1>2. IInv /\ [Next]_vars => IInv'
  BY InvKept
<1>3. IInv => TypeOK
  BY DEF IInv
<1> QED
  BY <1>1, <1>2, <1>3, PTL DEF Spec

\* No false alarm: however many monitors there are and however they are started
\* and stopped, the switch is not dead while its last heartbeat is not older
\* than the timeout.
THEOREM NoFalseAlarm ==
  ASSUME DeadManAssumption PROVE Spec => []DeadMeansSilent
<1>1. Init => IInv
  BY InvInit
<1>2. IInv /\ [Next]_vars => IInv'
  BY InvKept
<1>3. IInv => DeadMeansSilent
  BY DEF IInv
<1> QED
  BY <1>1, <1>2, <1>3, PTL DEF Spec

\* No late alarm: a monitor that has found the heartbeat in time waits through no
\* silence longer than the timeout and one interval.
THEOREM NoLateAlarm == ASSUME DeadManAssumption PROVE Spec => []AlarmInTime
<1>1. Init => IInv
  BY InvInit
<1>2. IInv /\ [Next]_vars => IInv'
  BY InvKept
<1>3. IInv => AlarmInTime
  BY DEF IInv, AgeAtPlace, AlarmInTime
<1> QED
  BY <1>1, <1>2, <1>3, PTL DEF Spec
=============================================================================
