------------------------------- MODULE DeadMan -------------------------------
(***************************************************************************)
(* deadman.py: the heartbeat clock and its monitor threads.  A run of the   *)
(* bot starts a monitor and stops the monitors when it ends; all monitors   *)
(* share one stop event.  The only caller of ping is the /heartbeat         *)
(* endpoint, which whoever watches the service polls.                       *)
(*                                                                          *)
(* Time is counted in ticks, and a thread that has something to do does it  *)
(* within the tick.                                                         *)
(***************************************************************************)
EXTENDS Naturals

CONSTANTS
  Monitors,   \* monitor threads, one per run of the bot (a bound)
  Timeout,    \* _timeout_secs
  Interval    \* interval of start_monitor

DeadManAssumption ==
  /\ Timeout \in Nat
  /\ Interval \in Nat \ {0}

VARIABLES
  since,      \* ticks since _last_heartbeat, counted to the longest useful one
  alive,      \* _alive
  stopped,    \* _stop_event
  monitor,    \* where each monitor thread is
  timer,      \* what is left of its wait
  checked,    \* monitors that have found the heartbeat in time at least once
  hung,       \* the booking threads make no more progress
  alerts      \* whether an alert was sent since the hang, or ever without one

monitorVars == <<monitor, timer, checked>>
vars == <<since, alive, stopped, monitorVars, hung, alerts>>

Longest == Timeout + Interval + 1

Init ==
  /\ since = 0
  /\ alive = TRUE
  /\ stopped = FALSE
  /\ monitor = [m \in Monitors |-> "off"]
  /\ timer = [m \in Monitors |-> 0]
  /\ checked = {}
  /\ hung = FALSE
  /\ alerts = FALSE

Goto(m, l) == monitor' = [monitor EXCEPT ![m] = l]

-----------------------------------------------------------------------------
\* Mutant: a heartbeat does not revive the switch.
PingWhileDead ==
  /\ since' = 0
  /\ UNCHANGED <<alive, stopped, monitorVars, hung, alerts>>

Ping ==
  /\ since' = 0
  /\ alive' = TRUE
  /\ UNCHANGED <<stopped, monitorVars, hung, alerts>>

\* A run of the bot begins.
StartMonitor(m) ==
  /\ monitor[m] = "off"
  /\ stopped' = FALSE
  /\ Goto(m, "looping")
  /\ UNCHANGED <<since, alive, timer, checked, hung, alerts>>

\* A run ends: setting the event wakes every monitor that waits for it, for
\* good, whether or not it is cleared again at once.
StopMonitor ==
  /\ stopped' = TRUE
  /\ monitor' = [m \in Monitors |->
                   IF monitor[m] = "waiting" THEN "over" ELSE monitor[m]]
  /\ UNCHANGED <<since, alive, timer, checked, hung, alerts>>

\* The head of _loop.
Loop(m) ==
  /\ monitor[m] = "looping"
  /\ IF stopped
     THEN Goto(m, "over") /\ UNCHANGED timer
     ELSE Goto(m, "waiting") /\ timer' = [timer EXCEPT ![m] = Interval]
  /\ UNCHANGED <<since, alive, stopped, checked, hung, alerts>>

WaitOver(m) ==
  /\ monitor[m] = "waiting"
  /\ timer[m] = 0
  /\ Goto(m, "checking")
  /\ UNCHANGED <<since, alive, stopped, timer, checked, hung, alerts>>

\* Mutant: one tick of grace.
CheckLate(m) ==
  /\ monitor[m] = "checking"
  /\ alive' = (alive /\ since <= Timeout + 1)
  /\ IF alive'
     THEN Goto(m, "looping") /\ checked' = checked \cup {m}
     ELSE Goto(m, "alerting") /\ UNCHANGED checked
  /\ UNCHANGED <<since, stopped, timer, hung, alerts>>

\* Mutant: a check counts as a heartbeat.
CheckPings(m) ==
  /\ monitor[m] = "checking"
  /\ alive' = (alive /\ since <= Timeout)
  /\ since' = 0
  /\ IF alive'
     THEN Goto(m, "looping") /\ checked' = checked \cup {m}
     ELSE Goto(m, "alerting") /\ UNCHANGED checked
  /\ UNCHANGED <<stopped, timer, hung, alerts>>

\* check, which is also False for a switch that was found dead before.
Check(m) ==
  /\ monitor[m] = "checking"
  /\ alive' = (alive /\ since <= Timeout)
  /\ IF alive'
     THEN Goto(m, "looping") /\ checked' = checked \cup {m}
     ELSE Goto(m, "alerting") /\ UNCHANGED checked
  /\ UNCHANGED <<since, stopped, timer, hung, alerts>>

\* on_death, after which the loop is left.
Alert(m) ==
  /\ monitor[m] = "alerting"
  /\ alerts' = TRUE
  /\ Goto(m, "over")
  /\ UNCHANGED <<since, alive, stopped, timer, checked, hung>>

-----------------------------------------------------------------------------
\* The booking threads hang; the other threads of the process go on.
Hang ==
  /\ ~hung
  /\ hung' = TRUE
  /\ alerts' = FALSE
  /\ UNCHANGED <<since, alive, stopped, monitorVars>>

Tick ==
  /\ \A m \in Monitors : \/ monitor[m] \in {"off", "over"}
                         \/ monitor[m] = "waiting" /\ timer[m] > 0
  /\ since' = IF since < Longest THEN since + 1 ELSE since
  /\ timer' = [m \in Monitors |->
                 IF monitor[m] = "waiting" THEN timer[m] - 1 ELSE timer[m]]
  /\ UNCHANGED <<alive, stopped, monitor, checked, hung, alerts>>

MonitorStep(m) == Loop(m) \/ WaitOver(m) \/ Check(m) \/ Alert(m)

Next ==
  \/ Ping \/ StopMonitor \/ Hang \/ Tick
  \/ \E m \in Monitors : StartMonitor(m) \/ MonitorStep(m)

Spec == Init /\ [][Next]_vars

FairSpec == Spec /\ WF_vars(Tick) /\ \A m \in Monitors : WF_vars(MonitorStep(m))

-----------------------------------------------------------------------------
\* Types of the variables.
TypeOK ==
  /\ since \in 0..Longest
  /\ alive \in BOOLEAN
  /\ stopped \in BOOLEAN
  /\ monitor \in [Monitors -> {"off", "looping", "waiting", "checking",
                               "alerting", "over"}]
  /\ timer \in [Monitors -> 0..Interval]
  /\ checked \in SUBSET Monitors
  /\ hung \in BOOLEAN
  /\ alerts \in BOOLEAN

\* The switch is never taken for dead, by whatever monitor, while its last
\* heartbeat is not older than the timeout (ping and check under one lock).
DeadMeansSilent == ~alive => since > Timeout

\* Once a monitor has found the heartbeat in time, a silence cannot get older
\* than the timeout and one interval before that monitor raises the alarm.
AlarmInTime ==
  \A m \in checked :
    monitor[m] = "waiting" => since <= Timeout + (Interval - timer[m])

\* When nobody pings any more, a monitor that waits goes on to raise the alarm
\* unless its run ends.
SilenceIsReported ==
  \A m \in Monitors :
    <>[][~Ping]_vars
      => (monitor[m] = "waiting" ~> monitor[m] = "alerting" \/ stopped)

-----------------------------------------------------------------------------
(* What the documentation says and the code does not do.                    *)

\* docs/BCP.md:15 - when booking hangs while a monitor is on, it is reported.
HangIsReported ==
  (hung /\ \E m \in Monitors : monitor[m] = "waiting") ~> (alerts \/ stopped)
=============================================================================
