------------------------------- MODULE Polling -------------------------------
(***************************************************************************)
(* How a flow of booking_helper.py spends its time until it finds a slot:   *)
(* scheduled_wait and the poll of step 1.  Time is counted from the booking *)
(* time, in ticks.  Each thing the flow does takes a number of ticks, the   *)
(* rest of which is counted down; some look at the stop event every tick,   *)
(* the others are blind.  What the page shows, how long it takes to load    *)
(* and the circuit breaker are choices.                                     *)
(***************************************************************************)
EXTENDS Integers

CONSTANTS
  Early,       \* the ticks before the booking time that are explored
  BurstBefore, \* BURST_BEFORE_SECONDS
  BurstAfter,  \* BURST_AFTER_SECONDS
  Near,        \* what is left when scheduled_wait begins to nap
  CheckEvery,  \* SCHEDULED_CHECK_INTERVAL
  StartMax,    \* PROXY_ROTATOR.get and create_driver, at most
  ApiMax,      \* the two requests of check_slot_via_api, at most
  PageMax,     \* loading the exam page and looking for its buttons, at most
  RestMax,     \* the longest gap or cooldown
  BurstRest,   \* the longest gap and backoff of the burst
  BackoffMax   \* the longest backoff

\* A page and a rest after it are shorter than the burst, as they are with the
\* values of the code unless the page takes longer than 150 of the 600 seconds.
PollingAssumption ==
  /\ {Early, BurstBefore, BurstAfter, Near, CheckEvery, StartMax, ApiMax,
      PageMax, RestMax, BurstRest, BackoffMax} \subseteq Nat
  /\ Near > 0 /\ CheckEvery > 0 /\ BurstRest > 0
  /\ BurstRest <= BackoffMax /\ BackoffMax <= RestMax
  /\ ApiMax <= PageMax /\ StartMax <= PageMax + RestMax
  /\ PageMax + RestMax <= BurstAfter

VARIABLES
  clock,       \* time since the booking time; it stays at BurstAfter + 1
  at,          \* what the flow does
  rest,        \* the ticks that is still to take
  scheduled,   \* whether the flow has to wait for the booking time
  burst,       \* burst, as of the head of the loop
  pageLoaded,  \* page_loaded
  stopping,    \* stop_event
  waited,      \* the ticks for which a stop request has gone unnoticed
  due          \* the flow owes the booking time its first look at the page

vars == <<clock, at, rest, scheduled, burst, pageLoaded, stopping, waited, due>>

Attentive == {"waiting", "resting", "held"}
Blind == {"napping", "starting", "asking", "looking", "backingOff"}
Heads == {"waitHead", "loopHead"}

\* The longest the flow goes without a look at the stop event.
StopMax ==
  LET work == ApiMax + PageMax + BackoffMax
  IN IF work < StartMax THEN StartMax ELSE work

Init ==
  /\ clock = -Early
  /\ at = "off" /\ rest = 0
  /\ scheduled = FALSE /\ burst = FALSE /\ pageLoaded = FALSE
  /\ stopping = FALSE /\ waited = 0 /\ due = FALSE

Do(what, ticks) == at' = what /\ rest' = ticks

\* The flow is over, or goes on to the wizard.
Leave == Do("off", 0) /\ due' = FALSE /\ waited' = 0

-----------------------------------------------------------------------------
\* run_student_flow is called, now or for the booking time; before the poll loop
\* it asks for a proxy, whose probes take their time, and starts a browser.
Begin ==
  /\ at = "off"
  /\ scheduled' \in BOOLEAN
  /\ IF scheduled'
     THEN Do("waitHead", 0)
     ELSE \E t \in 0..StartMax : Do("starting", t)
  /\ due' = (clock <= 0)
  /\ pageLoaded' = FALSE
  /\ UNCHANGED <<clock, burst, stopping, waited>>

\* Everyone who waits for the stop event, or looks at it, leaves.
SeeStop ==
  /\ stopping
  /\ at \in Attentive \cup Heads
  /\ Leave
  /\ UNCHANGED <<clock, scheduled, burst, pageLoaded, stopping>>

\* The head of scheduled_wait.
ScheduledWait ==
  /\ at = "waitHead" /\ ~stopping
  /\ CASE clock >= 0 -> \E t \in 0..StartMax : Do("starting", t)
       [] clock < 0 /\ -clock <= Near -> Do("napping", 1)
       [] OTHER ->
            LET half == (-clock) \div 2
            IN Do("waiting", IF half < CheckEvery THEN half ELSE CheckEvery)
  /\ UNCHANGED <<clock, scheduled, burst, pageLoaded, stopping, waited, due>>

InBurst == -BurstBefore <= clock /\ clock <= BurstAfter

\* The head of the loop: the API is asked first outside the burst.
Head ==
  /\ at = "loopHead" /\ ~stopping
  /\ burst' = InBurst
  /\ IF ~burst' /\ ~pageLoaded
     THEN (\E t \in 0..ApiMax : Do("asking", t)) /\ UNCHANGED due
     ELSE (\E t \in 0..PageMax : Do("looking", t)) /\ due' = (due /\ clock < 0)
  /\ UNCHANGED <<clock, scheduled, pageLoaded, stopping, waited>>

\* The breaker of all flows refuses, and wait_until_allowed waits.
Held ==
  /\ at = "loopHead" /\ ~stopping
  /\ Do("held", 0)
  /\ UNCHANGED <<clock, scheduled, burst, pageLoaded, stopping, waited, due>>

Allowed ==
  /\ at = "held" /\ ~stopping
  /\ Do("loopHead", 0)
  /\ due' = (due /\ clock <= 0)
  /\ UNCHANGED <<clock, scheduled, burst, pageLoaded, stopping, waited>>

\* Something that takes time is over, and the loop begins again.
Woken ==
  /\ rest = 0
  /\ \/ at \in {"waiting", "napping"} /\ Do("waitHead", 0)
     \/ at \in {"starting", "resting", "backingOff"} /\ Do("loopHead", 0)
  /\ UNCHANGED <<clock, scheduled, burst, pageLoaded, stopping, waited, due>>

\* check_slot_via_api says that there is no slot.
ApiSaysNo ==
  /\ at = "asking" /\ rest = 0
  /\ \E t \in 1..RestMax : Do("resting", t)
  /\ UNCHANGED <<clock, scheduled, burst, pageLoaded, stopping, waited, due>>

\* It finds one, or fails.
ApiPasses ==
  /\ at = "asking" /\ rest = 0
  /\ \E t \in 0..PageMax : Do("looking", t)
  /\ due' = (due /\ clock < 0)
  /\ UNCHANGED <<clock, scheduled, burst, pageLoaded, stopping, waited>>

\* Mutant: the cooldown does not look at the stop event.
BlockedBlind ==
  /\ at = "looking" /\ rest = 0 /\ ~burst
  /\ \E t \in 1..RestMax : Do("backingOff", t)
  /\ pageLoaded' = FALSE
  /\ UNCHANGED <<clock, scheduled, burst, stopping, waited, due>>

\* A page that blocks the bot is noticed outside the burst.
Blocked ==
  /\ at = "looking" /\ rest = 0 /\ ~burst
  /\ \E t \in 1..RestMax : Do("resting", t)
  /\ pageLoaded' = FALSE
  /\ UNCHANGED <<clock, scheduled, burst, stopping, waited, due>>

\* No button: the gap depends on the burst and on the time of day.
NoSlot ==
  /\ at = "looking" /\ rest = 0
  /\ \E t \in 1..(IF burst THEN BurstRest ELSE RestMax) : Do("resting", t)
  /\ pageLoaded' = TRUE
  /\ UNCHANGED <<clock, scheduled, burst, stopping, waited, due>>

\* In the burst a page without the finder is tried again.
NoFinder ==
  /\ at = "looking" /\ rest = 0 /\ burst
  /\ \E t \in 1..BurstRest : Do("backingOff", t)
  /\ pageLoaded' = TRUE
  /\ UNCHANGED <<clock, scheduled, burst, stopping, waited, due>>

\* Selenium raises.
PageFails ==
  /\ at = "looking" /\ rest = 0
  /\ \E t \in 1..(IF burst THEN BurstRest ELSE BackoffMax) :
       Do("backingOff", t)
  /\ pageLoaded' = FALSE
  /\ UNCHANGED <<clock, scheduled, burst, stopping, waited, due>>

\* The slot is clicked.
SlotFound ==
  /\ at = "looking" /\ rest = 0
  /\ Leave
  /\ pageLoaded' = TRUE
  /\ UNCHANGED <<clock, scheduled, burst, stopping>>

-----------------------------------------------------------------------------
RequestStop ==
  /\ stopping' = TRUE
  /\ UNCHANGED <<clock, at, rest, scheduled, burst, pageLoaded, waited, due>>

\* A run that begins clears the event, noticed or not.
ClearStop ==
  /\ stopping' = FALSE /\ waited' = 0
  /\ UNCHANGED <<clock, at, rest, scheduled, burst, pageLoaded, due>>

\* Time passes while the flow has something that takes time to do.
Tick ==
  /\ \/ at = "off"
     \/ at \in Attentive \cup Blind /\ rest > 0
     \/ at = "held"
  /\ ~(stopping /\ at \in Attentive)
  /\ clock' = IF clock <= BurstAfter THEN clock + 1 ELSE clock
  /\ rest' = IF rest > 0 THEN rest - 1 ELSE 0
  /\ waited' = IF stopping /\ at # "off" /\ waited <= StopMax
               THEN waited + 1 ELSE waited
  /\ UNCHANGED <<at, scheduled, burst, pageLoaded, stopping, due>>

Next ==
  \/ Begin \/ SeeStop \/ ScheduledWait \/ Head \/ Held \/ Allowed \/ Woken
  \/ ApiSaysNo \/ ApiPasses
  \/ Blocked \/ NoSlot \/ NoFinder \/ PageFails \/ SlotFound
  \/ RequestStop \/ ClearStop \/ Tick

Spec == Init /\ [][Next]_vars

-----------------------------------------------------------------------------
\* Types of the variables.
TypeOK ==
  /\ clock \in Int
  /\ at \in {"off"} \cup Attentive \cup Blind \cup Heads
  /\ rest \in Nat
  /\ scheduled \in BOOLEAN /\ burst \in BOOLEAN /\ pageLoaded \in BOOLEAN
  /\ stopping \in BOOLEAN /\ due \in BOOLEAN
  /\ waited \in Nat

\* The first look at the page after the booking time: a flow that waited for that
\* time begins it as soon as its browser is up, and one that polled before at the
\* latest after the page and the gap it was in.  The breaker excuses a flow that
\* it has held across the booking time.
OpeningIsSeen ==
  due /\ at \notin {"off", "held"} =>
    clock <= IF scheduled THEN StartMax ELSE PageMax + RestMax

\* A stop request is noticed before the flow has asked the API, loaded a page and
\* backed off once, or has got its browser up.
StopSeenInTime == waited <= StopMax

\* What happens while the flow is asleep or busy, the opening of the booking or a
\* stop request, is answered in bounded time, whatever it was doing and whatever
\* the pages did.
ReactsInTime == OpeningIsSeen /\ StopSeenInTime
=============================================================================
