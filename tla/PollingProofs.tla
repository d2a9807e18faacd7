---------------------------- MODULE PollingProofs ----------------------------
(***************************************************************************)
(* The time bounds of Polling, proved for any durations that satisfy        *)
(* PollingAssumption.  Both are about what a state still owes: time that    *)
(* has passed and the rest of what the flow is doing add up to a deadline,  *)
(* and as long as time passes the sum does not change.                      *)
(***************************************************************************)
EXTENDS Polling, TLAPS

\* What the flow may still do, after what it does now, without a look at the
\* stop event.
Tail(what) ==
  CASE what = "asking" -> PageMax + BackoffMax
    [] what = "looking" -> BackoffMax
    [] OTHER -> 0

\* The time a stop request has gone unnoticed, and will go unnoticed.
StopBudget ==
  /\ waited > 0 => stopping
  /\ at = "off" => waited = 0
  /\ waited <= StopMax
  /\ at \in Blind => waited + rest + Tail(at) <= StopMax

\* The waiting of a scheduled flow ends at the booking time, and starting the
\* browser is all that comes before its first look.
ScheduledOwes ==
  /\ at \in {"waitHead", "waiting", "napping", "starting", "loopHead", "held"}
  /\ at \in {"waitHead", "waiting", "napping"} => clock + rest <= 0
  /\ at \in {"starting", "loopHead", "held"} => clock >= 0
  /\ at \in {"starting", "loopHead"} => clock + rest <= StartMax

\* What a flow that polls already is at when the booking time comes ends, with
\* the rest that follows it, in time.
PollingOwes ==
  /\ at \in {"starting", "loopHead", "resting", "backingOff"} =>
       clock + rest <= PageMax + RestMax
  /\ at \in {"asking", "looking"} => clock + rest < PageMax

OpeningBudget ==
  /\ at \in {"waitHead", "waiting", "napping"} => scheduled
  /\ at \in Heads \cup {"off"} => rest = 0
  /\ at = "off" => ~due
  /\ due /\ scheduled => ScheduledOwes
  /\ due /\ ~scheduled => PollingOwes

IInv == TypeOK /\ StopBudget /\ OpeningBudget

-----------------------------------------------------------------------------
\* The bounds are numbers, and StopMax is the larger of its two parts.
LEMMA Bounds ==
  ASSUME PollingAssumption
  PROVE
  /\ Early \in Nat /\ BurstBefore \in Nat /\ BurstAfter \in Nat
  /\ Near \in Nat /\ Near > 0 /\ CheckEvery \in Nat /\ CheckEvery > 0
  /\ StartMax \in Nat /\ ApiMax \in Nat /\ PageMax \in Nat
  /\ RestMax \in Nat /\ BurstRest \in Nat /\ BackoffMax \in Nat
  /\ BurstRest > 0 /\ BurstRest <= BackoffMax /\ BackoffMax <= RestMax
  /\ ApiMax <= PageMax /\ StartMax <= PageMax + RestMax
  /\ PageMax + RestMax <= BurstAfter
  /\ StopMax \in Nat
  /\ StopMax >= ApiMax + PageMax + BackoffMax /\ StopMax >= StartMax
PROOF BY DEF PollingAssumption, StopMax

\* Every step keeps the types.
LEMMA TypeKept ==
  ASSUME PollingAssumption, TypeOK, [Next]_vars PROVE TypeOK'
<1> USE Bounds DEF TypeOK
<1>1. CASE Begin
  <2>1. due' \in BOOLEAN
    BY <1>1 DEF Begin
  <2>2. pageLoaded' \in BOOLEAN
    BY <1>1, Zenon DEF Begin
  <2>3. at' \in Blind \cup Heads /\ rest' \in Nat
    BY <1>1 DEF Begin, Do, Blind, Heads
  <2> QED
    BY <1>1, <2>1, <2>2, <2>3, Zenon DEF Begin
<1>2. CASE SeeStop
  BY <1>2 DEF SeeStop, Leave, Do
<1>3. CASE ScheduledWait
  BY <1>3 DEF ScheduledWait, Do, Attentive, Blind
<1>4. CASE Head
  BY <1>4 DEF Head, InBurst, Do, Blind
<1>5. CASE Held
  BY <1>5 DEF Held, Do, Attentive
<1>6. CASE Allowed
  BY <1>6 DEF Allowed, Do, Heads
<1>7. CASE Woken
  BY <1>7 DEF Woken, Do, Heads
<1>8. CASE ApiSaysNo
  BY <1>8 DEF ApiSaysNo, Do, Attentive
<1>9. CASE ApiPasses
  BY <1>9 DEF ApiPasses, Do, Blind
<1>10. CASE Blocked
  <2>1. at' \in Attentive /\ rest' \in Nat
    BY <1>10 DEF Blocked, Do, Attentive
  <2>2. pageLoaded' \in BOOLEAN
    BY <1>10, Zenon DEF Blocked
  <2> QED
    BY <1>10, <2>1, <2>2, Zenon DEF Blocked
<1>11. CASE NoSlot
  BY <1>11 DEF NoSlot, Do, Attentive
<1>12. CASE NoFinder
  BY <1>12 DEF NoFinder, Do, Blind
<1>13. CASE PageFails
  <2>1. at' \in Blind /\ rest' \in Nat
    BY <1>13 DEF PageFails, Do, Blind
  <2>2. pageLoaded' \in BOOLEAN
    BY <1>13, Zenon DEF PageFails
  <2> QED
    BY <1>13, <2>1, <2>2, Zenon DEF PageFails
<1>14. CASE SlotFound
  BY <1>14 DEF SlotFound, Leave, Do
<1>15. CASE RequestStop
  BY <1>15 DEF RequestStop
<1>16. CASE ClearStop
  BY <1>16 DEF ClearStop
<1>17. CASE Tick
  BY <1>17 DEF Tick
<1>18. CASE UNCHANGED vars
  BY <1>18 DEF vars
<1> QED
  BY <1>1, <1>2, <1>3, <1>4, <1>5, <1>6, <1>7, <1>8, <1>9, <1>10, <1>11,
     <1>12, <1>13, <1>14, <1>15, <1>16, <1>17, <1>18 DEF Next

-----------------------------------------------------------------------------
\* Every step keeps the budget of a stop request.
LEMMA StopBudgetKept ==
  ASSUME PollingAssumption, TypeOK, StopBudget, [Next]_vars PROVE StopBudget'
<1> USE Bounds DEF TypeOK, StopBudget, Tail, Blind
<1>1. CASE Begin
  BY <1>1 DEF Begin, Do, Blind, Heads
<1>2. CASE SeeStop
  BY <1>2 DEF SeeStop, Leave, Do, Attentive, Heads
<1>3. CASE ScheduledWait
  BY <1>3 DEF ScheduledWait, Do
<1>4. CASE Head
  BY <1>4 DEF Head, Do
<1>5. CASE Held
  BY <1>5 DEF Held, Do
<1>6. CASE Allowed
  BY <1>6 DEF Allowed, Do
<1>7. CASE Woken
  BY <1>7 DEF Woken, Do
<1>8. CASE ApiSaysNo
  BY <1>8 DEF ApiSaysNo, Do
<1>9. CASE ApiPasses
  BY <1>9 DEF ApiPasses, Do
<1>10. CASE Blocked
  BY <1>10 DEF Blocked, Do
<1>11. CASE NoSlot
  BY <1>11 DEF NoSlot, Do
<1>12. CASE NoFinder
  BY <1>12 DEF NoFinder, Do
<1>13. CASE PageFails
  BY <1>13 DEF PageFails, Do
<1>14. CASE SlotFound
  BY <1>14 DEF SlotFound, Leave, Do
<1>15. CASE RequestStop
  BY <1>15 DEF RequestStop
<1>16. CASE ClearStop
  BY <1>16 DEF ClearStop
<1>17. CASE Tick
  BY <1>17 DEF Tick, Attentive
<1>18. CASE UNCHANGED vars
  BY <1>18 DEF vars
<1> QED
  BY <1>1, <1>2, <1>3, <1>4, <1>5, <1>6, <1>7, <1>8, <1>9, <1>10, <1>11,
     <1>12, <1>13, <1>14, <1>15, <1>16, <1>17, <1>18 DEF Next

\* Every step keeps what the flow owes the booking time.
LEMMA OpeningBudgetKept ==
  ASSUME PollingAssumption, TypeOK, OpeningBudget, [Next]_vars PROVE OpeningBudget'
<1> USE Bounds DEF TypeOK, OpeningBudget, ScheduledOwes, PollingOwes, Heads
<1>1. CASE Begin
  BY <1>1 DEF Begin, Do
<1>2. CASE SeeStop
  BY <1>2 DEF SeeStop, Leave, Do
<1>3. CASE ScheduledWait
  BY <1>3 DEF ScheduledWait, Do
<1>4. CASE Head
  BY <1>4 DEF Head, InBurst, Do
<1>5. CASE Held
  BY <1>5 DEF Held, Do
<1>6. CASE Allowed
  BY <1>6 DEF Allowed, Do
<1>7. CASE Woken
  BY <1>7 DEF Woken, Do
<1>8. CASE ApiSaysNo
  BY <1>8 DEF ApiSaysNo, Do
<1>9. CASE ApiPasses
  BY <1>9 DEF ApiPasses, Do
<1>10. CASE Blocked
  BY <1>10 DEF Blocked, Do
<1>11. CASE NoSlot
  BY <1>11 DEF NoSlot, Do
<1>12. CASE NoFinder
  BY <1>12 DEF NoFinder, Do
<1>13. CASE PageFails
  BY <1>13 DEF PageFails, Do
<1>14. CASE SlotFound
  BY <1>14 DEF SlotFound, Leave, Do
<1>15. CASE RequestStop
  BY <1>15 DEF RequestStop
<1>16. CASE ClearStop
  BY <1>16 DEF ClearStop
<1>17. CASE Tick
  BY <1>17 DEF Tick, Attentive
<1>18. CASE UNCHANGED vars
  BY <1>18 DEF vars
<1> QED
  BY <1>1, <1>2, <1>3, <1>4, <1>5, <1>6, <1>7, <1>8, <1>9, <1>10, <1>11,
     <1>12, <1>13, <1>14, <1>15, <1>16, <1>17, <1>18 DEF Next

-----------------------------------------------------------------------------
\* The first states owe nothing.
LEMMA InvInit ==
  ASSUME PollingAssumption, Init PROVE IInv
<1>1. TypeOK
  <2>1. clock \in Int
    BY Bounds DEF Init
  <2>2. rest \in Nat /\ waited \in Nat
    BY DEF Init
  <2> QED
    BY <2>1, <2>2, Zenon DEF Init, TypeOK
<1>2. StopBudget
  BY Bounds DEF Init, StopBudget, Blind
<1>3. OpeningBudget
  BY DEF Init, OpeningBudget
<1> QED
  BY <1>1, <1>2, <1>3 DEF IInv

\* What is owed is within the bounds that are promised.
LEMMA InvSuffices ==
  ASSUME PollingAssumption, IInv PROVE ReactsInTime
<1> USE Bounds DEF IInv, TypeOK
<1>1. OpeningIsSeen
  BY DEF OpeningIsSeen, OpeningBudget, ScheduledOwes, PollingOwes, Attentive,
         Blind, Heads
<1>2. StopSeenInTime
  BY DEF StopSeenInTime, StopBudget
<1> QED
  BY <1>1, <1>2 DEF ReactsInTime

\* The types of the variables hold in every state.
THEOREM TypeCorrect ==
  ASSUME PollingAssumption PROVE Spec => []TypeOK
<1>1. Init => TypeOK
  BY InvInit DEF IInv
<1>2. TypeOK /\ [Next]_vars => TypeOK'
  BY TypeKept
<1> QED
  BY <1>1, <1>2, PTL DEF Spec

\* Whatever the durations, the page and the breaker: a flow looks at the page in
\* time after the booking opens, and notices a stop request in time.
THEOREM Reacts ==
  ASSUME PollingAssumption PROVE Spec => []ReactsInTime
<1>1. IInv /\ [Next]_vars => IInv'
  BY TypeKept, StopBudgetKept, OpeningBudgetKept DEF IInv
<1>2. Init => IInv
  BY InvInit
<1>3. IInv => ReactsInTime
  BY InvSuffices
<1> QED
  BY <1>1, <1>2, <1>3, PTL DEF Spec
=============================================================================
