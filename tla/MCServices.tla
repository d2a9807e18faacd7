------------------------------ MODULE MCServices ------------------------------
(* The services with two of everything: threads, students, names, rows.  The *)
(* timeout of the dead man switch is two and a half intervals, as its 300    *)
(* and 120 seconds.  The file has one student, and its column of levels is   *)
(* named exam_level: k1 is the student, k2 the same without a level.         *)
EXTENDS Services, TLC

CONSTANTS k1, k2

TwoKeys == {k1, k2}
OneInFile == {[students |-> <<k1>>, column |-> "exam_level"]}
WithoutLevel == [k \in TwoKeys |-> k2]

\* Thresholds and cooldowns of the breaker in the order that the defaults of
\* circuit_breaker.py have them (5/900, 10/300, 10/900), scaled down.
BreakerThreshold == [block |-> 2, timeout |-> 4, generic |-> 4]
BreakerCooldown == [block |-> 3, timeout |-> 1, generic |-> 3]

\* Clients of the queue and callers of the sheet and the schedule are alike.
Symmetry == Permutations(Clients) \cup Permutations(Callers)
=============================================================================
