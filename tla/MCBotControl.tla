---------------------------- MODULE MCBotControl ----------------------------
(* Two or three students and one or two runs of BotControl.                 *)
EXTENDS BotControl

CONSTANTS s1, s2, s3, r1, r2, h1, h2

TwoStudents == {s1, s2}
ThreeStudents == {s1, s2, s3}
OneHandler == {h1}
TwoHandlers == {h1, h2}
TwoRuns == {r1, r2}
JustS1 == {s1}
=============================================================================
