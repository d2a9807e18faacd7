------------------------------- MODULE Mailbox -------------------------------
(***************************************************************************)
(* What the Telegram commander promises to the owner who sends it commands: *)
(* a command is read only when all before it have been read, and in one     *)
(* life of the commander none is read twice; a new life may read old ones   *)
(* again, and forgets the last setting of the notifications.  Nobody but    *)
(* the owner changes the setting.                                           *)
(***************************************************************************)
EXTENDS Naturals, Sequences

CONSTANT Commands  \* "mute" and "unmute" are the owner's /notify off and on

VARIABLES
  sent,   \* the commands in the order they were sent
  read,   \* numbers of the commands read in any life
  last,   \* number of the last one read in this life, or 0
  muted   \* notifications are off

vars == <<sent, read, last, muted>>

Init == sent = << >> /\ read = {} /\ last = 0 /\ muted = FALSE

Send ==
  /\ \E c \in Commands : sent' = Append(sent, c)
  /\ UNCHANGED <<read, last, muted>>

Read(u) ==
  /\ u > last
  /\ 1..(u - 1) \subseteq read
  /\ read' = read \cup {u}
  /\ last' = u
  /\ muted' = CASE sent[u] = "mute" -> TRUE
                [] sent[u] = "unmute" -> FALSE
                [] OTHER -> muted
  /\ UNCHANGED sent

NewLife ==
  /\ last' = 0 /\ muted' = FALSE
  /\ UNCHANGED <<sent, read>>

Next == Send \/ NewLife \/ \E u \in DOMAIN sent : Read(u)

Spec == Init /\ [][Next]_vars
=============================================================================
