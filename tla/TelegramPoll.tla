----------------------------- MODULE TelegramPoll -----------------------------
(***************************************************************************)
(* telegram_commander.py: one thread asks Telegram for the updates from     *)
(* _offset on and handles them one after another.  Telegram keeps an update *)
(* until it is asked for a later one.  The offset is not stored: a new      *)
(* process starts at 0.  What a command does to the bot is in BotControl;    *)
(* here /notify changes whether send tells the owner anything.              *)
(***************************************************************************)
EXTENDS Naturals, Sequences

CONSTANT MaxUpdate  \* bound on the number of commands sent

TelegramAssumption == MaxUpdate \in Nat

\* What is sent to the bot's chat: /notify off, /notify on, any other command or
\* file of the owner, or something from a chat that is not the owner's.
Commands == {"mute", "unmute", "other", "foreign"}

VARIABLES
  sent,     \* the updates sent, in order; they are numbered from 1
  kept,     \* updates that Telegram still holds
  offset,   \* _offset
  batch,    \* updates of the last answer that are not handled yet
  handling, \* the update being handled, or 0
  handled,  \* updates handled in any life of the process
  newest,   \* the last update handled in this life
  poll,     \* where the thread is; "off" when there is none
  pollStop, \* _stop
  notifying \* _notify_enabled

vars == <<sent, kept, offset, batch, handling, handled, newest, poll, pollStop,
          notifying>>

Init ==
  /\ sent = << >> /\ kept = {}
  /\ offset = 0 /\ batch = {} /\ handling = 0
  /\ handled = {} /\ newest = 0
  /\ poll = "off" /\ pollStop = FALSE
  /\ notifying = TRUE

-----------------------------------------------------------------------------
Send ==
  /\ Len(sent) < MaxUpdate
  /\ \E c \in Commands : sent' = Append(sent, c)
  /\ kept' = kept \cup {Len(sent')}
  /\ UNCHANGED <<offset, batch, handling, handled, newest, poll, pollStop,
                 notifying>>

\* start, which does nothing while the old thread lives.
StartPolling ==
  /\ poll = "off"
  /\ pollStop' = FALSE
  /\ poll' = "fetching"
  /\ UNCHANGED <<sent, kept, offset, batch, handling, handled, newest,
                 notifying>>

StopPolling ==
  /\ poll # "off"
  /\ pollStop' = TRUE
  /\ UNCHANGED <<sent, kept, offset, batch, handling, handled, newest, poll,
                 notifying>>

-----------------------------------------------------------------------------
\* Mutant: the request asks for the updates after the offset.
FetchOffByOne ==
  /\ poll = "fetching"
  /\ kept' = {u \in kept : u >= offset + 1}
  /\ batch' = kept'
  /\ poll' = "handling"
  /\ UNCHANGED <<sent, offset, handling, handled, newest, pollStop,
                 notifying>>

\* _get_updates; Telegram forgets the updates before the offset.
Fetch ==
  /\ poll = "fetching"
  /\ kept' = {u \in kept : u >= offset}
  /\ batch' = kept'
  /\ poll' = "handling"
  /\ UNCHANGED <<sent, offset, handling, handled, newest, pollStop,
                 notifying>>

\* The request, or only its answer, is lost: no updates.
FetchFails ==
  /\ poll = "fetching"
  /\ kept' \in {kept, {u \in kept : u >= offset}}
  /\ poll' = "handling"
  /\ UNCHANGED <<sent, offset, batch, handling, handled, newest, pollStop,
                 notifying>>

\* The offset passes the update before it is handled.
Take ==
  /\ poll = "handling" /\ handling = 0
  /\ \E u \in batch :
       /\ \A v \in batch : u <= v
       /\ handling' = u
       /\ offset' = u + 1
       /\ batch' = batch \ {u}
  /\ UNCHANGED <<sent, kept, handled, newest, poll, pollStop,
                 notifying>>

\* _handle_update ignores other chats, and catches what a handler raises.
Handle ==
  /\ poll = "handling" /\ handling # 0
  /\ handled' = handled \cup {handling}
  /\ newest' = handling
  /\ handling' = 0
  /\ notifying' =
       \/ sent[newest'] = "unmute"
       \/ notifying /\ sent[newest'] # "mute"
  /\ UNCHANGED <<sent, kept, offset, batch, poll, pollStop>>

\* The pause after a batch, and the head of the loop.
Pause ==
  /\ poll = "handling" /\ handling = 0 /\ batch = {}
  /\ poll' = IF pollStop THEN "off" ELSE "fetching"
  /\ UNCHANGED <<sent, kept, offset, batch, handling, handled, newest,
                 pollStop, notifying>>

\* The process dies and another one is started, without its commander yet.
RestartPolling ==
  /\ offset' = 0 /\ batch' = {} /\ handling' = 0 /\ newest' = 0
  /\ poll' = "off" /\ pollStop' = FALSE /\ notifying' = TRUE
  /\ UNCHANGED <<sent, kept, handled>>

Next ==
  \/ Send \/ StartPolling \/ StopPolling
  \/ Fetch \/ FetchFails \/ Take \/ Handle \/ Pause \/ RestartPolling

Spec == Init /\ [][Next]_vars

-----------------------------------------------------------------------------
\* Types of the variables.
TypeOK ==
  /\ sent \in Seq(Commands) /\ Len(sent) <= MaxUpdate
  /\ kept \subseteq DOMAIN sent /\ batch \subseteq DOMAIN sent
  /\ handled \subseteq DOMAIN sent
  /\ offset \in 0..(Len(sent) + 1)
  /\ handling \in {0} \cup DOMAIN sent /\ newest \in {0} \cup DOMAIN sent
  /\ poll \in {"off", "fetching", "handling"}
  /\ pollStop \in BOOLEAN /\ notifying \in BOOLEAN

\* By whatever lost requests and answers, stops in the middle of a batch, second
\* starts and deaths of the process, the poll keeps the promise of the mailbox: no
\* command is skipped, and within one process none is handled twice or out of order.
Box ==
  INSTANCE Mailbox WITH
    read <- handled, last <- newest, muted <- ~notifying

MailboxSpec == Box!Spec
=============================================================================
