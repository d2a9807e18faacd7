-------------------------- MODULE TelegramPollProofs --------------------------
(***************************************************************************)
(* The poll of the Telegram commander implements Mailbox, proved for any    *)
(* number of commands.  The offset and the batch together account for every *)
(* command: it was handled, it is being handled, it is in the batch, or     *)
(* Telegram still holds it and will be asked for it.                        *)
(***************************************************************************)
EXTENDS TelegramPoll, TLAPS

\* What Telegram has forgotten was handled.
ForgottenHandled == \A u \in DOMAIN sent : u \in kept \/ u \in handled

\* What the offset has passed was handled, or is being handled.
PassedHandled ==
  \A u \in DOMAIN sent : u < offset => u \in handled \/ u = handling

\* The batch has no gaps but for commands handled before.
BatchWhole ==
  \A u \in DOMAIN sent : \A v \in batch :
    offset <= u /\ u < v => u \in batch \/ u \in handled

\* The offset is past what this life has handled, and the batch is not.
OffsetBetween ==
  /\ newest < offset \/ newest = 0
  /\ handling # 0 => offset = handling + 1 /\ newest < handling
  /\ \A v \in batch : offset <= v
  /\ poll # "handling" => batch = {} /\ handling = 0

IInv ==
  /\ TypeOK
  /\ ForgottenHandled /\ PassedHandled /\ BatchWhole /\ OffsetBetween

-----------------------------------------------------------------------------
\* A command that is sent comes after all others.
LEMMA SendGrows ==
  ASSUME TelegramAssumption, TypeOK, Send
  PROVE  /\ sent' \in Seq(Commands) /\ Len(sent') <= MaxUpdate
         /\ DOMAIN sent = 1..Len(sent)
         /\ DOMAIN sent' = 1..(Len(sent) + 1)
         /\ Len(sent) \in Nat /\ Len(sent') = Len(sent) + 1
         /\ kept' = kept \cup {Len(sent) + 1}
<1>1. PICK c \in Commands : sent' = Append(sent, c)
  BY DEF Send
<1>2. Len(sent) \in Nat /\ DOMAIN sent = 1..Len(sent)
  BY DEF TypeOK
<1>3. /\ sent' \in Seq(Commands) /\ Len(sent') = Len(sent) + 1
      /\ DOMAIN sent' = 1..(Len(sent) + 1)
  BY <1>1, <1>2 DEF TypeOK
<1> QED
  BY <1>2, <1>3 DEF Send, TelegramAssumption

\* The types of the variables are kept by every step.
LEMMA TypeKept ==
  ASSUME TelegramAssumption, TypeOK, [Next]_vars PROVE TypeOK'
<1> USE DEF TypeOK
<1>1. CASE Send
  BY <1>1, SendGrows DEF Send
<1>2. CASE StartPolling
  BY <1>2 DEF StartPolling
<1>3. CASE StopPolling
  BY <1>3 DEF StopPolling
<1>4. CASE Fetch
  BY <1>4 DEF Fetch
<1>5. CASE FetchFails
  BY <1>5 DEF FetchFails
<1>6. CASE Take
  BY <1>6 DEF Take
<1>7. CASE Handle
  BY <1>7 DEF Handle
<1>8. CASE Pause
  BY <1>8 DEF Pause
<1>9. CASE RestartPolling
  <2>1. poll' \in {"off"} /\ offset' \in 0..(Len(sent) + 1)
    BY <1>9 DEF RestartPolling
  <2>2. pollStop' \in BOOLEAN /\ notifying' \in BOOLEAN
    BY <1>9, Zenon DEF RestartPolling
  <2> QED
    BY <1>9, <2>1, <2>2, Zenon DEF RestartPolling
<1>10. CASE UNCHANGED vars
  BY <1>10 DEF vars
<1> QED
  BY <1>1, <1>2, <1>3, <1>4, <1>5, <1>6, <1>7, <1>8, <1>9, <1>10 DEF Next

-----------------------------------------------------------------------------
\* Where the offset is between what was handled and what is in the batch.
LEMMA OffsetKept ==
  ASSUME TelegramAssumption, TypeOK, OffsetBetween, [Next]_vars
  PROVE  OffsetBetween'
<1> USE DEF TypeOK, OffsetBetween
<1>1. CASE Send
  BY <1>1 DEF Send
<1>2. CASE StartPolling
  BY <1>2 DEF StartPolling
<1>3. CASE StopPolling
  BY <1>3 DEF StopPolling
<1>4. CASE Fetch
  BY <1>4 DEF Fetch
<1>5. CASE FetchFails
  BY <1>5 DEF FetchFails
<1>6. CASE Take
  BY <1>6 DEF Take
<1>7. CASE Handle
  BY <1>7 DEF Handle
<1>8. CASE Pause
  BY <1>8 DEF Pause
<1>9. CASE RestartPolling
  BY <1>9 DEF RestartPolling
<1>10. CASE UNCHANGED vars
  BY <1>10 DEF vars
<1> QED
  BY <1>1, <1>2, <1>3, <1>4, <1>5, <1>6, <1>7, <1>8, <1>9, <1>10 DEF Next

\* No command gets lost between Telegram, the batch and the handler.
LEMMA AccountKept ==
  ASSUME TelegramAssumption, IInv, [Next]_vars
  PROVE  ForgottenHandled' /\ PassedHandled' /\ BatchWhole'
<1> USE DEF IInv, TypeOK, OffsetBetween, ForgottenHandled, PassedHandled,
            BatchWhole
<1>1. CASE Send
  BY <1>1, SendGrows DEF Send
<1>2. CASE StartPolling
  BY <1>2 DEF StartPolling
<1>3. CASE StopPolling
  BY <1>3 DEF StopPolling
<1>4. CASE Fetch
  BY <1>4 DEF Fetch
<1>5. CASE FetchFails
  BY <1>5 DEF FetchFails
<1>6. CASE Take
  BY <1>6 DEF Take
<1>7. CASE Handle
  BY <1>7 DEF Handle
<1>8. CASE Pause
  BY <1>8 DEF Pause
<1>9. CASE RestartPolling
  BY <1>9 DEF RestartPolling
<1>10. CASE UNCHANGED vars
  BY <1>10 DEF vars
<1> QED
  BY <1>1, <1>2, <1>3, <1>4, <1>5, <1>6, <1>7, <1>8, <1>9, <1>10 DEF Next

-----------------------------------------------------------------------------
\* The invariant holds at the beginning, and every step keeps it.
LEMMA InvInit == ASSUME TelegramAssumption, Init PROVE IInv
<1>1. TypeOK
  <2>1. sent \in Seq(Commands) /\ Len(sent) <= MaxUpdate
    BY DEF Init, TelegramAssumption
  <2>2. DOMAIN sent = {} /\ offset \in 0..(Len(sent) + 1)
    BY DEF Init
  <2>3. pollStop \in BOOLEAN /\ notifying \in BOOLEAN
    BY Zenon DEF Init
  <2> QED
    BY <2>1, <2>2, <2>3, Zenon DEF Init, TypeOK
<1> QED
  BY <1>1 DEF Init, IInv, OffsetBetween, ForgottenHandled, PassedHandled,
              BatchWhole

LEMMA InvKept == ASSUME TelegramAssumption, IInv, [Next]_vars PROVE IInv'
BY TypeKept, OffsetKept, AccountKept DEF IInv

\* The types of the variables hold in every state.
THEOREM TypeCorrect ==
  ASSUME TelegramAssumption PROVE Spec => []TypeOK
<1>1. Init => IInv
  BY InvInit
<1>2. IInv /\ [Next]_vars => IInv'
  BY InvKept
<1>3. IInv => TypeOK
  BY DEF IInv
<1> QED
  BY <1>1, <1>2, <1>3, PTL DEF Spec

\* Handling a command is reading it: all before it were read, and none after it
\* in this life.
LEMMA HandleReads ==
  ASSUME IInv, Handle PROVE \E u \in DOMAIN sent : Box!Read(u)
<1> DEFINE u == handling
<1>1. u \in DOMAIN sent /\ u > newest /\ 1..(u - 1) \subseteq handled
  BY DEF Handle, IInv, TypeOK, OffsetBetween, PassedHandled
<1>2. /\ handled' = handled \cup {u} /\ newest' = u /\ UNCHANGED sent
      /\ notifying' = (\/ sent[u] = "unmute"
                       \/ notifying /\ sent[u] # "mute")
  BY DEF Handle
<1>3. (~notifying)' = CASE sent[u] = "mute" -> TRUE
                        [] sent[u] = "unmute" -> FALSE
                        [] OTHER -> ~notifying
  BY <1>2
<1> QED
  BY <1>1, <1>2, <1>3 DEF Box!Read

\* The poll of the commander keeps the promise of the mailbox, for any number of
\* commands, lost requests, stops and deaths of the process.
THEOREM ImplementsMailbox ==
  ASSUME TelegramAssumption PROVE Spec => MailboxSpec
<1>1. Init => Box!Init
  BY DEF Init, Box!Init
<1>2. IInv /\ [Next]_vars => [Box!Next]_Box!vars
  <2> SUFFICES ASSUME IInv, [Next]_vars PROVE [Box!Next]_Box!vars
    OBVIOUS
  <2>1. CASE Send
    BY <2>1 DEF Send, Box!Send, Box!Next
  <2>2. CASE Handle
    BY <2>2, HandleReads DEF Box!Next
  <2>3. CASE RestartPolling
    BY <2>3 DEF RestartPolling, Box!NewLife, Box!Next
  <2>4. CASE StartPolling \/ StopPolling \/ Fetch \/ FetchFails \/ Take
               \/ Pause \/ UNCHANGED vars
    BY <2>4 DEF StartPolling, StopPolling, Fetch, FetchFails, Take, Pause,
                vars, Box!vars
  <2> QED
    BY <2>1, <2>2, <2>3, <2>4 DEF Next
<1>3. Init => IInv
  BY InvInit
<1>4. IInv /\ [Next]_vars => IInv'
  BY InvKept
<1> QED
  BY <1>1, <1>2, <1>3, <1>4, PTL DEF Spec, MailboxSpec, Box!Spec
=============================================================================
