---------------------------------- MODULE Gui ----------------------------------
(***************************************************************************)
(* gui.py: the desktop front end.  The window's thread handles the buttons; *)
(* a bot thread starts one flow per student, waits for all of them, writes  *)
(* the outcome on the cards and posts the end of the run to the window.     *)
(***************************************************************************)

CONSTANT Cards  \* the students of the loaded file, one card each

VARIABLES
  running,   \* self.running
  guiStop,   \* stop_event
  botThread, \* where the bot thread is
  flow,      \* where the flow of each card is
  posted,    \* _on_bot_finished is posted to the window
  card,      \* what each card shows
  torn       \* the bot thread died over cards that were rebuilt under it

vars == <<running, guiStop, botThread, flow, posted, card, torn>>

Show(text) == card' = [c \in Cards |-> text]

Init ==
  /\ running = FALSE /\ guiStop = FALSE
  /\ botThread = "none"
  /\ flow = [c \in Cards |-> "none"]
  /\ posted = FALSE
  /\ card = [c \in Cards |-> "waiting"]
  /\ torn = FALSE

-----------------------------------------------------------------------------
\* The buttons.
StartBot ==
  /\ ~running
  /\ running' = TRUE /\ guiStop' = FALSE
  /\ botThread' = "spawning"
  /\ Show("waiting")
  /\ UNCHANGED <<flow, posted, torn>>

StopBot ==
  /\ running
  /\ guiStop' = TRUE
  /\ UNCHANGED <<running, botThread, flow, posted, card, torn>>

\* Browse and Reload destroy the cards and make new ones, also during a run; a
\* bot thread that is writing on the old ones dies of it.
RebuildCards ==
  /\ Show("waiting")
  /\ IF botThread = "writing"
     THEN torn' = TRUE /\ botThread' = "none"
     ELSE UNCHANGED <<torn, botThread>>
  /\ UNCHANGED <<running, guiStop, flow, posted>>

-----------------------------------------------------------------------------
Spawn ==
  /\ botThread = "spawning"
  /\ flow' = [c \in Cards |-> "booking"]
  /\ botThread' = "joining"
  /\ UNCHANGED <<running, guiStop, posted, card, torn>>

\* run_student_flow returns, having booked, given up or seen the stop event, or
\* raises; only a result is posted to the card.
FlowEnds(c) ==
  /\ flow[c] = "booking"
  /\ flow' = [flow EXCEPT ![c] = "none"]
  /\ \/ UNCHANGED card
     \/ \E text \in {"booked", "failed"} : card' = [card EXCEPT ![c] = text]
     \/ guiStop /\ card' = [card EXCEPT ![c] = "stopped"]
  /\ UNCHANGED <<running, guiStop, botThread, posted, torn>>

\* Mutant: the flows are not waited for.
JoinNobody ==
  /\ botThread = "joining"
  /\ botThread' = "writing"
  /\ UNCHANGED <<running, guiStop, flow, posted, card, torn>>

Join ==
  /\ botThread = "joining"
  /\ \A c \in Cards : flow[c] = "none"
  /\ botThread' = "writing"
  /\ UNCHANGED <<running, guiStop, flow, posted, card, torn>>

\* All cards get one text, and the window is told that the run is over.
WriteOutcome ==
  /\ botThread = "writing"
  /\ Show(IF guiStop THEN "stopped" ELSE "complete")
  /\ posted' = TRUE
  /\ botThread' = "none"
  /\ UNCHANGED <<running, guiStop, flow, torn>>

OnBotFinished ==
  /\ posted
  /\ posted' = FALSE
  /\ running' = FALSE
  /\ UNCHANGED <<guiStop, botThread, flow, card, torn>>

RunStep == Spawn \/ Join \/ WriteOutcome \/ OnBotFinished

Next ==
  \/ StartBot \/ StopBot \/ RebuildCards \/ RunStep
  \/ \E c \in Cards : FlowEnds(c)

Spec == Init /\ [][Next]_vars

-----------------------------------------------------------------------------
Texts == {"waiting", "booked", "failed", "stopped", "complete"}

\* Types of the variables.
TypeOK ==
  /\ running \in BOOLEAN /\ guiStop \in BOOLEAN
  /\ botThread \in {"none", "spawning", "joining", "writing"}
  /\ flow \in [Cards -> {"none", "booking"}]
  /\ posted \in BOOLEAN
  /\ card \in [Cards -> Texts]
  /\ torn \in BOOLEAN

\* While the window is idle no thread of a run is left, neither a flow nor the
\* bot thread, so that two runs never overlap.
IdleMeansDone ==
  ~running => botThread = "none" /\ \A c \in Cards : flow[c] = "none"
=============================================================================
