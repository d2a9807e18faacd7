--------------------------------- MODULE Sheet ---------------------------------
(***************************************************************************)
(* google_sheets.py: the Google sheet of students, read through a cache of  *)
(* SHEET_CACHE_TTL seconds and written to by row number.  The request       *)
(* threads call it at the same time, and the owner edits the sheet by hand. *)
(*                                                                          *)
(* Time is counted in ticks.  Of the cached rows only their age is kept:    *)
(* the time since they were the content of the sheet.                       *)
(***************************************************************************)
EXTENDS Naturals, SequencesExt

CONSTANTS
  Callers,  \* threads that read, delete, append or fill
  Names,    \* names of students
  MaxRows,  \* bound on the length of the sheet
  TTL,      \* SHEET_CACHE_TTL
  Latency   \* the longest an answer is under way

SheetAssumption ==
  /\ Names # {}
  /\ {MaxRows, TTL, Latency} \subseteq Nat

VARIABLES
  sheet,     \* the rows, by name
  cacheAge,  \* age of _sheet_cache["data"], or NoData
  cacheTs,   \* age of _sheet_cache["ts"]
  call,      \* where each caller is
  asked,     \* age of the "now" of its load
  answer,    \* age of the rows it has read
  target,    \* the name a writer looks for
  row,       \* the row number it found
  disturbed  \* the rows have moved since

loadVars == <<asked, answer>>
writeVars == <<target, row, disturbed>>
vars == <<sheet, cacheAge, cacheTs, call, loadVars, writeVars>>

Oldest == TTL + Latency + 1
NoData == Oldest + 1
Anyone == CHOOSE n \in Names : TRUE

Init ==
  /\ sheet = << >>
  /\ cacheAge = NoData /\ cacheTs = Oldest
  /\ call = [c \in Callers |-> "idle"]
  /\ asked = [c \in Callers |-> 0]
  /\ answer = [c \in Callers |-> 0]
  /\ target = [c \in Callers |-> Anyone]
  /\ row = [c \in Callers |-> 0]
  /\ disturbed = [c \in Callers |-> FALSE]

Goto(c, l) == call' = [call EXCEPT ![c] = l]

\* A caller is done, and what it knew is forgotten.
Forget(c) ==
  /\ asked' = [asked EXCEPT ![c] = 0]
  /\ answer' = [answer EXCEPT ![c] = 0]
ForgetRow(c) ==
  /\ target' = [target EXCEPT ![c] = Anyone]
  /\ row' = [row EXCEPT ![c] = 0]

\* The rows move under every other writer that has found its row.
Writing(c) == call[c] \in {"deleting", "filling"}
Disturb(by) == disturbed' = [c \in Callers |-> Writing(c) /\ c \notin by]

-----------------------------------------------------------------------------
(* load_sheet_data.                                                         *)

\* Mutant: the last second of the cache counts.
LoadHitLate(c) ==
  /\ call[c] = "idle"
  /\ cacheAge # NoData /\ cacheTs <= TTL
  /\ Goto(c, "returning")
  /\ UNCHANGED <<sheet, cacheAge, cacheTs, loadVars, writeVars>>

LoadHit(c) ==
  /\ call[c] = "idle"
  /\ cacheAge # NoData /\ cacheTs < TTL
  /\ Goto(c, "returning")
  /\ UNCHANGED <<sheet, cacheAge, cacheTs, loadVars, writeVars>>

\* The cache is read once more to be returned; it may have been busted, and
\* None makes the caller go without the sheet.
ReturnCached(c) ==
  /\ call[c] = "returning"
  /\ Goto(c, "idle")
  /\ UNCHANGED <<sheet, cacheAge, cacheTs, loadVars, writeVars>>

LoadMiss(c) ==
  /\ call[c] = "idle"
  /\ cacheAge = NoData \/ cacheTs >= TTL
  /\ Goto(c, "asking")
  /\ UNCHANGED <<sheet, cacheAge, cacheTs, loadVars, writeVars>>

\* Google answers, after retries or not; an error, or a sheet without rows, is
\* returned as no students and not cached.
Answered(c) ==
  /\ call[c] = "asking"
  /\ \/ Goto(c, "idle") /\ Forget(c)
     \/ sheet # << >> /\ Goto(c, "answered") /\ UNCHANGED <<asked, answer>>
  /\ UNCHANGED <<sheet, cacheAge, cacheTs, writeVars>>

StoreData(c) ==
  /\ call[c] = "answered"
  /\ cacheAge' = answer[c]
  /\ Goto(c, "stamping")
  /\ UNCHANGED <<sheet, cacheTs, loadVars, writeVars>>

\* The time stamp is that of before the request.
StoreTs(c) ==
  /\ call[c] = "stamping"
  /\ cacheTs' = asked[c]
  /\ Goto(c, "idle") /\ Forget(c)
  /\ UNCHANGED <<sheet, cacheAge, writeVars>>

-----------------------------------------------------------------------------
(* The writers.                                                             *)

Rows(n) == {i \in DOMAIN sheet : sheet[i] = n}

\* Mutant: the numbers are counted from the header on.
FindFromHeader(c, n, next) ==
  /\ call[c] = "idle"
  /\ \E i \in Rows(n) :
       /\ \A j \in Rows(n) : i <= j
       /\ row' = [row EXCEPT ![c] = IF i = 1 THEN 1 ELSE i - 1]
  /\ target' = [target EXCEPT ![c] = n]
  /\ Goto(c, next)
  /\ UNCHANGED <<sheet, cacheAge, cacheTs, loadVars, disturbed>>

\* A writer reads the rows, past the cache, and keeps the number of the first
\* one of the student; with none it gives up.
Find(c, n, next) ==
  /\ call[c] = "idle"
  /\ \E i \in Rows(n) :
       /\ \A j \in Rows(n) : i <= j
       /\ row' = [row EXCEPT ![c] = i]
  /\ target' = [target EXCEPT ![c] = n]
  /\ Goto(c, next)
  /\ UNCHANGED <<sheet, cacheAge, cacheTs, loadVars, disturbed>>

\* delete_student.
DeleteRow(c) ==
  /\ call[c] = "deleting"
  /\ IF row[c] \in DOMAIN sheet
     THEN /\ sheet' = RemoveAt(sheet, row[c])
          /\ Disturb({c})
          /\ Goto(c, "busting")
     ELSE /\ disturbed' = [disturbed EXCEPT ![c] = FALSE]
          /\ Goto(c, "idle") /\ UNCHANGED sheet
  /\ ForgetRow(c)
  /\ UNCHANGED <<cacheAge, cacheTs, loadVars>>

BustData(c) ==
  /\ call[c] = "busting"
  /\ cacheAge' = NoData
  /\ Goto(c, "bustingTs")
  /\ UNCHANGED <<sheet, cacheTs, loadVars, writeVars>>

BustTs(c) ==
  /\ call[c] = "bustingTs"
  /\ cacheTs' = Oldest
  /\ Goto(c, "idle")
  /\ UNCHANGED <<sheet, cacheAge, loadVars, writeVars>>

\* auto_fill_booking_datetimes writes a date to the row it read a student from.
FillRow(c) ==
  /\ call[c] = "filling"
  /\ disturbed' = [disturbed EXCEPT ![c] = FALSE]
  /\ ForgetRow(c)
  /\ Goto(c, "idle")
  /\ UNCHANGED <<sheet, cacheAge, cacheTs, loadVars>>

\* append_student, which leaves the cache as it is.
AppendStudent(c, n) ==
  /\ call[c] = "idle"
  /\ Len(sheet) < MaxRows
  /\ sheet' = Append(sheet, n)
  /\ UNCHANGED <<cacheAge, cacheTs, call, loadVars, writeVars>>

\* The owner deletes or inserts a row.
EditByHand ==
  /\ \/ \E i \in DOMAIN sheet : sheet' = RemoveAt(sheet, i)
     \/ /\ Len(sheet) < MaxRows
        /\ \E i \in 1..(Len(sheet) + 1), n \in Names :
             sheet' = InsertAt(sheet, i, n)
  /\ Disturb({})
  /\ UNCHANGED <<cacheAge, cacheTs, call, loadVars, target, row>>

-----------------------------------------------------------------------------
Older(a) == IF a < Oldest THEN a + 1 ELSE a

\* What a thread does without the network takes no time, and an answer is not
\* under way for longer than Latency.
SheetTick ==
  /\ \A c \in Callers :
       /\ call[c] \notin {"returning", "stamping", "bustingTs"}
       /\ call[c] = "answered" => answer[c] < Latency
  /\ cacheAge' = IF cacheAge = NoData THEN NoData ELSE Older(cacheAge)
  /\ cacheTs' = Older(cacheTs)
  /\ asked' = [c \in Callers |->
                 IF call[c] \in {"asking", "answered"} THEN Older(asked[c])
                                                       ELSE asked[c]]
  /\ answer' = [c \in Callers |->
                  IF call[c] = "answered" THEN answer[c] + 1 ELSE answer[c]]
  /\ UNCHANGED <<sheet, call, writeVars>>

Next ==
  \/ EditByHand \/ SheetTick
  \/ \E c \in Callers :
       \/ LoadHit(c) \/ ReturnCached(c) \/ LoadMiss(c) \/ Answered(c)
       \/ StoreData(c) \/ StoreTs(c)
       \/ DeleteRow(c) \/ BustData(c) \/ BustTs(c) \/ FillRow(c)
       \/ \E n \in Names : \/ Find(c, n, "deleting") \/ Find(c, n, "filling")
                           \/ AppendStudent(c, n)

Spec == Init /\ [][Next]_vars

-----------------------------------------------------------------------------
\* Types of the variables.
TypeOK ==
  /\ sheet \in Seq(Names)
  /\ cacheAge \in 0..NoData /\ cacheTs \in 0..Oldest
  /\ call \in [Callers -> {"idle", "returning", "asking", "answered",
                           "stamping", "deleting", "filling", "busting",
                           "bustingTs"}]
  /\ asked \in [Callers -> 0..Oldest] /\ answer \in [Callers -> 0..Latency]
  /\ target \in [Callers -> Names] /\ row \in [Callers -> 0..MaxRows]
  /\ disturbed \in [Callers -> BOOLEAN]

\* No load returns rows older than the cache's time to live and the time of an
\* answer, though data and time stamp are stored one after the other by several
\* threads and one thread's stamp can end up with another one's data.
ServedFresh ==
  [][\A c \in Callers :
       /\ call[c] = "returning" /\ call'[c] = "idle"
       /\ cacheAge # NoData
       => cacheAge < TTL + Latency]_vars

\* A row is deleted or filled only for the student it belongs to, unless the
\* rows have moved since its number was read.
WritesHitTheirRow ==
  [][\A c \in Callers :
       Writing(c) /\ call'[c] # call[c]
         /\ row[c] \in DOMAIN sheet
       => sheet[row[c]] = target[c] \/ disturbed[c]]_vars
=============================================================================
