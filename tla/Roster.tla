-------------------------------- MODULE Roster --------------------------------
(***************************************************************************)
(* webapp.py and db.py: the students the dashboard lists and a run books.   *)
(* A listing merges the CSV file, the rows of the database and the sheet    *)
(* (without its cache, which Sheet models); a run replaces the rows of the  *)
(* database by the listing it was started with, and so does the command     *)
(* line.  A client deletes by an id of a listing it has seen.  Rows are told *)
(* apart by name, level and city: what they have under "level", which the    *)
(* rows of a file have not when its column is named exam_level (README.md). *)
(***************************************************************************)
EXTENDS Integers, SequencesExt, Subsequences

CONSTANTS
  Keys,   \* students, by name, level and city; the level may be missing
  Unlevelled, \* for each of them, the same name and city without a level
  Files,  \* CSV files: their students, and the name of the column of levels
  MaxKey, \* bound on the ids of the database
  MaxSize \* bound on the length of a listing that is acted upon

RosterAssumption ==
  /\ Unlevelled \in [Keys -> Keys]
  /\ Files \subseteq [students : Seq(Keys), column : {"level", "exam_level"}]
  /\ {MaxKey, MaxSize} \subseteq Nat

VARIABLES
  loaded,    \* the file that config_path names, or NoFile
  db,        \* table students: sequence of [id, key]
  lastId,    \* its AUTOINCREMENT
  onSheet,   \* sequence of the students on the sheet
  shown,     \* the row of a listing that a client looks at
  starting,  \* the students of a run that has not saved them yet, or NoRun
  added,     \* how often each student was added by POST /students
  saves      \* how often the rows of the database were replaced

ghostVars == <<added, saves>>
vars == <<loaded, db, lastId, onSheet, shown, starting, ghostVars>>

NoFile == [students |-> << >>, column |-> "level"]
NoRun == << >>
NoRow == [id |-> 0, key |-> "none"]

\* The students of a file, as s.get("level", "") tells them apart.
AsRead(file) ==
  IF file.column = "level"
  THEN file.students
  ELSE [i \in DOMAIN file.students |-> Unlevelled[file.students[i]]]

KeysOf(entries) == {entries[i].key : i \in DOMAIN entries}
Unnumbered(keys) == [i \in DOMAIN keys |-> [id |-> 0, key |-> keys[i]]]

\* Mutant: nobody looks whether the others have them.
UnseenOrNot(others) == Unnumbered(onSheet)

\* The sheet's students that are not among the others, each once.
Unseen(others) ==
  LET new == {i \in DOMAIN onSheet :
                /\ onSheet[i] \notin KeysOf(others)
                /\ \A j \in 1..(i - 1) : onSheet[j] # onSheet[i]}
  IN  Unnumbered(Picked(onSheet, new))

\* _get_loaded_students: file, database and sheet; who has no id of the
\* database gets the negative of the position.
Loaded ==
  LET fileAndDb == Unnumbered(AsRead(loaded)) \o db
      all == fileAndDb \o Unseen(fileAndDb)
  IN  [i \in DOMAIN all |->
         [all[i] EXCEPT !.id = IF @ = 0 THEN 0 - i ELSE @]]

\* Whom an entry is about, by its level or exam_level.
Listed(i) ==
  IF i \in DOMAIN loaded.students THEN loaded.students[i] ELSE Loaded[i].key

\* google_sheets.delete_student: the first row of the sheet with the name and
\* the city, and with the level if there is one.
FirstRow(k) ==
  LET match == {j \in DOMAIN onSheet :
                  \/ onSheet[j] = k
                  \/ k = Unlevelled[k] /\ Unlevelled[onSheet[j]] = k}
  IN  {j \in match : \A h \in match : j <= h}

Init ==
  /\ loaded \in Files \cup {NoFile}
  /\ db = << >> /\ lastId = 0
  /\ onSheet = << >>
  /\ shown = NoRow
  /\ starting = NoRun
  /\ added = [k \in Keys |-> 0]
  /\ saves = 0

-----------------------------------------------------------------------------
\* A row of the sheet is added by hand.
AddToSheet(k) ==
  /\ Len(onSheet) < MaxSize
  /\ onSheet' = Append(onSheet, k)
  /\ UNCHANGED <<loaded, db, lastId, shown, starting, ghostVars>>

\* POST /students: a row of the database, and one of the sheet if that works.
AddStudent(k) ==
  /\ lastId < MaxKey /\ Len(db) < MaxSize /\ Len(onSheet) < MaxSize
  /\ db' = Append(db, [id |-> lastId + 1, key |-> k])
  /\ lastId' = lastId + 1
  /\ onSheet' \in {onSheet, Append(onSheet, k)}
  /\ added' = [added EXCEPT ![k] = @ + 1]
  /\ UNCHANGED <<loaded, shown, starting, saves>>

\* POST /config/load and /config/upload: another file, if it is a valid one.
LoadFile ==
  /\ loaded' \in Files
  /\ UNCHANGED <<db, lastId, onSheet, shown, starting, ghostVars>>

\* GET /students, of which a client looks at one row.
ListStudents ==
  /\ \E i \in DOMAIN Loaded : shown' = Loaded[i]
  /\ UNCHANGED <<loaded, db, lastId, onSheet, starting, ghostVars>>

\* DELETE /students/<id>: a row of the database, or the first row of the sheet
\* for whom this negative id, a position, denotes by now.
DeleteStudent(id) ==
  /\ shown # NoRow
  /\ IF id > 0
     THEN /\ db' = Picked(db, {i \in DOMAIN db : db[i].id # id})
          /\ UNCHANGED onSheet
     ELSE /\ \E i \in DOMAIN Loaded :
               /\ Loaded[i].id = id
               /\ onSheet' = Picked(onSheet, DOMAIN onSheet \ FirstRow(Listed(i)))
          /\ UNCHANGED db
  /\ UNCHANGED <<loaded, lastId, shown, starting, ghostVars>>

-----------------------------------------------------------------------------
\* A run is started with the listing, or those of it that have one level under
\* "level", ...
StartRun ==
  /\ starting = NoRun
  /\ \E S \in SUBSET Keys :
       starting' = Picked([i \in DOMAIN Loaded |-> Loaded[i].key],
                          {i \in DOMAIN Loaded : Loaded[i].key \in S})
  /\ starting' # << >> /\ Len(starting') <= MaxSize
  /\ UNCHANGED <<loaded, db, lastId, onSheet, shown, ghostVars>>

\* Mutant: the keys are counted from 1 again after the DELETE.
SaveStudentsReusingIds(keys) ==
  /\ db' = [i \in DOMAIN keys |-> [id |-> i, key |-> keys[i]]]
  /\ lastId' = Len(keys)
  /\ saves' = saves + 1
  /\ UNCHANGED added

\* save_students replaces all rows of the database; it saves the level under
\* "level", if any, and a row that is read back has the key it was saved with.
SaveStudents(keys) ==
  /\ lastId + Len(keys) <= MaxKey
  /\ db' = [i \in DOMAIN keys |-> [id |-> lastId + i, key |-> keys[i]]]
  /\ lastId' = lastId + Len(keys)
  /\ saves' = saves + 1
  /\ UNCHANGED added

\* ... and its thread saves it.
OpenRun ==
  /\ starting # NoRun
  /\ SaveStudents(starting)
  /\ starting' = NoRun
  /\ UNCHANGED <<loaded, onSheet, shown>>

\* The command line, a process of its own, saves the students of its file,
\* whatever the dashboard is doing.
CommandLine ==
  /\ \E f \in Files : SaveStudents(AsRead(f))
  /\ UNCHANGED <<loaded, onSheet, shown, starting>>

Next ==
  \/ LoadFile \/ ListStudents \/ StartRun \/ OpenRun \/ CommandLine
  \/ \E k \in Keys : AddToSheet(k) \/ AddStudent(k)
  \/ DeleteStudent(shown.id)

Spec == Init /\ [][Next]_vars

-----------------------------------------------------------------------------
\* Types of the variables.
TypeOK ==
  /\ loaded \in Files \cup {NoFile}
  /\ db \in Seq([id : 1..MaxKey, key : Keys])
  /\ lastId \in 0..MaxKey
  /\ onSheet \in Seq(Keys)
  /\ shown = NoRow \/ shown \in [id : Int, key : Keys]
  /\ starting \in Seq(Keys)
  /\ added \in [Keys -> Nat]
  /\ saves \in Nat

\* However old the listing, an id of the database in it denotes the student it
\* was shown with, or nobody: runs that replaced the rows in between cannot
\* make a deletion by it hit somebody else.  (A negative id is a position in the
\* listing, and may denote somebody else in the next one.)
StaleIdHarmless ==
  \A j \in DOMAIN db : shown.id = db[j].id => shown.key = db[j].key

\* How often one key is listed, a key being what the merge compares and
\* save_students saves: once, and once more for every time it was added.  Only
\* the keys of a file, which is merged without a look at the rows, are listed
\* once more after every run that saved the listing.
CopiesBounded ==
  \A k \in Keys :
    LET copies == Cardinality({i \in DOMAIN Loaded : Loaded[i].key = k})
        inFile == \E f \in Files : k \in ToSet(AsRead(f))
    IN  copies <= 1 + added[k] + (IF inFile THEN saves ELSE 0)

=============================================================================
