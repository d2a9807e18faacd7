----------------------------- MODULE ScheduleCache -----------------------------
(***************************************************************************)
(* goethe_scraper.py: the cached exam schedule.  A caller that finds no     *)
(* fresh cache starts a refresh in the background and makes do with what    *)
(* there is; a forced caller refreshes on its own.  A refresh reads the     *)
(* site level by level, and a level may come back empty.                    *)
(***************************************************************************)

CONSTANTS
  Levels,     \* the exam levels that are scraped
  Callers,    \* request threads of get_schedule
  Refreshers  \* background threads (a bound)

VARIABLES
  schedule,   \* the levels in _last_cache["data"]; {} is None
  fresh,      \* its age is below CACHE_TTL
  inProgress, \* _scraping_in_progress
  caller,     \* where each caller is
  refresher,  \* where each background thread is
  todo,       \* levels that each refresh, of either kind, has still to read
  found       \* levels it has got entries for

refreshVars == <<todo, found>>
vars == <<schedule, fresh, inProgress, caller, refresher, refreshVars>>

Threads == Callers \cup Refreshers

Init ==
  /\ schedule = {} /\ fresh = FALSE /\ inProgress = FALSE
  /\ caller = [c \in Callers |-> "idle"]
  /\ refresher = [r \in Refreshers |-> "off"]
  /\ todo = [t \in Threads |-> {}]
  /\ found = [t \in Threads |-> {}]

Goto(c, l) == caller' = [caller EXCEPT ![c] = l]

-----------------------------------------------------------------------------
\* get_schedule returns a fresh cache; without one ...
Get(c) ==
  /\ caller[c] = "idle"
  /\ schedule = {} \/ ~fresh
  /\ Goto(c, "looking")
  /\ UNCHANGED <<schedule, fresh, inProgress, refresher, refreshVars>>

\* ... it looks at the flag, and returns what there is when it is set.
LookAtFlag(c) ==
  /\ caller[c] = "looking"
  /\ IF inProgress THEN Goto(c, "idle") ELSE Goto(c, "claiming")
  /\ UNCHANGED <<schedule, fresh, inProgress, refresher, refreshVars>>

\* The flag is set without another look at it, ...
Claim(c) ==
  /\ caller[c] = "claiming"
  /\ inProgress' = TRUE
  /\ Goto(c, "starting")
  /\ UNCHANGED <<schedule, fresh, refresher, refreshVars>>

\* ... and the thread is started.
StartRefresh(c) ==
  /\ caller[c] = "starting"
  /\ \E r \in Refreshers :
       /\ refresher[r] = "off"
       /\ refresher' = [refresher EXCEPT ![r] = "reading"]
       /\ todo' = [todo EXCEPT ![r] = Levels]
  /\ Goto(c, "idle")
  /\ UNCHANGED <<schedule, fresh, inProgress, found>>

\* get_schedule(force_refresh=True).
Force(c) ==
  /\ caller[c] = "idle"
  /\ Goto(c, "reading")
  /\ todo' = [todo EXCEPT ![c] = Levels]
  /\ UNCHANGED <<schedule, fresh, inProgress, refresher, found>>

-----------------------------------------------------------------------------
Reading(t) == IF t \in Callers THEN caller[t] = "reading"
                               ELSE refresher[t] = "reading"

\* The entries made of the answers for a level: none when no answer came, or
\* none with a start date.
Entries(l) == {{}, {l}}

\* One level: _scrape_level may raise or come back empty, for good in a forced
\* refresh only after a second try.
ScrapeLevel(t) ==
  /\ Reading(t)
  /\ \E l \in todo[t] :
       /\ todo' = [todo EXCEPT ![t] = @ \ {l}]
       /\ \E e \in Entries(l) : found' = [found EXCEPT ![t] = @ \cup e]
  /\ UNCHANGED <<schedule, fresh, inProgress, caller, refresher>>

\* The cache is replaced unless nothing was found.
Store(t) ==
  /\ Reading(t) /\ todo[t] = {}
  /\ found' = [found EXCEPT ![t] = {}]
  /\ IF found[t] # {} THEN schedule' = found[t] /\ fresh' = TRUE
                      ELSE UNCHANGED <<schedule, fresh>>

ForcedEnds(c) ==
  /\ Store(c)
  /\ Goto(c, "idle")
  /\ UNCHANGED <<inProgress, refresher, todo>>

\* Mutant: the flag is cleared only after a refresh that found something.
RefreshEndsOnSuccess(r) ==
  /\ Store(r)
  /\ inProgress' = (inProgress /\ found[r] = {})
  /\ refresher' = [refresher EXCEPT ![r] = "off"]
  /\ UNCHANGED <<caller, todo>>

\* The end of _refresh_in_background, with its finally.
RefreshEnds(r) ==
  /\ Store(r)
  /\ inProgress' = FALSE
  /\ refresher' = [refresher EXCEPT ![r] = "off"]
  /\ UNCHANGED <<caller, todo>>

\* CACHE_TTL passes.
Expire ==
  /\ fresh
  /\ fresh' = FALSE
  /\ UNCHANGED <<schedule, inProgress, caller, refresher, refreshVars>>

CallerStep(c) == LookAtFlag(c) \/ Claim(c) \/ StartRefresh(c) \/ ForcedEnds(c)

Next ==
  \/ Expire
  \/ \E c \in Callers : Get(c) \/ Force(c) \/ CallerStep(c)
  \/ \E r \in Refreshers : RefreshEnds(r)
  \/ \E t \in Threads : ScrapeLevel(t)

Spec == Init /\ [][Next]_vars

-----------------------------------------------------------------------------
\* Types of the variables.
TypeOK ==
  /\ schedule \in SUBSET Levels
  /\ fresh \in BOOLEAN /\ inProgress \in BOOLEAN
  /\ caller \in [Callers -> {"idle", "looking", "claiming", "starting",
                          "reading"}]
  /\ refresher \in [Refreshers -> {"off", "reading"}]
  /\ todo \in [Threads -> SUBSET Levels]
  /\ found \in [Threads -> SUBSET Levels]

\* The flag cannot be left set without a refresh that will clear it, or no
\* other refresh would ever begin: two callers that both find it clear, and a
\* refresh that fails, included.
FlagHasRefresh ==
  inProgress => \/ \E c \in Callers : caller[c] = "starting"
                \/ \E r \in Refreshers : refresher[r] = "reading"
=============================================================================
