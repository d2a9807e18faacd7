----------------------------- MODULE LoginSession -----------------------------
(***************************************************************************)
(* booking_helper.py: how a browser gets into Goethe's site.  Each student  *)
(* has an account and a browser profile that outlives the browser; one row  *)
(* of the database keeps the cookies of whoever logged in last, and every   *)
(* login tries them before the student's own credentials.                   *)
(***************************************************************************)
EXTENDS Naturals

CONSTANTS
  Students, \* students, each with an account, a profile and one browser
  Uploads   \* accounts whose cookies the operator may store

LoginSessionAssumption == Uploads \subseteq Students

VARIABLES
  cookies,   \* whose session the row goethe_cookies holds
  profile,   \* whose session each student's browser profile holds
  injected,  \* whose cookies the login has read from the row
  loginAt,   \* where each browser is
  tries,     \* failed attempts of the current login
  live       \* accounts whose session the site honours

vars == <<cookies, profile, injected, loginAt, tries, live>>

NoCookies == "none"
Nobody == "nobody"  \* a browser that has cookies but is not logged in
Sessions == Students \cup {Nobody}

Init ==
  /\ cookies = NoCookies
  /\ profile = [s \in Students |-> Nobody]
  /\ injected = [s \in Students |-> NoCookies]
  /\ loginAt = [s \in Students |-> "idle"]
  /\ tries = [s \in Students |-> 0]
  /\ live = {}

Goto(s, l) == loginAt' = [loginAt EXCEPT ![s] = l]

\* _save_session_cookies, which may fail silently.
SaveCookies(s) == cookies' \in {cookies, profile[s]}

-----------------------------------------------------------------------------
\* The flow has left the exam page.  When that did not lead to the login page,
\* because of a live session or because none was asked for, the cookies are
\* saved and the flow is in.
ArriveInside(s) ==
  /\ loginAt[s] = "idle"
  /\ SaveCookies(s)
  /\ Goto(s, "inside")
  /\ UNCHANGED <<profile, injected, tries, live>>

ArriveAtLogin(s) ==
  /\ loginAt[s] = "idle"
  /\ profile[s] \notin live
  /\ Goto(s, "cookies")
  /\ UNCHANGED <<cookies, profile, injected, tries, live>>

\* POST /form/scan: the request reads the row for the scanner, ...
ScanForm(s) ==
  /\ loginAt[s] = "idle"
  /\ injected' = [injected EXCEPT ![s] = cookies]
  /\ Goto(s, "scanning")
  /\ UNCHANGED <<cookies, profile, tries, live>>

\* ... which reads it once more when it was empty, and, when these cookies do
\* not open the site, logs in like a flow.
ScanInjects(s) ==
  LET c == IF injected[s] = NoCookies THEN cookies ELSE injected[s] IN
  /\ loginAt[s] = "scanning"
  /\ profile' = IF c = NoCookies THEN profile ELSE [profile EXCEPT ![s] = c]
  /\ Goto(s, IF c \in live THEN "inside" ELSE "cookies")
  /\ injected' = [injected EXCEPT ![s] = NoCookies]
  /\ UNCHANGED <<cookies, tries, live>>

\* A wizard step of a running flow finds itself on the login page.
SessionLost(s) ==
  /\ loginAt[s] \in {"inside", "outside"}
  /\ profile[s] \notin live
  /\ Goto(s, "cookies")
  /\ UNCHANGED <<cookies, profile, injected, tries, live>>

-----------------------------------------------------------------------------
\* _load_saved_cookies reads the row ...
ReadCookies(s) ==
  /\ loginAt[s] = "cookies"
  /\ injected' = [injected EXCEPT ![s] = cookies]
  /\ Goto(s, IF cookies = NoCookies THEN "trying" ELSE "injecting")
  /\ UNCHANGED <<cookies, profile, tries, live>>

\* ... and puts what it read into the browser.
InjectCookies(s) ==
  /\ loginAt[s] = "injecting"
  /\ profile' = [profile EXCEPT ![s] = injected[s]]
  /\ Goto(s, IF injected[s] \in live THEN "inside" ELSE "trying")
  /\ injected' = [injected EXCEPT ![s] = NoCookies]
  /\ UNCHANGED <<cookies, tries, live>>

\* _login_attempt with the student's own credentials.
LoginAccepted(s) ==
  /\ loginAt[s] = "trying"
  /\ profile' = [profile EXCEPT ![s] = s]
  /\ live' = live \cup {s}
  /\ Goto(s, "saving")
  /\ tries' = [tries EXCEPT ![s] = 0]
  /\ UNCHANGED <<cookies, injected>>

\* Mutant: the count starts over instead of ending the login.
LoginRefusedForever(s) ==
  /\ loginAt[s] = "trying"
  /\ tries' = [tries EXCEPT ![s] = (@ + 1) % 3]
  /\ UNCHANGED <<cookies, profile, injected, loginAt, live>>

\* Mutant: one attempt too many.
LoginRefusedOnceMore(s) ==
  /\ loginAt[s] = "trying"
  /\ IF tries[s] < 3
     THEN tries' = [tries EXCEPT ![s] = @ + 1] /\ UNCHANGED loginAt
     ELSE tries' = [tries EXCEPT ![s] = 0] /\ Goto(s, "outside")
  /\ UNCHANGED <<cookies, profile, injected, live>>

\* Three attempts, after which the flow goes on as it is.
LoginRefused(s) ==
  /\ loginAt[s] = "trying"
  /\ IF tries[s] < 2
     THEN tries' = [tries EXCEPT ![s] = @ + 1] /\ UNCHANGED loginAt
     ELSE tries' = [tries EXCEPT ![s] = 0] /\ Goto(s, "outside")
  /\ UNCHANGED <<cookies, profile, injected, live>>

SaveLogin(s) ==
  /\ loginAt[s] = "saving"
  /\ SaveCookies(s)
  /\ Goto(s, "inside")
  /\ UNCHANGED <<profile, injected, tries, live>>

\* The flow is over and its browser is closed.
Quit(s) ==
  /\ loginAt[s] \in {"inside", "outside"}
  /\ Goto(s, "idle")
  /\ UNCHANGED <<cookies, profile, injected, tries, live>>

-----------------------------------------------------------------------------
\* /goethe-cookies: the operator stores cookies of some account, or none.
OperatorSetsCookies ==
  /\ cookies' \in Uploads \cup {NoCookies}
  /\ live' = live \cup ({cookies'} \ {NoCookies})
  /\ UNCHANGED <<profile, injected, loginAt, tries>>

\* The site ends a session.
SessionExpires ==
  /\ \E a \in live : live' = live \ {a}
  /\ UNCHANGED <<cookies, profile, injected, loginAt, tries>>

LoginStep(s) ==
  \/ ScanInjects(s) \/ ReadCookies(s) \/ InjectCookies(s)
  \/ LoginAccepted(s) \/ LoginRefused(s) \/ SaveLogin(s)

Next ==
  \/ OperatorSetsCookies \/ SessionExpires
  \/ \E s \in Students :
       \/ ArriveInside(s) \/ ArriveAtLogin(s) \/ ScanForm(s) \/ SessionLost(s)
       \/ LoginStep(s) \/ Quit(s)

Spec == Init /\ [][Next]_vars

-----------------------------------------------------------------------------
\* Types of the variables.
TypeOK ==
  /\ cookies \in Sessions \cup {NoCookies}
  /\ profile \in [Students -> Sessions]
  /\ injected \in [Students -> Sessions \cup {NoCookies}]
  /\ loginAt \in [Students -> {"idle", "scanning", "cookies", "injecting",
                               "trying", "saving", "inside", "outside"}]
  /\ tries \in [Students -> 0..2]
  /\ live \in SUBSET Students

\* Every login comes to an end, in or out, though the cookies it reads may be
\* replaced and the sessions ended at any moment.
Settled(s) == loginAt[s] \in {"idle", "inside", "outside"}
LoginSettles == \A s \in Students : ~Settled(s) ~> Settled(s)

-----------------------------------------------------------------------------
\* README.md:153 - the flow logs in with the student's own email and password:
\* whoever is in is in as himself, or as nobody.
AccountIsOwn ==
  \A s \in Students :
    loginAt[s] = "inside" => profile[s] \in {s, Nobody}
=============================================================================
