------------------------------ MODULE Dashboard ------------------------------
(***************************************************************************)
(* Signing in to the dashboard (webapp.py) and the sessions table (db.py).  *)
(* Every request runs in a thread of its own.  _check_rate_limit filters,   *)
(* stores, tests and extends the list of an address without a lock; each    *)
(* statement on the sessions is atomic.  A request takes no time, compared  *)
(* with the window, the lockout and the life of a session.                  *)
(***************************************************************************)
EXTENDS Naturals, Sequences, FiniteSets, Subsequences

CONSTANTS
  Callers,          \* request threads
  Addresses,        \* client addresses
  RateLimit,        \* RATE_LIMIT
  RateWindow,       \* RATE_WINDOW
  LockoutThreshold, \* ACCOUNT_LOCKOUT_THRESHOLD
  Lockout,          \* ACCOUNT_LOCKOUT_DURATION
  SessionLife,      \* expiry_hours
  MaxToken,         \* bound on the number of sessions
  LastMoment        \* bound on the time

DashboardAssumption ==
  /\ {LockoutThreshold, Lockout, SessionLife, MaxToken, LastMoment} \subseteq Nat
  /\ RateLimit \in Nat /\ RateWindow \in Nat \ {0}
  /\ "none" \notin Addresses

VARIABLES
  time,           \* the clock
  attempts,       \* _login_attempts
  globalFailures, \* _global_failures, counted no further than LockoutThreshold
  lockedUntil,    \* _global_lockout_until
  sessions,       \* the tokens in the sessions table
  expires,        \* for every token ever given out, when it expires
  request,        \* each thread's request
  admitted,       \* the times in the window at which each address was let in
  mistakes,       \* the times of the wrong passwords since the last ban began
  endedTokens     \* tokens that were signed out or exchanged

ghostVars == <<admitted, mistakes, endedTokens>>
vars == <<time, attempts, globalFailures, lockedUntil, sessions, expires,
          request, ghostVars>>

Tokens == DOMAIN expires
RawPassword == 0  \* a token that is always good
NoRequest == [at |-> "idle", from |-> "none", token |-> RawPassword,
              recent |-> << >>, answer |-> "none"]

Init ==
  /\ time = 0
  /\ attempts = [a \in Addresses |-> << >>] /\ admitted = attempts
  /\ globalFailures = 0 /\ lockedUntil = 0 /\ mistakes = << >>
  /\ sessions = {} /\ expires = << >> /\ endedTokens = {}
  /\ request = [c \in Callers |-> NoRequest]

\* The times that are in the window, or will be when it is now.
InWindow(times, now) ==
  Picked(times, {i \in DOMAIN times : now < times[i] + RateWindow})
Recent(times) == InWindow(times, time)
Live == {t \in sessions : expires[t] >= time}

Goto(c, where) == request' = [request EXCEPT ![c].at = where]

\* The request is over; a refusal and whom it was for are kept.
Answered(c) == request' = [request EXCEPT ![c] = NoRequest]
Refused(c) ==
  request' = [request EXCEPT ![c] = [NoRequest EXCEPT !.answer = "refused",
                                       !.from = request[c].from]]

\* A bound on the sessions that are and will be created.
CanCreate ==
  Cardinality(Tokens)
    + Cardinality({c \in Callers : request[c].at \in {"creating", "exchanging"}})
    < MaxToken

-----------------------------------------------------------------------------
\* api_login up to the new list of _check_rate_limit.
Login(c) ==
  /\ request[c].at = "idle"
  /\ \E a \in Addresses :
       request' = [request EXCEPT ![c] =
                     IF time < lockedUntil
                     THEN [NoRequest EXCEPT !.from = a, !.answer = "locked"]
                     ELSE [NoRequest EXCEPT !.from = a, !.at = "storing",
                                            !.recent = Recent(attempts[a])]]
  /\ UNCHANGED <<time, attempts, globalFailures, lockedUntil, sessions, expires,
                 ghostVars>>

StoreRecent(c) ==
  /\ request[c].at = "storing"
  /\ attempts' = [attempts EXCEPT ![request[c].from] = request[c].recent]
  /\ Goto(c, "testing")
  /\ UNCHANGED <<time, globalFailures, lockedUntil, sessions, expires, ghostVars>>

\* Mutant: a refused attempt counts, too.
TestLimitAfter(c) ==
  LET a == request[c].from
  IN /\ request[c].at = "testing"
     /\ IF Len(attempts[a]) >= RateLimit
        THEN /\ Refused(c)
             /\ attempts' = [attempts EXCEPT ![a] = Append(@, time)]
        ELSE Goto(c, "recording") /\ UNCHANGED attempts
     /\ UNCHANGED <<time, globalFailures, lockedUntil, sessions, expires,
                    ghostVars>>

TestLimit(c) ==
  /\ request[c].at = "testing"
  /\ IF Len(attempts[request[c].from]) >= RateLimit
     THEN Refused(c)
     ELSE Goto(c, "recording")
  /\ UNCHANGED <<time, attempts, globalFailures, lockedUntil, sessions, expires,
                 ghostVars>>

RecordAttempt(c) ==
  LET a == request[c].from
  IN /\ request[c].at = "recording"
     /\ attempts' = [attempts EXCEPT ![a] = Append(@, time)]
     /\ admitted' = [admitted EXCEPT ![a] = Append(@, time)]
     /\ Goto(c, "checking")
     /\ UNCHANGED <<time, globalFailures, lockedUntil, sessions, expires, mistakes,
                    endedTokens>>

WrongPassword(c) ==
  /\ request[c].at = "checking"
  /\ globalFailures' = IF globalFailures < LockoutThreshold
                       THEN globalFailures + 1
                       ELSE globalFailures
  /\ IF globalFailures' >= LockoutThreshold
     THEN lockedUntil' = time + Lockout /\ mistakes' = <<time>>
     ELSE mistakes' = Append(mistakes, time) /\ UNCHANGED lockedUntil
  /\ Answered(c)
  /\ UNCHANGED <<time, attempts, sessions, expires, admitted, endedTokens>>

RightPassword(c) ==
  /\ request[c].at = "checking" /\ CanCreate
  /\ globalFailures' = 0
  /\ Goto(c, "creating")
  /\ UNCHANGED <<time, attempts, lockedUntil, sessions, expires, ghostVars>>

-----------------------------------------------------------------------------
\* create_session, which also forgets the sessions that have expired.
CreateSession(c) ==
  /\ request[c].at = "creating"
  /\ LET t == Cardinality(Tokens) + 1
     IN /\ expires' = Append(expires, time + SessionLife)
        /\ sessions' = Live \cup {t}
  /\ Answered(c)
  /\ UNCHANGED <<time, attempts, globalFailures, lockedUntil, ghostVars>>

\* A request with a token that may go on: require_auth and validate_session.
Authorize(c) ==
  /\ request[c].at = "idle"
  /\ sessions' = Live
  /\ \E t \in Live \cup {RawPassword}, next \in {"signing out", "exchanging"} :
       /\ next = "exchanging" => CanCreate
       /\ request' = [request EXCEPT ![c] =
                        [NoRequest EXCEPT !.token = t, !.at = next]]
  /\ UNCHANGED <<time, attempts, globalFailures, lockedUntil, expires, ghostVars>>

\* A request with a token that is not good any more.
TurnAway(c) ==
  /\ request[c].at = "idle"
  /\ sessions' = Live
  /\ \E t \in Tokens \ Live :
       request' = [request EXCEPT ![c] =
                     [NoRequest EXCEPT !.token = t, !.answer = "unauthorized"]]
  /\ UNCHANGED <<time, attempts, globalFailures, lockedUntil, expires, ghostVars>>

SignOut(c) ==
  /\ request[c].at = "signing out"
  /\ sessions' = sessions \ {request[c].token}
  /\ endedTokens' = (endedTokens \cup {request[c].token}) \ {RawPassword}
  /\ Answered(c)
  /\ UNCHANGED <<time, attempts, globalFailures, lockedUntil, expires, admitted,
                 mistakes>>

\* api_refresh deletes the old session, whether or not it is still there, before
\* it creates the new one.
Exchange(c) ==
  /\ request[c].at = "exchanging"
  /\ sessions' = sessions \ {request[c].token}
  /\ endedTokens' = (endedTokens \cup {request[c].token}) \ {RawPassword}
  /\ Goto(c, "creating")
  /\ UNCHANGED <<time, attempts, globalFailures, lockedUntil, expires, admitted,
                 mistakes>>

\* Time passes between requests.
Pass ==
  /\ time < LastMoment
  /\ \A c \in Callers : request[c].at = "idle"
  /\ time' = time + 1
  /\ admitted' = [a \in Addresses |-> InWindow(admitted[a], time')]
  /\ UNCHANGED <<attempts, globalFailures, lockedUntil, sessions, expires, request,
                 mistakes, endedTokens>>

Next ==
  \/ Pass
  \/ \E c \in Callers :
       \/ Login(c) \/ StoreRecent(c) \/ TestLimit(c) \/ RecordAttempt(c)
       \/ WrongPassword(c) \/ RightPassword(c) \/ CreateSession(c)
       \/ Authorize(c) \/ TurnAway(c) \/ SignOut(c) \/ Exchange(c)

Spec == Init /\ [][Next]_vars

-----------------------------------------------------------------------------
\* Types of the variables.
TypeOK ==
  /\ time \in 0..LastMoment
  /\ attempts \in [Addresses -> Seq(0..time)]
  /\ admitted \in [Addresses -> Seq(0..time)]
  /\ mistakes \in Seq(0..time)
  /\ globalFailures \in 0..LockoutThreshold
  /\ lockedUntil \in 0..(LastMoment + Lockout)
  /\ Tokens = 1..Cardinality(Tokens) /\ Cardinality(Tokens) <= MaxToken
  /\ sessions \subseteq Tokens
  /\ endedTokens \subseteq Tokens
  /\ expires \in Seq(Nat)
  /\ request \in [Callers ->
       [at : {"idle", "storing", "testing", "recording", "checking", "creating",
              "signing out", "exchanging"},
        from : Addresses \cup {"none"}, token : Tokens \cup {RawPassword},
        recent : Seq(0..time),
        answer : {"none", "refused", "locked", "unauthorized"}]]

\* Nobody is turned away without a reason.  An address is refused only when as
\* many attempts as the limit were let in from it within the window, whatever
\* other threads and addresses do, and no refusal prolongs that.  The ban is on
\* everybody, also for what others did, but somebody gave a wrong password less
\* than Lockout ago: no attempt that it rejects prolongs it.  A token is refused
\* only when it has expired or its own holder has signed out or exchanged it.
TurnedAwayRightly ==
  [][\A c \in Callers : request'[c] # request[c] =>
       /\ request'[c].answer = "refused" =>
            Len(admitted[request'[c].from]) >= RateLimit
       /\ request'[c].answer = "locked" =>
            \E i \in DOMAIN mistakes : time < mistakes[i] + Lockout
       /\ request'[c].answer = "unauthorized" =>
            \/ request'[c].token \in endedTokens
            \/ expires[request'[c].token] < time]_vars
=============================================================================
