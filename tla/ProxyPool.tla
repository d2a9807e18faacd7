------------------------------- MODULE ProxyPool -------------------------------
(***************************************************************************)
(* proxy_rotator.py: the pool of proxies that all booking flows share.  get *)
(* takes a snapshot of the proxies that are not blacklisted, probes one of  *)
(* them without the lock and recurses when it fails.  A flow that raises    *)
(* blacklists the proxy it was given.  (With no proxy configured, get        *)
(* returns None at once.)                                                    *)
(***************************************************************************)

CONSTANTS
  Proxies,  \* the configured proxies
  Flows     \* booking flows, each of which calls get and then works

VARIABLES
  blacklist, \* proxies whose blacklisting has not expired
  getting,   \* where each flow is
  candidate  \* the proxy it probes or was given, or None

vars == <<blacklist, getting, candidate>>

None == "none"
Available == Proxies \ blacklist

Init ==
  /\ blacklist = {}
  /\ getting = [f \in Flows |-> "idle"]
  /\ candidate = [f \in Flows |-> None]

Goto(f, l) == getting' = [getting EXCEPT ![f] = l]

-----------------------------------------------------------------------------
Call(f) ==
  /\ getting[f] = "idle"
  /\ Goto(f, "picking")
  /\ UNCHANGED <<blacklist, candidate>>

\* One of the available proxies.
Pick(f) ==
  /\ getting[f] = "picking"
  /\ Available # {}
  /\ \E p \in Available : candidate' = [candidate EXCEPT ![f] = p]
  /\ Goto(f, "probing")
  /\ UNCHANGED blacklist

\* None is available; the lock is given up, ...
FindNone(f) ==
  /\ getting[f] = "picking"
  /\ Available = {}
  /\ Goto(f, "clearing")
  /\ UNCHANGED <<blacklist, candidate>>

\* ... and with the lock again, the blacklist is cleared and any proxy will do.
PickCleared(f) ==
  /\ getting[f] = "clearing"
  /\ blacklist' = {}
  /\ \E p \in Proxies : candidate' = [candidate EXCEPT ![f] = p]
  /\ Goto(f, "probing")

\* is_healthy, while others go on.
Probe(f) ==
  /\ getting[f] = "probing"
  /\ Goto(f, "working") \/ Goto(f, "failing")
  /\ UNCHANGED <<blacklist, candidate>>

\* Mutant: the proxy that failed stays in the pool.
FailedProbeForgiven(f) ==
  /\ getting[f] = "failing"
  /\ Goto(f, "again")
  /\ UNCHANGED <<blacklist, candidate>>

\* mark_failed in get.
FailedProbe(f) ==
  /\ getting[f] = "failing"
  /\ blacklist' = blacklist \cup {candidate[f]}
  /\ Goto(f, "again")
  /\ UNCHANGED candidate

\* get again while a proxy is left; else the flow goes on without one.
Again(f) ==
  /\ getting[f] = "again"
  /\ IF Available # {}
     THEN Goto(f, "picking") /\ UNCHANGED candidate
     ELSE Goto(f, "working") /\ candidate' = [candidate EXCEPT ![f] = None]
  /\ UNCHANGED blacklist

GetStep(f) ==
  \/ Pick(f) \/ FindNone(f) \/ PickCleared(f)
  \/ Probe(f) \/ FailedProbe(f) \/ Again(f)

-----------------------------------------------------------------------------
\* The flow is over; an exception of one that has a proxy blacklists it.
FlowOver(f) ==
  /\ getting[f] = "working"
  /\ blacklist' \in {blacklist, blacklist \cup ({candidate[f]} \ {None})}
  /\ Goto(f, "idle")
  /\ candidate' = [candidate EXCEPT ![f] = None]

\* The blacklisting of a proxy, of 300 seconds, expires.
Expire ==
  /\ \E p \in blacklist : blacklist' = blacklist \ {p}
  /\ UNCHANGED <<getting, candidate>>

Next ==
  \/ Expire
  \/ \E f \in Flows : Call(f) \/ GetStep(f) \/ FlowOver(f)

Spec == Init /\ [][Next]_vars

-----------------------------------------------------------------------------
\* Types of the variables.
TypeOK ==
  /\ blacklist \in SUBSET Proxies
  /\ getting \in [Flows -> {"idle", "picking", "clearing", "probing", "failing",
                            "again", "working"}]
  /\ candidate \in [Flows -> Proxies \cup {None}]

Calling(f) == getting[f] \notin {"idle", "working"}

\* A flow gets a proxy, or none, after finitely many probes, whatever their
\* outcome, once the others keep off the blacklist and nothing on it expires.
\* (While they do not, each can clear what the other has found out for ever.)
GetReturns ==
  \A f \in Flows :
    /\ <>[](\A g \in Flows \ {f} : ~Calling(g))
    /\ <>[][~Expire]_vars
    => (Calling(f) ~> ~Calling(f))
=============================================================================
