------------------------------ MODULE AuthForward ------------------------------
(***************************************************************************)
(* proxy_auth_forward.py: the local forwarder between Chrome and a proxy    *)
(* that wants a password.  A connection has two sockets, one to each side,  *)
(* and two threads that pump bytes, one per direction; each gives up when   *)
(* its source ends, fails or is silent for too long, and shuts both sockets *)
(* down.                                                                    *)
(***************************************************************************)

CONSTANT Connections  \* connections at a time (a bound)

Sides == {"client", "up"}
Other(a) == IF a = "client" THEN "up" ELSE "client"

VARIABLES
  relay,   \* of each connection: "off", "head" (handshake), "pumping", "closed"
  socket,  \* of each side: "none", "open", "ended" by its peer, "shut" by us
  pipe,    \* the thread that reads from each side
  silent   \* sides whose peer sends no more and does not hang up

vars == <<relay, socket, pipe, silent>>

Init ==
  /\ relay = [c \in Connections |-> "off"]
  /\ socket = [c \in Connections |-> [a \in Sides |-> "none"]]
  /\ pipe = [c \in Connections |-> [a \in Sides |-> "none"]]
  /\ silent = [c \in Connections |-> {}]

-----------------------------------------------------------------------------
\* _accept hands a new connection to a thread of its own.
Accept(c) ==
  /\ relay[c] = "off"
  /\ relay' = [relay EXCEPT ![c] = "head"]
  /\ socket' = [socket EXCEPT ![c]["client"] = "open"]
  /\ UNCHANGED <<pipe, silent>>

\* A connection that is over makes room for another one.
Forget(c) ==
  /\ relay[c] = "closed" /\ \A a \in Sides : pipe[c][a] # "receiving"
  /\ relay' = [relay EXCEPT ![c] = "off"]
  /\ socket' = [socket EXCEPT ![c] = [a \in Sides |-> "none"]]
  /\ pipe' = [pipe EXCEPT ![c] = [a \in Sides |-> "none"]]
  /\ silent' = [silent EXCEPT ![c] = {}]

\* The head is read, the upstream proxy connected and the head sent on with the
\* password; a second thread is started for the way from the client, and this
\* one takes the way back.
Connect(c) ==
  /\ relay[c] = "head"
  /\ relay' = [relay EXCEPT ![c] = "pumping"]
  /\ socket' = [socket EXCEPT ![c]["up"] = "open"]
  /\ pipe' = [pipe EXCEPT ![c] = [a \in Sides |-> "receiving"]]
  /\ UNCHANGED silent

\* The client hangs up or is silent for 30 seconds, or the proxy is not there.
ConnectFails(c) ==
  /\ relay[c] = "head"
  /\ relay' = [relay EXCEPT ![c] = "closed"]
  /\ socket' = [socket EXCEPT ![c] = [a \in Sides |-> "shut"]]
  /\ UNCHANGED <<pipe, silent>>

-----------------------------------------------------------------------------
\* The peer of a side hangs up, or goes silent.
HangUp(c, a) ==
  /\ relay[c] = "pumping"
  /\ socket[c][a] = "open" /\ a \notin silent[c]
  /\ socket' = [socket EXCEPT ![c][a] = "ended"]
  /\ UNCHANGED <<relay, pipe, silent>>

GoSilent(c, a) ==
  /\ relay[c] = "pumping"
  /\ socket[c][a] = "open"
  /\ silent' = [silent EXCEPT ![c] = @ \cup {a}]
  /\ UNCHANGED <<relay, socket, pipe>>

\* Mutant: only the socket it reads from is shut down.
StopPipeHalf(c, a) ==
  /\ pipe' = [pipe EXCEPT ![c][a] = "ended"]
  /\ socket' = [socket EXCEPT ![c][a] = "shut"]
  /\ UNCHANGED <<relay, silent>>

\* The finally of _pipe.
StopPipe(c, a) ==
  /\ pipe' = [pipe EXCEPT ![c][a] = "ended"]
  /\ socket' = [socket EXCEPT ![c] = [b \in Sides |-> "shut"]]
  /\ UNCHANGED <<relay, silent>>

\* recv returns nothing, or raises, when its socket has ended or was shut down
\* by the other thread; what is left of the data is not kept apart.
ReceiveEnds(c, a) ==
  /\ pipe[c][a] = "receiving"
  /\ socket[c][a] # "open"
  /\ StopPipe(c, a)

\* sendall raises because the other side has hung up.
SendFails(c, a) ==
  /\ pipe[c][a] = "receiving"
  /\ socket[c][a] = "open" /\ a \notin silent[c]
  /\ socket[c][Other(a)] # "open"
  /\ StopPipe(c, a)

\* _IDLE_TIMEOUT.
IdleTimeout(c, a) ==
  /\ pipe[c][a] = "receiving"
  /\ a \in silent[c]
  /\ StopPipe(c, a)

\* The end of _handle, once its own pipe has ended.
Close(c) ==
  /\ relay[c] = "pumping"
  /\ pipe[c]["up"] = "ended"
  /\ relay' = [relay EXCEPT ![c] = "closed"]
  /\ socket' = [socket EXCEPT ![c] = [a \in Sides |-> "shut"]]
  /\ UNCHANGED <<pipe, silent>>

PipeEnds(c) == Close(c) \/ \E a \in Sides : ReceiveEnds(c, a)

Next ==
  \E c \in Connections :
    \/ Accept(c) \/ Forget(c) \/ Connect(c) \/ ConnectFails(c)
    \/ PipeEnds(c)
    \/ \E a \in Sides : \/ HangUp(c, a) \/ GoSilent(c, a)
                        \/ SendFails(c, a) \/ IdleTimeout(c, a)

Spec == Init /\ [][Next]_vars

-----------------------------------------------------------------------------
\* Types of the variables.
TypeOK ==
  /\ relay \in [Connections -> {"off", "head", "pumping", "closed"}]
  /\ socket \in [Connections -> [Sides -> {"none", "open", "ended", "shut"}]]
  /\ pipe \in [Connections -> [Sides -> {"none", "receiving", "ended"}]]
  /\ silent \in [Connections -> SUBSET Sides]

\* proxy_auth_forward.py:10-13, threads always exit: as soon as one side has
\* hung up, or one has been silent too long, both threads of the connection end
\* and it is closed, without waiting for the other side to say or do anything.
ThreadsExit ==
  \A c \in Connections :
    (relay[c] = "pumping" /\ \E a \in Sides : \/ socket[c][a] = "ended"
                                              \/ pipe[c][a] = "ended")
      ~> (relay[c] = "closed" /\ \A a \in Sides : pipe[c][a] = "ended")
=============================================================================
