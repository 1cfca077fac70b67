--------------------------------- MODULE Mux ---------------------------------
(***************************************************************************)
(* The packet connection QUIC runs on (internal/backend: Mux, UDPListener, *)
(* the dialled sessions): many datagram sessions, one reader goroutine     *)
(* each, feed one bounded queue that quic-go's read loop drains.           *)
(*                                                                         *)
(* One step is one critical section or channel operation.  Datagrams carry *)
(* no content and may be lost anywhere.  Heard are remote addresses the    *)
(* UDP listeners hear from, Reached those the node dials (UDP or framed    *)
(* TCP); a session accepted by a TCP listener is a dialled one here, its   *)
(* address being its own.  Read deadlines are left out.                    *)
(***************************************************************************)
EXTENDS Integers, FiniteSets

CONSTANTS Listener,     \* UDP listeners of the node
          Heard,        \* remote addresses that send to the listeners
          Reached,      \* remote addresses that are dialled
          MaxSess,      \* bound: sessions ever created
          RecvCap,      \* recv buffer of a session (32)
          InCap,        \* the queue m.in (64)
          NoAddr, NoListener

ASSUME MuxAssumption ==
    /\ MaxSess \in Nat
    /\ RecvCap \in Nat \ {0} /\ InCap \in Nat \ {0}
    /\ Heard \cap Reached = {}
    /\ NoAddr \notin Heard \cup Reached
    /\ NoListener \notin Listener

Sess == 1 .. MaxSess
NoSess == 0
Addr == Heard \cup Reached

VARIABLES
    sessions,   \* sessions[x]: Mux.sessions
    byAddr,     \* byAddr[l][x]: UDPListener.byAddr
    key,        \* key[s]: the remote address of s, NoAddr before it exists
    ln,         \* ln[s]: the listener s belongs to
    state,      \* state[s]: "none", "open", "failed" (a dialled one) or "closed"
    recv,       \* recv[s]: datagrams waiting in s
    loop,       \* loop[s]: its readLoop
    start,      \* start[l]: where UDPListener.Start is, and with which session
    inbound,    \* inbound[l]: the session attachInbound holds
    dialing,    \* node.dial: where it is, and with which session
    in,         \* datagrams in m.in
    closing     \* "open", "cancelled" (node context), "closed" (m.closed), "done"

listening == <<byAddr, start, inbound>>
vars == <<sessions, key, ln, state, recv, loop, dialing, in, closing, listening>>

At(a, s) == [at |-> a, sess |-> s]
Place == [at : {"idle", "attach", "handshake", "offer", "deliver", "ended"},
          sess : Sess \cup {NoSess}]

Init == /\ sessions = [x \in Addr |-> NoSess]
        /\ byAddr = [l \in Listener |-> [x \in Heard |-> NoSess]]
        /\ key = [s \in Sess |-> NoAddr]
        /\ ln = [s \in Sess |-> NoListener]
        /\ state = [s \in Sess |-> "none"]
        /\ recv = [s \in Sess |-> 0]
        /\ loop = [s \in Sess |-> "none"]
        /\ start = [l \in Listener |-> At("idle", NoSess)]
        /\ inbound = [l \in Listener |-> NoSess]
        /\ dialing = At("idle", NoSess)
        /\ in = 0
        /\ closing = "open"

Cancelled == closing # "open"
Closed == closing \in {"closed", "done"}

-----------------------------------------------------------------------------
(* Sessions                                                                 *)

(* A session with x comes into being; sessions are numbered in order.       *)
Created(s, l, x) ==
    /\ state[s] = "none"
    /\ \A t \in Sess : t < s => state[t] # "none"
    /\ state' = [state EXCEPT ![s] = "open"]
    /\ key' = [key EXCEPT ![s] = x]
    /\ ln' = [ln EXCEPT ![s] = l]

(* Fault of Forgotten: a closed session stays in its listener's map.        *)
ForgottenNever(S) == byAddr

(* Session.Close of all of S: they are marked, and leave the maps of their  *)
(* listeners.                                                               *)
Forgotten(S) == [l \in Listener |-> [x \in Heard |->
                    IF byAddr[l][x] \in S THEN NoSess ELSE byAddr[l][x]]]

CloseAll(S) == /\ state' = [s \in Sess |-> IF s \in S THEN "closed" ELSE state[s]]
               /\ byAddr' = Forgotten(S)

(* Mux.Attach: s takes the place of an older session with its address,      *)
(* which is closed, and gets a readLoop.  m.closed is not looked at.        *)
Attach(s) ==
    /\ CloseAll({sessions[key[s]]} \ {NoSess})
    /\ sessions' = [sessions EXCEPT ![key[s]] = s]
    /\ loop' = [loop EXCEPT ![s] = "recv"]

(* A dialled connection breaks: the peer closes it, or the port is          *)
(* unreachable.                                                             *)
Fails(s) ==
    /\ ln[s] = NoListener /\ state[s] = "open"
    /\ state' = [state EXCEPT ![s] = "failed"]
    /\ UNCHANGED <<sessions, key, ln, recv, loop, dialing, in, closing, listening>>

(* The kernel queues a datagram for a dialled session.                      *)
Arrives(s) ==
    /\ ln[s] = NoListener /\ state[s] = "open" /\ recv[s] < RecvCap
    /\ recv' = [recv EXCEPT ![s] = @ + 1]
    /\ UNCHANGED <<sessions, key, ln, state, loop, dialing, in, closing, listening>>

-----------------------------------------------------------------------------
(* Listening: UDPListener.Start and node.attachInbound                      *)

(* A datagram from x: a known session gets it, a new one is offered first.  *)
Datagram(l, x) ==
    /\ start[l].at = "idle" /\ ~Cancelled
    /\ \/ /\ byAddr[l][x] # NoSess
          /\ start' = [start EXCEPT ![l] = At("deliver", byAddr[l][x])]
          /\ UNCHANGED <<byAddr, key, ln, state>>
       \/ /\ byAddr[l][x] = NoSess
          /\ \E s \in Sess :
                /\ Created(s, l, x)
                /\ byAddr' = [byAddr EXCEPT ![l][x] = s]
                /\ start' = [start EXCEPT ![l] = At("offer", s)]
    /\ UNCHANGED <<sessions, recv, loop, inbound, dialing, in, closing>>

(* The unbuffered channel between Start and attachInbound.                  *)
Offer(l) ==
    /\ start[l].at = "offer" /\ inbound[l] = NoSess
    /\ inbound' = [inbound EXCEPT ![l] = start[l].sess]
    /\ start' = [start EXCEPT ![l].at = "deliver"]
    /\ UNCHANGED <<sessions, byAddr, key, ln, state, recv, loop, dialing, in, closing>>

(* deliver: into the buffer, or dropped when it is full or (at the select's *)
(* choice) the session is closed.                                           *)
Deliver(l) ==
    LET s == start[l].sess IN
    /\ start[l].at = "deliver"
    /\ \/ recv[s] < RecvCap /\ recv' = [recv EXCEPT ![s] = @ + 1]
       \/ (recv[s] = RecvCap \/ state[s] = "closed") /\ recv' = recv
    /\ start' = [start EXCEPT ![l] = At("idle", NoSess)]
    /\ UNCHANGED <<sessions, byAddr, key, ln, state, loop, inbound, dialing, in, closing>>

(* The node's context ends while Start reads or offers.                     *)
StartEnds(l) ==
    /\ Cancelled /\ start[l].at \in {"idle", "offer"}
    /\ start' = [start EXCEPT ![l] = At("ended", NoSess)]
    /\ UNCHANGED <<sessions, byAddr, key, ln, state, recv, loop, inbound, dialing, in, closing>>

(* Reading the socket fails for good: Start ends while the node is open.    *)
StartFails(l) ==
    /\ start[l].at = "idle"
    /\ start' = [start EXCEPT ![l] = At("ended", NoSess)]
    /\ UNCHANGED <<sessions, byAddr, key, ln, state, recv, loop, inbound, dialing, in, closing>>

Inbound(l) ==
    /\ inbound[l] # NoSess
    /\ Attach(inbound[l])
    /\ inbound' = [inbound EXCEPT ![l] = NoSess]
    /\ UNCHANGED <<key, ln, recv, start, dialing, in, closing>>

-----------------------------------------------------------------------------
(* Dialling: what node.dial does to the mux                                 *)

Dial(y) ==
    /\ dialing.at = "idle" /\ ~Cancelled
    /\ \E s \in Sess : Created(s, NoListener, y) /\ dialing' = At("attach", s)
    /\ UNCHANGED <<sessions, recv, loop, in, closing, listening>>

DialAttach ==
    /\ dialing.at = "attach"
    /\ Attach(dialing.sess)
    /\ dialing' = At("handshake", dialing.sess)
    /\ UNCHANGED <<key, ln, recv, start, inbound, in, closing>>

(* The handshake succeeds, or fails and closes the session.                 *)
DialEnds ==
    /\ dialing.at = "handshake"
    /\ \/ ~Cancelled /\ UNCHANGED <<state, byAddr>>
       \/ CloseAll({dialing.sess})
    /\ dialing' = At("idle", NoSess)
    /\ UNCHANGED <<sessions, key, ln, recv, loop, start, inbound, in, closing>>

-----------------------------------------------------------------------------
(* Mux.readLoop of one session                                              *)

(* Recv returns a datagram ...                                              *)
Recv(s) ==
    /\ loop[s] = "recv" /\ recv[s] > 0
    /\ ln[s] = NoListener => state[s] # "closed"
    /\ recv' = [recv EXCEPT ![s] = @ - 1]
    /\ loop' = [loop EXCEPT ![s] = "send"]
    /\ UNCHANGED <<sessions, key, ln, state, dialing, in, closing, listening>>

(* Fault of Send: into the queue without waiting for room.                  *)
SendAnyway(s) ==
    /\ loop[s] = "send"
    /\ in' = in + 1
    /\ loop' = [loop EXCEPT ![s] = "recv"]
    /\ UNCHANGED <<sessions, key, ln, state, recv, dialing, closing, listening>>

(* ... which goes to m.in as soon as there is room.                         *)
Send(s) ==
    /\ loop[s] = "send" /\ in < InCap
    /\ in' = in + 1
    /\ loop' = [loop EXCEPT ![s] = "recv"]
    /\ UNCHANGED <<sessions, key, ln, state, recv, dialing, closing, listening>>

(* Fault of LoopEnds: a reader that waits for room does not look at closed. *)
LoopEndsAtRecv(s) ==
    /\ loop[s] = "recv" /\ (Closed \/ state[s] # "open")
    /\ loop' = [loop EXCEPT ![s] = "remove"]
    /\ UNCHANGED <<sessions, key, ln, state, recv, dialing, in, closing, listening>>

(* Recv fails, or the mux is closed (seen before Recv or instead of room).  *)
LoopEnds(s) ==
    /\ \/ loop[s] = "recv" /\ (Closed \/ state[s] # "open")
       \/ loop[s] = "send" /\ Closed
    /\ loop' = [loop EXCEPT ![s] = "remove"]
    /\ UNCHANGED <<sessions, key, ln, state, recv, dialing, in, closing, listening>>

(* Fault of Removed: the entry goes whoever it belongs to by now.           *)
RemovedAny(s) == [sessions EXCEPT ![key[s]] = NoSess]

Removed(s) == [sessions EXCEPT ![key[s]] = IF @ = s THEN NoSess ELSE @]

(* The deferred clean-up: out of the map, unless replaced.  Not closed.     *)
Remove(s) ==
    /\ loop[s] = "remove"
    /\ sessions' = Removed(s)
    /\ loop' = [loop EXCEPT ![s] = "ended"]
    /\ UNCHANGED <<key, ln, state, recv, dialing, in, closing, listening>>

-----------------------------------------------------------------------------
(* ReadFrom: quic-go takes a datagram.                                      *)
ReadFrom ==
    /\ in > 0 /\ ~Closed
    /\ in' = in - 1
    /\ UNCHANGED <<sessions, key, ln, state, recv, loop, dialing, closing, listening>>

-----------------------------------------------------------------------------
(* Closing                                                                  *)

Cancel ==
    /\ closing = "open" /\ closing' = "cancelled"
    /\ UNCHANGED <<sessions, key, ln, state, recv, loop, dialing, in, listening>>

(* Mux.Close: close(m.closed) ...                                           *)
CloseChan ==
    /\ closing = "cancelled" /\ closing' = "closed"
    /\ UNCHANGED <<sessions, key, ln, state, recv, loop, dialing, in, listening>>

(* ... and, under m.mu, every attached session.                             *)
Close ==
    /\ closing = "closed" /\ closing' = "done"
    /\ CloseAll({sessions[x] : x \in Addr} \ {NoSess})
    /\ sessions' = [x \in Addr |-> NoSess]
    /\ UNCHANGED <<key, ln, recv, loop, start, inbound, dialing, in>>

-----------------------------------------------------------------------------

Starting(l) == Offer(l) \/ Deliver(l) \/ StartEnds(l)
ReadLoop(s) == Recv(s) \/ Send(s) \/ LoopEnds(s) \/ Remove(s)

Next ==
    \/ \E l \in Listener : \/ \E x \in Heard : Datagram(l, x)
                           \/ Starting(l) \/ StartFails(l) \/ Inbound(l)
    \/ \E y \in Reached : Dial(y)
    \/ DialAttach \/ DialEnds
    \/ \E s \in Sess : Fails(s) \/ Arrives(s) \/ ReadLoop(s)
    \/ ReadFrom \/ Cancel \/ CloseChan \/ Close

Spec == Init /\ [][Next]_vars

(* Every goroutine runs on when it can.  Nothing makes datagrams arrive,    *)
(* time pass or the node close.                                             *)
FairSpec ==
    /\ Spec
    /\ \A l \in Listener : WF_vars(Starting(l)) /\ WF_vars(Inbound(l))
    /\ \A s \in Sess : WF_vars(ReadLoop(s))
    /\ WF_vars(DialAttach \/ DialEnds)

-----------------------------------------------------------------------------
(* Properties                                                               *)

(* Buffers keep within their capacities and every variable in its range.    *)
TypeOK ==
    /\ sessions \in [Addr -> Sess \cup {NoSess}]
    /\ byAddr \in [Listener -> [Heard -> Sess \cup {NoSess}]]
    /\ key \in [Sess -> Addr \cup {NoAddr}]
    /\ ln \in [Sess -> Listener \cup {NoListener}]
    /\ state \in [Sess -> {"none", "open", "failed", "closed"}]
    /\ recv \in [Sess -> 0 .. RecvCap]
    /\ loop \in [Sess -> {"none", "recv", "send", "remove", "ended"}]
    /\ start \in [Listener -> Place]
    /\ inbound \in [Listener -> Sess \cup {NoSess}]
    /\ dialing \in Place
    /\ in \in 0 .. InCap
    /\ closing \in {"open", "cancelled", "closed", "done"}

(* No peer is cut off: the session a listener puts a peer's datagrams into  *)
(* is attached and being read, or on its way to Attach, as long as the node *)
(* is open; were it not, the peer's handshakes would fill a buffer nobody   *)
(* empties, and no new session would ever be made for its address.          *)
PeersAreRead ==
    closing = "open" =>
        \A l \in Listener : \A x \in Heard :
            LET s == byAddr[l][x] IN
            \/ s = NoSess
            \/ start[l] = At("offer", s)
            \/ inbound[l] = s
            \/ sessions[x] = s /\ loop[s] \in {"recv", "send"}

(* After Close every goroutine of the package ends: none is left blocked on *)
(* a full queue, an offer nobody takes or a datagram that does not come.    *)
CloseEndsAll ==
    closing = "done" ~>
        /\ \A s \in Sess : loop[s] \in {"none", "ended"}
        /\ \A l \in Listener : start[l].at = "ended" /\ inbound[l] = NoSess

(* "Close shuts down the mux and all attached sessions": once everything    *)
(* has ended no session that was ever attached is still open.               *)
ClosedOnClose ==
    (/\ closing = "done" /\ dialing.at = "idle"
     /\ \A l \in Listener : start[l].at = "ended" /\ inbound[l] = NoSess)
    => \A s \in Sess : loop[s] = "ended" => state[s] # "open"
=============================================================================
