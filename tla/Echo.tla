--------------------------------- MODULE Echo ---------------------------------
(***************************************************************************)
(* The named echo of internal/node/echo.go: one ping from Asker to the     *)
(* node called Target, flooded over the control streams of the session     *)
(* graph.  Every node remembers in echoWait where the ping came from, and  *)
(* the first answer of any kind is handed back along those entries.        *)
(***************************************************************************)
EXTENDS Integers, Sequences

CONSTANTS
    Node, NoNode,
    Asker,      \* the node whose Echo is called
    Target,     \* the node that has the name
    Peers,      \* Peers[n]: the sessions n starts with
    echoTTL,    \* 128 in the code
    MaxFault    \* bound: sessions lost, and the caller's context ending

ASSUME NodeAssumption == /\ NoNode \notin Node
                         /\ Asker \in Node /\ Target \in Node
                         /\ Asker # Target
ASSUME PeersAssumption ==
    /\ Peers \in [Node -> SUBSET Node]
    /\ \A n, p \in Node : p \in Peers[n] => n \in Peers[p]
ASSUME BoundsAssumption == echoTTL \in Nat /\ MaxFault \in Nat

VARIABLES
    sess,    \* sess[n]: peers in n.sessions
    link,    \* link[n]: peers whose connection with n works
    chan,    \* chan[n][p]: control messages from n that p has not read
    wait,    \* wait[n]: n.echoWait for this ping
    result,  \* what Echo returned, or where it is
    faults   \* lost sessions and cancellations so far

vars == <<sess, link, chan, wait, result, faults>>

(* A relay waits for the answer it will send back to a peer; the asker      *)
(* waits on its own channel.                                                *)
NoWait == [kind |-> "none", back |-> NoNode]
Relay(p) == [kind |-> "relay", back |-> p]
Own == [kind |-> "own", back |-> NoNode]
Wait == {NoWait, Own} \cup {Relay(p) : p \in Node}

Message == [type : {"echo", "echo_ok", "echo_err"}, ttl : Int, path : Seq(Node)]

Idle == [state |-> "idle", path |-> <<>>]

Init == /\ sess = Peers
        /\ link = Peers
        /\ chan = [n \in Node |-> [p \in Node |-> <<>>]]
        /\ wait = [n \in Node |-> NoWait]
        /\ result = Idle
        /\ faults = 0

-----------------------------------------------------------------------------
(* Writing                                                                  *)

(* n.write of m by n to each of ps: on a working connection it arrives.     *)
Written(c, n, ps, m) ==
    [c EXCEPT ![n] = [p \in Node |-> IF p \in ps \cap link[n] THEN Append(@[p], m)
                                                              ELSE @[p]]]

(* dispatchEcho's choice: the session with the name, else everyone but the  *)
(* peer it came from.                                                       *)
Dispatch(n, from) == IF Target \in sess[n] \ {from} THEN {Target}
                                                    ELSE sess[n] \ {from}

(* Fault of finishEcho: the entry is only marked.                           *)
finishEchoMarked(c, n, m) ==
    /\ wait' = [wait EXCEPT ![n].kind = "none"]
    /\ chan' = IF wait[n].kind = "relay" THEN Written(c, n, {wait[n].back}, m) ELSE c
    /\ result' = IF wait[n].kind = "own"
                 THEN [state |-> m.type, path |-> m.path] ELSE result

(* finishEcho at n, with channels c: hand m on to whoever waits, once.      *)
finishEcho(c, n, m) ==
    /\ wait' = [wait EXCEPT ![n] = NoWait]
    /\ chan' = IF wait[n].kind = "relay" THEN Written(c, n, {wait[n].back}, m) ELSE c
    /\ result' = IF wait[n].kind = "own"
                 THEN [state |-> m.type, path |-> m.path] ELSE result

-----------------------------------------------------------------------------
(* Echo                                                                     *)

(* The call registers a waiter and dispatches; when nothing could be        *)
(* written it fails at once and clears the waiter.                          *)
Echo ==
    /\ result.state = "idle"
    /\ LET ps == Dispatch(Asker, NoNode)
           m  == [type |-> "echo", ttl |-> echoTTL, path |-> <<>>]
       IN  \/ /\ ps # {}
              /\ wait' = [wait EXCEPT ![Asker] = Own]
              /\ chan' = Written(chan, Asker, ps, m)
              /\ result' = [Idle EXCEPT !.state = "waiting"]
           \/ /\ ps \cap link[Asker] = {}
              /\ result' = [Idle EXCEPT !.state = "echo_err"]
              /\ UNCHANGED <<wait, chan>>
    /\ UNCHANGED <<sess, link, faults>>

(* The caller's context ends: clearEcho.                                    *)
Cancelled ==
    /\ result.state = "waiting"
    /\ faults < MaxFault
    /\ faults' = faults + 1
    /\ wait' = [wait EXCEPT ![Asker] = NoWait]
    /\ result' = [Idle EXCEPT !.state = "cancelled"]
    /\ UNCHANGED <<sess, link, chan>>

-----------------------------------------------------------------------------
(* readLoop                                                                 *)

(* The message n reads next from p, and the channels without it.            *)
Reads(n, p, type) == /\ chan[p][n] # <<>>
                     /\ Head(chan[p][n]).type = type
Rest(n, p) == [chan EXCEPT ![p][n] = Tail(@)]

(* handleEcho at the node with the name answers every copy.                 *)
AnswerEcho(p) ==
    /\ Reads(Target, p, "echo")
    /\ LET m == Head(chan[p][Target])
       IN  chan' = Written(Rest(Target, p), Target, {p},
                           [m EXCEPT !.type = "echo_ok", !.path = Append(@, Target)])
    /\ UNCHANGED <<sess, link, wait, result, faults>>

(* Faults of DropCopy: the copy goes back where it came from; its sender    *)
(* becomes the one to answer.                                               *)
BounceCopy(n, p) ==
    /\ n # Target
    /\ Reads(n, p, "echo")
    /\ wait[n] # NoWait
    /\ chan' = Written(Rest(n, p), n, {p}, Head(chan[p][n]))
    /\ UNCHANGED <<sess, link, wait, result, faults>>

FollowCopy(n, p) ==
    /\ n # Target
    /\ Reads(n, p, "echo")
    /\ wait[n] # NoWait
    /\ chan' = Rest(n, p)
    /\ wait' = [wait EXCEPT ![n] = Relay(p)]
    /\ UNCHANGED <<sess, link, result, faults>>

(* handleEcho where the ping is already known: a copy, ignored.             *)
DropCopy(n, p) ==
    /\ n # Target
    /\ Reads(n, p, "echo")
    /\ wait[n] # NoWait
    /\ chan' = Rest(n, p)
    /\ UNCHANGED <<sess, link, wait, result, faults>>

(* Fault of RelayEcho: the relay leaves itself out of the path.             *)
RelayUnnamed(n, p) ==
    /\ n # Target
    /\ Reads(n, p, "echo")
    /\ wait[n] = NoWait
    /\ LET q  == [Head(chan[p][n]) EXCEPT !.ttl = @ - 1]
           ps == Dispatch(n, p)
       IN  /\ q.ttl >= 0
           /\ ps # {}
           /\ wait' = [wait EXCEPT ![n] = Relay(p)]
           /\ chan' = Written(Rest(n, p), n, ps, q)
    /\ UNCHANGED <<sess, link, result, faults>>

(* handleEcho elsewhere: remember the peer and pass the ping on.  A write   *)
(* on a session whose connection is gone fails or is lost.                  *)
RelayEcho(n, p) ==
    /\ n # Target
    /\ Reads(n, p, "echo")
    /\ wait[n] = NoWait
    /\ LET m  == Head(chan[p][n])
           q  == [m EXCEPT !.ttl = @ - 1, !.path = Append(@, n)]
           ps == Dispatch(n, p)
       IN  /\ q.ttl >= 0
           /\ ps # {}
           /\ wait' = [wait EXCEPT ![n] = Relay(p)]
           /\ chan' = Written(Rest(n, p), n, ps, q)
    /\ UNCHANGED <<sess, link, result, faults>>

(* The time to live is used up, there is nobody to pass the ping on to, or  *)
(* every write failed: the entry is made and finished with an error.        *)
RefuseEcho(n, p) ==
    /\ n # Target
    /\ Reads(n, p, "echo")
    /\ wait[n] = NoWait
    /\ LET m == Head(chan[p][n])
       IN  /\ m.ttl = 0 \/ Dispatch(n, p) \cap link[n] = {}
           /\ chan' = Written(Rest(n, p), n, {p}, [m EXCEPT !.type = "echo_err",
                                                            !.path = <<>>])
    /\ UNCHANGED <<sess, link, wait, result, faults>>

(* completeEcho.                                                            *)
CompleteEcho(n, p) ==
    /\ Reads(n, p, "echo_ok") \/ Reads(n, p, "echo_err")
    /\ finishEcho(Rest(n, p), n, Head(chan[p][n]))
    /\ UNCHANGED <<sess, link, faults>>

-----------------------------------------------------------------------------
(* Failures                                                                 *)

(* A connection is lost with what is in flight on it ...                    *)
LinkLost(n, p) ==
    /\ p \in link[n]
    /\ faults < MaxFault
    /\ faults' = faults + 1
    /\ link' = [link EXCEPT ![n] = @ \ {p}, ![p] = @ \ {n}]
    /\ chan' = [chan EXCEPT ![n][p] = <<>>, ![p][n] = <<>>]
    /\ UNCHANGED <<sess, wait, result>>

(* ... and readLoop unregisters the session.  echoWait entries that point   *)
(* to it stay.                                                              *)
Unregister(n, p) ==
    /\ p \in sess[n] \ link[n]
    /\ sess' = [sess EXCEPT ![n] = @ \ {p}]
    /\ UNCHANGED <<link, chan, wait, result, faults>>

Finished == /\ result.state \notin {"idle", "waiting"}
            /\ \A n, p \in Node : chan[n][p] = <<>>

(* The ping is over.                                                        *)
Done == Finished /\ UNCHANGED vars

ReadLoop(n, p) == \/ DropCopy(n, p) \/ RelayEcho(n, p) \/ RefuseEcho(n, p)
                  \/ CompleteEcho(n, p) \/ (n = Target /\ AnswerEcho(p))

Next == \/ Echo \/ Cancelled \/ Done
        \/ \E n, p \in Node : \/ ReadLoop(n, p)
                              \/ LinkLost(n, p) \/ Unregister(n, p)

Spec == Init /\ [][Next]_vars

(* The call is made and every readLoop keeps reading.                       *)
FairSpec == /\ Spec
            /\ WF_vars(Echo)
            /\ \A n, p \in Node : WF_vars(ReadLoop(n, p))

-----------------------------------------------------------------------------
(* Properties                                                               *)

(* Messages, waiters and results are well formed.                           *)
TypeOK == /\ sess \in [Node -> SUBSET Node]
          /\ link \in [Node -> SUBSET Node]
          /\ chan \in [Node -> [Node -> Seq(Message)]]
          /\ wait \in [Node -> Wait]
          /\ result \in [state : {"idle", "waiting", "cancelled", "echo_ok", "echo_err"},
                         path : Seq(Node)]
          /\ faults \in 0 .. MaxFault

(* s is a walk in the session graph that leaves the asker.                  *)
Walk(s) == /\ s # <<>> => s[1] \in Peers[Asker]
           /\ \A i \in 1 .. Len(s) - 1 : s[i + 1] \in Peers[s[i]]

(* A ping between n and p has come to n along the path it lists.            *)
CameBy(s, n) == Walk(s) /\ n = (IF s = <<>> THEN Asker ELSE s[Len(s)])

(* An answer ends at the target.                                            *)
Reaches(s) == Walk(s) /\ s # <<>> /\ s[Len(s)] = Target

(* The path a ping reports was really walked, session by session, from the  *)
(* asker to the named node, in spite of duplicates, relays that forget the  *)
(* ping and re-flood it, and lost sessions.                                 *)
ReportedPathIsReal ==
    /\ result.state = "echo_ok" => Reaches(result.path)
    /\ \A n, p \in Node : \A i \in 1 .. Len(chan[n][p]) :
          LET m == chan[n][p][i] IN
          /\ m.type = "echo" => CameBy(m.path, n) /\ Len(m.path) + m.ttl = echoTTL
          /\ m.type = "echo_ok" => Reaches(m.path)

(* The flood dies out, although relays forget a ping once they have         *)
(* answered it and then pass late copies on again.                          *)
FloodDies == <>[](\A n, p \in Node : chan[n][p] = <<>>)

(* Without failures every ping is answered, one way or the other, before    *)
(* the caller gives up: an answer dropped at a relay was overtaken there by *)
(* another one on its way to the asker.                                     *)
PingAnswered == <>(result.state \in {"echo_ok", "echo_err"} \/ faults > 0)

(* Without failures a ping for a node the session graph reaches finds it.   *)
PingFindsTarget == faults = 0 => result.state # "echo_err"
=============================================================================
