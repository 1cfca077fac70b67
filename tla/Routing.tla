------------------------------- MODULE Routing -------------------------------
(***************************************************************************)
(* The distance-vector overlay routing of internal/node/route.go, run by   *)
(* every node of a mesh over the QUIC sessions of internal/node/node.go.   *)
(*                                                                         *)
(* Each node keeps a RIB (destination -> next hop, hop count, staleness)   *)
(* and advertises it, with split horizon, to its live sessions whenever it *)
(* changes and on a timer.  Destinations are the nodes' own ULAs and the   *)
(* default route that exit nodes originate.  handleRoutes, the refresh     *)
(* tick and every other update of the RIB is one action: what it does      *)
(* under routeMu and the advertisements it triggers.  What establish and   *)
(* the end of readLoop do to the session map (under mu) and to the RIB     *)
(* (under routeMu) are different actions, between which anything happens.  *)
(***************************************************************************)
EXTENDS Integers, Sequences

CONSTANTS
    Node,          \* mesh members (NodeIDs)
    NoNode,        \* "no next hop"
    DefaultRoute,  \* ::/0 and 0.0.0.0/0, which are always treated alike
    Dest,          \* the destinations the model tracks (see ChangeElsewhere)
    Exits,         \* nodes configured with exit: true
    Peers,         \* Peers[n]: whom n may ever hold a connection with
    HopDist,       \* HopDist[n][d]: a lower bound on the hops from n to d
    Infinity,      \* routeInfinity (16 in the code)
    MaxInFlight,   \* bound: unread advertisements a spontaneous send tolerates
    MaxDials,      \* bound: how many connections come up
    MaxChurn,      \* bound: how many connection losses and crashes happen
    Lossy,         \* bound: Lossy[n], peers n may lose its connection with
    Mortal         \* bound: nodes that may crash

AllDest == Node \cup {DefaultRoute}

(* The destinations node n originates at metric 0: itself, and the default *)
(* route when it is an exit.                                               *)
Origin(n) == {d \in Dest : d = n \/ (d = DefaultRoute /\ n \in Exits)}

ASSUME NodeAssumption == /\ NoNode \notin Node
                         /\ DefaultRoute \notin Node
ASSUME DestAssumption == Dest \subseteq AllDest
ASSUME ExitsAssumption == Exits \subseteq Node
ASSUME PeersAssumption ==
    /\ Peers \in [Node -> SUBSET Node]
    /\ \A n \in Node : n \notin Peers[n]
    /\ \A n, p \in Node : p \in Peers[n] => n \in Peers[p]
(* True hop counts in the graph Peers satisfy this; so does any function   *)
(* that is 0 at the origins and changes by at most 1 along a link.         *)
ASSUME HopDistAssumption ==
    /\ HopDist \in [Node -> [Dest -> Nat]]
    /\ \A n \in Node : \A d \in Origin(n) : HopDist[n][d] = 0
    /\ \A n \in Node : \A p \in Peers[n] : \A d \in Dest :
            HopDist[n][d] <= HopDist[p][d] + 1
ASSUME BoundsAssumption == /\ Infinity \in Nat /\ Infinity > 1
                           /\ MaxInFlight \in Nat /\ MaxInFlight > 0
                           /\ MaxDials \in Nat /\ MaxChurn \in Nat

VARIABLES
    conn,   \* conn[n]: peers n has a working QUIC connection with (symmetric)
    sess,   \* sess[n][p]: n's entry for p in n.sessions
    late,   \* late[n][p]: calls of onSessionUp to come for sessions lost since
    ending, \* ending[n][p]: readers past unregistering, before the check of
            \* onSessionDown
    deleting, \* deleting[n][p]: readers past that check, before the deletion
    rib,    \* rib[n][d]: n.routes
    chan,   \* chan[n][p]: "routes" messages written by n that p has not read
    dials,  \* connections that have come up so far
    churn,  \* connection losses and crashes so far
    phantom,\* history: phantom[n], peers with a direct route that onSessionUp
            \* installed after everybody who would clean it up had done so
    robbed  \* history: robbed[n], registered peers whose routes the reader of
            \* an earlier session has deleted, not heard of since

goroutines == <<late, ending, deleting>>
vars == <<conn, sess, goroutines, rib, chan, dials, churn, phantom, robbed>>

-----------------------------------------------------------------------------
(* State                                                                    *)

(* A session is registered on the current connection with the peer, "new"   *)
(* until its onSessionUp and "live" from then on; "dead" when its connection*)
(* is gone and readLoop has yet to notice; or absent.                       *)
SessState == {"none", "new", "live", "dead"}

(* ribEntry.stale: the zero time is "fresh"; a set time is "held" until     *)
(* routeHolddown has passed and "expired" from then on.                     *)
Staleness == {"fresh", "held", "expired"}

Entry == [next : Node \cup {NoNode}, metric : 1 .. Infinity, stale : Staleness]

NoRoute == [next |-> NoNode, metric |-> Infinity, stale |-> "fresh"]

Via(p, m) == [next |-> p, metric |-> m, stale |-> "fresh"]

(* The RIB part of an advertisement: the metric of each destination listed, *)
(* Infinity for one that is not.  What the sender originates (Origin) comes *)
(* before it in every message and never changes, so it is not stored.       *)
Ad == [Dest -> 1 .. Infinity]

Live(n) == {p \in Node : sess[n][p] \in {"new", "live"}}

(* The peers via which somebody will come by to withdraw the routes: the    *)
(* reader of the registered session, or one past unregistering its own.     *)
Owned(n) == {p \in Node : \/ sess[n][p] # "none"
                          \/ ending[n][p] > 0 \/ deleting[n][p] > 0}

More(f, n, p) == [f EXCEPT ![n][p] = @ + 1]
Fewer(f, n, p) == [f EXCEPT ![n][p] = @ - 1]

Init == /\ conn = [n \in Node |-> {}]
        /\ sess = [n \in Node |-> [p \in Node |-> "none"]]
        /\ late = [n \in Node |-> [p \in Node |-> 0]]
        /\ ending = [n \in Node |-> [p \in Node |-> 0]]
        /\ deleting = [n \in Node |-> [p \in Node |-> 0]]
        /\ phantom = [n \in Node |-> {}]
        /\ robbed = [n \in Node |-> {}]
        /\ rib = [n \in Node |-> [d \in Dest |-> NoRoute]]
        /\ chan = [n \in Node |-> [p \in Node |-> <<>>]]
        /\ dials = 0
        /\ churn = 0

-----------------------------------------------------------------------------
(* Advertising                                                              *)

(* sendRoutesTo: the message for p leaves out what is routed via p.         *)
AdFor(r, p) == [d \in Dest |-> IF r[d].next = p THEN Infinity ELSE r[d].metric]

(* The channels after n, with RIB r, has written one message to each of ps. *)
Sent(c, n, r, ps) ==
    [c EXCEPT ![n] = [p \in Node |-> IF p \in ps THEN Append(c[n][p], AdFor(r, p))
                                                 ELSE c[n][p]]]

(* advertiseRoutes: a write on a dead session is lost.                      *)
advertiseRoutes(n, r) == Sent(chan, n, r, Live(n))

-----------------------------------------------------------------------------
(* Applying an advertisement                                                *)

(* Faults of Offer: the hop to the peer is not counted; a route is taken    *)
(* over from another next hop without comparing metrics.                    *)
OfferUncounted(e, p, m) ==
    IF m >= Infinity
    THEN IF e.next = p THEN NoRoute ELSE e
    ELSE IF e.next = NoNode \/ e.next = p \/ m < e.metric
         THEN Via(p, m) ELSE e

OfferLatest(e, p, m) ==
    IF m + 1 >= Infinity
    THEN IF e.next = p THEN NoRoute ELSE e
    ELSE Via(p, m + 1)

(* One listed route (metric m from peer p) against the entry e.             *)
Offer(e, p, m) ==
    IF m + 1 >= Infinity
    THEN IF e.next = p THEN NoRoute ELSE e
    ELSE IF e.next = NoNode \/ e.next = p \/ m + 1 < e.metric
         THEN Via(p, m + 1) ELSE e

(* Faults of Withdraw: no hold-down; no withdraw.                           *)
WithdrawAtOnce(e, p) == IF e.next = p THEN NoRoute ELSE e

WithdrawNever(e, p) == e

(* An entry via p that p's message does not list: marked, then deleted once *)
(* the hold-down has elapsed.                                               *)
Withdraw(e, p) ==
    IF e.next # p THEN e
    ELSE CASE e.stale = "fresh"   -> [e EXCEPT !.stale = "held"]
           [] e.stale = "held"    -> e
           [] e.stale = "expired" -> NoRoute

(* The entry for d in the four stages of handleRoutes at node n: the direct *)
(* neighbour, the origin's own routes, the routes the peer learned, and the *)
(* implicit withdraw of what the message did not mention.                   *)
Direct(n, p, d) ==
    LET e == rib[n][d] IN
    IF d = p /\ (e.next # p \/ e.metric # 1) THEN Via(p, 1) ELSE e

Originated(n, p, d) ==
    LET e == Direct(n, p, d) IN
    IF d # n /\ d \in Origin(p) THEN Offer(e, p, 0) ELSE e

(* Fault of Learned: the peer's metric is taken over as it stands.          *)
LearnedUncounted(n, p, d, ad) ==
    LET e == Originated(n, p, d) IN
    IF d # n /\ ad[d] < Infinity THEN Offer(e, p, ad[d] - 1) ELSE e

Learned(n, p, d, ad) ==
    LET e == Originated(n, p, d) IN
    IF d # n /\ ad[d] < Infinity THEN Offer(e, p, ad[d]) ELSE e

Mentioned(n, p, d, ad) ==
    d = p \/ (d # n /\ (d \in Origin(p) \/ ad[d] < Infinity))

Applied(n, p, d, ad) ==
    LET e == Learned(n, p, d, ad) IN
    IF Mentioned(n, p, d, ad) THEN e ELSE Withdraw(e, p)

(* The `changed` flag: any assignment or deletion on the way sets it, even  *)
(* one a later stage undoes; marking an entry stale does not.               *)
Changed(n, p, d, ad) ==
    \/ Direct(n, p, d) # rib[n][d]
    \/ Originated(n, p, d) # Direct(n, p, d)
    \/ Learned(n, p, d, ad) # Originated(n, p, d)
    \/ /\ Applied(n, p, d, ad) = NoRoute
       /\ Learned(n, p, d, ad) # NoRoute

-----------------------------------------------------------------------------
(* Connections and sessions                                                 *)

(* Dial and accept complete the TLS handshake and the hello exchange.       *)
Connect(n, p) ==
    /\ p \in Peers[n] \ conn[n]
    /\ dials < MaxDials
    /\ dials' = dials + 1
    /\ conn' = [conn EXCEPT ![n] = @ \cup {p}, ![p] = @ \cup {n}]
    /\ UNCHANGED <<sess, goroutines, rib, chan, churn, phantom, robbed>>

(* establish, under mu: the session is registered, in place of a dead one   *)
(* whose reader has yet to notice and will find itself replaced.  readLoop  *)
(* starts; onSessionUp is to come.                                          *)
Register(n, p) ==
    /\ p \in conn[n]
    /\ sess[n][p] \in {"none", "dead"}
    /\ sess' = [sess EXCEPT ![n][p] = "new"]
    /\ ending' = IF sess[n][p] = "dead" THEN More(ending, n, p) ELSE ending
    /\ phantom' = [phantom EXCEPT ![n] = @ \ {p}]
    /\ UNCHANGED <<conn, late, deleting, rib, chan, dials, churn, robbed>>

WithDirect(n, p) == [d \in Dest |-> IF d = p THEN Via(p, 1) ELSE rib[n][d]]

(* Fault of SessionUp: the direct route is left to the peer's first message. *)
SessionUpBare(n, p) ==
    /\ sess[n][p] = "new"
    /\ sess' = [sess EXCEPT ![n][p] = "live"]
    /\ chan' = Sent(Sent(chan, n, rib[n], {p}), n, rib[n], Live(n))
    /\ UNCHANGED <<conn, goroutines, rib, dials, churn, phantom, robbed>>

(* onSessionUp, called by establish: the direct route under routeMu, then   *)
(* sendRoutesTo and advertiseRoutes, which both write to the new session.   *)
SessionUp(n, p) ==
    /\ sess[n][p] = "new"
    /\ sess' = [sess EXCEPT ![n][p] = "live"]
    /\ LET r == WithDirect(n, p)
       IN  /\ rib' = [rib EXCEPT ![n] = r]
           /\ chan' = Sent(Sent(chan, n, r, {p}), n, r, Live(n))
    /\ robbed' = [robbed EXCEPT ![n] = @ \ {p}]
    /\ UNCHANGED <<conn, goroutines, dials, churn, phantom>>

(* onSessionUp of a session that was lost meanwhile, perhaps replaced or    *)
(* cleaned up too: it installs the route all the same.                      *)
LateSessionUp(n, p) ==
    /\ late[n][p] > 0
    /\ late' = Fewer(late, n, p)
    /\ LET r == WithDirect(n, p)
       IN  /\ rib' = [rib EXCEPT ![n] = r]
           /\ chan' = advertiseRoutes(n, r)
    /\ phantom' = IF p \in Owned(n) THEN phantom
                  ELSE [phantom EXCEPT ![n] = @ \cup ({p} \cap Dest)]
    /\ robbed' = [robbed EXCEPT ![n] = @ \ {p}]
    /\ UNCHANGED <<conn, sess, ending, deleting, dials, churn>>

(* What losing its connection does to an entry of the session map.          *)
Lost(s) == IF s \in {"new", "live"} THEN "dead" ELSE s

(* x and y are the two ends of a connection between n and p.                *)
Ends(n, p, x, y) == (x = n /\ y = p) \/ (x = p /\ y = n)

(* The connection is lost, with everything in flight on it.                 *)
Disconnect(n, p) ==
    /\ p \in conn[n] \cap Lossy[n]
    /\ churn < MaxChurn
    /\ churn' = churn + 1
    /\ conn' = [conn EXCEPT ![n] = @ \ {p}, ![p] = @ \ {n}]
    /\ sess' = [x \in Node |-> [y \in Node |->
                  IF Ends(n, p, x, y) THEN Lost(sess[x][y]) ELSE sess[x][y]]]
    /\ late' = [x \in Node |-> [y \in Node |->
                  IF Ends(n, p, x, y) /\ sess[x][y] = "new" THEN late[x][y] + 1
                                                           ELSE late[x][y]]]
    /\ chan' = [x \in Node |-> [y \in Node |->
                  IF Ends(n, p, x, y) THEN <<>> ELSE chan[x][y]]]
    /\ UNCHANGED <<ending, deleting, rib, dials, phantom, robbed>>

(* readLoop returns: it takes its session out of the map, under mu.         *)
Unregister(n, p) ==
    /\ sess[n][p] = "dead"
    /\ sess' = [sess EXCEPT ![n][p] = "none"]
    /\ ending' = More(ending, n, p)
    /\ UNCHANGED <<conn, late, deleting, rib, chan, dials, churn, phantom, robbed>>

(* onSessionDown looks for a newer session, under mu, and leaves the routes *)
(* to that one if there is.                                                 *)
SessionDownCheck(n, p) ==
    /\ ending[n][p] > 0
    /\ ending' = Fewer(ending, n, p)
    /\ deleting' = IF sess[n][p] = "none" THEN More(deleting, n, p) ELSE deleting
    /\ UNCHANGED <<conn, sess, late, rib, chan, dials, churn, phantom, robbed>>

(* Fault of SessionDown: only the peer's own route is deleted.              *)
SessionDownDirect(n, p) ==
    /\ deleting[n][p] > 0
    /\ deleting' = Fewer(deleting, n, p)
    /\ rib' = [rib EXCEPT ![n] = [d \in Dest |-> IF d = p THEN NoRoute ELSE @[d]]]
    /\ chan' = advertiseRoutes(n, rib'[n])
    /\ robbed' = IF sess[n][p] = "none" THEN robbed
                 ELSE [robbed EXCEPT ![n] = @ \cup ({p} \cap Dest)]
    /\ UNCHANGED <<conn, sess, late, ending, dials, churn, phantom>>

(* onSessionDown, under routeMu: everything routed via the peer goes, and   *)
(* with it the routes of a session registered since the check.              *)
SessionDown(n, p) ==
    /\ deleting[n][p] > 0
    /\ deleting' = Fewer(deleting, n, p)
    /\ LET r == [d \in Dest |-> IF rib[n][d].next = p THEN NoRoute ELSE rib[n][d]]
       IN  /\ rib' = [rib EXCEPT ![n] = r]
           /\ chan' = IF r # rib[n] THEN advertiseRoutes(n, r) ELSE chan
    /\ robbed' = IF sess[n][p] = "none" THEN robbed
                 ELSE [robbed EXCEPT ![n] = @ \cup ({p} \cap Dest)]
    /\ UNCHANGED <<conn, sess, late, ending, dials, churn, phantom>>

(* The process dies (or Close) and comes back: the RIB and the sessions are *)
(* in memory only, so it restarts from nothing.                             *)
Crash(n) ==
    /\ n \in Mortal
    /\ churn < MaxChurn
    /\ churn' = churn + 1
    /\ conn' = [q \in Node |-> IF q = n THEN {} ELSE conn[q] \ {n}]
    /\ sess' = [q \in Node |-> IF q = n THEN [p \in Node |-> "none"]
                               ELSE [sess[q] EXCEPT ![n] = Lost(@)]]
    /\ late' = [q \in Node |->
                  IF q = n THEN [p \in Node |-> 0]
                  ELSE [late[q] EXCEPT ![n] = IF sess[q][n] = "new" THEN @ + 1 ELSE @]]
    /\ ending' = [ending EXCEPT ![n] = [p \in Node |-> 0]]
    /\ deleting' = [deleting EXCEPT ![n] = [p \in Node |-> 0]]
    /\ rib' = [rib EXCEPT ![n] = [d \in Dest |-> NoRoute]]
    /\ chan' = [q \in Node |-> [p \in Node |->
                  IF q = n \/ p = n THEN <<>> ELSE chan[q][p]]]
    /\ phantom' = [phantom EXCEPT ![n] = {}]
    /\ robbed' = [robbed EXCEPT ![n] = {}]
    /\ UNCHANGED dials

-----------------------------------------------------------------------------
(* Route updates                                                            *)

(* readLoop of n reads a "routes" message from p: handleRoutes.             *)
HandleRoutes(n, p) ==
    /\ p \in Live(n)
    /\ chan[p][n] # <<>>
    /\ LET ad   == Head(chan[p][n])
           r    == [d \in Dest |-> Applied(n, p, d, ad)]
           left == [chan EXCEPT ![p][n] = Tail(@)]
       IN  /\ rib' = [rib EXCEPT ![n] = r]
           /\ chan' = IF \E d \in Dest : Changed(n, p, d, ad)
                      THEN Sent(left, n, r, Live(n)) ELSE left
    /\ robbed' = [robbed EXCEPT ![n] = @ \ {p}]
    /\ UNCHANGED <<conn, sess, goroutines, dials, churn, phantom>>

(* Three seconds pass since the entry went stale.                           *)
HolddownElapses(n, d) ==
    /\ rib[n][d].stale = "held"
    /\ rib' = [rib EXCEPT ![n][d].stale = "expired"]
    /\ UNCHANGED <<conn, sess, goroutines, chan, dials, churn, phantom, robbed>>

(* Bound on spontaneous sends: the previous ones are nearly all read.       *)
MaySend(n) == \A p \in Live(n) : Len(chan[n][p]) < MaxInFlight

(* expireStaleRoutes: what is left of a RIB.                                *)
Unexpired(n) ==
    [d \in Dest |-> IF rib[n][d].stale = "expired" THEN NoRoute ELSE rib[n][d]]

(* The routeRefresh tick of maintainLoop: expireStaleRoutes (advertising    *)
(* when it deleted something), then advertiseRoutes unconditionally.        *)
Maintain(n) ==
    /\ MaySend(n)
    /\ LET r == Unexpired(n)
           first == IF r # rib[n] THEN advertiseRoutes(n, r) ELSE chan
       IN  /\ rib' = [rib EXCEPT ![n] = r]
           /\ chan' = Sent(first, n, r, Live(n))
    /\ UNCHANGED <<conn, sess, goroutines, dials, churn, phantom, robbed>>

(* A handler changed a destination outside Dest and advertised everything.  *)
(* Destinations do not influence one another in any other way.              *)
ChangeElsewhere(n) ==
    /\ Dest # AllDest
    /\ MaySend(n)
    /\ chan' = advertiseRoutes(n, rib[n])
    /\ UNCHANGED <<conn, sess, goroutines, rib, dials, churn, phantom, robbed>>

Next ==
    \/ \E n \in Node : \E p \in Peers[n] : \/ Connect(n, p)
                                         \/ Disconnect(n, p)
                                         \/ Register(n, p)
                                         \/ SessionUp(n, p)
                                         \/ LateSessionUp(n, p)
                                         \/ Unregister(n, p)
                                         \/ SessionDownCheck(n, p)
                                         \/ SessionDown(n, p)
                                         \/ HandleRoutes(n, p)
    \/ \E n \in Node : \/ Crash(n)
                       \/ Maintain(n)
                       \/ ChangeElsewhere(n)
                       \/ \E d \in Dest : HolddownElapses(n, d)

(* Goroutines that can run do run: establish finishes on a connection that  *)
(* stays up, readLoop reads, notices a dead connection and cleans up, the   *)
(* refresh ticker ticks, time passes.  Nothing forces a connection to come  *)
(* up, stay up or fail.                                                     *)
Fairness ==
    /\ \A n \in Node : \A p \in Peers[n] :
          /\ WF_vars(Register(n, p) \/ SessionUp(n, p) \/ LateSessionUp(n, p))
          /\ WF_vars(HandleRoutes(n, p) \/ Unregister(n, p)
                     \/ SessionDownCheck(n, p) \/ SessionDown(n, p))
    /\ \A n \in Node : /\ WF_vars(Maintain(n))
                       /\ \A d \in Dest : WF_vars(HolddownElapses(n, d))

Spec == Init /\ [][Next]_vars

-----------------------------------------------------------------------------
(* Invariants                                                               *)

(* Every variable stays in the range the code gives it.                     *)
TypeOK == /\ conn \in [Node -> SUBSET Node]
          /\ sess \in [Node -> [Node -> SessState]]
          /\ late \in [Node -> [Node -> Nat]]
          /\ ending \in [Node -> [Node -> Nat]]
          /\ deleting \in [Node -> [Node -> Nat]]
          /\ phantom \in [Node -> SUBSET Node]
          /\ robbed \in [Node -> SUBSET Node]
          /\ rib \in [Node -> [Dest -> Entry]]
          /\ chan \in [Node -> [Node -> Seq(Ad)]]
          /\ dials \in 0 .. MaxDials
          /\ churn \in 0 .. MaxChurn

(* No RIB entry and no advertisement in flight claims a destination is      *)
(* nearer than it can be: handleRoutes adds one per hop, so neither stale   *)
(* routes, hold-down nor counting to infinity ever shortens a path.         *)
MetricNeverUnderestimates ==
    \A n \in Node : \A d \in Dest :
        /\ HopDist[n][d] <= rib[n][d].metric \/ rib[n][d] = NoRoute
        /\ \A p \in Node : \A i \in 1 .. Len(chan[n][p]) :
              \/ chan[n][p][i][d] = Infinity
              \/ HopDist[n][d] <= chan[n][p][i][d]

(* Every route will be withdrawn when its next hop is lost: it goes through *)
(* a peer whose session readLoop still owns, or the onSessionDown of an     *)
(* earlier session is still to delete it.  The exception is the direct      *)
(* route of an onSessionUp that comes after the last clean-up: that one     *)
(* stays.  No learned route ever does.                                      *)
RoutesHaveSessions ==
    \A n \in Node : \A d \in Dest :
        rib[n][d] # NoRoute =>
            \/ rib[n][d].next \in Owned(n)
            \/ d = rib[n][d].next /\ d \in phantom[n]

(* A registered peer is routed directly at one hop and never goes stale,    *)
(* whatever other peers advertise about it.  The exceptions: onSessionUp    *)
(* has yet to run, or an onSessionDown that checked before the session was  *)
(* registered has deleted the route after it, and the peer has not been     *)
(* heard of since.                                                          *)
NeighborsAreDirect ==
    \A n \in Node : \A p \in Node \cap Dest :
        sess[n][p] # "none" => \/ rib[n][p] = Via(p, 1)
                               \/ sess[n][p] = "new" \/ late[n][p] > 0
                               \/ p \in robbed[n]

(* Three nodes never hand a packet round in a circle: following RIB next    *)
(* hops over live sessions, which nextHop does for a packet that did not    *)
(* come from that hop, never returns to where it started (distance vector   *)
(* and split horizon, rather than the Hop Limit, prevent loops).            *)
Forwards(x, y, d) == rib[x][d].next = y /\ y \in Live(x)

NoForwardingLoop ==
    \A x, y, z \in Node : \A d \in Dest :
        (x # y /\ y # z /\ z # x) =>
            ~ (Forwards(x, y, d) /\ Forwards(y, z, d) /\ Forwards(z, x, d))

(* A node that reaches the default route through an exit it has a session   *)
(* with counts one hop (metric 1 is a direct peer).                         *)
AdjacentExitIsOneHop ==
    DefaultRoute \in Dest =>
        \A n \in Node :
            LET e == rib[n][DefaultRoute] IN e.next \in Exits => e.metric = 1

-----------------------------------------------------------------------------
(* Action properties                                                        *)

(* A route to a node moves to another next hop only when that is shorter    *)
(* (the Bellman-Ford comparison of handleRoutes), unless the old one was    *)
(* lost in the meantime.                                                    *)
Switch(d) ==
    \A n \in Node : (/\ rib[n][d] # NoRoute
                     /\ rib'[n][d] # NoRoute
                     /\ rib'[n][d].next # rib[n][d].next)
                        => rib'[n][d].metric < rib[n][d].metric

NodeRoutesSwitchToShorter == [][\A d \in Dest \cap Node : Switch(d)]_vars

(* One sparse advertisement never costs a node a route: while the next      *)
(* hop's session is registered, a route is deleted only after a full        *)
(* hold-down, or because the next hop, or an exit that is about to replace  *)
(* it, reports it at the infinity limit, or by the onSessionDown of an      *)
(* earlier session that was past its look at the session map.               *)
HolddownProtects ==
    [][\A n \in Node : \A d \in Dest :
          LET p == rib[n][d].next IN
          (/\ rib[n][d] # NoRoute /\ rib'[n][d] = NoRoute
           /\ sess'[n][p] # "none")
          => \/ rib[n][d].stale = "expired"
             \/ deleting'[n][p] < deleting[n][p]
             \/ \E q \in Node : /\ q = p \/ d \in Origin(q)
                                /\ chan[q][n] # <<>>
                                /\ Head(chan[q][n])[d] = Infinity - 1]_vars

(* A peer's update that omits a destination learned from it (other than its *)
(* own ULA) drops the entry.                                                *)
ImplicitWithdrawDrops ==
    [][\A n \in Node : \A p \in Node \ {n} : \A d \in Dest \ {p} :
          (/\ chan[p][n] # <<>> /\ chan'[p][n] = Tail(chan[p][n])
           /\ p \in Live(n) /\ sess'[n][p] = sess[n][p]
           /\ rib[n][d].next = p
           /\ d \notin Origin(p) /\ Head(chan[p][n])[d] = Infinity)
          => rib'[n][d].next # p]_vars

-----------------------------------------------------------------------------
(* Convergence                                                              *)

Cost(n, d) == IF d \in Origin(n) THEN 0 ELSE rib[n][d].metric

(* Every RIB is the shortest-path solution on the connections that are up:  *)
(* a fixed point of the Bellman-Ford equations, with fresh entries only,    *)
(* and no route to what cannot be reached.                                  *)
Converged ==
    \A n \in Node : \A d \in Dest \ Origin(n) :
        LET near == {p \in conn[n] : Cost(p, d) + 1 < Infinity} IN
        IF near = {} THEN rib[n][d] = NoRoute
        ELSE \E p \in near : /\ rib[n][d] = Via(p, Cost(p, d) + 1)
                             /\ \A q \in near : Cost(p, d) <= Cost(q, d)

(* Once connections stop changing the mesh heals: advertisements, triggered *)
(* and periodic, and the hold-down timer bring every RIB to the shortest    *)
(* paths and keep it there, with loops and lost destinations counted out,   *)
(* unless a direct route without a session stays for ever.                  *)
NoPhantoms == \A n \in Node : phantom[n] = {}

EventuallyConverged == <>[]NoPhantoms => <>[]Converged
=============================================================================
