----------------------------- MODULE RoutingProof -----------------------------
(***************************************************************************)
(* Safety of the distance-vector routing of module Routing, for every set  *)
(* of nodes, links, exits and destinations and every value of the bounds.  *)
(***************************************************************************)
EXTENDS Routing, TLAPS

(* What a RIB and an advertisement of node n may claim: never a route to n  *)
(* itself, never a destination nearer than it can be, and a peer that is    *)
(* the next hop to itself at one hop and fresh.                             *)
RibSound(n, r) ==
    \A d \in Dest : \/ r[d] = NoRoute
                    \/ /\ d # n /\ r[d].next \in Node /\ HopDist[n][d] <= r[d].metric
                       /\ r[d].next = d => r[d] = Via(d, 1)

AdSound(n, ad) ==
    \A d \in Dest : ad[d] = Infinity \/ (d # n /\ HopDist[n][d] <= ad[d])

ChanType(c) == c \in [Node -> [Node -> Seq(Ad)]]

ChanSound(c) ==
    \A n, p \in Node : \A i \in 1 .. Len(c[n][p]) : AdSound(n, c[n][p][i])

Sound == /\ \A n \in Node : RibSound(n, rib[n])
         /\ ChanSound(chan)

(* The inductive invariant.  NeighborsAreDirect needs Sound: a peer that    *)
(* listed its own ULA at a metric of its own would displace the direct      *)
(* route.                                                                   *)
IInv == TypeOK /\ Sound /\ RoutesHaveSessions /\ NeighborsAreDirect

-----------------------------------------------------------------------------
(* Routes and messages                                                      *)

LEMMA NoRouteType == NoRoute \in Entry
BY BoundsAssumption DEF NoRoute, Entry, Staleness

LEMMA ViaType ==
    ASSUME NEW p \in Node, NEW m \in Nat, 1 <= m, m < Infinity
    PROVE  Via(p, m) \in Entry /\ Via(p, m) # NoRoute
BY BoundsAssumption, NodeAssumption DEF Via, NoRoute, Entry, Staleness

(* An advertisement made from a sound RIB is sound. *)
LEMMA AdForSound ==
    ASSUME NEW n \in Node, NEW p \in Node, NEW r \in [Dest -> Entry],
           RibSound(n, r)
    PROVE  AdFor(r, p) \in Ad /\ AdSound(n, AdFor(r, p))
<1>1. AdFor(r, p) \in Ad
  BY BoundsAssumption DEF AdFor, Ad, Entry
<1>2. ASSUME NEW d \in Dest
      PROVE  AdFor(r, p)[d] = Infinity
             \/ (d # n /\ HopDist[n][d] <= AdFor(r, p)[d])
  <2>1. r[d] = NoRoute \/ (d # n /\ HopDist[n][d] <= r[d].metric)
    BY DEF RibSound
  <2>2. NoRoute.metric = Infinity
    BY DEF NoRoute
  <2> QED BY <2>1, <2>2 DEF AdFor
<1> QED BY <1>1, <1>2 DEF AdSound

(* Writing messages leaves the channels well typed and sound. *)
LEMMA SentSound ==
    ASSUME NEW c, ChanType(c), ChanSound(c),
           NEW n \in Node, NEW ps \in SUBSET Node,
           NEW r \in [Dest -> Entry], RibSound(n, r)
    PROVE  ChanType(Sent(c, n, r, ps)) /\ ChanSound(Sent(c, n, r, ps))
<1> DEFINE s == Sent(c, n, r, ps)
<1>1. ASSUME NEW x \in Node, NEW y \in Node
      PROVE  s[x][y] = IF x = n /\ y \in ps THEN Append(c[x][y], AdFor(r, y))
                                            ELSE c[x][y]
  BY DEF Sent, ChanType
<1>2. \A y \in Node : AdFor(r, y) \in Ad /\ AdSound(n, AdFor(r, y))
  BY AdForSound
<1>3. ASSUME NEW x \in Node, NEW y \in Node
      PROVE  s[x][y] \in Seq(Ad)
  <2>1. c[x][y] \in Seq(Ad) /\ AdFor(r, y) \in Ad
    BY <1>2 DEF ChanType
  <2>2. Append(c[x][y], AdFor(r, y)) \in Seq(Ad)
    BY <2>1
  <2> QED BY <1>1, <2>1, <2>2
<1>4. ChanType(s)
  BY <1>3 DEF ChanType, Sent
<1>5. ASSUME NEW x \in Node, NEW y \in Node, NEW i \in 1 .. Len(s[x][y])
      PROVE  AdSound(x, s[x][y][i])
  <2>1. CASE x = n /\ y \in ps
    <3>1. s[x][y] = Append(c[x][y], AdFor(r, y)) /\ c[x][y] \in Seq(Ad)
      BY <1>1, <2>1 DEF ChanType
    <3>2. \/ i \in 1 .. Len(c[x][y]) /\ s[x][y][i] = c[x][y][i]
          \/ s[x][y][i] = AdFor(r, y)
      BY <3>1
    <3> QED BY <3>2, <2>1, <1>2 DEF ChanSound
  <2>2. CASE ~ (x = n /\ y \in ps)
    BY <2>2, <1>1 DEF ChanSound
  <2> QED BY <2>1, <2>2
<1>6. ChanSound(s)
  BY <1>5 DEF ChanSound
<1> QED BY <1>4, <1>6

-----------------------------------------------------------------------------
(* handleRoutes                                                             *)

(* What one stage of handleRoutes at node n, reading from peer p, may do to *)
(* the entry e of destination d.                                            *)
EntrySound(n, p, d, e) ==
    /\ e \in Entry
    /\ e = NoRoute \/ (d # n /\ e.next \in Node /\ HopDist[n][d] <= e.metric)
    /\ (d \in Node /\ e.next = d) => e = Via(d, 1)
    /\ e = NoRoute \/ e.next = p \/ e = rib[n][d]
    /\ (d = p) => e = Via(p, 1)
    /\ (d \in Node /\ d # p /\ rib[n][d] = Via(d, 1)) => e = rib[n][d]

LEMMA OfferSound ==
    ASSUME NEW n \in Node, NEW p \in Peers[n], NEW d \in Dest, d # n,
           NEW m \in Nat, NEW e, EntrySound(n, p, d, e),
           HopDist[n][d] <= m + 1, d = p => m = 0
    PROVE  EntrySound(n, p, d, Offer(e, p, m))
<1> DEFINE o == Offer(e, p, m)
<1>0. p \in Node /\ p # n
  BY PeersAssumption
<1>1. CASE m + 1 >= Infinity
  <2>1. d # p
    BY <1>1, BoundsAssumption
  <2>2. o = IF e.next = p THEN NoRoute ELSE e
    BY <1>1 DEF Offer
  <2>3. CASE e.next = p
    <3>1. ~ (d \in Node /\ rib[n][d] = Via(d, 1))
      BY <2>1, <2>3 DEF EntrySound, Via
    <3> QED BY <2>1, <2>2, <2>3, <3>1, NoRouteType, NodeAssumption DEF EntrySound, NoRoute
  <2>4. CASE e.next # p
    BY <2>2, <2>4 DEF EntrySound
  <2> QED BY <2>3, <2>4
<1>2. CASE m + 1 < Infinity
  <2>1. Via(p, m + 1) \in Entry /\ Via(p, m + 1).next = p
        /\ Via(p, m + 1).metric = m + 1
    BY <1>0, <1>2, ViaType DEF Via
  <2>2. CASE e.next = NoNode \/ e.next = p \/ m + 1 < e.metric
    <3>1. o = Via(p, m + 1)
      BY <1>2, <2>2, BoundsAssumption DEF Offer
    <3>2. ~ (d \in Node /\ d # p /\ rib[n][d] = Via(d, 1))
      BY <2>2, <1>0, NodeAssumption DEF EntrySound, Via
    <3>3. d = p => Via(p, m + 1) = Via(p, 1)
      OBVIOUS
    <3> QED BY <1>0, <3>1, <3>2, <3>3, <2>1 DEF EntrySound
  <2>3. CASE ~ (e.next = NoNode \/ e.next = p \/ m + 1 < e.metric)
    <3>1. o = e
      BY <1>2, <2>3, BoundsAssumption DEF Offer
    <3> QED BY <3>1
  <2> QED BY <2>2, <2>3
<1> QED BY <1>1, <1>2, BoundsAssumption

(* The handler as a whole keeps an entry sound, routed via the sender or    *)
(* unchanged, and leaves direct neighbours alone.                           *)
LEMMA AppliedSound ==
    ASSUME IInv, NEW n \in Node, NEW p \in Peers[n], NEW d \in Dest,
           NEW ad \in Ad, AdSound(p, ad)
    PROVE  EntrySound(n, p, d, Applied(n, p, d, ad))
<1>0. p \in Node /\ p # n /\ n \in Peers[p]
  BY PeersAssumption
<1>1. /\ rib[n][d] \in Entry
      /\ \/ rib[n][d] = NoRoute
         \/ /\ d # n /\ rib[n][d].next \in Node
            /\ HopDist[n][d] <= rib[n][d].metric
      /\ (d \in Node /\ rib[n][d].next = d) => rib[n][d] = Via(d, 1)
  BY NodeAssumption DEF IInv, TypeOK, Sound, RibSound, NoRoute
<1>2. HopDist[n][d] \in Nat /\ HopDist[p][d] \in Nat
      /\ HopDist[n][d] <= HopDist[p][d] + 1
  BY <1>0, HopDistAssumption
<1>3. d \in Origin(p) => HopDist[p][d] = 0
  BY <1>0, HopDistAssumption
<1>4. d = p => d \in Origin(p)
  BY DEF Origin
<1>5. EntrySound(n, p, d, Direct(n, p, d))
  <2>1. CASE d = p /\ (rib[n][d].next # p \/ rib[n][d].metric # 1)
    <3>1. Direct(n, p, d) = Via(p, 1)
      BY <2>1 DEF Direct
    <3>2. Via(p, 1) \in Entry /\ Via(p, 1).next = p /\ Via(p, 1).metric = 1
      BY <1>0, ViaType, BoundsAssumption DEF Via
    <3> QED BY <2>1, <3>1, <3>2, <1>0, <1>2, <1>3, <1>4 DEF EntrySound
  <2>2. CASE d = p /\ ~ (rib[n][d].next # p \/ rib[n][d].metric # 1)
    <3>1. Direct(n, p, d) = rib[n][d]
      BY <2>2 DEF Direct
    <3>2. rib[n][d] # NoRoute
      BY <2>2, <1>0, NodeAssumption DEF NoRoute
    <3>3. rib[n][d] = Via(p, 1)
      BY <3>2, <2>2 DEF IInv, Sound, RibSound
    <3> QED BY <1>0, <1>1, <2>2, <3>1, <3>3 DEF EntrySound
  <2>3. CASE d # p
    <3>1. Direct(n, p, d) = rib[n][d]
      BY <2>3 DEF Direct
    <3> QED BY <1>1, <2>3, <3>1 DEF EntrySound
  <2> QED BY <2>1, <2>2, <2>3
<1>6. EntrySound(n, p, d, Originated(n, p, d))
  <2>1. CASE d # n /\ d \in Origin(p)
    <3>1. HopDist[n][d] <= 0 + 1
      BY <2>1, <1>2, <1>3
    <3>2. EntrySound(n, p, d, Offer(Direct(n, p, d), p, 0))
      BY <1>5, <2>1, <3>1, OfferSound
    <3> QED BY <2>1, <3>2 DEF Originated
  <2>2. CASE ~ (d # n /\ d \in Origin(p))
    BY <2>2, <1>5 DEF Originated
  <2> QED BY <2>1, <2>2
<1>7. EntrySound(n, p, d, Learned(n, p, d, ad))
  <2>1. CASE d # n /\ ad[d] < Infinity
    <3>1. ad[d] \in Nat /\ d # p /\ HopDist[p][d] <= ad[d]
      BY <2>1, BoundsAssumption DEF AdSound, Ad
    <3>2. HopDist[n][d] <= ad[d] + 1
      BY <3>1, <1>2
    <3>3. EntrySound(n, p, d, Offer(Originated(n, p, d), p, ad[d]))
      BY <1>6, <2>1, <3>1, <3>2, OfferSound
    <3> QED BY <2>1, <3>3 DEF Learned
  <2>2. CASE ~ (d # n /\ ad[d] < Infinity)
    BY <2>2, <1>6 DEF Learned
  <2> QED BY <2>1, <2>2
<1>8. CASE Mentioned(n, p, d, ad)
  BY <1>7, <1>8 DEF Applied
<1>9. CASE ~ Mentioned(n, p, d, ad)
  <2> DEFINE e == Learned(n, p, d, ad)
  <2>1. d # p /\ Applied(n, p, d, ad) = Withdraw(e, p)
    BY <1>9 DEF Applied, Mentioned
  <2>2. e \in Entry
    BY <1>7 DEF EntrySound
  <2>3. Withdraw(e, p) = e
        \/ (e.next = p /\ Withdraw(e, p) = NoRoute)
        \/ (e.next = p /\ Withdraw(e, p) = [e EXCEPT !.stale = "held"])
    <3>1. e.stale \in {"fresh", "held", "expired"}
      BY <2>2 DEF Entry, Staleness
    <3>2. CASE e.next # p
      BY <3>2 DEF Withdraw
    <3>3. CASE e.next = p /\ e.stale = "fresh"
      BY <3>3 DEF Withdraw
    <3>4. CASE e.next = p /\ e.stale = "held"
      BY <3>4 DEF Withdraw
    <3>5. CASE e.next = p /\ e.stale = "expired"
      BY <3>5 DEF Withdraw
    <3> QED BY <3>1, <3>2, <3>3, <3>4, <3>5
  <2>4. CASE Withdraw(e, p) = e
    BY <2>1, <2>4, <1>7
  <2>5. e.next = p => ~ (d \in Node /\ rib[n][d] = Via(d, 1))
    BY <2>1, <1>7 DEF EntrySound, Via
  <2>6. CASE e.next = p /\ Withdraw(e, p) = NoRoute
    BY <2>1, <2>5, <2>6, NoRouteType, NodeAssumption DEF EntrySound, NoRoute
  <2>7. CASE e.next = p /\ Withdraw(e, p) = [e EXCEPT !.stale = "held"]
    <3> DEFINE f == [e EXCEPT !.stale = "held"]
    <3>1. f \in Entry /\ f.next = p /\ f.metric = e.metric
      BY <2>2, <2>7 DEF Entry, Staleness
    <3>2. e # NoRoute
      BY <2>7, <1>0, NodeAssumption DEF NoRoute
    <3>3. d # n /\ HopDist[n][d] <= e.metric
      BY <3>2, <1>7 DEF EntrySound
    <3> QED BY <1>0, <2>1, <2>5, <2>7, <3>1, <3>3 DEF EntrySound
  <2> QED BY <2>3, <2>4, <2>6, <2>7
<1> QED BY <1>8, <1>9

-----------------------------------------------------------------------------
(* The invariant is inductive                                               *)

LEMMA InitIInv == Init => IInv
<1> SUFFICES ASSUME Init PROVE IInv
  OBVIOUS
<1>1. TypeOK
  BY NoRouteType, BoundsAssumption DEF Init, TypeOK, SessState
<1>2. Sound
  BY DEF Init, Sound, RibSound, ChanSound
<1>3. RoutesHaveSessions /\ NeighborsAreDirect
  BY DEF Init, RoutesHaveSessions, NeighborsAreDirect
<1> QED BY <1>1, <1>2, <1>3 DEF IInv

(* A count of goroutines goes up or down by one.                            *)
LEMMA MoreCounts ==
    ASSUME NEW f \in [Node -> [Node -> Nat]], NEW n \in Node, NEW p \in Node,
           f[n][p] \in Nat
    PROVE  /\ More(f, n, p) \in [Node -> [Node -> Nat]]
           /\ \A x, y \in Node : More(f, n, p)[x][y]
                 = IF x = n /\ y = p THEN f[x][y] + 1 ELSE f[x][y]
<1>1. f[n][p] + 1 \in Nat
  OBVIOUS
<1> QED BY <1>1 DEF More

LEMMA FewerCounts ==
    ASSUME NEW f \in [Node -> [Node -> Nat]], NEW n \in Node, NEW p \in Node,
           f[n][p] > 0
    PROVE  /\ Fewer(f, n, p) \in [Node -> [Node -> Nat]]
           /\ \A x, y \in Node : Fewer(f, n, p)[x][y]
                 = IF x = n /\ y = p THEN f[x][y] - 1 ELSE f[x][y]
<1>1. f[n][p] - 1 \in Nat
  <2>1. f[n][p] \in Nat
    OBVIOUS
  <2> QED BY <2>1
<1> QED BY <1>1 DEF Fewer

(* What a new RIB of n, and what n writes from it, must be like.            *)
LEMMA RibStep ==
    ASSUME IInv, NEW n \in Node, NEW r \in [Dest -> Entry], RibSound(n, r),
           rib' = [rib EXCEPT ![n] = r], ChanType(chan'), ChanSound(chan')
    PROVE  /\ rib' \in [Node -> [Dest -> Entry]]
           /\ Sound'
           /\ \A x \in Node : \A d \in Dest :
                 rib'[x][d] = IF x = n THEN r[d] ELSE rib[x][d]
<1>1. \A x \in Node : rib'[x] = IF x = n THEN r ELSE rib[x]
  BY DEF IInv, TypeOK
<1>2. rib' \in [Node -> [Dest -> Entry]]
  BY DEF IInv, TypeOK
<1>3. Sound'
  BY <1>1 DEF IInv, Sound
<1> QED BY <1>1, <1>2, <1>3

LEMMA WrittenSound ==
    ASSUME IInv, NEW n \in Node, NEW r \in [Dest -> Entry], RibSound(n, r)
    PROVE  /\ ChanType(chan) /\ ChanSound(chan)
           /\ ChanType(advertiseRoutes(n, r)) /\ ChanSound(advertiseRoutes(n, r))
<1>1. ChanType(chan) /\ ChanSound(chan)
  BY DEF IInv, TypeOK, Sound, ChanType
<1>2. Live(n) \in SUBSET Node
  BY DEF Live
<1> QED BY <1>1, <1>2, SentSound DEF advertiseRoutes

(* onSessionUp installs a one-hop route that is really one hop away.        *)
LEMMA DirectSound ==
    ASSUME IInv, NEW n \in Node, NEW p \in Peers[n]
    PROVE  /\ p \in Node /\ p # n
           /\ WithDirect(n, p) \in [Dest -> Entry]
           /\ RibSound(n, WithDirect(n, p))
           /\ \A d \in Dest : WithDirect(n, p)[d] = IF d = p THEN Via(p, 1) ELSE rib[n][d]
<1>0. p \in Node /\ p # n /\ n \in Peers[p]
  BY PeersAssumption
<1>1. Via(p, 1) \in Entry /\ Via(p, 1) # NoRoute
  BY <1>0, ViaType, BoundsAssumption
<1>2. WithDirect(n, p) \in [Dest -> Entry]
  BY <1>1 DEF IInv, TypeOK, WithDirect
<1>3. p \in Dest => HopDist[n][p] <= 1
  <2>1. p \in Dest => p \in Origin(p)
    BY DEF Origin
  <2>2. p \in Dest => HopDist[p][p] = 0 /\ HopDist[n][p] <= HopDist[p][p] + 1
    BY <2>1, <1>0, HopDistAssumption
  <2> QED BY <2>2
<1>4. Via(p, 1).metric = 1 /\ Via(p, 1).next = p
  BY DEF Via
<1>5. RibSound(n, WithDirect(n, p))
  BY <1>0, <1>3, <1>4 DEF IInv, Sound, RibSound, WithDirect
<1> QED BY <1>0, <1>2, <1>5 DEF WithDirect

(* Registering changes who will clean up, and only for the better.          *)
LEMMA RegisterIInv ==
    ASSUME IInv, NEW n \in Node, NEW p \in Peers[n], Register(n, p)
    PROVE  IInv'
<1>0. p \in Node /\ p # n
  BY PeersAssumption
<1>1. /\ rib' = rib /\ chan' = chan /\ late' = late /\ deleting' = deleting
      /\ robbed' = robbed /\ conn' = conn /\ dials' = dials /\ churn' = churn
      /\ sess' = [sess EXCEPT ![n][p] = "new"]
      /\ phantom' = [phantom EXCEPT ![n] = @ \ {p}]
      /\ ending' = IF sess[n][p] = "dead" THEN More(ending, n, p) ELSE ending
  BY DEF Register
<1>2. /\ ending' \in [Node -> [Node -> Nat]]
      /\ \A x, y \in Node : ending[x][y] <= ending'[x][y]
  <2>1. ending \in [Node -> [Node -> Nat]] /\ ending[n][p] \in Nat
    BY <1>0 DEF IInv, TypeOK
  <2>2. /\ More(ending, n, p) \in [Node -> [Node -> Nat]]
        /\ \A x, y \in Node : More(ending, n, p)[x][y]
                 = IF x = n /\ y = p THEN ending[x][y] + 1 ELSE ending[x][y]
    BY <1>0, <2>1, MoreCounts
  <2>3. \A x, y \in Node : ending[x][y] \in Nat
    BY <2>1
  <2>4. CASE sess[n][p] = "dead"
    <3>1. ending' = More(ending, n, p)
      BY <1>1, <2>4
    <3> QED BY <2>2, <2>3, <3>1
  <2>5. CASE sess[n][p] # "dead"
    <3>1. ending' = ending
      BY <1>1, <2>5
    <3> QED BY <2>1, <2>3, <3>1
  <2> QED BY <2>4, <2>5
<1>3. TypeOK'
  <2>1. sess' \in [Node -> [Node -> SessState]] /\ phantom' \in [Node -> SUBSET Node]
    BY <1>0, <1>1 DEF IInv, TypeOK, SessState
  <2> QED BY <1>1, <1>2, <2>1 DEF IInv, TypeOK
<1>4. Sound'
  BY <1>1 DEF IInv, Sound
<1>5. \A x, y \in Node :
         /\ sess'[x][y] = IF x = n /\ y = p THEN "new" ELSE sess[x][y]
         /\ y \in phantom[x] => y \in phantom'[x] \/ sess'[x][y] = "new"
  BY <1>0, <1>1 DEF IInv, TypeOK
<1>6. \A x \in Node : Owned(x) \subseteq Owned(x)'
  <2>1. \A x, y \in Node : ending[x][y] \in Nat /\ ending'[x][y] \in Nat
    BY <1>2 DEF IInv, TypeOK
  <2> QED BY <1>1, <1>2, <1>5, <2>1 DEF Owned
<1>7. RoutesHaveSessions'
  <2> SUFFICES ASSUME NEW x \in Node, NEW d \in Dest, rib[x][d] # NoRoute
               PROVE  \/ rib[x][d].next \in Owned(x)'
                      \/ d = rib[x][d].next /\ d \in phantom'[x]
    BY <1>1 DEF RoutesHaveSessions
  <2>1. rib[x][d].next \in Node
    BY DEF IInv, Sound, RibSound
  <2>2. \/ rib[x][d].next \in Owned(x)
        \/ d = rib[x][d].next /\ d \in phantom[x]
    BY DEF IInv, RoutesHaveSessions
  <2> QED BY <1>5, <1>6, <2>1, <2>2 DEF Owned
<1>8. NeighborsAreDirect'
  BY <1>1, <1>5 DEF IInv, NeighborsAreDirect
<1> QED BY <1>3, <1>4, <1>7, <1>8 DEF IInv

(* onSessionUp of the registered session.                                   *)
LEMMA SessionUpIInv ==
    ASSUME IInv, NEW n \in Node, NEW p \in Peers[n], SessionUp(n, p)
    PROVE  IInv'
<1> DEFINE r == WithDirect(n, p)
<1>0. /\ p \in Node /\ p # n /\ r \in [Dest -> Entry] /\ RibSound(n, r)
      /\ \A d \in Dest : r[d] = IF d = p THEN Via(p, 1) ELSE rib[n][d]
  BY DirectSound
<1> HIDE DEF r
<1>1. /\ sess[n][p] = "new" /\ sess' = [sess EXCEPT ![n][p] = "live"]
      /\ rib' = [rib EXCEPT ![n] = r]
      /\ chan' = Sent(Sent(chan, n, r, {p}), n, r, Live(n))
      /\ robbed' = [robbed EXCEPT ![n] = @ \ {p}]
      /\ conn' = conn /\ late' = late /\ ending' = ending /\ deleting' = deleting
      /\ phantom' = phantom /\ dials' = dials /\ churn' = churn
  BY DEF SessionUp, goroutines, r
<1>2. ChanType(chan') /\ ChanSound(chan')
  <2>1. ChanType(chan) /\ ChanSound(chan) /\ Live(n) \in SUBSET Node /\ {p} \in SUBSET Node
    BY <1>0, WrittenSound DEF Live
  <2>2. ChanType(Sent(chan, n, r, {p})) /\ ChanSound(Sent(chan, n, r, {p}))
    BY <1>0, <2>1, SentSound
  <2> QED BY <1>0, <1>1, <2>1, <2>2, SentSound
<1>3. /\ rib' \in [Node -> [Dest -> Entry]] /\ Sound'
      /\ \A x \in Node : \A d \in Dest : rib'[x][d] = IF x = n THEN r[d] ELSE rib[x][d]
  BY <1>0, <1>1, <1>2, RibStep
<1>4. TypeOK'
  <2>1. sess' \in [Node -> [Node -> SessState]] /\ robbed' \in [Node -> SUBSET Node]
    BY <1>0, <1>1 DEF IInv, TypeOK, SessState
  <2> QED BY <1>1, <1>2, <1>3, <2>1 DEF IInv, TypeOK, ChanType
<1>5. \A x, y \in Node :
         /\ sess'[x][y] = IF x = n /\ y = p THEN "live" ELSE sess[x][y]
         /\ y \in robbed'[x] <=> (y \in robbed[x] /\ ~ (x = n /\ y = p))
  BY <1>0, <1>1 DEF IInv, TypeOK
<1>6. \A x \in Node : Owned(x)' = Owned(x)
  BY <1>1, <1>5 DEF Owned
<1>7. RoutesHaveSessions'
  <2> SUFFICES ASSUME NEW x \in Node, NEW d \in Dest, rib'[x][d] # NoRoute
               PROVE  \/ rib'[x][d].next \in Owned(x)'
                      \/ d = rib'[x][d].next /\ d \in phantom'[x]
    BY DEF RoutesHaveSessions
  <2>1. CASE x = n /\ d = p
    <3>1. rib'[x][d].next = p
      BY <1>0, <1>3, <2>1 DEF Via
    <3>2. p \in Owned(n)'
      BY <1>0, <1>5 DEF Owned
    <3> QED BY <2>1, <3>1, <3>2
  <2>2. CASE ~ (x = n /\ d = p)
    <3>1. rib'[x][d] = rib[x][d]
      BY <1>0, <1>3, <2>2
    <3>2. rib[x][d].next \in Node
      BY <3>1 DEF IInv, Sound, RibSound
    <3> QED BY <1>1, <1>6, <3>1, <3>2 DEF IInv, RoutesHaveSessions
  <2> QED BY <2>1, <2>2
<1>8. NeighborsAreDirect'
  <2> SUFFICES ASSUME NEW x \in Node, NEW y \in Node \cap Dest, sess'[x][y] # "none"
               PROVE  \/ rib'[x][y] = Via(y, 1)
                      \/ sess'[x][y] = "new" \/ late'[x][y] > 0
                      \/ y \in robbed'[x]
    BY DEF NeighborsAreDirect
  <2>1. CASE x = n /\ y = p
    BY <1>0, <1>3, <2>1
  <2>2. CASE ~ (x = n /\ y = p)
    <3>1. rib'[x][y] = rib[x][y] /\ sess'[x][y] = sess[x][y]
      BY <1>0, <1>3, <1>5, <2>2
    <3> QED BY <1>1, <1>5, <2>2, <3>1 DEF IInv, NeighborsAreDirect
  <2> QED BY <2>1, <2>2
<1> QED BY <1>3, <1>4, <1>7, <1>8 DEF IInv

(* onSessionUp of a session lost meanwhile: the route has an owner, or is a *)
(* phantom from here on.                                                    *)
LEMMA LateSessionUpIInv ==
    ASSUME IInv, NEW n \in Node, NEW p \in Peers[n], LateSessionUp(n, p)
    PROVE  IInv'
<1> DEFINE r == WithDirect(n, p)
<1>0. /\ p \in Node /\ p # n /\ r \in [Dest -> Entry] /\ RibSound(n, r)
      /\ \A d \in Dest : r[d] = IF d = p THEN Via(p, 1) ELSE rib[n][d]
  BY DirectSound
<1> HIDE DEF r
<1>1. /\ late[n][p] > 0 /\ late' = Fewer(late, n, p)
      /\ rib' = [rib EXCEPT ![n] = r]
      /\ chan' = advertiseRoutes(n, r)
      /\ phantom' = IF p \in Owned(n) THEN phantom
                    ELSE [phantom EXCEPT ![n] = @ \cup ({p} \cap Dest)]
      /\ robbed' = [robbed EXCEPT ![n] = @ \ {p}]
      /\ conn' = conn /\ sess' = sess /\ ending' = ending /\ deleting' = deleting
      /\ dials' = dials /\ churn' = churn
  BY DEF LateSessionUp, r
<1>2. ChanType(chan') /\ ChanSound(chan')
  BY <1>0, <1>1, WrittenSound
<1>3. /\ rib' \in [Node -> [Dest -> Entry]] /\ Sound'
      /\ \A x \in Node : \A d \in Dest : rib'[x][d] = IF x = n THEN r[d] ELSE rib[x][d]
  BY <1>0, <1>1, <1>2, RibStep
<1>4. /\ late' \in [Node -> [Node -> Nat]]
      /\ \A x, y \in Node : ~ (x = n /\ y = p) => late'[x][y] = late[x][y]
  <2>1. late \in [Node -> [Node -> Nat]]
    BY <1>0, <1>1 DEF IInv, TypeOK
  <2> QED BY <1>0, <1>1, <2>1, FewerCounts
<1>5. TypeOK'
  <2>1. robbed' \in [Node -> SUBSET Node]
    BY <1>0, <1>1 DEF IInv, TypeOK
  <2>2. phantom \in [Node -> SUBSET Node] /\ {p} \cap Dest \in SUBSET Node
    BY <1>0 DEF IInv, TypeOK
  <2>3. [phantom EXCEPT ![n] = @ \cup ({p} \cap Dest)] \in [Node -> SUBSET Node]
    BY <2>2
  <2>4. phantom' \in [Node -> SUBSET Node]
    BY <1>1, <2>2, <2>3
  <2> QED BY <1>1, <1>2, <1>3, <1>4, <2>1, <2>4 DEF IInv, TypeOK, ChanType
<1>6. \A x, y \in Node :
         /\ y \in robbed'[x] <=> (y \in robbed[x] /\ ~ (x = n /\ y = p))
         /\ y \in phantom[x] => y \in phantom'[x]
         /\ (x = n /\ y = p /\ y \in Dest) => (y \in phantom'[x] \/ y \in Owned(x))
  <2>1. CASE p \in Owned(n)
    <3>1. phantom' = phantom
      BY <1>1, <2>1
    <3> QED BY <1>0, <1>1, <2>1, <3>1 DEF IInv, TypeOK
  <2>2. CASE p \notin Owned(n)
    <3>1. phantom' = [phantom EXCEPT ![n] = @ \cup ({p} \cap Dest)]
      BY <1>1, <2>2
    <3>2. \A x \in Node : phantom'[x] = IF x = n THEN phantom[x] \cup ({p} \cap Dest)
                                                ELSE phantom[x]
      BY <1>0, <3>1 DEF IInv, TypeOK
    <3>3. \A x \in Node : robbed'[x] = IF x = n THEN robbed[x] \ {p} ELSE robbed[x]
      BY <1>0, <1>1 DEF IInv, TypeOK
    <3> QED BY <3>2, <3>3
  <2> QED BY <2>1, <2>2
<1>7. \A x \in Node : Owned(x)' = Owned(x)
  BY <1>1 DEF Owned
<1>8. RoutesHaveSessions'
  <2> SUFFICES ASSUME NEW x \in Node, NEW d \in Dest, rib'[x][d] # NoRoute
               PROVE  \/ rib'[x][d].next \in Owned(x)'
                      \/ d = rib'[x][d].next /\ d \in phantom'[x]
    BY DEF RoutesHaveSessions
  <2>1. CASE x = n /\ d = p
    <3>1. rib'[x][d].next = p
      BY <1>0, <1>3, <2>1 DEF Via
    <3> QED BY <1>0, <1>6, <1>7, <2>1, <3>1
  <2>2. CASE ~ (x = n /\ d = p)
    <3>1. rib'[x][d] = rib[x][d]
      BY <1>0, <1>3, <2>2
    <3>2. rib[x][d].next \in Node
      BY <3>1 DEF IInv, Sound, RibSound
    <3>3. \/ rib[x][d].next \in Owned(x)
          \/ d = rib[x][d].next /\ d \in phantom[x]
      BY <3>1 DEF IInv, RoutesHaveSessions
    <3> QED BY <1>6, <1>7, <3>1, <3>2, <3>3
  <2> QED BY <2>1, <2>2
<1>9. NeighborsAreDirect'
  <2> SUFFICES ASSUME NEW x \in Node, NEW y \in Node \cap Dest, sess'[x][y] # "none"
               PROVE  \/ rib'[x][y] = Via(y, 1)
                      \/ sess'[x][y] = "new" \/ late'[x][y] > 0
                      \/ y \in robbed'[x]
    BY DEF NeighborsAreDirect
  <2>1. CASE x = n /\ y = p
    BY <1>0, <1>3, <2>1
  <2>2. CASE ~ (x = n /\ y = p)
    <3>1. rib'[x][y] = rib[x][y] /\ late'[x][y] = late[x][y]
      BY <1>0, <1>3, <1>4, <2>2
    <3> QED BY <1>1, <1>6, <2>2, <3>1 DEF IInv, NeighborsAreDirect
  <2> QED BY <2>1, <2>2
<1> QED BY <1>3, <1>5, <1>8, <1>9 DEF IInv

(* Losing a connection leaves the RIBs alone, and a session lost before its *)
(* onSessionUp leaves that call to come.                                    *)
LostSession(x, y) ==
    /\ sess'[x][y] \in SessState
    /\ (sess'[x][y] = "none" <=> sess[x][y] = "none")
    /\ late'[x][y] \in Nat /\ late[x][y] <= late'[x][y]
    /\ sess[x][y] = "new" => (sess'[x][y] = "new" \/ late'[x][y] > 0)

LEMMA DisconnectIInv ==
    ASSUME IInv, NEW n \in Node, NEW p \in Peers[n], Disconnect(n, p)
    PROVE  IInv'
<1>0. p \in Node /\ p # n
  BY PeersAssumption
<1>1. /\ rib' = rib /\ churn < MaxChurn /\ churn' = churn + 1 /\ dials' = dials
      /\ conn' = [conn EXCEPT ![n] = @ \ {p}, ![p] = @ \ {n}]
      /\ sess' = [x \in Node |-> [y \in Node |->
                    IF Ends(n, p, x, y) THEN Lost(sess[x][y]) ELSE sess[x][y]]]
      /\ late' = [x \in Node |-> [y \in Node |->
                    IF Ends(n, p, x, y) /\ sess[x][y] = "new" THEN late[x][y] + 1
                                                             ELSE late[x][y]]]
      /\ chan' = [x \in Node |-> [y \in Node |->
                    IF Ends(n, p, x, y) THEN <<>> ELSE chan[x][y]]]
      /\ ending' = ending /\ deleting' = deleting
      /\ phantom' = phantom /\ robbed' = robbed
  BY DEF Disconnect
<1>2. \A x, y \in Node : chan'[x][y] = <<>> \/ chan'[x][y] = chan[x][y]
  BY <1>1
<1>3. sess' \in [Node -> [Node -> SessState]]
  <2>1. \A v \in SessState : Lost(v) \in SessState
    BY DEF SessState, Lost
  <2> QED BY <1>1, <2>1 DEF IInv, TypeOK
<1>4. late' \in [Node -> [Node -> Nat]]
  <2>1. \A x, y \in Node : late[x][y] \in Nat
    BY DEF IInv, TypeOK
  <2> QED BY <1>1, <2>1
<1>5. \A x, y \in Node : LostSession(x, y)
  <2>1. \A x, y \in Node : late[x][y] \in Nat /\ sess[x][y] \in SessState
    BY DEF IInv, TypeOK
  <2>2. \A v \in SessState : /\ Lost(v) \in SessState /\ (Lost(v) = "none" <=> v = "none")
    BY DEF SessState, Lost
  <2>3. ASSUME NEW x \in Node, NEW y \in Node PROVE LostSession(x, y)
    <3>1. CASE Ends(n, p, x, y)
      <4>1. sess'[x][y] = Lost(sess[x][y])
        BY <1>1, <3>1
      <4>2. late'[x][y] = IF sess[x][y] = "new" THEN late[x][y] + 1 ELSE late[x][y]
        BY <1>1, <3>1
      <4> QED BY <2>1, <2>2, <4>1, <4>2 DEF LostSession
    <3>2. CASE ~ Ends(n, p, x, y)
      <4>1. sess'[x][y] = sess[x][y] /\ late'[x][y] = late[x][y]
        BY <1>1, <3>2
      <4> QED BY <2>1, <4>1 DEF LostSession
    <3> QED BY <3>1, <3>2
  <2> QED BY <2>3
<1>6. TypeOK'
  <2>1. chan' \in [Node -> [Node -> Seq(Ad)]]
    BY <1>1 DEF IInv, TypeOK
  <2>2. conn' \in [Node -> SUBSET Node]
    BY <1>0, <1>1 DEF IInv, TypeOK
  <2>3. churn' \in 0 .. MaxChurn
    BY <1>1, BoundsAssumption DEF IInv, TypeOK
  <2> QED BY <1>1, <1>3, <1>4, <2>1, <2>2, <2>3 DEF IInv, TypeOK
<1>7. Sound'
  <2>1. \A x \in Node : RibSound(x, rib'[x])
    BY <1>1 DEF IInv, Sound
  <2>2. ChanSound(chan')
    BY <1>2 DEF IInv, Sound, ChanSound
  <2> QED BY <2>1, <2>2 DEF Sound
<1>8. RoutesHaveSessions'
  <2> SUFFICES ASSUME NEW x \in Node, NEW d \in Dest, rib[x][d] # NoRoute
               PROVE  \/ rib[x][d].next \in Owned(x)'
                      \/ d = rib[x][d].next /\ d \in phantom'[x]
    BY <1>1 DEF RoutesHaveSessions
  <2>1. rib[x][d].next \in Node
    BY DEF IInv, Sound, RibSound
  <2>2. \A y \in Node : y \in Owned(x) => y \in Owned(x)'
    BY <1>1, <1>5 DEF Owned, LostSession
  <2> QED BY <1>1, <2>1, <2>2 DEF IInv, RoutesHaveSessions
<1>9. NeighborsAreDirect'
  <2>1. \A x, y \in Node : late[x][y] \in Nat
    BY DEF IInv, TypeOK
  <2>2. \A x, y \in Node : /\ sess'[x][y] = "none" <=> sess[x][y] = "none"
                           /\ late[x][y] > 0 => late'[x][y] > 0
                           /\ sess[x][y] = "new" => sess'[x][y] = "new" \/ late'[x][y] > 0
    BY <1>5, <2>1 DEF LostSession
  <2> QED BY <1>1, <2>2 DEF IInv, NeighborsAreDirect
<1> QED BY <1>6, <1>7, <1>8, <1>9 DEF IInv

(* readLoop's last steps only pass the routes on to the next one.           *)
LEMMA UnregisterIInv ==
    ASSUME IInv, NEW n \in Node, NEW p \in Peers[n], Unregister(n, p)
    PROVE  IInv'
<1>0. p \in Node /\ p # n
  BY PeersAssumption
<1>1. /\ rib' = rib /\ chan' = chan /\ late' = late /\ deleting' = deleting
      /\ robbed' = robbed /\ phantom' = phantom
      /\ conn' = conn /\ dials' = dials /\ churn' = churn
      /\ sess' = [sess EXCEPT ![n][p] = "none"]
      /\ ending' = More(ending, n, p)
  BY DEF Unregister
<1>2. /\ ending' \in [Node -> [Node -> Nat]]
      /\ \A x, y \in Node :
            ending'[x][y] = IF x = n /\ y = p THEN ending[x][y] + 1 ELSE ending[x][y]
  <2>1. ending \in [Node -> [Node -> Nat]] /\ ending[n][p] \in Nat
    BY <1>0 DEF IInv, TypeOK
  <2> QED BY <1>0, <1>1, <2>1, MoreCounts
<1>3. /\ sess' \in [Node -> [Node -> SessState]]
      /\ \A x, y \in Node :
            sess'[x][y] = IF x = n /\ y = p THEN "none" ELSE sess[x][y]
  BY <1>0, <1>1 DEF IInv, TypeOK, SessState
<1>4. TypeOK'
  BY <1>1, <1>2, <1>3 DEF IInv, TypeOK
<1>5. Sound'
  BY <1>1 DEF IInv, Sound
<1>6. \A x \in Node : Owned(x) \subseteq Owned(x)'
  <2>1. \A x, y \in Node : ending[x][y] \in Nat
    BY DEF IInv, TypeOK
  <2> QED BY <1>1, <1>2, <1>3, <2>1 DEF Owned
<1>7. RoutesHaveSessions'
  <2> SUFFICES ASSUME NEW x \in Node, NEW d \in Dest, rib[x][d] # NoRoute
               PROVE  \/ rib[x][d].next \in Owned(x)'
                      \/ d = rib[x][d].next /\ d \in phantom'[x]
    BY <1>1 DEF RoutesHaveSessions
  <2>1. rib[x][d].next \in Node
    BY DEF IInv, Sound, RibSound
  <2> QED BY <1>1, <1>6, <2>1 DEF IInv, RoutesHaveSessions
<1>8. NeighborsAreDirect'
  BY <1>1, <1>3 DEF IInv, NeighborsAreDirect
<1> QED BY <1>4, <1>5, <1>7, <1>8 DEF IInv

LEMMA SessionDownCheckIInv ==
    ASSUME IInv, NEW n \in Node, NEW p \in Peers[n], SessionDownCheck(n, p)
    PROVE  IInv'
<1>0. p \in Node /\ p # n
  BY PeersAssumption
<1>1. /\ rib' = rib /\ chan' = chan /\ late' = late /\ sess' = sess
      /\ robbed' = robbed /\ phantom' = phantom
      /\ conn' = conn /\ dials' = dials /\ churn' = churn
      /\ ending[n][p] > 0 /\ ending' = Fewer(ending, n, p)
      /\ deleting' = IF sess[n][p] = "none" THEN More(deleting, n, p) ELSE deleting
  BY DEF SessionDownCheck
<1>2. /\ ending' \in [Node -> [Node -> Nat]]
      /\ \A x, y \in Node : ~ (x = n /\ y = p) => ending'[x][y] = ending[x][y]
  <2>1. ending \in [Node -> [Node -> Nat]]
    BY <1>0, <1>1 DEF IInv, TypeOK
  <2> QED BY <1>0, <1>1, <2>1, FewerCounts
<1>3. /\ deleting' \in [Node -> [Node -> Nat]]
      /\ \A x, y \in Node :
            deleting'[x][y] = IF x = n /\ y = p /\ sess[n][p] = "none"
                              THEN deleting[x][y] + 1 ELSE deleting[x][y]
  <2>1. deleting \in [Node -> [Node -> Nat]] /\ deleting[n][p] \in Nat
    BY <1>0 DEF IInv, TypeOK
  <2>2. /\ More(deleting, n, p) \in [Node -> [Node -> Nat]]
        /\ \A x, y \in Node : More(deleting, n, p)[x][y]
                 = IF x = n /\ y = p THEN deleting[x][y] + 1 ELSE deleting[x][y]
    BY <1>0, <2>1, MoreCounts
  <2> QED BY <1>1, <2>1, <2>2
<1>4. TypeOK'
  BY <1>1, <1>2, <1>3 DEF IInv, TypeOK
<1>5. Sound'
  BY <1>1 DEF IInv, Sound
<1>6. \A x \in Node : Owned(x) \subseteq Owned(x)'
  <2>1. \A x, y \in Node : deleting[x][y] \in Nat
    BY DEF IInv, TypeOK
  <2> QED BY <1>1, <1>2, <1>3, <2>1 DEF Owned
<1>7. RoutesHaveSessions'
  <2> SUFFICES ASSUME NEW x \in Node, NEW d \in Dest, rib[x][d] # NoRoute
               PROVE  \/ rib[x][d].next \in Owned(x)'
                      \/ d = rib[x][d].next /\ d \in phantom'[x]
    BY <1>1 DEF RoutesHaveSessions
  <2>1. rib[x][d].next \in Node
    BY DEF IInv, Sound, RibSound
  <2> QED BY <1>1, <1>6, <2>1 DEF IInv, RoutesHaveSessions
<1>8. NeighborsAreDirect'
  BY <1>1 DEF IInv, NeighborsAreDirect
<1> QED BY <1>4, <1>5, <1>7, <1>8 DEF IInv

(* onSessionDown deletes what is routed via the peer, and only that.        *)
LEMMA SessionDownIInv ==
    ASSUME IInv, NEW n \in Node, NEW p \in Peers[n], SessionDown(n, p)
    PROVE  IInv'
<1> DEFINE r == [d \in Dest |-> IF rib[n][d].next = p THEN NoRoute ELSE rib[n][d]]
<1>0. p \in Node /\ p # n
  BY PeersAssumption
<1>1. /\ deleting[n][p] > 0 /\ deleting' = Fewer(deleting, n, p)
      /\ rib' = [rib EXCEPT ![n] = r]
      /\ chan' = IF r # rib[n] THEN advertiseRoutes(n, r) ELSE chan
      /\ robbed' = IF sess[n][p] = "none" THEN robbed
                   ELSE [robbed EXCEPT ![n] = @ \cup ({p} \cap Dest)]
      /\ conn' = conn /\ sess' = sess /\ late' = late /\ ending' = ending
      /\ dials' = dials /\ churn' = churn /\ phantom' = phantom
  BY DEF SessionDown
<1>2. r \in [Dest -> Entry] /\ RibSound(n, r)
  BY NoRouteType DEF IInv, TypeOK, Sound, RibSound
<1>3. ChanType(chan') /\ ChanSound(chan')
  BY <1>1, <1>2, WrittenSound
<1>4. /\ rib' \in [Node -> [Dest -> Entry]] /\ Sound'
      /\ \A x \in Node : \A d \in Dest : rib'[x][d] = IF x = n THEN r[d] ELSE rib[x][d]
  BY <1>1, <1>2, <1>3, RibStep
<1>5. /\ deleting' \in [Node -> [Node -> Nat]]
      /\ \A x, y \in Node : ~ (x = n /\ y = p) => deleting'[x][y] = deleting[x][y]
  <2>1. deleting \in [Node -> [Node -> Nat]]
    BY <1>0, <1>1 DEF IInv, TypeOK
  <2> QED BY <1>0, <1>1, <2>1, FewerCounts
<1>6. TypeOK'
  <2>1. robbed \in [Node -> SUBSET Node] /\ {p} \cap Dest \in SUBSET Node
    BY <1>0 DEF IInv, TypeOK
  <2>2. [robbed EXCEPT ![n] = @ \cup ({p} \cap Dest)] \in [Node -> SUBSET Node]
    BY <2>1
  <2>3. robbed' \in [Node -> SUBSET Node]
    BY <1>1, <2>1, <2>2
  <2> QED BY <1>1, <1>3, <1>4, <1>5, <2>3 DEF IInv, TypeOK, ChanType
<1>7. \A x, y \in Node :
         /\ y \in robbed[x] => y \in robbed'[x]
         /\ (x = n /\ y = p /\ y \in Dest /\ sess[x][y] # "none") => y \in robbed'[x]
  <2>1. CASE sess[n][p] = "none"
    BY <1>1, <2>1
  <2>2. CASE sess[n][p] # "none"
    <3>1. robbed' = [robbed EXCEPT ![n] = @ \cup ({p} \cap Dest)]
      BY <1>1, <2>2
    <3> QED BY <1>0, <3>1 DEF IInv, TypeOK
  <2> QED BY <2>1, <2>2
<1>8. RoutesHaveSessions'
  <2> SUFFICES ASSUME NEW x \in Node, NEW d \in Dest, rib'[x][d] # NoRoute
               PROVE  \/ rib'[x][d].next \in Owned(x)'
                      \/ d = rib'[x][d].next /\ d \in phantom'[x]
    BY DEF RoutesHaveSessions
  <2>1. rib'[x][d] = rib[x][d] /\ ~ (x = n /\ rib[x][d].next = p)
    BY <1>4
  <2>2. rib[x][d].next \in Node
    BY <2>1 DEF IInv, Sound, RibSound
  <2>3. rib[x][d].next \in Owned(x) => rib[x][d].next \in Owned(x)'
    BY <1>1, <1>5, <2>1, <2>2 DEF Owned
  <2> QED BY <1>1, <2>1, <2>3 DEF IInv, RoutesHaveSessions
<1>9. NeighborsAreDirect'
  <2> SUFFICES ASSUME NEW x \in Node, NEW y \in Node \cap Dest, sess'[x][y] # "none"
               PROVE  \/ rib'[x][y] = Via(y, 1)
                      \/ sess'[x][y] = "new" \/ late'[x][y] > 0
                      \/ y \in robbed'[x]
    BY DEF NeighborsAreDirect
  <2>1. CASE x = n /\ y = p
    BY <1>1, <1>7, <2>1
  <2>2. CASE ~ (x = n /\ y = p)
    <3>1. Via(y, 1).next = y
      BY DEF Via
    <3>2. rib[x][y] = Via(y, 1) => rib'[x][y] = Via(y, 1)
      BY <1>4, <2>2, <3>1
    <3> QED BY <1>1, <1>7, <3>2 DEF IInv, NeighborsAreDirect
  <2> QED BY <2>1, <2>2
<1> QED BY <1>4, <1>6, <1>8, <1>9 DEF IInv

(* A crash forgets the node and marks its peers' sessions dead.             *)
LEMMA CrashIInv ==
    ASSUME IInv, NEW n \in Node, Crash(n)
    PROVE  IInv'
<1>1. /\ churn < MaxChurn /\ churn' = churn + 1 /\ dials' = dials
      /\ rib' = [rib EXCEPT ![n] = [d \in Dest |-> NoRoute]]
      /\ conn' = [q \in Node |-> IF q = n THEN {} ELSE conn[q] \ {n}]
      /\ sess' = [q \in Node |-> IF q = n THEN [p \in Node |-> "none"]
                                 ELSE [sess[q] EXCEPT ![n] = Lost(@)]]
      /\ late' = [q \in Node |->
                    IF q = n THEN [p \in Node |-> 0]
                    ELSE [late[q] EXCEPT ![n] = IF sess[q][n] = "new" THEN @ + 1 ELSE @]]
      /\ ending' = [ending EXCEPT ![n] = [p \in Node |-> 0]]
      /\ deleting' = [deleting EXCEPT ![n] = [p \in Node |-> 0]]
      /\ phantom' = [phantom EXCEPT ![n] = {}]
      /\ robbed' = [robbed EXCEPT ![n] = {}]
      /\ chan' = [q \in Node |-> [p \in Node |->
                    IF q = n \/ p = n THEN <<>> ELSE chan[q][p]]]
  BY DEF Crash
<1>2. /\ sess' \in [Node -> [Node -> SessState]] /\ late' \in [Node -> [Node -> Nat]]
      /\ \A x, y \in Node : x # n => LostSession(x, y)
      /\ \A y \in Node : sess'[n][y] = "none"
  <2>1. \A x, y \in Node : late[x][y] \in Nat /\ sess[x][y] \in SessState
    BY DEF IInv, TypeOK
  <2>2. \A v \in SessState : /\ Lost(v) \in SessState /\ (Lost(v) = "none" <=> v = "none")
    BY DEF SessState, Lost
  <2>3. /\ "none" \in SessState
        /\ sess \in [Node -> [Node -> SessState]] /\ late \in [Node -> [Node -> Nat]]
    BY DEF SessState, IInv, TypeOK
  <2>4. \A x, y \in Node : /\ sess'[x][y] = IF x = n THEN "none"
                                            ELSE IF y = n THEN Lost(sess[x][y])
                                            ELSE sess[x][y]
                           /\ late'[x][y] = IF x = n THEN 0
                                            ELSE IF y = n /\ sess[x][n] = "new"
                                            THEN late[x][y] + 1 ELSE late[x][y]
    BY <1>1, <2>3
  <2>5. sess' \in [Node -> [Node -> SessState]]
    BY <1>1, <2>1, <2>2, <2>3
  <2>6. late' \in [Node -> [Node -> Nat]]
    BY <1>1, <2>1, <2>3
  <2>7. \A x, y \in Node : x # n => LostSession(x, y)
    BY <2>1, <2>2, <2>4, <2>5, <2>6 DEF LostSession
  <2> QED BY <2>4, <2>5, <2>6, <2>7
<1>3. TypeOK'
  <2>1. chan' \in [Node -> [Node -> Seq(Ad)]]
    BY <1>1 DEF IInv, TypeOK
  <2>2. /\ ending' \in [Node -> [Node -> Nat]] /\ deleting' \in [Node -> [Node -> Nat]]
        /\ phantom' \in [Node -> SUBSET Node] /\ robbed' \in [Node -> SUBSET Node]
    BY <1>1 DEF IInv, TypeOK
  <2>3. conn' \in [Node -> SUBSET Node]
    BY <1>1 DEF IInv, TypeOK
  <2>4. churn' \in 0 .. MaxChurn /\ dials' \in 0 .. MaxDials
    BY <1>1, BoundsAssumption DEF IInv, TypeOK
  <2>5. rib' \in [Node -> [Dest -> Entry]]
    BY <1>1, NoRouteType DEF IInv, TypeOK
  <2> QED BY <1>2, <2>1, <2>2, <2>3, <2>4, <2>5 DEF TypeOK
<1>4. Sound'
  <2>1. \A x \in Node : RibSound(x, rib'[x])
    BY <1>1 DEF IInv, TypeOK, Sound, RibSound
  <2>2. \A x, y \in Node : chan'[x][y] = <<>> \/ chan'[x][y] = chan[x][y]
    BY <1>1
  <2>3. ChanSound(chan')
    BY <2>2 DEF IInv, Sound, ChanSound
  <2> QED BY <2>1, <2>3 DEF Sound
<1>5. \A x \in Node : x # n => /\ phantom'[x] = phantom[x] /\ robbed'[x] = robbed[x]
                               /\ rib'[x] = rib[x]
                               /\ ending'[x] = ending[x] /\ deleting'[x] = deleting[x]
  BY <1>1 DEF IInv, TypeOK
<1>6. RoutesHaveSessions'
  <2> SUFFICES ASSUME NEW x \in Node, NEW d \in Dest, rib'[x][d] # NoRoute
               PROVE  \/ rib'[x][d].next \in Owned(x)'
                      \/ d = rib'[x][d].next /\ d \in phantom'[x]
    BY DEF RoutesHaveSessions
  <2>1. x # n /\ rib'[x][d] = rib[x][d]
    BY <1>1 DEF IInv, TypeOK
  <2>2. rib[x][d].next \in Node
    BY <2>1 DEF IInv, Sound, RibSound
  <2>3. rib[x][d].next \in Owned(x) => rib[x][d].next \in Owned(x)'
    BY <1>2, <1>5, <2>1, <2>2 DEF Owned, LostSession
  <2> QED BY <1>5, <2>1, <2>3 DEF IInv, RoutesHaveSessions
<1>7. NeighborsAreDirect'
  <2> SUFFICES ASSUME NEW x \in Node, NEW y \in Node \cap Dest, sess'[x][y] # "none"
               PROVE  \/ rib'[x][y] = Via(y, 1)
                      \/ sess'[x][y] = "new" \/ late'[x][y] > 0
                      \/ y \in robbed'[x]
    BY DEF NeighborsAreDirect
  <2>1. x # n /\ LostSession(x, y)
    BY <1>2
  <2>2. late[x][y] \in Nat
    BY DEF IInv, TypeOK
  <2> QED BY <1>5, <2>1, <2>2 DEF IInv, NeighborsAreDirect, LostSession
<1> QED BY <1>3, <1>4, <1>6, <1>7 DEF IInv

(* handleRoutes, by AppliedSound on every destination.                      *)
LEMMA HandleRoutesIInv ==
    ASSUME IInv, NEW n \in Node, NEW p \in Peers[n], HandleRoutes(n, p)
    PROVE  IInv'
<1> DEFINE ad == Head(chan[p][n])
           r  == [d \in Dest |-> Applied(n, p, d, ad)]
           c  == [chan EXCEPT ![p][n] = Tail(@)]
<1>0. p \in Node /\ p # n
  BY PeersAssumption
<1>1. /\ rib' = [rib EXCEPT ![n] = r]
      /\ chan' = IF \E d \in Dest : Changed(n, p, d, ad)
                 THEN Sent(c, n, r, Live(n)) ELSE c
      /\ conn' = conn /\ dials' = dials /\ churn' = churn /\ sess' = sess
      /\ late' = late /\ ending' = ending /\ deleting' = deleting
      /\ phantom' = phantom /\ robbed' = [robbed EXCEPT ![n] = @ \ {p}]
      /\ p \in Live(n) /\ chan[p][n] # <<>>
  BY DEF HandleRoutes, goroutines
<1>2. ad \in Ad /\ AdSound(p, ad)
  <2>1. chan[p][n] \in Seq(Ad)
    BY <1>0 DEF IInv, TypeOK
  <2>2. ad \in Ad /\ ad = chan[p][n][1] /\ 1 \in 1 .. Len(chan[p][n])
    BY <2>1, <1>1
  <2> QED BY <2>2, <1>0 DEF IInv, Sound, ChanSound
<1>3. \A d \in Dest : EntrySound(n, p, d, r[d])
  <2>1. ASSUME NEW d \in Dest PROVE EntrySound(n, p, d, Applied(n, p, d, ad))
    BY <1>2, AppliedSound
  <2> QED BY <2>1
<1>4. r \in [Dest -> Entry] /\ RibSound(n, r)
  BY <1>3 DEF EntrySound, RibSound
<1>5. ChanType(c) /\ ChanSound(c)
  <2>1. \A x, y \in Node : chan[x][y] \in Seq(Ad)
    BY DEF IInv, TypeOK
  <2>2. \A x, y \in Node : c[x][y] = IF x = p /\ y = n THEN Tail(chan[x][y])
                                                      ELSE chan[x][y]
    BY <1>0 DEF IInv, TypeOK
  <2>3. Tail(chan[p][n]) \in Seq(Ad)
    BY <2>1, <1>0, <1>1
  <2>4. ChanType(c)
    BY <2>3, <1>0 DEF IInv, TypeOK, ChanType
  <2>5. ASSUME NEW x \in Node, NEW y \in Node, NEW i \in 1 .. Len(c[x][y])
        PROVE  AdSound(x, c[x][y][i])
    <3>1. CASE x = p /\ y = n
      <4>1. i + 1 \in 1 .. Len(chan[x][y]) /\ c[x][y][i] = chan[x][y][i + 1]
        <5>1. chan[p][n] \in Seq(Ad) /\ chan[p][n] # <<>>
          BY <1>0, <1>1, <2>1
        <5>2. c[x][y] = Tail(chan[p][n]) /\ chan[x][y] = chan[p][n]
          BY <2>2, <3>1
        <5>3. i \in 1 .. Len(Tail(chan[p][n]))
          BY <5>2
        <5>4. /\ i + 1 \in 1 .. Len(chan[p][n])
              /\ Tail(chan[p][n])[i] = chan[p][n][i + 1]
          BY <5>1, <5>3
        <5> QED BY <5>2, <5>4
      <4> QED BY <4>1 DEF IInv, Sound, ChanSound
    <3>2. CASE ~ (x = p /\ y = n)
      BY <3>2, <2>2 DEF IInv, Sound, ChanSound
    <3> QED BY <3>1, <3>2
  <2> QED BY <2>4, <2>5 DEF ChanSound
<1>6. ChanType(chan') /\ ChanSound(chan')
  <2>1. Live(n) \in SUBSET Node
    BY DEF Live
  <2>2. ChanType(Sent(c, n, r, Live(n))) /\ ChanSound(Sent(c, n, r, Live(n)))
    BY <1>4, <1>5, <2>1, SentSound
  <2> QED BY <1>1, <1>5, <2>2
<1>7. rib' \in [Node -> [Dest -> Entry]] /\ Sound'
      /\ \A x \in Node : \A d \in Dest : rib'[x][d] = IF x = n THEN r[d] ELSE rib[x][d]
  BY <1>1, <1>4, <1>6, RibStep
<1> HIDE DEF r
<1>8. TypeOK'
  <2>1. robbed' \in [Node -> SUBSET Node]
    BY <1>0, <1>1 DEF IInv, TypeOK
  <2> QED BY <1>1, <1>6, <1>7, <2>1 DEF IInv, TypeOK, ChanType
<1>9. \A x \in Node : Owned(x)' = Owned(x)
  BY <1>1 DEF Owned
<1>10. p \in Owned(n)
  BY <1>0, <1>1 DEF Live, Owned
<1>11. RoutesHaveSessions'
  <2> SUFFICES ASSUME NEW x \in Node, NEW d \in Dest, rib'[x][d] # NoRoute
               PROVE  \/ rib'[x][d].next \in Owned(x)'
                      \/ d = rib'[x][d].next /\ d \in phantom'[x]
    BY DEF RoutesHaveSessions
  <2>1. (x = n /\ rib'[x][d].next = p) \/ rib'[x][d] = rib[x][d]
    BY <1>3, <1>7 DEF EntrySound
  <2>2. CASE x = n /\ rib'[x][d].next = p
    BY <1>0, <1>9, <1>10, <2>2
  <2>3. CASE rib'[x][d] = rib[x][d]
    <3>1. rib[x][d].next \in Node
      BY <2>3 DEF IInv, Sound, RibSound
    <3> QED BY <1>1, <1>9, <2>3, <3>1 DEF IInv, RoutesHaveSessions
  <2> QED BY <2>1, <2>2, <2>3
<1>12. NeighborsAreDirect'
  <2> SUFFICES ASSUME NEW x \in Node, NEW y \in Node \cap Dest, sess'[x][y] # "none"
               PROVE  \/ rib'[x][y] = Via(y, 1)
                      \/ sess'[x][y] = "new" \/ late'[x][y] > 0
                      \/ y \in robbed'[x]
    BY DEF NeighborsAreDirect
  <2>1. CASE x = n /\ y = p
    BY <1>3, <1>7, <2>1 DEF EntrySound
  <2>2. CASE ~ (x = n /\ y = p)
    <3>1. rib[x][y] = Via(y, 1) => rib'[x][y] = Via(y, 1)
      BY <1>3, <1>7, <2>2 DEF EntrySound
    <3>2. y \in robbed[x] => y \in robbed'[x]
      BY <1>1, <2>2 DEF IInv, TypeOK
    <3> QED BY <1>1, <3>1, <3>2 DEF IInv, NeighborsAreDirect
  <2> QED BY <2>1, <2>2
<1> QED BY <1>7, <1>8, <1>11, <1>12 DEF IInv

(* Only entries that exist go stale, and marking one expired changes        *)
(* neither its next hop nor its metric; a direct route never is.            *)
LEMMA HolddownElapsesIInv ==
    ASSUME IInv, NEW n \in Node, NEW t \in Dest, HolddownElapses(n, t)
    PROVE  IInv'
<1> DEFINE e == [rib[n][t] EXCEPT !.stale = "expired"]
<1>1. /\ rib' = [rib EXCEPT ![n][t].stale = "expired"]
      /\ rib[n][t].stale = "held"
      /\ conn' = conn /\ sess' = sess /\ chan' = chan /\ churn' = churn
      /\ late' = late /\ ending' = ending /\ deleting' = deleting
      /\ phantom' = phantom /\ robbed' = robbed /\ dials' = dials
  BY DEF HolddownElapses, goroutines
<1>2. rib[n][t] \in Entry /\ rib[n][t] # NoRoute
  BY <1>1 DEF IInv, TypeOK, NoRoute
<1>3. e \in Entry /\ e.next = rib[n][t].next /\ e.metric = rib[n][t].metric
  BY <1>2 DEF Entry, Staleness
<1>4. \A x \in Node : \A d \in Dest :
         rib'[x][d] = IF x = n /\ d = t THEN e ELSE rib[x][d]
  BY <1>1 DEF IInv, TypeOK
<1>5. TypeOK'
  <2>1. rib' \in [Node -> [Dest -> Entry]]
    BY <1>1, <1>3 DEF IInv, TypeOK
  <2> QED BY <1>1, <2>1 DEF IInv, TypeOK
<1> HIDE DEF e
<1>6. rib[n][t] # Via(t, 1) /\ rib[n][t].next # t
  <2>1. Via(t, 1).stale = "fresh"
    BY DEF Via
  <2> QED BY <1>1, <1>2, <2>1 DEF IInv, Sound, RibSound
<1>7. Sound'
  <2>1. ASSUME NEW x \in Node PROVE RibSound(x, rib'[x])
    BY <1>2, <1>3, <1>4, <1>6 DEF IInv, Sound, RibSound
  <2> QED BY <1>1, <2>1 DEF IInv, Sound
<1>8. \A x \in Node : Owned(x)' = Owned(x)
  BY <1>1 DEF Owned
<1>9. RoutesHaveSessions'
  <2> SUFFICES ASSUME NEW x \in Node, NEW d \in Dest, rib'[x][d] # NoRoute
               PROVE  \/ rib'[x][d].next \in Owned(x)'
                      \/ d = rib'[x][d].next /\ d \in phantom'[x]
    BY DEF RoutesHaveSessions
  <2>1. rib[x][d] # NoRoute /\ rib'[x][d].next = rib[x][d].next
    BY <1>2, <1>3, <1>4
  <2>2. rib[x][d].next \in Node
    BY <2>1 DEF IInv, Sound, RibSound
  <2> QED BY <1>1, <1>8, <2>1, <2>2 DEF IInv, RoutesHaveSessions
<1>10. NeighborsAreDirect'
  BY <1>1, <1>4, <1>6 DEF IInv, NeighborsAreDirect
<1> QED BY <1>5, <1>7, <1>9, <1>10 DEF IInv

(* The refresh tick deletes expired entries; a direct neighbour's is fresh. *)
LEMMA MaintainIInv ==
    ASSUME IInv, NEW n \in Node, Maintain(n)
    PROVE  IInv'
<1> DEFINE r == Unexpired(n)
           c == IF r # rib[n] THEN advertiseRoutes(n, r) ELSE chan
<1>1. /\ rib' = [rib EXCEPT ![n] = r]
      /\ chan' = Sent(c, n, r, Live(n))
      /\ conn' = conn /\ sess' = sess /\ dials' = dials /\ churn' = churn
      /\ late' = late /\ ending' = ending /\ deleting' = deleting
      /\ phantom' = phantom /\ robbed' = robbed
  BY DEF Maintain, goroutines
<1>2. \A d \in Dest : \/ r[d] = NoRoute /\ rib[n][d].stale = "expired"
                      \/ r[d] = rib[n][d]
  BY DEF Unexpired
<1>3. r \in [Dest -> Entry] /\ RibSound(n, r)
  BY NoRouteType DEF IInv, TypeOK, Sound, RibSound, Unexpired
<1> HIDE DEF r
<1>4. ChanType(chan') /\ ChanSound(chan')
  <2>1. ChanType(c) /\ ChanSound(c)
    BY <1>3, WrittenSound
  <2>2. Live(n) \in SUBSET Node
    BY DEF Live
  <2> HIDE DEF c
  <2> QED BY <1>1, <1>3, <2>1, <2>2, SentSound
<1>5. rib' \in [Node -> [Dest -> Entry]] /\ Sound'
      /\ \A x \in Node : \A d \in Dest : rib'[x][d] = IF x = n THEN r[d] ELSE rib[x][d]
  BY <1>1, <1>3, <1>4, RibStep
<1>6. TypeOK'
  BY <1>1, <1>4, <1>5 DEF IInv, TypeOK, ChanType
<1>7. \A x \in Node : Owned(x)' = Owned(x)
  BY <1>1 DEF Owned
<1>8. RoutesHaveSessions'
  <2> SUFFICES ASSUME NEW x \in Node, NEW d \in Dest, rib'[x][d] # NoRoute
               PROVE  \/ rib'[x][d].next \in Owned(x)'
                      \/ d = rib'[x][d].next /\ d \in phantom'[x]
    BY DEF RoutesHaveSessions
  <2>1. rib'[x][d] = rib[x][d]
    BY <1>2, <1>5
  <2>2. rib[x][d].next \in Node
    BY <2>1 DEF IInv, Sound, RibSound
  <2> QED BY <1>1, <1>7, <2>1, <2>2 DEF IInv, RoutesHaveSessions
<1>9. NeighborsAreDirect'
  <2>1. \A p \in Node : Via(p, 1).stale = "fresh"
    BY DEF Via
  <2>2. \A x \in Node : \A y \in Node \cap Dest :
           rib[x][y] = Via(y, 1) => rib'[x][y] = Via(y, 1)
    BY <1>2, <1>5, <2>1
  <2> QED BY <1>1, <2>2 DEF IInv, NeighborsAreDirect
<1> QED BY <1>5, <1>6, <1>8, <1>9 DEF IInv

LEMMA NextIInv == IInv /\ [Next]_vars => IInv'
<1> SUFFICES ASSUME IInv, [Next]_vars PROVE IInv'
  OBVIOUS
<1>1. ASSUME NEW n \in Node, NEW p \in Peers[n], Connect(n, p) PROVE IInv'
  <2>0. p \in Node
    BY PeersAssumption
  <2>1. conn' \in [Node -> SUBSET Node]
    BY <1>1, <2>0 DEF Connect, IInv, TypeOK
  <2>3. dials' \in 0 .. MaxDials
    BY <1>1, BoundsAssumption DEF Connect, IInv, TypeOK
  <2>2. /\ rib' = rib /\ chan' = chan /\ sess' = sess /\ churn' = churn
        /\ late' = late /\ ending' = ending /\ deleting' = deleting
        /\ phantom' = phantom /\ robbed' = robbed
    BY <1>1 DEF Connect, goroutines
  <2> QED BY <2>1, <2>2, <2>3 DEF IInv, TypeOK, Sound, RibSound, ChanSound,
                                  RoutesHaveSessions, NeighborsAreDirect, Owned
<1>2. ASSUME NEW n \in Node, ChangeElsewhere(n) PROVE IInv'
  <2>1. RibSound(n, rib[n]) /\ rib[n] \in [Dest -> Entry]
    BY DEF IInv, TypeOK, Sound
  <2>2. chan' = advertiseRoutes(n, rib[n])
    BY <1>2 DEF ChangeElsewhere
  <2>3. ChanType(chan') /\ ChanSound(chan')
    BY <2>1, <2>2, WrittenSound
  <2>4. /\ conn' = conn /\ sess' = sess /\ rib' = rib /\ churn' = churn
        /\ late' = late /\ ending' = ending /\ deleting' = deleting
        /\ phantom' = phantom /\ robbed' = robbed /\ dials' = dials
    BY <1>2 DEF ChangeElsewhere, goroutines
  <2>5. TypeOK'
    BY <2>3, <2>4 DEF IInv, TypeOK, ChanType
  <2>6. Sound'
    BY <2>3, <2>4 DEF IInv, Sound
  <2> QED BY <2>4, <2>5, <2>6 DEF IInv, RoutesHaveSessions, NeighborsAreDirect, Owned
<1>3. CASE UNCHANGED vars
  BY <1>3 DEF vars, goroutines, IInv, TypeOK, Sound, RibSound, ChanSound,
              RoutesHaveSessions, NeighborsAreDirect, Owned
<1> QED BY <1>1, <1>2, <1>3, RegisterIInv, SessionUpIInv, LateSessionUpIInv,
           DisconnectIInv, UnregisterIInv, SessionDownCheckIInv, SessionDownIInv,
           HandleRoutesIInv, CrashIInv, MaintainIInv, HolddownElapsesIInv
           DEF Next

-----------------------------------------------------------------------------
(* Theorems                                                                 *)

(* In every behaviour of the mesh the inductive invariant holds.            *)
THEOREM Invariance == Spec => []IInv
BY InitIInv, NextIInv, PTL DEF Spec

(* Type correctness of sessions, RIBs and messages.                         *)
THEOREM TypeCorrect == Spec => []TypeOK
<1>1. IInv => TypeOK
  BY DEF IInv
<1> QED BY <1>1, Invariance, PTL

(* handleRoutes never lets a RIB or a message claim a path shorter than the *)
(* mesh can have, through any churn, hold-down or counting to infinity.     *)
THEOREM NoUnderestimate == Spec => []MetricNeverUnderestimates
<1>1. IInv => MetricNeverUnderestimates
  BY DEF IInv, Sound, RibSound, ChanSound, AdSound, MetricNeverUnderestimates
<1> QED BY <1>1, Invariance, PTL

(* Of establish, readLoop, onSessionUp and onSessionDown, lock by lock: a   *)
(* route whose next hop has no session is about to be deleted, except the   *)
(* direct route of an onSessionUp that came after the clean-up.             *)
THEOREM RoutesAreOwned == Spec => []RoutesHaveSessions
<1>1. IInv => RoutesHaveSessions
  BY DEF IInv
<1> QED BY <1>1, Invariance, PTL

(* No advertisement displaces, lengthens or ages the direct route to a peer *)
(* with a registered session: if it is not there, onSessionUp has yet to    *)
(* run or an earlier session's onSessionDown has deleted it since.          *)
THEOREM DirectRoutesStay == Spec => []NeighborsAreDirect
<1>1. IInv => NeighborsAreDirect
  BY DEF IInv
<1> QED BY <1>1, Invariance, PTL
-----------------------------------------------------------------------------
(* What a step may do to a route                                            *)

(* A node at one hop is the next hop itself: the smallest metric a message  *)
(* can carry for somebody else's destination is 1.                          *)
OneHopIsDirect ==
    \A n \in Node : \A d \in Node \cap Dest :
        rib[n][d].metric = 1 => rib[n][d].next = d

(* Offer replaces the entry, deletes it, or leaves it alone.                *)
LEMMA OfferCases ==
    ASSUME NEW p \in Node, NEW m \in Nat, NEW e \in Entry
    PROVE  \/ Offer(e, p, m) = e
           \/ m + 1 >= Infinity /\ e.next = p /\ Offer(e, p, m) = NoRoute
           \/ /\ m + 1 < Infinity /\ Offer(e, p, m) = Via(p, m + 1)
              /\ e.next = NoNode \/ e.next = p \/ m + 1 < e.metric
BY BoundsAssumption DEF Offer, Entry

(* Withdraw marks or deletes what is routed via the sender, the latter only *)
(* after the hold-down.                                                     *)
LEMMA WithdrawCases ==
    ASSUME NEW p, NEW e \in Entry
    PROVE  \/ Withdraw(e, p) = e
           \/ e.stale = "expired" /\ Withdraw(e, p) = NoRoute
           \/ /\ Withdraw(e, p).next = e.next
              /\ Withdraw(e, p).metric = e.metric
              /\ Withdraw(e, p).stale = "held"
<1>1. e.stale \in {"fresh", "held", "expired"}
  BY DEF Entry, Staleness
<1>2. CASE e.next = p /\ e.stale = "fresh"
  <2>1. Withdraw(e, p) = [e EXCEPT !.stale = "held"]
    BY <1>2 DEF Withdraw
  <2> QED BY <2>1 DEF Entry
<1>3. CASE e.next = p /\ e.stale # "fresh"
  BY <1>1, <1>3 DEF Withdraw
<1>4. CASE e.next # p
  BY <1>4 DEF Withdraw
<1> QED BY <1>2, <1>3, <1>4

(* The sender's own destinations are offered at metric 0, which is accepted *)
(* or no better than what is there: a stage that never deletes.             *)
LEMMA OriginatedCases ==
    ASSUME IInv, NEW n \in Node, NEW p \in Peers[n], NEW d \in Dest, d # p
    PROVE  \/ Originated(n, p, d) = rib[n][d]
           \/ /\ d # n /\ d \in Origin(p) /\ Originated(n, p, d) = Via(p, 1)
<1>1. p \in Node /\ rib[n][d] \in Entry
  BY PeersAssumption DEF IInv, TypeOK
<1>2. Direct(n, p, d) = rib[n][d]
  BY DEF Direct
<1>3. CASE d # n /\ d \in Origin(p)
  <2>1. Originated(n, p, d) = Offer(rib[n][d], p, 0)
    BY <1>2, <1>3 DEF Originated
  <2>2. ~ (0 + 1 >= Infinity) /\ 0 + 1 = 1
    BY BoundsAssumption
  <2> QED BY <1>1, <1>3, <2>1, <2>2, OfferCases
<1>4. CASE ~ (d # n /\ d \in Origin(p))
  BY <1>2, <1>4 DEF Originated
<1> QED BY <1>3, <1>4

(* handleRoutes deletes a route only after the hold-down or when the sender *)
(* reports it at the limit and is its next hop, or becomes it first.        *)
LEMMA AppliedDeletes ==
    ASSUME IInv, NEW n \in Node, NEW p \in Peers[n], NEW d \in Dest,
           NEW ad \in Ad, AdSound(p, ad),
           rib[n][d] # NoRoute, Applied(n, p, d, ad) = NoRoute
    PROVE  \/ rib[n][d].stale = "expired"
           \/ /\ p = rib[n][d].next \/ d \in Origin(p)
              /\ ad[d] = Infinity - 1
<1> DEFINE e == rib[n][d]
           o == Originated(n, p, d)
<1>1. p \in Node /\ e \in Entry /\ ad[d] \in 1 .. Infinity
  BY PeersAssumption DEF IInv, TypeOK, Ad
<1>2. d # p
  <2>1. Via(p, 1) # NoRoute
    BY <1>1, ViaType, BoundsAssumption
  <2> QED BY <2>1, AppliedSound DEF EntrySound
<1>3. \/ o = e
      \/ d # n /\ d \in Origin(p) /\ o = Via(p, 1)
  BY <1>2, OriginatedCases
<1>4. o \in Entry /\ o # NoRoute
  BY <1>1, <1>3, ViaType, BoundsAssumption
<1>5. CASE Mentioned(n, p, d, ad)
  <2>1. Learned(n, p, d, ad) = NoRoute
    BY <1>5 DEF Applied
  <2>2. d # n /\ ad[d] < Infinity /\ Offer(o, p, ad[d]) = NoRoute
    BY <1>4, <2>1 DEF Learned
  <2>3. ad[d] + 1 >= Infinity /\ o.next = p
    <3>1. \/ ad[d] + 1 >= Infinity /\ o.next = p
          \/ ad[d] + 1 < Infinity /\ Via(p, ad[d] + 1) = NoRoute
      BY <1>1, <1>4, <2>2, OfferCases
    <3>2. ad[d] + 1 < Infinity => Via(p, ad[d] + 1) # NoRoute
      BY <1>1, ViaType, BoundsAssumption
    <3> QED BY <3>1, <3>2
  <2>4. ad[d] = Infinity - 1
    BY <1>1, <2>2, <2>3, BoundsAssumption
  <2> QED BY <1>3, <2>3, <2>4
<1>6. CASE ~ Mentioned(n, p, d, ad)
  <2>1. Learned(n, p, d, ad) = o
    BY <1>2, <1>6 DEF Learned, Mentioned
  <2>2. Withdraw(o, p) = NoRoute
    BY <1>6, <2>1 DEF Applied
  <2>3. o = e
    BY <1>3, <1>6 DEF Mentioned
  <2>4. NoRoute.stale = "fresh"
    BY DEF NoRoute
  <2> QED BY <1>1, <1>4, <2>2, <2>3, <2>4, WithdrawCases
<1> QED BY <1>5, <1>6

(* handleRoutes moves a route to a node to the sender only if the way by it *)
(* is shorter, and one by somebody else is never one hop.                   *)
LEMMA AppliedSwitches ==
    ASSUME IInv, NEW n \in Node, NEW p \in Peers[n], NEW d \in Dest \cap Node,
           NEW ad \in Ad, AdSound(p, ad)
    PROVE  LET e == rib[n][d]
               a == Applied(n, p, d, ad)
           IN  \/ a = NoRoute
               \/ a.next = e.next /\ (a.metric = e.metric \/ a.metric # 1)
               \/ d = p /\ a = Via(d, 1)
               \/ a.metric # 1 /\ (e = NoRoute \/ a.metric < e.metric)
<1> DEFINE e == rib[n][d]
           a == Applied(n, p, d, ad)
           l == Learned(n, p, d, ad)
<1>1. p \in Node /\ e \in Entry /\ ad[d] \in 1 .. Infinity
  BY PeersAssumption DEF IInv, TypeOK, Ad
<1>2. CASE d = p
  BY <1>2, AppliedSound DEF EntrySound
<1>3. CASE d # p
  <2>1. Originated(n, p, d) = e
    BY <1>3, OriginatedCases, NodeAssumption DEF Origin
  <2>2. \/ l = e
        \/ l = NoRoute
        \/ /\ l = Via(p, ad[d] + 1)
           /\ (e.next = NoNode \/ e.next = p \/ ad[d] + 1 < e.metric)
    BY <1>1, <2>1, OfferCases DEF Learned
  <2>3. a = l \/ (~ Mentioned(n, p, d, ad) /\ a = Withdraw(l, p))
    BY DEF Applied
  <2>4. CASE a = l
    <3>1. e.next = NoNode => e = NoRoute
      BY NodeAssumption DEF IInv, Sound, RibSound
    <3>2. Via(p, ad[d] + 1).next = p /\ Via(p, ad[d] + 1).metric = ad[d] + 1
      BY DEF Via
    <3> QED BY <1>1, <2>2, <2>4, <3>1, <3>2
  <2>5. CASE ~ Mentioned(n, p, d, ad) /\ a = Withdraw(l, p)
    <3>1. l = e
      BY <1>3, <2>1, <2>5 DEF Mentioned, Learned
    <3> QED BY <1>1, <2>5, <3>1, WithdrawCases
  <2> QED BY <2>3, <2>4, <2>5
<1> QED BY <1>2, <1>3

(* The message that handleRoutes reads is what a peer may claim.            *)
LEMMA HeadSound ==
    ASSUME IInv, NEW n \in Node, NEW p \in Node, chan[p][n] # <<>>
    PROVE  Head(chan[p][n]) \in Ad /\ AdSound(p, Head(chan[p][n]))
<1>1. chan[p][n] \in Seq(Ad)
  BY DEF IInv, TypeOK
<1>2. /\ Head(chan[p][n]) \in Ad /\ Head(chan[p][n]) = chan[p][n][1]
      /\ 1 \in 1 .. Len(chan[p][n])
  BY <1>1
<1> QED BY <1>2 DEF IInv, Sound, ChanSound

(* Every other step installs a direct route, deletes, or leaves next hop    *)
(* and metric alone.                                                        *)
OtherSteps(n, d) ==
    \/ rib'[n][d] = rib[n][d]
    \/ rib'[n][d] = NoRoute /\ ( \/ rib[n][d].stale = "expired"
                                 \/ sess'[n][rib[n][d].next] = "none"
                                 \/ deleting'[n][rib[n][d].next]
                                       < deleting[n][rib[n][d].next] )
    \/ rib'[n][d] # NoRoute /\ rib'[n][d] = Via(d, 1)
    \/ /\ rib'[n][d] # NoRoute
       /\ rib'[n][d].next = rib[n][d].next
       /\ rib'[n][d].metric = rib[n][d].metric

HandledFrom(n, p) == HandleRoutes(n, p) /\ p \in Peers[n]

LEMMA StepCases ==
    ASSUME IInv, [Next]_vars, NEW n \in Node, NEW d \in Dest
    PROVE  \/ OtherSteps(n, d)
           \/ \E p \in Node : HandledFrom(n, p)
<1>0. TypeOK /\ \A x \in Node : Peers[x] \subseteq Node
  BY PeersAssumption DEF IInv
<1>1. ASSUME NEW x \in Node, NEW p \in Peers[x],
             \/ Connect(x, p) \/ Disconnect(x, p) \/ Register(x, p)
             \/ Unregister(x, p) \/ SessionDownCheck(x, p)
      PROVE  OtherSteps(n, d)
  BY <1>1 DEF Connect, Disconnect, Register, Unregister, SessionDownCheck, OtherSteps
<1>2. ASSUME NEW x \in Node, NEW p \in Peers[x], SessionUp(x, p) \/ LateSessionUp(x, p)
      PROVE  OtherSteps(n, d)
  <2>1. p \in Node /\ Via(p, 1) # NoRoute
    BY <1>0, ViaType, BoundsAssumption
  <2>2. rib' = [rib EXCEPT ![x] = WithDirect(x, p)]
    BY <1>2 DEF SessionUp, LateSessionUp
  <2>3. rib'[n][d] = IF n = x /\ d = p THEN Via(p, 1) ELSE rib[n][d]
    BY <1>0, <2>2 DEF WithDirect, TypeOK
  <2> QED BY <2>1, <2>3 DEF OtherSteps
<1>3. ASSUME NEW x \in Node, NEW p \in Peers[x], SessionDown(x, p)
      PROVE  OtherSteps(n, d)
  <2>1. /\ p \in Node
        /\ rib'[n][d] = (IF n = x /\ rib[n][d].next = p THEN NoRoute
                                                        ELSE rib[n][d])
    BY <1>0, <1>3 DEF SessionDown, TypeOK
  <2>2. deleting'[x][p] < deleting[x][p]
    <3>1. deleting[x][p] \in Nat /\ deleting \in [Node -> [Node -> Nat]]
      BY <1>0, <2>1 DEF TypeOK
    <3>2. deleting[x][p] > 0 /\ deleting' = Fewer(deleting, x, p)
      BY <1>3 DEF SessionDown
    <3>3. deleting'[x][p] = deleting[x][p] - 1
      BY <2>1, <3>1, <3>2, FewerCounts
    <3> QED BY <3>1, <3>3
  <2> QED BY <2>1, <2>2 DEF OtherSteps
<1>4. ASSUME NEW x \in Node, NEW p \in Peers[x], HandleRoutes(x, p)
      PROVE  OtherSteps(n, d) \/ HandledFrom(n, p)
  <2>1. n # x => rib'[n][d] = rib[n][d]
    BY <1>0, <1>4 DEF HandleRoutes, TypeOK
  <2> QED BY <1>4, <2>1 DEF OtherSteps, HandledFrom
<1>5. ASSUME NEW x \in Node, Crash(x)
      PROVE  OtherSteps(n, d)
  <2>1. CASE n # x
    BY <1>0, <1>5, <2>1 DEF Crash, OtherSteps, TypeOK
  <2>2. CASE n = x
    <3>1. rib'[n][d] = NoRoute /\ \A p \in Node : sess'[n][p] = "none"
      BY <1>0, <1>5, <2>2 DEF Crash, TypeOK
    <3>2. rib[n][d] = NoRoute \/ rib[n][d].next \in Node
      BY DEF IInv, Sound, RibSound
    <3> QED BY <3>1, <3>2 DEF OtherSteps
  <2> QED BY <2>1, <2>2
<1>6. ASSUME NEW x \in Node, Maintain(x)
      PROVE  OtherSteps(n, d)
  <2>1. rib'[n][d] = IF n = x /\ rib[n][d].stale = "expired" THEN NoRoute
                                                             ELSE rib[n][d]
    BY <1>0, <1>6 DEF Maintain, Unexpired, TypeOK
  <2> QED BY <2>1 DEF OtherSteps
<1>7. ASSUME NEW x \in Node, ChangeElsewhere(x)
      PROVE  OtherSteps(n, d)
  BY <1>7 DEF ChangeElsewhere, OtherSteps
<1>8. ASSUME NEW x \in Node, NEW t \in Dest, HolddownElapses(x, t)
      PROVE  OtherSteps(n, d)
  <2>1. CASE n = x /\ d = t
    <3>1. rib'[n][d] = [rib[n][d] EXCEPT !.stale = "expired"]
      BY <1>0, <1>8, <2>1 DEF HolddownElapses, TypeOK
    <3>2. rib[n][d] \in Entry
      BY <1>0 DEF TypeOK
    <3>3. /\ rib'[n][d].stale = "expired"
          /\ rib'[n][d].next = rib[n][d].next
          /\ rib'[n][d].metric = rib[n][d].metric
      BY <3>1, <3>2 DEF Entry
    <3>4. NoRoute.stale = "fresh"
      BY DEF NoRoute
    <3> QED BY <3>3, <3>4 DEF OtherSteps
  <2>2. CASE ~ (n = x /\ d = t)
    BY <1>0, <1>8, <2>2 DEF HolddownElapses, TypeOK, OtherSteps
  <2> QED BY <2>1, <2>2
<1>9. CASE UNCHANGED vars
  BY <1>9 DEF vars, OtherSteps
<1> QED BY <1>0, <1>1, <1>2, <1>3, <1>4, <1>5, <1>6, <1>7, <1>8, <1>9 DEF Next

LEMMA OneHopInductive ==
    ASSUME IInv, OneHopIsDirect, [Next]_vars
    PROVE  OneHopIsDirect'
<1> SUFFICES ASSUME NEW n \in Node, NEW d \in Node \cap Dest,
                    rib'[n][d].metric = 1
             PROVE  rib'[n][d].next = d
  BY DEF OneHopIsDirect
<1>1. NoRoute.metric # 1 /\ Via(d, 1).next = d
  BY BoundsAssumption DEF NoRoute, Via
<1>2. rib[n][d].metric = 1 => rib[n][d].next = d
  BY DEF OneHopIsDirect
<1>3. CASE OtherSteps(n, d)
  BY <1>1, <1>2, <1>3 DEF OtherSteps
<1>4. ASSUME NEW p \in Node, HandledFrom(n, p)
      PROVE  rib'[n][d].next = d
  <2> DEFINE ad == Head(chan[p][n])
  <2>1. /\ p \in Peers[n] /\ chan[p][n] # <<>>
        /\ rib'[n][d] = Applied(n, p, d, ad)
    BY <1>4 DEF HandledFrom, HandleRoutes, IInv, TypeOK
  <2>2. ad \in Ad /\ AdSound(p, ad)
    BY <2>1, HeadSound
  <2> HIDE DEF ad
  <2> QED BY <1>1, <1>2, <2>1, <2>2, AppliedSwitches
<1> QED BY <1>3, <1>4, StepCases

(* Of handleRoutes, expireStaleRoutes and onSessionDown: a route whose next *)
(* hop has a registered session goes only after a full hold-down, because a *)
(* peer it leads to, or is about to, reports it at the infinity limit, or   *)
(* with the deletion of an earlier session's onSessionDown, past its check. *)
THEOREM SparseUpdatesCostNothing == Spec => HolddownProtects
<1> DEFINE Kept(n, d) ==
        (/\ rib[n][d] # NoRoute /\ rib'[n][d] = NoRoute
         /\ sess'[n][rib[n][d].next] # "none")
        => \/ rib[n][d].stale = "expired"
           \/ deleting'[n][rib[n][d].next] < deleting[n][rib[n][d].next]
           \/ \E q \in Node : /\ q = rib[n][d].next \/ d \in Origin(q)
                              /\ chan[q][n] # <<>>
                              /\ Head(chan[q][n])[d] = Infinity - 1
<1>1. ASSUME IInv, [Next]_vars, NEW n \in Node, NEW d \in Dest
      PROVE  Kept(n, d)
  <2>1. CASE OtherSteps(n, d)
    BY <2>1 DEF OtherSteps
  <2>2. ASSUME NEW p \in Node, HandledFrom(n, p)
        PROVE  Kept(n, d)
    <3> DEFINE ad == Head(chan[p][n])
    <3>1. /\ p \in Peers[n] /\ chan[p][n] # <<>>
          /\ rib'[n][d] = Applied(n, p, d, ad)
      BY <1>1, <2>2 DEF HandledFrom, HandleRoutes, IInv, TypeOK
    <3>2. ad \in Ad /\ AdSound(p, ad)
      BY <1>1, <3>1, HeadSound
    <3> QED BY <1>1, <3>1, <3>2, AppliedDeletes
  <2> QED BY <1>1, <2>1, <2>2, StepCases
<1>2. IInv /\ [Next]_vars => [\A n \in Node : \A d \in Dest : Kept(n, d)]_vars
  BY <1>1
<1> QED BY <1>2, Invariance, PTL DEF Spec, HolddownProtects

(* Of the comparison in handleRoutes and of onSessionUp: a route to a node  *)
(* that is there moves to another next hop only to become shorter.          *)
THEOREM SwitchesShorten == Spec => NodeRoutesSwitchToShorter
<1>1. ASSUME IInv, OneHopIsDirect, [Next]_vars, NEW d \in Dest \cap Node
      PROVE  Switch(d)
  <2> SUFFICES ASSUME NEW n \in Node, rib[n][d] # NoRoute,
                      rib'[n][d] # NoRoute, rib'[n][d].next # rib[n][d].next
               PROVE  rib'[n][d].metric < rib[n][d].metric
    BY DEF Switch
  <2>1. CASE OtherSteps(n, d)
    <3>1. rib'[n][d] = Via(d, 1)
      BY <2>1 DEF OtherSteps
    <3>2. rib[n][d].metric \in 1 .. Infinity
      BY <1>1 DEF IInv, TypeOK, Entry
    <3>3. rib[n][d].metric # 1
      BY <1>1, <3>1 DEF OneHopIsDirect, Via
    <3> QED BY <3>1, <3>2, <3>3, BoundsAssumption DEF Via
  <2>2. ASSUME NEW p \in Node, HandledFrom(n, p)
        PROVE  rib'[n][d].metric < rib[n][d].metric
    <3> DEFINE ad == Head(chan[p][n])
    <3>1. /\ p \in Peers[n] /\ chan[p][n] # <<>>
          /\ rib'[n][d] = Applied(n, p, d, ad)
      BY <1>1, <2>2 DEF HandledFrom, HandleRoutes, IInv, TypeOK
    <3>2. ad \in Ad /\ AdSound(p, ad)
      BY <1>1, <3>1, HeadSound
    <3> HIDE DEF ad
    <3>3. rib[n][d].metric \in 1 .. Infinity
      BY <1>1 DEF IInv, TypeOK, Entry
    <3>4. CASE rib'[n][d] = Via(d, 1)
      <4>1. rib[n][d].metric # 1
        BY <1>1, <3>4 DEF OneHopIsDirect, Via
      <4> QED BY <3>3, <3>4, <4>1, BoundsAssumption DEF Via
    <3>5. CASE rib'[n][d] # Via(d, 1)
      BY <1>1, <3>1, <3>2, <3>5, AppliedSwitches
    <3> QED BY <3>4, <3>5
  <2> QED BY <1>1, <2>1, <2>2, StepCases
<1>2. Init => OneHopIsDirect
  BY BoundsAssumption DEF Init, OneHopIsDirect, NoRoute
<1>3. IInv /\ OneHopIsDirect /\ [Next]_vars => OneHopIsDirect'
  BY OneHopInductive
<1>4. IInv /\ OneHopIsDirect /\ [Next]_vars
      => [\A d \in Dest \cap Node : Switch(d)]_vars
  BY <1>1
<1> QED BY <1>2, <1>3, <1>4, Invariance, PTL
        DEF Spec, NodeRoutesSwitchToShorter
=============================================================================
