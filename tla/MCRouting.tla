------------------------------ MODULE MCRouting ------------------------------
(* Small meshes for TLC.                                                    *)
EXTENDS Routing, FiniteSets, TLC

CONSTANTS a, b, c, d

Line == [n \in Node |-> CASE n = a -> {b} [] n = b -> {a, c} [] n = c -> {b}]

Triangle == [n \in Node |-> Node \ {n}]

(* A triangle a, b, c with the stub d attached to a. *)
Spur == [n \in Node |-> CASE n = a -> {b, c, d} [] n = b -> {a, c}
                          [] n = c -> {a, b}    [] n = d -> {a}]

(* The true hop counts in the graph Peers: breadth first from the origins.  *)
Hops ==
    LET Within[k \in 0 .. Cardinality(Node) - 1] ==
            [t \in Dest |->
                IF k = 0 THEN {n \in Node : t \in Origin(n)}
                ELSE {n \in Node : n \in Within[k - 1][t]
                                 \/ Peers[n] \cap Within[k - 1][t] # {}}]
    IN  [n \in Node |-> [t \in Dest |->
            CHOOSE k \in DOMAIN Within :
                n \in Within[k][t] /\ \A j \in 0 .. k - 1 : n \notin Within[j][t]]]

(* Bounds: the links that may be lost, only the one of a and b, or none.    *)
FirstLink == [n \in Node |-> CASE n = b -> {a} [] n = a -> {b} [] OTHER -> {}]

NoLink == [n \in Node |-> {}]

(* A state Spec reaches: the members of up have all their connections with  *)
(* each other, every handler has run, every message is read, and the RIBs   *)
(* hold the shortest paths.  Counts as k connections.                       *)
Calm(up, k) ==
    /\ conn = [n \in Node |-> IF n \in up THEN Peers[n] \cap up ELSE {}]
    /\ sess = [n \in Node |-> [p \in Node |-> IF p \in conn[n] THEN "live" ELSE "none"]]
    /\ rib = [n \in Node |-> [t \in Dest |->
                IF n \notin up \/ t \in Origin(n) \/ \A o \in up : t \notin Origin(o)
                THEN NoRoute
                ELSE Via(CHOOSE p \in Peers[n] : HopDist[p][t] < HopDist[n][t],
                         HopDist[n][t])]]
    /\ late = [n \in Node |-> [p \in Node |-> 0]]
    /\ ending = [n \in Node |-> [p \in Node |-> 0]]
    /\ deleting = [n \in Node |-> [p \in Node |-> 0]]
    /\ chan = [n \in Node |-> [p \in Node |-> <<>>]]
    /\ phantom = [n \in Node |-> {}]
    /\ robbed = [n \in Node |-> {}]
    /\ dials = k
    /\ churn = 0

(* The Line: a and b are up, c comes, crashes and comes back, or a and b    *)
(* lose each other and meet again.                                          *)
LineSpec == Calm({a, b}, 1) /\ [][Next]_vars

(* The Spur: from nothing, with a few connections, or with all of them up   *)
(* and no further one to come.                                              *)
SpurSpec == (Init \/ Calm(Node, MaxDials)) /\ [][Next]_vars /\ Fairness
=============================================================================
