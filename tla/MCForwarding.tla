----------------------------- MODULE MCForwarding -----------------------------
(* A triangle with a stub: enough for a forwarding loop that never goes     *)
(* straight back.  Two scenarios over the same packet path: the clients a   *)
(* and d share the exit c, or b traces a route.                             *)
EXTENDS ExitPath, Traceroute, TLC

CONSTANTS a, b, c, d

Spur == [n \in Node |-> CASE n = a -> {b, c, d} [] n = b -> {a, c}
                          [] n = c -> {a, b}    [] n = d -> {a}]

(* b and d have the same plumbing address.                                  *)
Colliding == [n \in Node |-> IF n = d THEN b ELSE n]

NoTrace == [state |-> "none", dst |-> NoNode, hops |-> <<>>, hop |-> NoHop,
            reach |-> FALSE]

MCInit == \/ /\ ExitInit
             /\ trace = NoTrace /\ late = {} /\ mark = [depth |-> 0, reply |-> "none"]
          \/ /\ TraceInit
             /\ exitClients = [e \in Exits |-> [x \in Address |-> NoNode]]
             /\ flows = [e \in Exits |-> {}] /\ carried = NoNode

MCNext == \/ trace = NoTrace /\ ExitNext /\ UNCHANGED <<trace, mark, late>>
          \/ trace # NoTrace /\ TraceNext
             /\ UNCHANGED <<exitClients, flows, carried>>

MCSpec == MCInit /\ [][MCNext]_<<exitVars, trace, mark, late>>
=============================================================================
