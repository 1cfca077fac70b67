-------------------------------- MODULE MCEcho --------------------------------
(* A small session graph for TLC.                                           *)
EXTENDS Echo, TLC

CONSTANTS a, b, c, d, e

(* A ring a, b, c; the target d is behind e, which is behind c.             *)
Ring == [n \in Node |-> CASE n = a -> {b, c} [] n = b -> {a, c}
                          [] n = c -> {a, b, e} [] n = e -> {c, d}
                          [] n = d -> {e}]
=============================================================================
