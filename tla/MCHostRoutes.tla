----------------------------- MODULE MCHostRoutes -----------------------------
EXTENDS HostRoutes, TLC

(* Holders are interchangeable, and so are all workers but the one that     *)
(* runs Close.                                                              *)
Symmetry == {p @@ q : p \in Permutations(Holder),
                      q \in Permutations(Worker \ {CloseWorker})}
=============================================================================
