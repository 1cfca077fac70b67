----------------------------- MODULE MCBootstrap -----------------------------
(* Two terminals, one directory, two nodes, one of them called "ca":        *)
(* bootstrap and the commands that take no lock.                            *)
EXTENDS Bootstrap

CONSTANTS foo, p1, p2

MCJobs == {[kind |-> "bootstrap", names |-> <<"ca", foo>>],
           [kind |-> "init", names |-> <<>>],
           [kind |-> "sign", names |-> <<"ca">>],
           [kind |-> "sign", names |-> <<foo>>],
           [kind |-> "node", names |-> <<foo>>]}
=============================================================================
