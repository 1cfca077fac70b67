------------------------------ MODULE Datagrams ------------------------------
(***************************************************************************)
(* What a stream session promises its user (backend.Session), in one       *)
(* direction: datagrams come out whole, in order and once, and unless the  *)
(* connection breaks all of them come out before the receiver hears that   *)
(* the session is over.                                                    *)
(***************************************************************************)
EXTENDS Naturals, Sequences

CONSTANT Datagram

VARIABLES sent,     \* datagrams Send took
          got,      \* datagrams Recv returned
          link,     \* "open", "closed" (by the sender, in order) or "broken"
          over      \* Recv has returned an error

vars == <<sent, got, link, over>>

Init == sent = <<>> /\ got = <<>> /\ link = "open" /\ over = FALSE

Send == /\ link = "open"
        /\ \E d \in Datagram : sent' = Append(sent, d)
        /\ UNCHANGED <<got, link, over>>

Recv == /\ ~over /\ Len(got) < Len(sent)
        /\ got' = Append(got, sent[Len(got) + 1])
        /\ UNCHANGED <<sent, link, over>>

Close == /\ link = "open" /\ link' = "closed"
         /\ UNCHANGED <<sent, got, over>>

Break == /\ link # "broken" /\ link' = "broken"
         /\ UNCHANGED <<sent, got, over>>

End == /\ ~over
       /\ link = "broken" \/ (link = "closed" /\ Len(got) = Len(sent))
       /\ over' = TRUE
       /\ UNCHANGED <<sent, got, link>>

Next == Send \/ Recv \/ Close \/ Break \/ End

Spec == Init /\ [][Next]_vars
=============================================================================
