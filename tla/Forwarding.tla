------------------------------ MODULE Forwarding ------------------------------
(***************************************************************************)
(* The overlay packet path of internal/node/packet.go: one packet entering *)
(* the mesh from a host, and whatever it turns into (an exit tunnel, an    *)
(* echo reply, an ICMPv6 error), handled hop by hop by handleIPv6.         *)
(*                                                                         *)
(* RIBs change while the packet travels and may be wrong or form loops     *)
(* (module Routing), so every look-up answers anything a RIB can hold.     *)
(***************************************************************************)
EXTENDS Integers

CONSTANTS
    Node, NoNode,  \* mesh members; "no session" (nil), the local host as ingress
    Internet,      \* a destination outside the mesh
    Resolver,      \* the DNS resolver ULA
    Peers,         \* Peers[n]: the peers n has sessions with
    Hosts,         \* nodes that deliver to a TUN or a userspace stack
    Exits,         \* nodes with exit: true
    Clients,       \* nodes with exit_node set
    MaxHop,        \* largest Hop Limit of a packet from a host (255)
    ReplyHop       \* Hop Limit of replies, errors and tunnels (64)

ASSUME NodeAssumption == /\ NoNode \notin Node
                         /\ Internet \notin Node /\ Resolver \notin Node
                         /\ Internet # Resolver
ASSUME PeersAssumption == /\ Peers \in [Node -> SUBSET Node]
                          /\ \A n \in Node : n \notin Peers[n]
ASSUME RolesAssumption == /\ Hosts \subseteq Node
                          /\ Exits \subseteq Node
                          /\ Clients \subseteq Node
ASSUME HopAssumption == /\ MaxHop \in Nat /\ ReplyHop \in Nat
                        /\ ReplyHop > 0 /\ MaxHop >= ReplyHop

VARIABLES
    pkt,    \* the packet and where it is
    phase,  \* "idle", "flying" or "done"
    sent    \* writePacket calls that put it on a session

vars == <<pkt, phase, sent>>

(* "request": ICMPv6 echo request; "reply": echo reply; "error": an ICMPv6  *)
(* error; "tunnel": an exit tunnel packet; "data": anything else.           *)
Kind == {"request", "reply", "error", "tunnel", "data"}

Packet == [at : Node, from : Node \cup {NoNode}, kind : Kind,
           src : Node, dst : Node \cup {Internet, Resolver}, hop : Nat]

Init == /\ pkt \in [at : Node, from : {NoNode}, kind : Kind \ {"tunnel"},
                    src : Node, dst : Node \cup {Internet, Resolver},
                    hop : 0 .. MaxHop]
        /\ pkt.src = pkt.at
        /\ phase = "idle"
        /\ sent = 0

(* tunLoop hands the packet to handlePacket.                                *)
ReadTun == /\ phase = "idle"
           /\ phase' = "flying"
           /\ UNCHANGED <<pkt, sent>>

Local == pkt.from = NoNode

Stop == phase' = "done" /\ UNCHANGED <<pkt, sent>>

(* session.writePacket of q to the peer p.  A packet too big for datagrams  *)
(* is queued on uniQ and arrives just the same.                             *)
Transmit(q, p) == /\ pkt' = [q EXCEPT !.at = p, !.from = q.at]
                  /\ sent' = sent + 1
                  /\ UNCHANGED phase

(* A packet this node creates in answer to pkt.                             *)
Answer(kind) == [pkt EXCEPT !.kind = kind, !.src = pkt.at, !.dst = pkt.src,
                            !.hop = ReplyHop]

-----------------------------------------------------------------------------
(* Fault of sendICMPError: errors are answered with errors.                 *)
sendICMPErrorAlways ==
    \/ Stop
    \/ ~Local /\ Transmit(Answer("error"), pkt.from)

(* sendICMPError: nothing in answer to an ICMPv6 error; to the local TUN    *)
(* when the packet came from there; else back over the ingress session,     *)
(* where the write may fail.                                                *)
sendICMPError ==
    \/ Stop
    \/ /\ pkt.kind # "error" /\ ~Local
       /\ Transmit(Answer("error"), pkt.from)

(* nextHop: the RIB's choice r unless that is the ingress; else a session   *)
(* with the destination itself; else none.  The ingress is recognised by    *)
(* its session, so not when that has been replaced since the packet was     *)
(* read.                                                                    *)
nextHop(r, replaced) ==
    LET ingress == IF replaced THEN NoNode ELSE pkt.from IN
    IF r # NoNode /\ r # ingress THEN r
    ELSE IF pkt.dst \in Peers[pkt.at] /\ pkt.dst # ingress THEN pkt.dst
    ELSE NoNode

ForMe == pkt.dst = pkt.at

Flying == phase = "flying"

(* The end of an exit tunnel: egressExit on an exit, deliverTunRaw on a     *)
(* client.                                                                  *)
Decapsulate ==
    /\ Flying /\ ForMe
    /\ pkt.kind = "tunnel" /\ pkt.at \in Exits \cup Clients
    /\ Stop

(* handleExitFromTUN: a non-mesh packet from the local host is wrapped for  *)
(* the exit, if its ULA is known, and handled again as a local packet.      *)
Encapsulate ==
    /\ Flying /\ pkt.dst = Internet
    /\ \/ Stop
       \/ /\ Local /\ pkt.at \in Clients
          /\ \E exit \in Node :
                pkt' = [pkt EXCEPT !.kind = "tunnel", !.src = pkt.at,
                                   !.dst = exit, !.hop = ReplyHop]
          /\ UNCHANGED <<phase, sent>>

(* The resolver answers the local host and nobody else.                     *)
Resolve == Flying /\ pkt.dst = Resolver /\ Stop

(* Local delivery to the stack or the TUN; a node with neither answers an   *)
(* echo request itself; anything else is dropped.                           *)
Deliver ==
    /\ Flying /\ ForMe
    /\ ~ (pkt.kind = "tunnel" /\ pkt.at \in Exits \cup Clients)
    /\ \/ Stop
       \/ /\ ~Local /\ pkt.at \notin Hosts /\ pkt.kind = "request"
          /\ Transmit(Answer("reply"), pkt.from)

ToForward == Flying /\ ~ForMe /\ pkt.dst \in Node

(* Fault of HopsLeft: the last hop is not recognised.                       *)
HopsLeftAlways == TRUE

(* A packet from a peer has used up its hops.                               *)
HopsLeft == Local \/ pkt.hop > 1

TimeExceeded == ToForward /\ ~HopsLeft /\ sendICMPError

(* What goes on: the Hop Limit is decremented unless the packet is local.   *)
Forwarded == IF Local THEN pkt ELSE [pkt EXCEPT !.hop = @ - 1]

(* Forward over the session nextHop picks.                                  *)
Forward ==
    /\ ToForward /\ HopsLeft
    /\ \E r \in Peers[pkt.at] \cup {NoNode}, replaced \in BOOLEAN :
          /\ nextHop(r, replaced) # NoNode
          /\ Transmit(Forwarded, nextHop(r, replaced))

(* No next hop (destination unreachable), or writePacket fails (packet too  *)
(* big, or a dead connection).                                              *)
NotForwarded ==
    /\ ToForward /\ HopsLeft
    /\ sendICMPError

handleIPv6 == \/ Decapsulate \/ Encapsulate \/ Resolve \/ Deliver
              \/ TimeExceeded \/ Forward \/ NotForwarded

(* Nothing is left of the packet.                                           *)
Done == phase = "done" /\ UNCHANGED vars

Next == ReadTun \/ handleIPv6 \/ Done

Spec == Init /\ [][Next]_vars

-----------------------------------------------------------------------------
(* Properties                                                               *)

(* Packets stay well formed; in particular the Hop Limit byte never wraps.  *)
TypeOK == /\ pkt \in Packet
          /\ phase \in {"idle", "flying", "done"}
          /\ sent \in Nat

(* The transmissions a packet with Hop Limit h has left.                    *)
HopBudget(h) == IF h > 1 THEN h - 1 ELSE 0

(* What may still follow: an echo request can become a reply and a reply an *)
(* error; an error becomes nothing.                                         *)
Aftermath(k) == CASE k = "request" -> 2 * ReplyHop
                  [] k = "error"   -> 0
                  [] OTHER         -> ReplyHop

Budget == MaxHop + 2 * ReplyHop

(* One packet from a host causes a bounded number of transmissions: its     *)
(* Hop Limit plus one reply and one error, whatever loops the RIBs form and *)
(* however they change on the way.  No echo or error storm.                 *)
Remaining == IF phase = "done" THEN 0
             ELSE (IF Local THEN 1 ELSE 0) + HopBudget(pkt.hop) + Aftermath(pkt.kind)

TransmissionsBounded == sent + Remaining <= Budget

(* A forwarded packet (one that stays what it is) never goes back to the    *)
(* peer it came from.                                                       *)
NeverBackToIngress ==
    [][(sent' = sent + 1 /\ pkt'.kind = pkt.kind) => pkt'.at # pkt.from]_vars
=============================================================================
