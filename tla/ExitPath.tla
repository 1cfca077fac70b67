------------------------------- MODULE ExitPath -------------------------------
(***************************************************************************)
(* An exit in use: what egressExit sends to the Internet for its clients   *)
(* and what comes back (exit_egress.go, PlumbingIPv4 in exit.go).  To the  *)
(* life of a packet in Forwarding this adds the exit's memory of clients,  *)
(* kept by their plumbing addresses, the exit host's NAT, answers read     *)
(* from the exit's TUN, further packets of the clients, and exits that     *)
(* start anew.                                                             *)
(*                                                                         *)
(* Answers are IPv4 here.  An IPv6 answer has the client's ULA for its     *)
(* destination and is forwarded like the packet of any host.               *)
(***************************************************************************)
EXTENDS Forwarding

CONSTANTS Address,    \* plumbing addresses
          Plumbing    \* PlumbingIPv4 of each node's ULA

ASSUME PlumbingAssumption == Plumbing \in [Node -> Address]

VARIABLES
    exitClients,  \* exitClients[e]: the client e knows behind an address
    flows,        \* flows[e]: whose connections the NAT of e's host knows
    carried       \* whose connection pkt answers, NoNode for any other packet

exitVars == <<vars, exitClients, flows, carried>>

ExitInit == /\ Init
            /\ exitClients = [e \in Exits |-> [a \in Address |-> NoNode]]
            /\ flows = [e \in Exits |-> {}]
            /\ carried = NoNode

-----------------------------------------------------------------------------

(* Fault of rememberExitClient: the last client is everybody's.             *)
rememberLastClient(e, c) ==
    exitClients' = [exitClients EXCEPT ![e] = [a \in Address |-> c]]

rememberExitClient(e, c) ==
    exitClients' = [exitClients EXCEPT ![e][Plumbing[c]] = c]

(* egressExit: the inner packet of the tunnel's source goes out, from its   *)
(* plumbing address; writeExitEgress may fail.                              *)
egressExit ==
    /\ Decapsulate /\ pkt.at \in Exits
    /\ rememberExitClient(pkt.at, pkt.src)
    /\ flows' \in {flows, [flows EXCEPT ![pkt.at] = @ \cup {pkt.src}]}
    /\ UNCHANGED carried

(* deliverTunRaw                                                            *)
Receive ==
    /\ Decapsulate /\ pkt.at \notin Exits
    /\ UNCHANGED <<exitClients, flows, carried>>

(* clientULAForPlumbing, and the peers when the exit remembers nobody.      *)
ClientsFor(e, a) ==
    IF exitClients[e][a] # NoNode THEN {exitClients[e][a]}
    ELSE {p \in Peers[e] : Plumbing[p] = a}

(* handleExitTUNIngress: the answer on c's connection, its address restored *)
(* by the NAT, is read from the TUN and wrapped for the client found.  It   *)
(* is a packet of its own, handled like a local one.                        *)
handleExitTUNIngress(e, c) ==
    /\ phase = "done" /\ c \in flows[e]
    /\ \E client \in ClientsFor(e, Plumbing[c]) :
          pkt' = [at |-> e, from |-> NoNode, kind |-> "tunnel", src |-> e,
                  dst |-> client, hop |-> ReplyHop]
    /\ phase' = "flying" /\ sent' = 0
    /\ carried' = c
    /\ UNCHANGED <<exitClients, flows>>

(* The host of client c sends another packet to the Internet.               *)
ClientPacket(c) ==
    /\ phase = "done"
    /\ pkt' = [at |-> c, from |-> NoNode, kind |-> "data", src |-> c,
               dst |-> Internet, hop |-> MaxHop]
    /\ phase' = "idle" /\ sent' = 0
    /\ carried' = NoNode
    /\ UNCHANGED <<exitClients, flows>>

(* The exit's process starts anew; the NAT of its host keeps connections.   *)
RestartExit(e) ==
    /\ phase = "done" /\ exitClients[e] # [a \in Address |-> NoNode]
    /\ exitClients' = [exitClients EXCEPT ![e] = [a \in Address |-> NoNode]]
    /\ UNCHANGED <<vars, flows, carried>>

(* A reply or an error that a packet turns into answers nobody's connection.*)
Elsewhere ==
    /\ \/ ReadTun \/ Encapsulate \/ Resolve \/ Deliver
       \/ TimeExceeded \/ Forward \/ NotForwarded
    /\ carried' = IF pkt'.kind = pkt.kind THEN carried ELSE NoNode
    /\ UNCHANGED <<exitClients, flows>>

ExitNext == \/ egressExit \/ Receive \/ Elsewhere
            \/ \E e \in Exits : \/ RestartExit(e)
                                \/ \E c \in Node : handleExitTUNIngress(e, c)
            \/ \E c \in Clients : ClientPacket(c)

ExitSpec == ExitInit /\ [][ExitNext]_exitVars

-----------------------------------------------------------------------------
(* Properties                                                               *)

(* An answer from the Internet is delivered only to a host with the         *)
(* plumbing address of the one whose connection it belongs to: whichever    *)
(* clients share the exit, whether the exit remembers them or has started   *)
(* anew since, and whatever the RIBs on the way back hold.  Between hosts   *)
(* of one address (22 bits of a hash, exit.go:20-30) the exit cannot tell.  *)
AnswersComeHome ==
    phase = "flying" /\ carried # NoNode /\ ForMe
        => Plumbing[pkt.at] = Plumbing[carried]

=============================================================================
