--------------------------- MODULE ForwardingProof ---------------------------
(***************************************************************************)
(* Every packet's work is bounded, answers from the Internet come home,    *)
(* and a trace's hops and its end are real: for every mesh, every          *)
(* placement of hosts, exits and clients, and every sequence of RIB        *)
(* answers.                                                                *)
(***************************************************************************)
EXTENDS ExitPath, Traceroute, TLAPS

(* A packet that has just come from the host has cost nothing yet, so that  *)
(* wrapping it anew for the exit is within the budget.                      *)
LocalIsUnsent == Local => sent = 0

(* The inductive invariant.                                                 *)
IInv == TypeOK /\ TransmissionsBounded /\ LocalIsUnsent

LEMMA AftermathType ==
    ASSUME NEW k \in Kind
    PROVE  /\ Aftermath(k) \in Nat
           /\ k # "error" => Aftermath(k) >= ReplyHop
           /\ k = "request" => Aftermath(k) = 2 * ReplyHop
           /\ Aftermath("error") = 0
           /\ Aftermath("reply") = ReplyHop
           /\ Aftermath("tunnel") = ReplyHop
           /\ Aftermath(k) <= 2 * ReplyHop
<1>1. CASE k = "request"
  BY <1>1, HopAssumption DEF Aftermath
<1>2. CASE k = "error"
  BY <1>2, HopAssumption DEF Aftermath
<1>3. CASE k # "request" /\ k # "error"
  BY <1>3, HopAssumption DEF Aftermath
<1> QED BY <1>1, <1>2, <1>3

LEMMA InitIInv == Init => IInv
<1> SUFFICES ASSUME Init PROVE IInv
  OBVIOUS
<1>1. /\ pkt \in Packet /\ pkt.from = NoNode /\ pkt.hop \in 0 .. MaxHop
      /\ pkt.kind \in Kind
  BY HopAssumption DEF Init, Packet, Kind
<1>2. TypeOK
  BY <1>1 DEF Init, TypeOK
<1>3. Aftermath(pkt.kind) \in Nat /\ Aftermath(pkt.kind) <= 2 * ReplyHop
  BY <1>1, AftermathType
<1>4. TransmissionsBounded
  BY <1>1, <1>3, HopAssumption
     DEF Init, TransmissionsBounded, Remaining, Local, HopBudget, Budget
<1> QED BY <1>2, <1>4 DEF IInv, LocalIsUnsent, Init

(* A packet written to a peer must leave the budget intact.                 *)
LEMMA TransmitIInv ==
    ASSUME IInv, phase # "done", NEW q \in Packet, q.at \in Node,
           NEW p \in Node, Transmit(q, p),
           1 + HopBudget(q.hop) + Aftermath(q.kind) <= Remaining
    PROVE  IInv'
<1>1. /\ pkt' = [q EXCEPT !.at = p, !.from = q.at]
      /\ sent' = sent + 1 /\ phase' = phase
  BY DEF Transmit
<1>2. /\ pkt' \in Packet /\ pkt'.from = q.at
      /\ pkt'.hop = q.hop /\ pkt'.kind = q.kind
  BY <1>1 DEF Packet
<1>3. q.at # NoNode
  BY NodeAssumption
<1>4. q.hop \in Nat /\ q.kind \in Kind /\ pkt.hop \in Nat /\ pkt.kind \in Kind
  BY DEF Packet, IInv, TypeOK
<1>5. Aftermath(q.kind) \in Nat /\ HopBudget(q.hop) \in Nat
      /\ Aftermath(pkt.kind) \in Nat /\ HopBudget(pkt.hop) \in Nat
  BY <1>4, AftermathType DEF HopBudget
<1>6. Remaining' = HopBudget(q.hop) + Aftermath(q.kind)
  BY <1>1, <1>2, <1>3, <1>5 DEF Remaining, Local
<1>7. Remaining \in Nat
  BY <1>5 DEF Remaining
<1>8. sent \in Nat /\ Budget \in Nat /\ sent + Remaining <= Budget
  BY HopAssumption DEF IInv, TypeOK, TransmissionsBounded, Budget
<1>9. TransmissionsBounded'
  <2>1. sent' + Remaining' <= Budget
    BY <1>1, <1>5, <1>6, <1>7, <1>8
  <2> QED BY <2>1 DEF TransmissionsBounded, Budget
<1>10. LocalIsUnsent'
  BY <1>2, <1>3 DEF LocalIsUnsent, Local
<1> QED BY <1>1, <1>2, <1>8, <1>9, <1>10 DEF IInv, TypeOK

(* Stopping only lowers what remains.                                       *)
LEMMA StopIInv ==
    ASSUME IInv, Stop
    PROVE  IInv'
<1>1. phase' = "done" /\ pkt' = pkt /\ sent' = sent
  BY DEF Stop
<1>2. pkt.hop \in Nat /\ pkt.kind \in Kind /\ sent \in Nat
  BY DEF IInv, TypeOK, Packet
<1>3. Aftermath(pkt.kind) \in Nat /\ HopBudget(pkt.hop) \in Nat
  BY <1>2, AftermathType DEF HopBudget
<1>4. Remaining \in Nat /\ Remaining' = 0
  BY <1>1, <1>3 DEF Remaining
<1>5. Budget \in Nat /\ sent + Remaining <= Budget
  BY HopAssumption DEF IInv, TransmissionsBounded, Budget
<1>6. TransmissionsBounded'
  <2>1. sent' + Remaining' <= Budget
    BY <1>1, <1>2, <1>4, <1>5
  <2> QED BY <2>1 DEF TransmissionsBounded, Budget
<1> QED BY <1>1, <1>6 DEF IInv, TypeOK, LocalIsUnsent, Local

(* An ICMPv6 error costs at most the aftermath its packet had.              *)
LEMMA ErrorIInv ==
    ASSUME IInv, phase = "flying", sendICMPError
    PROVE  IInv'
<1>1. CASE Stop
  BY <1>1, StopIInv
<1>2. CASE pkt.kind # "error" /\ ~Local /\ Transmit(Answer("error"), pkt.from)
  <2> DEFINE q == Answer("error")
  <2>1. pkt \in Packet
    BY DEF IInv, TypeOK
  <2>2. q \in Packet /\ q.hop = ReplyHop /\ q.kind = "error" /\ q.at \in Node
    BY <2>1, HopAssumption DEF Answer, Packet, Kind
  <2>3. pkt.from \in Node
    BY <1>2, <2>1 DEF Packet, Local
  <2>4. pkt.kind \in Kind /\ pkt.hop \in Nat
    BY <2>1 DEF Packet
  <2>5. Aftermath(pkt.kind) \in Nat /\ Aftermath(pkt.kind) >= ReplyHop
        /\ Aftermath("error") = 0 /\ HopBudget(pkt.hop) \in Nat
    BY <1>2, <2>4, AftermathType DEF HopBudget
  <2>6. 1 + HopBudget(ReplyHop) <= ReplyHop
    BY HopAssumption DEF HopBudget
  <2>7. Remaining = HopBudget(pkt.hop) + Aftermath(pkt.kind)
    BY <1>2, <2>5 DEF Remaining
  <2>8. HopBudget(ReplyHop) \in Nat
    BY HopAssumption DEF HopBudget
  <2>9. 1 + HopBudget(q.hop) + Aftermath(q.kind) <= Remaining
    BY <2>2, <2>5, <2>6, <2>7, <2>8, HopAssumption
  <2> HIDE DEF q
  <2> QED BY <1>2, <2>2, <2>3, <2>9, TransmitIInv DEF q
<1> QED BY <1>1, <1>2 DEF sendICMPError

LEMMA NextIInv == IInv /\ [Next]_vars => IInv'
<1> SUFFICES ASSUME IInv, [Next]_vars PROVE IInv'
  OBVIOUS
<1>0. /\ pkt \in Packet /\ pkt.at \in Node /\ pkt.kind \in Kind
      /\ pkt.hop \in Nat /\ sent \in Nat
  BY DEF IInv, TypeOK, Packet
<1>a. /\ Aftermath(pkt.kind) \in Nat /\ HopBudget(pkt.hop) \in Nat
  BY <1>0, AftermathType DEF HopBudget
<1>1. CASE ReadTun
  BY <1>1 DEF ReadTun, IInv, TypeOK, TransmissionsBounded, Remaining, Local,
              LocalIsUnsent
<1>2. CASE Decapsulate \/ Resolve
  BY <1>2, StopIInv DEF Decapsulate, Resolve
<1>3. CASE Encapsulate
  <2>1. CASE Stop
    BY <2>1, StopIInv
  <2>2. ASSUME NEW exit \in Node, Local, phase = "flying",
               pkt' = [pkt EXCEPT !.kind = "tunnel", !.src = pkt.at,
                                  !.dst = exit, !.hop = ReplyHop],
               phase' = phase, sent' = sent, sent = 0
        PROVE  IInv'
    <3>1. /\ pkt' \in Packet /\ pkt'.from = pkt.from
          /\ pkt'.hop = ReplyHop /\ pkt'.kind = "tunnel"
      BY <1>0, <2>2, HopAssumption DEF Packet, Kind
    <3>2. Aftermath("tunnel") = ReplyHop
      BY <1>0, AftermathType
    <3>3. Remaining' = 1 + HopBudget(ReplyHop) + ReplyHop
      BY <2>2, <3>1, <3>2 DEF Remaining, Local
    <3>4. TransmissionsBounded'
      BY <2>2, <3>3, HopAssumption DEF TransmissionsBounded, HopBudget, Budget
    <3> QED BY <2>2, <3>1, <3>4 DEF IInv, TypeOK, LocalIsUnsent
  <2> QED BY <1>3, <2>1, <2>2 DEF Encapsulate, Flying, IInv, LocalIsUnsent
<1>4. CASE Deliver
  <2>1. CASE Stop
    BY <2>1, StopIInv
  <2>2. CASE /\ ~Local /\ pkt.kind = "request" /\ phase = "flying"
             /\ Transmit(Answer("reply"), pkt.from)
    <3> DEFINE q == Answer("reply")
    <3>1. q \in Packet /\ q.hop = ReplyHop /\ q.kind = "reply" /\ q.at \in Node
      BY <1>0, HopAssumption DEF Answer, Packet, Kind
    <3>2. pkt.from \in Node
      BY <1>0, <2>2 DEF Packet, Local
    <3>3. Aftermath(pkt.kind) = 2 * ReplyHop /\ Aftermath("reply") = ReplyHop
      BY <1>0, <2>2, AftermathType
    <3>4. Remaining = HopBudget(pkt.hop) + 2 * ReplyHop
      BY <2>2, <3>3, <1>a DEF Remaining
    <3>5. 1 + HopBudget(q.hop) + Aftermath(q.kind) <= Remaining
      BY <1>a, <3>1, <3>3, <3>4, HopAssumption DEF HopBudget
    <3> HIDE DEF q
    <3> QED BY <2>2, <3>1, <3>2, <3>5, TransmitIInv DEF q
  <2> QED BY <1>4, <2>1, <2>2 DEF Deliver, Flying
<1>5. CASE TimeExceeded \/ NotForwarded
  BY <1>5, ErrorIInv DEF TimeExceeded, NotForwarded, ToForward, Flying
<1>6. CASE Forward
  <2>1. PICK r \in Peers[pkt.at] \cup {NoNode}, replaced \in BOOLEAN :
            /\ nextHop(r, replaced) # NoNode
            /\ Transmit(Forwarded, nextHop(r, replaced))
    BY <1>6 DEF Forward
  <2>2. nextHop(r, replaced) \in Node
    <3>1. Peers[pkt.at] \subseteq Node
      BY <1>0, PeersAssumption
    <3> QED BY <2>1, <3>1 DEF nextHop
  <2>3. phase = "flying" /\ (Local \/ pkt.hop > 1)
    BY <1>6 DEF Forward, ToForward, Flying, HopsLeft
  <2>4. /\ Forwarded \in Packet /\ Forwarded.at \in Node
        /\ Forwarded.kind = pkt.kind
        /\ Forwarded.hop = IF Local THEN pkt.hop ELSE pkt.hop - 1
    BY <1>0, <2>3 DEF Forwarded, Packet
  <2>5. 1 + HopBudget(Forwarded.hop) <= (IF Local THEN 1 ELSE 0) + HopBudget(pkt.hop)
    BY <1>0, <2>3, <2>4 DEF HopBudget
  <2>6. Remaining = (IF Local THEN 1 ELSE 0) + HopBudget(pkt.hop) + Aftermath(pkt.kind)
    BY <2>3 DEF Remaining
  <2>7. HopBudget(Forwarded.hop) \in Nat
    BY <1>0, <2>3, <2>4 DEF HopBudget
  <2>8. 1 + HopBudget(Forwarded.hop) + Aftermath(Forwarded.kind) <= Remaining
    BY <1>a, <2>4, <2>5, <2>6, <2>7
  <2> QED BY <2>1, <2>2, <2>3, <2>4, <2>8, TransmitIInv
<1>7. CASE UNCHANGED vars
  BY <1>7 DEF vars, IInv, TypeOK, TransmissionsBounded, Remaining, Local,
              LocalIsUnsent
<1> QED BY <1>1, <1>2, <1>3, <1>4, <1>5, <1>6, <1>7 DEF Next, handleIPv6, Done

-----------------------------------------------------------------------------

(* Packets stay well formed hop after hop.                                  *)
THEOREM TypeCorrect == Spec => []TypeOK
<1>1. IInv => TypeOK
  BY DEF IInv
<1> QED BY <1>1, InitIInv, NextIInv, PTL DEF Spec

(* handleIPv6 spends at most MaxHop + 2 * ReplyHop transmissions on one     *)
(* host packet and everything it causes, even in a routing loop.            *)
THEOREM WorkIsBounded == Spec => []TransmissionsBounded
<1>1. IInv => TransmissionsBounded
  BY DEF IInv
<1> QED BY <1>1, InitIInv, NextIInv, PTL DEF Spec
-----------------------------------------------------------------------------
(* Answers from the Internet (module ExitPath)                              *)

ExitTypeOK ==
    /\ exitClients \in [Exits -> [Address -> Node \cup {NoNode}]]
    /\ flows \in [Exits -> SUBSET Node]
    /\ carried \in Node \cup {NoNode}

(* An exit remembers a client under that client's own address.              *)
ClientsAreTheirs ==
    \A e \in Exits, x \in Address :
        exitClients[e][x] # NoNode => Plumbing[exitClients[e][x]] = x

(* What answers c's connection is on its way to a host with c's address.    *)
AnswersForOwner ==
    carried # NoNode => /\ pkt.dst \in Node
                        /\ Plumbing[pkt.dst] = Plumbing[carried]

ExitInv == IInv /\ ExitTypeOK /\ ClientsAreTheirs /\ AnswersForOwner

LEMMA InitExitInv == ExitInit => ExitInv
<1> SUFFICES ASSUME ExitInit PROVE ExitInv
  OBVIOUS
<1>1. IInv
  BY InitIInv DEF ExitInit
<1> QED BY <1>1 DEF ExitInit, ExitInv, ExitTypeOK, ClientsAreTheirs,
                    AnswersForOwner

(* A packet that stays of its kind keeps its destination, except for one    *)
(* that is wrapped on its way to the Internet.                              *)
LEMMA KindKeepsDst ==
    ASSUME pkt \in Packet, Next, pkt'.kind = pkt.kind, pkt.dst \in Node
    PROVE  pkt'.dst = pkt.dst
<1>1. CASE pkt' = pkt
  BY <1>1
<1>2. ASSUME NEW p, Transmit(Forwarded, p)
      PROVE  pkt'.dst = pkt.dst
  BY <1>2 DEF Transmit, Forwarded, Packet
<1>3. ASSUME NEW k, NEW p, Transmit(Answer(k), p)
      PROVE  pkt'.kind = k
  BY <1>3 DEF Transmit, Answer, Packet
<1>4. CASE ReadTun \/ Decapsulate \/ Resolve \/ Done
  BY <1>1, <1>4 DEF ReadTun, Decapsulate, Resolve, Stop, Done, vars
<1>5. CASE Encapsulate
  BY <1>5, NodeAssumption DEF Encapsulate
<1>6. CASE Deliver
  BY <1>1, <1>3, <1>6 DEF Deliver, Stop
<1>7. CASE TimeExceeded \/ NotForwarded
  BY <1>1, <1>3, <1>7 DEF TimeExceeded, NotForwarded, sendICMPError, Stop
<1>8. CASE Forward
  BY <1>2, <1>8 DEF Forward
<1> QED BY <1>4, <1>5, <1>6, <1>7, <1>8 DEF Next, handleIPv6

LEMMA NextExitInv ==
    ASSUME ExitInv, [ExitNext]_exitVars
    PROVE  ExitInv'
<1>0. /\ pkt \in Packet /\ pkt.at \in Node /\ pkt.src \in Node
      /\ IInv /\ ExitTypeOK /\ ClientsAreTheirs /\ AnswersForOwner
  BY DEF ExitInv, IInv, TypeOK, Packet
<1>1. CASE egressExit
  <2>1. Next /\ pkt' = pkt
    BY <1>1 DEF egressExit, Next, handleIPv6, Decapsulate, Stop
  <2>2. IInv'
    BY <1>0, <2>1, NextIInv
  <2>3. pkt.at \in Exits /\ Plumbing[pkt.src] \in Address
    BY <1>0, <1>1, PlumbingAssumption DEF egressExit
  <2>4. exitClients' = [exitClients EXCEPT ![pkt.at][Plumbing[pkt.src]] = pkt.src]
    BY <1>1 DEF egressExit, rememberExitClient
  <2>5. exitClients' \in [Exits -> [Address -> Node \cup {NoNode}]]
    BY <1>0, <2>3, <2>4 DEF ExitTypeOK
  <2>6. ClientsAreTheirs'
    <3> SUFFICES ASSUME NEW e \in Exits, NEW x \in Address,
                        exitClients'[e][x] # NoNode
                 PROVE  Plumbing[exitClients'[e][x]] = x
      BY DEF ClientsAreTheirs
    <3>1. CASE e = pkt.at /\ x = Plumbing[pkt.src]
      BY <1>0, <2>3, <2>4, <3>1 DEF ExitTypeOK
    <3>2. CASE ~(e = pkt.at /\ x = Plumbing[pkt.src])
      <4>1. exitClients'[e][x] = exitClients[e][x]
        BY <1>0, <2>3, <2>4, <3>2 DEF ExitTypeOK
      <4> QED BY <1>0, <4>1 DEF ClientsAreTheirs
    <3> QED BY <3>1, <3>2
  <2>7. flows' \in [Exits -> SUBSET Node] /\ carried' = carried
    BY <1>0, <1>1 DEF egressExit, ExitTypeOK
  <2> QED BY <1>0, <2>1, <2>2, <2>5, <2>6, <2>7
          DEF ExitInv, ExitTypeOK, AnswersForOwner
<1>2. CASE Receive
  <2>1. Next /\ pkt' = pkt
    BY <1>2 DEF Receive, Next, handleIPv6, Decapsulate, Stop
  <2> QED BY <1>0, <1>2, <2>1, NextIInv
          DEF Receive, ExitInv, ExitTypeOK, ClientsAreTheirs, AnswersForOwner
<1>3. CASE Elsewhere
  <2>1. Next
    BY <1>3 DEF Elsewhere, Next, handleIPv6
  <2>2. IInv'
    BY <1>0, <2>1, NextIInv
  <2>3. carried' = (IF pkt'.kind = pkt.kind THEN carried ELSE NoNode)
        /\ exitClients' = exitClients /\ flows' = flows
    BY <1>3 DEF Elsewhere
  <2>4. AnswersForOwner'
    BY <1>0, <2>1, <2>3, KindKeepsDst DEF AnswersForOwner, ExitTypeOK
  <2> QED BY <1>0, <2>2, <2>3, <2>4 DEF ExitInv, ExitTypeOK, ClientsAreTheirs
<1>4. ASSUME NEW e \in Exits, RestartExit(e)
      PROVE  ExitInv'
  <2>1. pkt' = pkt /\ carried' = carried /\ flows' = flows /\ UNCHANGED vars
    BY <1>4 DEF RestartExit, vars
  <2>2. IInv'
    BY <1>0, <2>1, NextIInv
  <2>3. exitClients' = [exitClients EXCEPT ![e] = [x \in Address |-> NoNode]]
    BY <1>4 DEF RestartExit
  <2>4. ClientsAreTheirs'
    BY <1>0, <2>3 DEF ClientsAreTheirs, ExitTypeOK
  <2> QED BY <1>0, <2>1, <2>2, <2>3, <2>4
          DEF ExitInv, ExitTypeOK, AnswersForOwner
<1>5. ASSUME NEW e \in Exits, NEW c \in Node, handleExitTUNIngress(e, c)
      PROVE  ExitInv'
  <2>1. PICK client \in ClientsFor(e, Plumbing[c]) :
            pkt' = [at |-> e, from |-> NoNode, kind |-> "tunnel", src |-> e,
                    dst |-> client, hop |-> ReplyHop]
    BY <1>5 DEF handleExitTUNIngress
  <2>2. /\ phase' = "flying" /\ sent' = 0 /\ carried' = c
        /\ exitClients' = exitClients /\ flows' = flows
    BY <1>5 DEF handleExitTUNIngress
  <2>3. e \in Node /\ Plumbing[c] \in Address
    BY RolesAssumption, PlumbingAssumption
  <2>4. client \in Node /\ Plumbing[client] = Plumbing[c]
    <3>1. CASE exitClients[e][Plumbing[c]] # NoNode
      <4>1. client = exitClients[e][Plumbing[c]]
        BY <2>1, <3>1 DEF ClientsFor
      <4> QED BY <1>0, <2>3, <3>1, <4>1 DEF ExitTypeOK, ClientsAreTheirs
    <3>2. CASE exitClients[e][Plumbing[c]] = NoNode
      <4>1. client \in Peers[e] /\ Plumbing[client] = Plumbing[c]
        BY <2>1, <3>2 DEF ClientsFor
      <4> QED BY <2>3, <4>1, PeersAssumption
    <3> QED BY <3>1, <3>2
  <2>6. /\ pkt' \in Packet /\ pkt'.dst = client /\ pkt'.from = NoNode
        /\ pkt'.kind = "tunnel" /\ pkt'.hop = ReplyHop
    BY <2>1, <2>3, <2>4, HopAssumption DEF Packet, Kind
  <2>7. TransmissionsBounded'
    BY <2>2, <2>6, HopAssumption
       DEF TransmissionsBounded, Remaining, Local, HopBudget, Aftermath, Budget
  <2> QED BY <1>0, <2>2, <2>4, <2>6, <2>7
          DEF ExitInv, IInv, TypeOK, LocalIsUnsent, ExitTypeOK,
              ClientsAreTheirs, AnswersForOwner
<1>6. ASSUME NEW c \in Clients, ClientPacket(c)
      PROVE  ExitInv'
  <2>1. /\ pkt' = [at |-> c, from |-> NoNode, kind |-> "data", src |-> c,
                   dst |-> Internet, hop |-> MaxHop]
        /\ phase' = "idle" /\ sent' = 0 /\ carried' = NoNode
        /\ exitClients' = exitClients /\ flows' = flows
    BY <1>6 DEF ClientPacket
  <2>2. c \in Node
    BY RolesAssumption
  <2>3. pkt' \in Packet
    BY <2>1, <2>2, HopAssumption DEF Packet, Kind
  <2>4. TransmissionsBounded'
    BY <2>1, HopAssumption
       DEF TransmissionsBounded, Remaining, Local, HopBudget, Aftermath, Budget
  <2> QED BY <1>0, <2>1, <2>3, <2>4
          DEF ExitInv, IInv, TypeOK, LocalIsUnsent, ExitTypeOK,
              ClientsAreTheirs, AnswersForOwner
<1>7. CASE UNCHANGED exitVars
  <2>1. UNCHANGED vars
    BY <1>7 DEF exitVars
  <2> QED BY <1>0, <1>7, <2>1, NextIInv
          DEF exitVars, vars, ExitInv, ExitTypeOK, ClientsAreTheirs,
              AnswersForOwner
<1> QED BY <1>1, <1>2, <1>3, <1>4, <1>5, <1>6, <1>7 DEF ExitNext

(* Of handleExitTUNIngress: whoever shares an exit and however often it     *)
(* starts anew, an answer is delivered to a host with the plumbing address  *)
(* of the one whose connection it belongs to, so to that one itself when    *)
(* PlumbingIPv4 gives no other node its address.                            *)
THEOREM AnswersReachOwner == ExitSpec => []AnswersComeHome
<1>1. ExitInv => AnswersComeHome
  BY DEF ExitInv, AnswersForOwner, AnswersComeHome, ForMe
<1>2. ExitInv /\ [ExitNext]_exitVars => ExitInv'
  BY NextExitInv
<1> QED BY <1>1, <1>2, InitExitInv, PTL DEF ExitSpec
-----------------------------------------------------------------------------
(* Traces (module Traceroute)                                               *)

ReplyType == {"none", "time_exceeded", "echo_reply", "dest_unreach", "too_big"}
HopType == [by : Node \cup {NoNode}, depth : Nat, reply : ReplyType]

TraceTypeOK ==
    /\ trace \in [state : {"ready", "waiting"}, dst : Node,
                  hops : Seq(HopType), hop : HopType, reach : BOOLEAN]
    /\ mark \in [depth : Nat, reply : ReplyType]
    /\ late \subseteq HopType

(* The Hop Limit of the last probe.                                         *)
Probed == Len(trace.hops) + (IF trace.state = "waiting" THEN 1 ELSE 0)

(* The probe in flight has crossed as many sessions as its Hop Limit has    *)
(* lost, and what comes back to the asker says no more than the truth.  An  *)
(* error that a lost reply turns into goes to the destination instead.      *)
FlightOK == phase = "flying" =>
    /\ pkt.kind \in {"request", "reply", "error"}
    /\ Local => pkt.kind = "request" /\ pkt.at = Asker /\ sent = 0
    /\ ~Local => trace.dst # Asker
    /\ pkt.kind = "request" =>
          /\ pkt.src = Asker /\ pkt.dst = trace.dst /\ pkt.hop >= 1
          /\ sent + pkt.hop = IF Local THEN Probed ELSE Probed + 1
    /\ pkt.kind = "reply" =>
          /\ pkt.src = trace.dst /\ pkt.dst = Asker
          /\ mark.reply = "echo_reply" /\ mark.depth <= Probed
    /\ pkt.kind = "error" /\ pkt.dst = Asker =>
          mark.reply # "echo_reply" /\ mark.depth <= Probed

LateOK == \A x \in late : /\ x.depth <= Probed
                          /\ x.reply = "echo_reply" => x.by = trace.dst

CallOK == /\ trace.hop.depth <= Probed /\ trace.hop.reply # "echo_reply"
          /\ trace.state = "waiting" => ~trace.reach

TraceInv == /\ IInv /\ TraceTypeOK /\ FlightOK /\ LateOK /\ CallOK
            /\ HopsWithinTTL /\ ReachIsReal

LEMMA InitTraceInv == TraceInit => TraceInv
<1> SUFFICES ASSUME TraceInit PROVE TraceInv
  OBVIOUS
<1>1. /\ pkt = [at |-> Asker, from |-> NoNode, kind |-> "data", src |-> Asker,
                dst |-> Asker, hop |-> 0]
      /\ phase = "done" /\ sent = 0 /\ late = {}
      /\ mark = [depth |-> 0, reply |-> "none"]
  BY DEF TraceInit
<1>2. PICK x \in Node : trace = [state |-> "ready", dst |-> x, hops |-> <<>>,
                                 hop |-> NoHop, reach |-> FALSE]
  BY DEF TraceInit
<1>3. pkt \in Packet
  BY <1>1, TracerouteAssumption DEF Packet, Kind
<1>4. IInv
  <2>1. Remaining = 0
    BY <1>1 DEF Remaining
  <2>2. TransmissionsBounded
    <3>1. 0 <= Budget
      BY HopAssumption DEF Budget
    <3>2. sent = 0
      BY <1>1
    <3> QED BY <2>1, <3>1, <3>2 DEF TransmissionsBounded
  <2> QED BY <1>1, <1>3, <2>2 DEF IInv, TypeOK, LocalIsUnsent
<1>5. NoHop \in HopType /\ NoHop.depth = 0 /\ NoHop.reply = "none"
  BY DEF NoHop, HopType, ReplyType
<1>6. TraceTypeOK
  <2>1. <<>> \in Seq(HopType)
    OBVIOUS
  <2>2. mark \in [depth : Nat, reply : ReplyType] /\ late \subseteq HopType
    BY <1>1 DEF ReplyType
  <2> QED BY <1>2, <1>5, <2>1, <2>2 DEF TraceTypeOK
<1>7. Probed = 0
  BY <1>2 DEF Probed
<1>8. FlightOK /\ LateOK /\ CallOK
  <2>1. FlightOK /\ LateOK
    BY <1>1 DEF FlightOK, LateOK
  <2>2. trace.hop = NoHop /\ trace.state = "ready"
    BY <1>2
  <2>3. trace.hop.depth <= Probed /\ trace.hop.reply # "echo_reply"
    BY <1>5, <1>7, <2>2
  <2>4. trace.state # "waiting"
    BY <2>2
  <2> QED BY <2>1, <2>3, <2>4 DEF CallOK
<1>9. HopsWithinTTL /\ ReachIsReal
  BY <1>2 DEF HopsWithinTTL, ReachIsReal
<1> QED BY <1>4, <1>6, <1>8, <1>9 DEF TraceInv

(* A hop is added to the list.                                              *)
LEMMA RecordedInv ==
    ASSUME TraceInv, trace.state = "waiting", NEW x \in HopType,
           x.depth <= Probed, x.reply = "echo_reply" => x.by = trace.dst,
           trace' = Recorded(x), UNCHANGED <<vars, mark>>, late' \subseteq late
    PROVE  TraceInv'
<1>1. /\ trace' = [trace EXCEPT !.state = "ready", !.hops = Append(@, x),
                                !.reach = x.reply = "echo_reply"]
      /\ UNCHANGED <<pkt, phase, sent, mark>>
  BY DEF Recorded, vars
<1>2. /\ TraceTypeOK /\ IInv /\ FlightOK /\ LateOK /\ CallOK
      /\ HopsWithinTTL /\ ReachIsReal
  BY DEF TraceInv
<1>3. /\ trace'.state = "ready" /\ trace'.hops = Append(trace.hops, x)
      /\ trace'.reach = (x.reply = "echo_reply")
      /\ trace'.dst = trace.dst /\ trace'.hop = trace.hop
  BY <1>1, <1>2 DEF TraceTypeOK
<1>4. /\ trace.hops \in Seq(HopType) /\ Append(trace.hops, x) \in Seq(HopType)
      /\ Len(trace'.hops) = Len(trace.hops) + 1 /\ Len(trace.hops) \in Nat
      /\ DOMAIN trace'.hops = 1 .. (Len(trace.hops) + 1)
      /\ DOMAIN trace.hops = 1 .. Len(trace.hops)
      /\ trace'.hops[Len(trace.hops) + 1] = x
      /\ \A i \in 1 .. Len(trace.hops) : trace'.hops[i] = trace.hops[i]
  BY <1>2, <1>3 DEF TraceTypeOK
<1>5. Probed = Len(trace.hops) + 1 /\ Probed' = Probed
  BY <1>3, <1>4 DEF Probed
<1>6. TraceTypeOK'
  <2>1. trace' \in [state : {"ready", "waiting"}, dst : Node,
                    hops : Seq(HopType), hop : HopType, reach : BOOLEAN]
    BY <1>1, <1>2, <1>4 DEF TraceTypeOK
  <2> QED BY <1>1, <1>2, <2>1 DEF TraceTypeOK
<1>7. FlightOK' /\ LateOK' /\ CallOK'
  BY <1>1, <1>2, <1>3, <1>5 DEF FlightOK, LateOK, CallOK, Local
<1>8. HopsWithinTTL'
  <2> SUFFICES ASSUME NEW i \in DOMAIN trace'.hops
               PROVE  trace'.hops[i].depth <= i
    BY DEF HopsWithinTTL
  <2>1. CASE i = Len(trace.hops) + 1
    BY <1>4, <1>5, <2>1
  <2>2. CASE i \in 1 .. Len(trace.hops)
    BY <1>2, <1>4, <2>2 DEF HopsWithinTTL
  <2> QED BY <1>4, <2>1, <2>2
<1>9. ReachIsReal'
  <2>1. \A i \in 1 .. Len(trace.hops) : trace.hops[i].reply # "echo_reply"
    BY <1>2, <1>4 DEF CallOK, ReachIsReal
  <2>2. trace'.reach => trace'.hops[Len(trace'.hops)].by = trace'.dst
    BY <1>3, <1>4
  <2>3. ASSUME NEW i \in DOMAIN trace'.hops, trace'.hops[i].reply = "echo_reply"
        PROVE  trace'.reach
    <3>1. i = Len(trace.hops) + 1
      BY <1>4, <2>1, <2>3
    <3> QED BY <1>3, <1>4, <2>3, <3>1
  <2> QED BY <2>2, <2>3 DEF ReachIsReal
<1>10. IInv'
  BY <1>1, <1>2 DEF IInv, TypeOK, TransmissionsBounded, Remaining, Local,
                    LocalIsUnsent
<1> QED BY <1>6, <1>7, <1>8, <1>9, <1>10 DEF TraceInv

(* An ICMPv6 error, or none, in place of the packet in flight.              *)
LEMMA ErrorTraceInv ==
    ASSUME TraceInv, phase = "flying", sendICMPError, IInv', trace' = trace,
           NEW reply \in {"time_exceeded", "dest_unreach", "too_big"},
           Makes(reply), late' = late
    PROVE  TraceInv'
<1>1. /\ TraceTypeOK /\ FlightOK /\ LateOK /\ CallOK
      /\ HopsWithinTTL /\ ReachIsReal
      /\ pkt \in Packet /\ sent \in Nat
  BY DEF TraceInv, IInv, TypeOK
<1>2. Probed' = Probed
  BY DEF Probed
<1>3. LateOK' /\ CallOK' /\ HopsWithinTTL' /\ ReachIsReal'
  BY <1>1, <1>2 DEF LateOK, CallOK, HopsWithinTTL, ReachIsReal
<1>4. CASE Stop
  BY <1>1, <1>3, <1>4 DEF Stop, Makes, TraceInv, TraceTypeOK, FlightOK
<1>5. CASE pkt.kind # "error" /\ ~Local /\ Transmit(Answer("error"), pkt.from)
  <2>1. /\ pkt'.kind = "error" /\ pkt'.from = pkt.at /\ pkt'.dst = pkt.src
        /\ phase' = phase /\ pkt.at \in Node
    BY <1>1, <1>5 DEF Transmit, Answer, Packet
  <2>2. ~Local'
    BY <2>1, NodeAssumption DEF Local
  <2>3. mark' = [depth |-> sent, reply |-> reply]
    BY <1>5, <2>1 DEF Makes
  <2>4. TraceTypeOK'
    BY <1>1, <2>3 DEF TraceTypeOK, ReplyType
  <2>5. trace.hops \in Seq(HopType) /\ Probed \in Nat
    BY <1>1 DEF TraceTypeOK, Probed
  <2>6. ASSUME pkt'.dst = Asker
        PROVE  mark'.reply # "echo_reply" /\ mark'.depth <= Probed
    <3>1. pkt.kind = "request"
      BY <1>1, <1>5, <2>1, <2>6 DEF FlightOK
    <3>2. pkt.hop >= 1 /\ sent + pkt.hop = Probed + 1 /\ pkt.hop \in Nat
      BY <1>1, <1>5, <3>1 DEF FlightOK, Packet
    <3> QED BY <1>1, <2>3, <2>5, <3>2
  <2>7. FlightOK'
    BY <1>1, <1>2, <1>5, <2>1, <2>2, <2>6 DEF FlightOK
  <2> QED BY <1>3, <2>4, <2>7 DEF TraceInv
<1> QED BY <1>4, <1>5 DEF sendICMPError
LEMMA FlyTraceInv ==
    ASSUME TraceInv, Fly
    PROVE  TraceInv'
<1>1. /\ TraceTypeOK /\ FlightOK /\ LateOK /\ CallOK
      /\ HopsWithinTTL /\ ReachIsReal
      /\ pkt \in Packet /\ sent \in Nat
  BY DEF TraceInv, IInv, TypeOK
<1>2. phase = "flying" /\ trace' = trace
  BY DEF Fly, Deliver, TimeExceeded, Forward, NotForwarded, ToForward, Flying
<1>3. IInv'
  <2>1. Next
    BY DEF Fly, Next, handleIPv6
  <2> QED BY <2>1, NextIInv DEF TraceInv
<1>4. Probed' = Probed /\ Probed \in Nat /\ trace.dst \in Node
  BY <1>1, <1>2 DEF Probed, TraceTypeOK
<1>5. CallOK' /\ HopsWithinTTL' /\ ReachIsReal'
  BY <1>1, <1>2, <1>4 DEF CallOK, HopsWithinTTL, ReachIsReal
<1>6. CASE Deliver /\ Makes("echo_reply") /\ Tapped
  <2>1. LateOK' /\ late' \subseteq HopType
    <3>1. CASE late' = late
      BY <1>1, <1>2, <1>4, <3>1 DEF LateOK, TraceTypeOK
    <3>2. CASE ForMe /\ ~Local /\ pkt.at = Asker
      <4> DEFINE x == [by |-> pkt.src, depth |-> mark.depth,
                       reply |-> mark.reply]
      <4>1. late' = late \cup {x}
        BY <1>6, <3>2 DEF Tapped
      <4>2. x \in HopType
        BY <1>1 DEF HopType, TraceTypeOK, Packet
      <4>3. pkt.dst = Asker /\ pkt.kind \in {"reply", "error"}
        BY <1>1, <1>2, <3>2 DEF ForMe, FlightOK
      <4>4. x.depth <= Probed /\ (x.reply = "echo_reply" => x.by = trace.dst)
        BY <1>1, <1>2, <4>3 DEF FlightOK
      <4> HIDE DEF x
      <4>5. late' \subseteq HopType
        BY <1>1, <4>1, <4>2 DEF TraceTypeOK
      <4> QED BY <1>1, <1>2, <1>4, <4>1, <4>4, <4>5 DEF LateOK
    <3> QED BY <1>6, <3>1, <3>2 DEF Tapped
  <2>2. CASE Stop
    <3>1. phase' = "done" /\ pkt' = pkt
      BY <2>2 DEF Stop
    <3>2. mark' = mark
      BY <1>6, <3>1 DEF Makes
    <3> QED BY <1>1, <1>2, <1>3, <1>5, <2>1, <3>1, <3>2
            DEF TraceInv, TraceTypeOK, FlightOK
  <2>3. CASE /\ ForMe /\ ~Local /\ pkt.kind = "request"
             /\ Transmit(Answer("reply"), pkt.from)
    <3>1. /\ pkt'.kind = "reply" /\ pkt'.from = pkt.at /\ pkt'.src = pkt.at
          /\ pkt'.dst = pkt.src /\ phase' = phase /\ pkt.at \in Node
      BY <1>1, <2>3 DEF Transmit, Answer, Packet
    <3>2. ~Local'
      BY <3>1, NodeAssumption DEF Local
    <3>3. mark' = [depth |-> sent, reply |-> "echo_reply"]
      BY <1>6, <2>3, <3>1 DEF Makes
    <3>4. TraceTypeOK'
      BY <1>1, <1>2, <2>1, <3>3 DEF TraceTypeOK, ReplyType
    <3>5. pkt.hop >= 1 /\ sent + pkt.hop = Probed + 1 /\ pkt.hop \in Nat
      BY <1>1, <1>2, <2>3 DEF FlightOK, Packet
    <3>6. sent <= Probed
      BY <1>1, <1>4, <3>5
    <3>7. pkt.src = Asker /\ pkt.at = trace.dst /\ trace.dst # Asker
      BY <1>1, <1>2, <2>3 DEF FlightOK, ForMe
    <3>8. FlightOK'
      BY <1>2, <1>4, <3>1, <3>2, <3>3, <3>6, <3>7 DEF FlightOK
    <3> QED BY <1>3, <1>5, <2>1, <3>4, <3>8 DEF TraceInv
  <2> QED BY <1>6, <2>2, <2>3 DEF Deliver
<1>7. CASE TimeExceeded /\ Makes("time_exceeded") /\ UNCHANGED late
  BY <1>2, <1>3, <1>7, ErrorTraceInv DEF TimeExceeded
<1>8. CASE Forward /\ UNCHANGED <<mark, late>>
  <2>1. PICK p : Transmit(Forwarded, p)
    BY <1>8 DEF Forward
  <2>2. /\ pkt'.kind = pkt.kind /\ pkt'.from = pkt.at /\ pkt'.src = pkt.src
        /\ pkt'.dst = pkt.dst /\ phase' = phase /\ sent' = sent + 1
        /\ pkt'.hop = IF Local THEN pkt.hop ELSE pkt.hop - 1
        /\ pkt.at \in Node
    BY <1>1, <2>1 DEF Transmit, Forwarded, Packet
  <2>3. ~Local'
    BY <2>2, NodeAssumption DEF Local
  <2>4. (Local \/ pkt.hop > 1) /\ pkt.dst # pkt.at /\ pkt.hop \in Nat
    BY <1>1, <1>8 DEF Forward, ToForward, HopsLeft, ForMe, Packet
  <2>5. trace.dst # Asker
    BY <1>1, <1>2, <2>4 DEF FlightOK
  <2>6. ASSUME pkt.kind = "request"
        PROVE  pkt'.hop >= 1 /\ sent' + pkt'.hop = Probed + 1
    <3>1. CASE Local
      BY <1>1, <1>2, <1>4, <2>2, <2>4, <2>6, <3>1 DEF FlightOK
    <3>2. CASE ~Local
      BY <1>1, <1>2, <1>4, <2>2, <2>4, <2>6, <3>2 DEF FlightOK
    <3> QED BY <3>1, <3>2
  <2>7. FlightOK'
    BY <1>1, <1>2, <1>4, <1>8, <2>2, <2>3, <2>5, <2>6 DEF FlightOK
  <2>8. LateOK' /\ TraceTypeOK'
    BY <1>1, <1>2, <1>4, <1>8 DEF LateOK, TraceTypeOK
  <2> QED BY <1>3, <1>5, <2>7, <2>8 DEF TraceInv
<1>9. ASSUME NEW reply \in {"dest_unreach", "too_big"}, NotForwarded,
             Makes(reply), late' = late
      PROVE  TraceInv'
  BY <1>2, <1>3, <1>9, ErrorTraceInv DEF NotForwarded
<1>10. ASSUME NEW reply \in {"dest_unreach", "too_big"}, NotForwarded,
              RefusedHere(reply)
       PROVE  TraceInv'
  <2>1. phase' = "done" /\ mark' = mark
        /\ late' = late \cup {[by |-> Asker, depth |-> 0, reply |-> reply]}
    BY <1>10 DEF NotForwarded, sendICMPError, Stop, RefusedHere
  <2>2. [by |-> Asker, depth |-> 0, reply |-> reply] \in HopType
    BY TracerouteAssumption DEF HopType, ReplyType
  <2>3. TraceTypeOK'
    BY <1>1, <1>2, <2>1, <2>2 DEF TraceTypeOK
  <2>4. LateOK'
    BY <1>1, <1>2, <1>4, <2>1 DEF LateOK
  <2>5. FlightOK'
    BY <2>1 DEF FlightOK
  <2> QED BY <1>3, <1>5, <2>3, <2>4, <2>5 DEF TraceInv
<1> QED BY <1>6, <1>7, <1>8, <1>9, <1>10 DEF Fly
LEMMA NextTraceInv ==
    ASSUME TraceInv, [TraceNext]_traceVars
    PROVE  TraceInv'
<1>1. /\ TraceTypeOK /\ FlightOK /\ LateOK /\ CallOK
      /\ HopsWithinTTL /\ ReachIsReal /\ IInv
      /\ trace.hops \in Seq(HopType) /\ Len(trace.hops) \in Nat
  BY DEF TraceInv, TraceTypeOK
<1>2. CASE SendProbe
  <2>1. /\ trace' = [trace EXCEPT !.state = "waiting", !.hop = NoHop]
        /\ pkt' = [at |-> Asker, from |-> NoNode, kind |-> "request",
                   src |-> Asker, dst |-> trace.dst, hop |-> TTL]
        /\ phase' = "flying" /\ sent' = 0 /\ mark' = mark /\ late' = late
        /\ trace.state = "ready" /\ ~trace.reach /\ TTL <= MaxTTL
    BY <1>2 DEF SendProbe
  <2>2. /\ NoHop \in HopType /\ NoHop.depth = 0 /\ NoHop.reply = "none"
    BY DEF NoHop, HopType, ReplyType
  <2>3. /\ trace'.state = "waiting" /\ trace'.hop = NoHop
        /\ trace'.hops = trace.hops /\ trace'.reach = trace.reach
        /\ trace'.dst = trace.dst
    BY <1>1, <2>1 DEF TraceTypeOK
  <2>4. Probed = Len(trace.hops) /\ Probed' = TTL /\ TTL = Len(trace.hops) + 1
    BY <1>1, <2>1, <2>3 DEF Probed, TTL
  <2>5. /\ pkt' \in Packet /\ pkt'.from = NoNode /\ pkt'.hop = TTL
        /\ pkt'.kind = "request" /\ pkt'.at = Asker /\ pkt'.src = Asker
        /\ pkt'.dst = trace.dst
    BY <1>1, <2>1, <2>4, TracerouteAssumption DEF Packet, Kind, TraceTypeOK
  <2>6. TraceTypeOK'
    BY <1>1, <2>1, <2>2 DEF TraceTypeOK
  <2>7. Local'
    BY <2>5 DEF Local
  <2>8. FlightOK'
    BY <1>1, <2>1, <2>3, <2>4, <2>5, <2>7 DEF FlightOK
  <2>9. LateOK'
    <3> SUFFICES ASSUME NEW x \in late
                 PROVE  /\ x.depth <= Probed'
                        /\ x.reply = "echo_reply" => x.by = trace.dst
      BY <2>1, <2>3 DEF LateOK
    <3>1. x.depth \in Nat
      BY <1>1 DEF TraceTypeOK, HopType
    <3> QED BY <1>1, <2>4, <3>1 DEF LateOK
  <2>10. CallOK'
    <3>1. trace'.hop.depth <= Probed' /\ trace'.hop.reply # "echo_reply"
      BY <1>1, <2>2, <2>3, <2>4
    <3>2. ~trace'.reach
      BY <2>1, <2>3
    <3> QED BY <3>1, <3>2 DEF CallOK
  <2>11. HopsWithinTTL' /\ ReachIsReal'
    BY <1>1, <2>3 DEF HopsWithinTTL, ReachIsReal
  <2>12. IInv'
    <3>1. Aftermath("request") = 2 * ReplyHop
      BY DEF Aftermath
    <3>2. TTL \in Nat /\ TTL <= MaxHop
      BY <1>1, <2>1, <2>4, TracerouteAssumption, HopAssumption
    <3>3. Remaining' = 1 + HopBudget(TTL) + 2 * ReplyHop
      BY <2>1, <2>5, <2>7, <3>1 DEF Remaining
    <3>4. sent' + Remaining' <= Budget
      BY <2>1, <3>2, <3>3, HopAssumption DEF HopBudget, Budget
    <3> QED BY <2>1, <2>5, <3>4, HopAssumption
            DEF IInv, TypeOK, TransmissionsBounded, LocalIsUnsent, Budget
  <2> QED BY <2>6, <2>8, <2>9, <2>10, <2>11, <2>12 DEF TraceInv
<1>3. CASE ReadTap
  <2>1. PICK x \in late :
            /\ trace' = IF Ends(x.reply) THEN Recorded(x)
                        ELSE [trace EXCEPT !.hop = [x EXCEPT !.reply = "none"]]
            /\ late' = late \ {x}
    BY <1>3 DEF ReadTap
  <2>2. trace.state = "waiting" /\ UNCHANGED <<vars, mark>>
    BY <1>3 DEF ReadTap
  <2>3. /\ x \in HopType /\ x.depth <= Probed
        /\ x.reply = "echo_reply" => x.by = trace.dst
    BY <1>1 DEF LateOK, TraceTypeOK
  <2>4. CASE Ends(x.reply)
    BY <2>1, <2>2, <2>3, <2>4, RecordedInv
  <2>5. CASE ~Ends(x.reply)
    <3> DEFINE y == [x EXCEPT !.reply = "none"]
    <3>1. y \in HopType /\ y.depth = x.depth /\ y.reply = "none"
      BY <2>3 DEF HopType, ReplyType
    <3>2. trace' = [trace EXCEPT !.hop = y]
      BY <2>1, <2>5
    <3> HIDE DEF y
    <3>3. /\ trace'.state = trace.state /\ trace'.hop = y
          /\ trace'.hops = trace.hops /\ trace'.reach = trace.reach
          /\ trace'.dst = trace.dst
      BY <1>1, <3>2 DEF TraceTypeOK
    <3>4. Probed' = Probed
      BY <3>3 DEF Probed
    <3>5. TraceTypeOK'
      BY <1>1, <2>1, <2>2, <3>1, <3>2 DEF TraceTypeOK
    <3>6. pkt' = pkt /\ phase' = phase /\ sent' = sent /\ mark' = mark
      BY <2>2 DEF vars
    <3>7. FlightOK' /\ LateOK'
      BY <1>1, <2>1, <3>3, <3>4, <3>6 DEF FlightOK, LateOK, Local
    <3>8. CallOK'
      BY <1>1, <2>3, <3>1, <3>3, <3>4 DEF CallOK
    <3>9. HopsWithinTTL' /\ ReachIsReal'
      BY <1>1, <3>3 DEF HopsWithinTTL, ReachIsReal
    <3>10. IInv'
      BY <1>1, <3>6 DEF IInv, TypeOK, TransmissionsBounded, Remaining, Local,
                        LocalIsUnsent
    <3> QED BY <3>5, <3>7, <3>8, <3>9, <3>10 DEF TraceInv
  <2> QED BY <2>4, <2>5
<1>4. CASE Timeout
  BY <1>1, <1>4, RecordedInv DEF Timeout, TraceTypeOK, CallOK
<1>5. CASE Fly
  BY <1>5, FlyTraceInv
<1>6. CASE TraceDone \/ UNCHANGED traceVars
  <2>1. UNCHANGED traceVars
    BY <1>6 DEF TraceDone
  <2>2. Probed' = Probed
    BY <2>1 DEF traceVars, Probed
  <2> QED BY <1>1, <2>1, <2>2
          DEF traceVars, vars, TraceInv, TraceTypeOK, FlightOK, LateOK, CallOK,
              HopsWithinTTL, ReachIsReal, IInv, TypeOK, TransmissionsBounded,
              Remaining, Local, LocalIsUnsent
<1> QED BY <1>2, <1>3, <1>4, <1>5, <1>6 DEF TraceNext

(* Of TraceRoute: however late the answers come and whatever RIBs lead the  *)
(* probes, a node is no farther than its place in the list says.            *)
THEOREM HopsAreAsNear == TraceSpec => []HopsWithinTTL
<1>1. TraceInv => HopsWithinTTL
  BY DEF TraceInv
<1>2. TraceInv /\ [TraceNext]_traceVars => TraceInv'
  BY NextTraceInv
<1> QED BY <1>1, <1>2, InitTraceInv, PTL DEF TraceSpec

(* Of TraceRoute: Reach is set by an answer of the destination, and by that *)
(* only, however late and whichever probe it answers.                       *)
THEOREM ReachIsTrue == TraceSpec => []ReachIsReal
<1>1. TraceInv => ReachIsReal
  BY DEF TraceInv
<1>2. TraceInv /\ [TraceNext]_traceVars => TraceInv'
  BY NextTraceInv
<1> QED BY <1>1, <1>2, InitTraceInv, PTL DEF TraceSpec
=============================================================================
