------------------------------ MODULE EchoProof ------------------------------
(***************************************************************************)
(* A ping reports a path that was walked, for every session graph, time to *)
(* live and number of failures.                                            *)
(***************************************************************************)
EXTENDS Echo, SequenceTheorems, TLAPS

(* A control message written by n is sound: it says no more than happened. *)
Sound(n, m) ==
    /\ m \in Message
    /\ m.type = "echo" => CameBy(m.path, n) /\ Len(m.path) + m.ttl = echoTTL
    /\ m.type = "echo_ok" => Reaches(m.path)

(* Channels hold sound messages and run along sessions.                     *)
ChanSound(c) ==
    /\ c \in [Node -> [Node -> Seq(Message)]]
    /\ \A n, p \in Node : c[n][p] # <<>> => p \in Peers[n]
    /\ \A n, p \in Node : \A i \in 1 .. Len(c[n][p]) : Sound(n, c[n][p][i])

(* The inductive invariant: connections are those of the session graph,     *)
(* which is what makes a relayed path a walk.                               *)
IInv == /\ TypeOK
        /\ \A n \in Node : link[n] \subseteq Peers[n]
        /\ ChanSound(chan)
        /\ result.state = "echo_ok" => Reaches(result.path)

-----------------------------------------------------------------------------
(* Channels                                                                 *)

(* The message a relay passes on.                                           *)
LEMMA RelayedMessage ==
    ASSUME NEW m \in Message, NEW s \in Seq(Node)
    PROVE  LET q == [m EXCEPT !.ttl = @ - 1, !.path = s]
           IN  q \in Message /\ q.type = m.type /\ q.ttl = m.ttl - 1 /\ q.path = s
<1>1. m.ttl - 1 \in Int
  BY DEF Message
<1>2. \A k \in Int : [m EXCEPT !.ttl = k, !.path = s] \in Message
  BY DEF Message
<1>3. \A k \in Int : [m EXCEPT !.ttl = k, !.path = s].type = m.type
  BY DEF Message
<1>4. \A k \in Int : [m EXCEPT !.ttl = k, !.path = s].ttl = k
  BY DEF Message
<1>5. \A k \in Int : [m EXCEPT !.ttl = k, !.path = s].path = s
  BY DEF Message
<1> QED BY <1>1, <1>2, <1>3, <1>4, <1>5

(* Writing a sound message on working connections.                          *)
LEMMA WrittenSound ==
    ASSUME NEW c, ChanSound(c), NEW n \in Node, NEW ps \in SUBSET Node,
           NEW m, Sound(n, m), link[n] \subseteq Peers[n]
    PROVE  ChanSound(Written(c, n, ps, m))
<1> DEFINE w == Written(c, n, ps, m)
<1>0. m \in Message /\ c \in [Node -> [Node -> Seq(Message)]]
  BY DEF Sound, ChanSound
<1>1. ASSUME NEW x \in Node, NEW y \in Node
      PROVE  w[x][y] = IF x = n /\ y \in ps \cap link[n] THEN Append(c[x][y], m)
                                                         ELSE c[x][y]
  BY <1>0 DEF Written
<1>2. ASSUME NEW x \in Node, NEW y \in Node
      PROVE  w[x][y] \in Seq(Message)
  <2>1. c[x][y] \in Seq(Message)
    BY <1>0
  <2>2. Append(c[x][y], m) \in Seq(Message)
    BY <1>0, <2>1
  <2> QED BY <1>1, <2>1, <2>2
<1>3. w \in [Node -> [Node -> Seq(Message)]]
  BY <1>0, <1>2 DEF Written
<1>4. ASSUME NEW x \in Node, NEW y \in Node, w[x][y] # <<>>
      PROVE  y \in Peers[x]
  BY <1>1, <1>4 DEF ChanSound
<1>5. ASSUME NEW x \in Node, NEW y \in Node, NEW i \in 1 .. Len(w[x][y])
      PROVE  Sound(x, w[x][y][i])
  <2>1. CASE x = n /\ y \in ps \cap link[n]
    <3>1. w[x][y] = Append(c[x][y], m) /\ c[x][y] \in Seq(Message)
      BY <1>0, <1>1, <2>1
    <3>2. CASE i = Len(c[x][y]) + 1
      BY <2>1, <3>1, <3>2
    <3>3. CASE i \in 1 .. Len(c[x][y])
      <4>1. w[x][y][i] = c[x][y][i]
        BY <3>1, <3>3
      <4> QED BY <3>3, <4>1 DEF ChanSound
    <3>4. i \in 1 .. Len(c[x][y]) + 1
      BY <1>0, <3>1, <1>5
    <3>5. Len(c[x][y]) \in Nat
      BY <3>1
    <3> QED BY <3>2, <3>3, <3>4, <3>5
  <2>2. CASE ~ (x = n /\ y \in ps \cap link[n])
    BY <1>1, <2>2, <1>5 DEF ChanSound
  <2> QED BY <2>1, <2>2
<1> HIDE DEF w
<1>6. ChanSound(w)
  BY <1>3, <1>4, <1>5 DEF ChanSound
<1> QED BY <1>6 DEF w

(* Reading a message.                                                       *)
LEMMA RestSound ==
    ASSUME ChanSound(chan), NEW n \in Node, NEW p \in Node, chan[p][n] # <<>>
    PROVE  /\ ChanSound(Rest(n, p))
           /\ Sound(p, Head(chan[p][n]))
           /\ n \in Peers[p]
<1> DEFINE s == chan[p][n]
           r == Rest(n, p)
<1>1. s \in Seq(Message) /\ s # <<>> /\ chan \in [Node -> [Node -> Seq(Message)]]
  BY DEF ChanSound
<1>2. /\ Head(s) = s[1] /\ 1 \in 1 .. Len(s)
      /\ Tail(s) \in Seq(Message) /\ Len(Tail(s)) = Len(s) - 1
      /\ \A i \in 1 .. Len(Tail(s)) : i + 1 \in 1 .. Len(s) /\ Tail(s)[i] = s[i + 1]
  BY <1>1
<1>3. Sound(p, Head(s)) /\ n \in Peers[p]
  <2>1. Sound(p, s[1])
    BY <1>2 DEF ChanSound
  <2> QED BY <1>1, <1>2, <2>1 DEF ChanSound
<1>4. \A x, y \in Node : r[x][y] = IF x = p /\ y = n THEN Tail(s) ELSE chan[x][y]
  BY <1>1 DEF Rest
<1>5. r \in [Node -> [Node -> Seq(Message)]]
  BY <1>1, <1>2 DEF Rest
<1>6. ASSUME NEW x \in Node, NEW y \in Node, r[x][y] # <<>>
      PROVE  y \in Peers[x]
  BY <1>3, <1>4, <1>6 DEF ChanSound
<1>7. ASSUME NEW x \in Node, NEW y \in Node, NEW i \in 1 .. Len(r[x][y])
      PROVE  Sound(x, r[x][y][i])
  <2>1. CASE x = p /\ y = n
    <3>1. r[x][y] = Tail(s)
      BY <1>4, <2>1
    <3>2. i + 1 \in 1 .. Len(s) /\ r[x][y][i] = s[i + 1]
      BY <1>2, <1>7, <3>1
    <3> QED BY <2>1, <3>2 DEF ChanSound
  <2>2. CASE ~ (x = p /\ y = n)
    BY <1>4, <1>7, <2>2 DEF ChanSound
  <2> QED BY <2>1, <2>2
<1> HIDE DEF r, s
<1>8. ChanSound(r)
  BY <1>5, <1>6, <1>7 DEF ChanSound
<1> QED BY <1>3, <1>8 DEF r, s

(* A ping that came to p and is read by its peer n has come to n.           *)
LEMMA WalkOn ==
    ASSUME NEW s \in Seq(Node), NEW p \in Node, NEW n \in Node,
           CameBy(s, p), n \in Peers[p]
    PROVE  /\ Append(s, n) \in Seq(Node) /\ Append(s, n) # <<>>
           /\ Len(Append(s, n)) = Len(s) + 1
           /\ Append(s, n)[Len(s) + 1] = n
           /\ CameBy(Append(s, n), n)
<1> DEFINE t == Append(s, n)
<1>1. /\ t \in Seq(Node) /\ Len(t) = Len(s) + 1 /\ t # <<>>
      /\ Len(s) \in Nat /\ t[Len(s) + 1] = n
      /\ \A i \in 1 .. Len(s) : t[i] = s[i]
  BY AppendProperties
<1>2. CASE s = <<>>
  BY <1>1, <1>2 DEF CameBy, Walk
<1>3. CASE s # <<>>
  <2>1. Len(s) > 0 /\ 1 \in 1 .. Len(s) /\ p = s[Len(s)]
    BY <1>3 DEF CameBy
  <2>2. t[1] \in Peers[Asker]
    BY <1>1, <1>3, <2>1 DEF CameBy, Walk
  <2>3. ASSUME NEW i \in 1 .. Len(t) - 1
        PROVE  t[i + 1] \in Peers[t[i]]
    <3>1. CASE i = Len(s)
      BY <1>1, <2>1, <3>1
    <3>2. CASE i < Len(s)
      <4>1. i \in 1 .. Len(s) /\ i + 1 \in 1 .. Len(s) /\ i \in 1 .. Len(s) - 1
        BY <1>1, <3>2
      <4>2. s[i + 1] \in Peers[s[i]]
        BY <4>1 DEF CameBy, Walk
      <4> QED BY <1>1, <4>1, <4>2
    <3> QED BY <1>1, <3>1, <3>2
  <2> HIDE DEF t
  <2> QED BY <1>1, <2>2, <2>3 DEF CameBy, Walk, t
<1> QED BY <1>1, <1>2, <1>3

-----------------------------------------------------------------------------
(* The steps                                                                *)

LEMMA InitIInv == Init => IInv
<1> SUFFICES ASSUME Init PROVE IInv
  OBVIOUS
<1>1. <<>> \in Seq(Message) /\ <<>> \in Seq(Node) /\ Len(<<>>) = 0
  OBVIOUS
<1>2. ChanSound(chan)
  BY <1>1 DEF Init, ChanSound
<1>3. TypeOK
  BY <1>1, PeersAssumption, BoundsAssumption DEF Init, TypeOK, Idle, Wait
<1> QED BY <1>2, <1>3 DEF Init, IInv, Idle

(* What Echo returns.                                                       *)
LEMMA ResultType ==
    ASSUME NEW t \in {"waiting", "cancelled", "echo_err"}, NEW s \in Seq(Node)
    PROVE  /\ [state |-> t, path |-> s]
                \in [state : {"idle", "waiting", "cancelled", "echo_ok", "echo_err"},
                     path : Seq(Node)]
           /\ [state |-> t, path |-> s].state # "echo_ok"
OBVIOUS

(* Handing an answer on.                                                    *)
LEMMA FinishIInv ==
    ASSUME IInv, NEW n \in Node, NEW p \in Node,
           NEW m, Sound(p, m), m.type \in {"echo_ok", "echo_err"},
           NEW c, ChanSound(c), finishEcho(c, n, m), UNCHANGED <<sess, link, faults>>
    PROVE  IInv'
<1> USE DEF IInv
<1>1. Sound(n, m) /\ m \in Message /\ m.path \in Seq(Node)
  BY DEF Sound, Message
<1>2. ChanSound(chan')
  <2>1. CASE wait[n].kind = "relay"
    <3>1. wait[n] \in Wait
      BY DEF TypeOK
    <3>2. PICK q \in Node : wait[n] = Relay(q)
      BY <2>1, <3>1 DEF Wait, NoWait, Own
    <3>3. wait[n].back \in Node
      BY <3>2 DEF Relay
    <3> QED BY <1>1, <2>1, <3>3, WrittenSound DEF finishEcho
  <2> QED BY <2>1 DEF finishEcho
<1>3. result' = result \/ result' = [state |-> m.type, path |-> m.path]
  BY DEF finishEcho
<1>4. /\ result' \in [state : {"idle", "waiting", "cancelled", "echo_ok", "echo_err"},
                      path : Seq(Node)]
      /\ result'.state = "echo_ok" => Reaches(result'.path)
  BY <1>1, <1>3 DEF TypeOK, Sound
<1>5. wait' \in [Node -> Wait]
  BY DEF finishEcho, TypeOK, Wait
<1>6. ChanSound(chan)' /\ (result.state = "echo_ok" => Reaches(result.path))'
  BY <1>2, <1>4 DEF ChanSound, Sound, CameBy, Reaches, Walk
<1>7. TypeOK'
  BY <1>2, <1>4, <1>5 DEF TypeOK, ChanSound
<1> QED BY <1>6, <1>7

(* The call.                                                                *)
LEMMA EchoIInv == ASSUME IInv, Echo PROVE IInv'
<1> USE DEF IInv
<1> DEFINE m  == [type |-> "echo", ttl |-> echoTTL, path |-> <<>>]
           ps == Dispatch(Asker, NoNode)
<1>1. Sound(Asker, m)
  BY BoundsAssumption DEF Sound, Message, CameBy, Walk
<1>2. ps \in SUBSET Node /\ Asker \in Node
  BY NodeAssumption DEF TypeOK, Dispatch
<1>3. ChanSound(Written(chan, Asker, ps, m))
  BY <1>1, <1>2, WrittenSound
<1>4. ChanSound(chan')
  BY <1>3 DEF Echo
<1>5. wait' \in [Node -> Wait]
  BY NodeAssumption DEF Echo, TypeOK, Wait
<1>6. /\ result' \in [state : {"idle", "waiting", "cancelled", "echo_ok", "echo_err"},
                      path : Seq(Node)]
      /\ result'.state # "echo_ok"
  <2>0. <<>> \in Seq(Node)
    OBVIOUS
  <2>1. PICK none \in Seq(Node) : none = <<>>
    BY <2>0
  <2>2. \/ result' = [state |-> "waiting", path |-> none]
        \/ result' = [state |-> "echo_err", path |-> none]
    BY <2>1 DEF Echo, Idle
  <2> QED BY <2>2, ResultType
<1>7. TypeOK'
  BY <1>4, <1>5, <1>6 DEF TypeOK, ChanSound, Echo
<1>8. ChanSound(chan)'
  BY <1>4 DEF ChanSound, Sound, CameBy, Reaches, Walk
<1> QED BY <1>6, <1>7, <1>8 DEF Echo

(* What a node does with a ping it reads.                                   *)
LEMMA ReadEchoIInv ==
    ASSUME IInv, NEW n \in Node, NEW p \in Node,
           \/ DropCopy(n, p) \/ RelayEcho(n, p) \/ RefuseEcho(n, p)
           \/ (n = Target /\ AnswerEcho(p))
    PROVE  IInv'
<1> USE DEF IInv
<1> DEFINE m == Head(chan[p][n])
<1>1. chan[p][n] # <<>> /\ m.type = "echo"
  BY DEF Reads, DropCopy, RelayEcho, RefuseEcho, AnswerEcho
<1>2. ChanSound(Rest(n, p)) /\ Sound(p, m) /\ n \in Peers[p]
  BY <1>1, RestSound
<1>3. /\ m \in [type : {"echo", "echo_ok", "echo_err"}, ttl : Int, path : Seq(Node)]
      /\ CameBy(m.path, p) /\ Len(m.path) + m.ttl = echoTTL
  BY <1>1, <1>2 DEF Sound, Message
<1> HIDE DEF m
<1>4. /\ Append(m.path, n) \in Seq(Node) /\ Append(m.path, n) # <<>>
      /\ Len(Append(m.path, n)) = Len(m.path) + 1
      /\ Append(m.path, n)[Len(m.path) + 1] = n
      /\ CameBy(Append(m.path, n), n)
  BY <1>2, <1>3, WalkOn
<1>5. ChanSound(chan')
  <2>1. CASE DropCopy(n, p)
    BY <1>2, <2>1 DEF DropCopy
  <2>2. CASE RelayEcho(n, p)
    <3> DEFINE q == [m EXCEPT !.ttl = @ - 1, !.path = Append(@, n)]
    <3>1. Dispatch(n, p) \in SUBSET Node
      BY NodeAssumption DEF TypeOK, Dispatch
    <3>2. /\ q.type = "echo" /\ q.ttl = m.ttl - 1 /\ q.path = Append(m.path, n)
          /\ q \in Message
      BY <1>1, <1>3, <1>4, RelayedMessage DEF Message
    <3>3. Len(q.path) + q.ttl = echoTTL
      <4>1. Len(m.path) \in Nat /\ m.ttl \in Int
        BY <1>3
      <4> QED BY <1>3, <1>4, <3>2, <4>1
    <3> HIDE DEF q
    <3>4. Sound(n, q)
      BY <1>4, <3>2, <3>3 DEF Sound, Message
    <3> QED BY <1>2, <2>2, <3>1, <3>4, WrittenSound DEF RelayEcho, m, q
  <2>3. CASE RefuseEcho(n, p)
    <3> DEFINE q == [m EXCEPT !.type = "echo_err", !.path = <<>>]
    <3>1. q \in [type : {"echo", "echo_ok", "echo_err"}, ttl : Int, path : Seq(Node)]
          /\ q.type = "echo_err"
      <4>1. <<>> \in Seq(Node)
        OBVIOUS
      <4> QED BY <1>3, <4>1
    <3> HIDE DEF q
    <3>2. Sound(n, q)
      BY <3>1 DEF Sound, Message
    <3> QED BY <1>2, <2>3, <3>2, WrittenSound DEF RefuseEcho, m, q
  <2>4. CASE n = Target /\ AnswerEcho(p)
    <3> DEFINE q == [m EXCEPT !.type = "echo_ok", !.path = Append(@, Target)]
    <3>1. /\ q \in [type : {"echo", "echo_ok", "echo_err"}, ttl : Int, path : Seq(Node)]
          /\ q.type = "echo_ok" /\ q.path = Append(m.path, n)
      BY <1>3, <1>4, <2>4
    <3> HIDE DEF q
    <3>2. Reaches(q.path)
      BY <1>4, <2>4, <3>1 DEF Reaches, CameBy
    <3>3. Sound(n, q)
      BY <3>1, <3>2 DEF Sound, Message
    <3> QED BY <1>2, <2>4, <3>3, WrittenSound DEF AnswerEcho, m, q
  <2> QED BY <2>1, <2>2, <2>3, <2>4
<1>6. wait' \in [Node -> Wait] /\ UNCHANGED <<sess, link, result, faults>>
  BY DEF DropCopy, RelayEcho, RefuseEcho, AnswerEcho, TypeOK, Wait
<1>7. TypeOK'
  BY <1>5, <1>6 DEF TypeOK, ChanSound
<1>8. ChanSound(chan)' /\ (result.state = "echo_ok" => Reaches(result.path))'
  BY <1>5, <1>6 DEF ChanSound, Sound, CameBy, Reaches, Walk
<1> QED BY <1>6, <1>7, <1>8

(* Failures.                                                                *)
LEMMA FaultIInv ==
    ASSUME IInv, NEW n \in Node, NEW p \in Node,
           Cancelled \/ LinkLost(n, p) \/ Unregister(n, p)
    PROVE  IInv'
<1> USE DEF IInv
<1>1. chan \in [Node -> [Node -> Seq(Message)]]
  BY DEF ChanSound
<1>2. /\ chan' \in [Node -> [Node -> Seq(Message)]]
      /\ \A x, y \in Node : chan'[x][y] = chan[x][y] \/ chan'[x][y] = <<>>
  <2>1. CASE LinkLost(n, p)
    <3>1. <<>> \in Seq(Message)
      OBVIOUS
    <3> QED BY <1>1, <2>1, <3>1 DEF LinkLost
  <2> QED BY <1>1, <2>1 DEF Cancelled, Unregister
<1>3. ChanSound(chan')
  <2>1. \A x, y \in Node : chan'[x][y] # <<>> => y \in Peers[x]
    BY <1>2 DEF ChanSound
  <2>2. ASSUME NEW x \in Node, NEW y \in Node, NEW i \in 1 .. Len(chan'[x][y])
        PROVE  Sound(x, chan'[x][y][i])
    <3>1. chan'[x][y] # <<>>
      <4>1. Len(<<>>) = 0
        OBVIOUS
      <4> QED BY <2>2, <4>1
    <3>2. chan'[x][y] = chan[x][y]
      BY <1>2, <3>1
    <3> QED BY <2>2, <3>2 DEF ChanSound
  <2> QED BY <1>2, <2>1, <2>2 DEF ChanSound
<1>4. /\ link' \in [Node -> SUBSET Node] /\ sess' \in [Node -> SUBSET Node]
      /\ \A x \in Node : link'[x] \subseteq Peers[x]
  <2>1. CASE LinkLost(n, p)
    <3>1. \A x \in Node : link'[x] \subseteq link[x]
      BY <2>1 DEF LinkLost, TypeOK
    <3>2. link' \in [Node -> SUBSET Node]
      BY <2>1 DEF LinkLost, TypeOK
    <3> QED BY <2>1, <3>1, <3>2 DEF LinkLost, TypeOK
  <2>2. CASE Unregister(n, p)
    BY <2>2 DEF Unregister, TypeOK
  <2>3. CASE Cancelled
    BY <2>3 DEF Cancelled, TypeOK
  <2> QED BY <2>1, <2>2, <2>3
<1>5. faults' \in 0 .. MaxFault
  BY BoundsAssumption DEF Cancelled, LinkLost, Unregister, TypeOK
<1>6. wait' \in [Node -> Wait]
  BY DEF Cancelled, LinkLost, Unregister, TypeOK, Wait
<1>7. /\ result' \in [state : {"idle", "waiting", "cancelled", "echo_ok", "echo_err"},
                      path : Seq(Node)]
      /\ result'.state = "echo_ok" => Reaches(result'.path)
  <2>0. <<>> \in Seq(Node)
    OBVIOUS
  <2>1. PICK none \in Seq(Node) : none = <<>>
    BY <2>0
  <2>2. result' = result \/ result' = [state |-> "cancelled", path |-> none]
    BY <2>1 DEF Cancelled, LinkLost, Unregister, Idle
  <2>3. CASE result' = result
    BY <2>3 DEF TypeOK, Reaches, Walk
  <2>4. CASE result' = [state |-> "cancelled", path |-> none]
    BY <2>4, ResultType
  <2> QED BY <2>2, <2>3, <2>4
<1>8. TypeOK'
  BY <1>2, <1>4, <1>5, <1>6, <1>7 DEF TypeOK
<1>9. ChanSound(chan)' /\ (result.state = "echo_ok" => Reaches(result.path))'
  BY <1>3, <1>7 DEF ChanSound, Sound, CameBy, Reaches, Walk
<1> QED BY <1>4, <1>8, <1>9

LEMMA StepIInv == IInv /\ [Next]_vars => IInv'
<1> SUFFICES ASSUME IInv, [Next]_vars PROVE IInv'
  OBVIOUS
<1>1. CASE Echo
  BY <1>1, EchoIInv
<1>2. CASE Cancelled
  BY <1>2, NodeAssumption, FaultIInv
<1>3. CASE Done \/ UNCHANGED vars
  <2>1. UNCHANGED vars
    BY <1>3 DEF Done
  <2>2. ChanSound(chan) = ChanSound(chan)'
    BY <2>1 DEF vars, ChanSound, Sound, Message, CameBy, Reaches, Walk
  <2>3. TypeOK'
    BY <2>1 DEF vars, IInv, TypeOK
  <2> QED BY <2>1, <2>2, <2>3 DEF vars, IInv, Reaches, Walk
<1>4. ASSUME NEW n \in Node, NEW p \in Node,
             ReadLoop(n, p) \/ LinkLost(n, p) \/ Unregister(n, p)
      PROVE  IInv'
  <2>1. CASE CompleteEcho(n, p)
    <3>1. chan[p][n] # <<>> /\ Head(chan[p][n]).type \in {"echo_ok", "echo_err"}
      BY <2>1 DEF CompleteEcho, Reads
    <3>2. ChanSound(chan)
      BY DEF IInv
    <3>3. ChanSound(Rest(n, p)) /\ Sound(p, Head(chan[p][n]))
      BY <3>1, <3>2, RestSound
    <3> QED BY <2>1, <3>1, <3>3, FinishIInv DEF CompleteEcho
  <2>2. CASE LinkLost(n, p) \/ Unregister(n, p)
    BY <2>2, FaultIInv
  <2> QED BY <1>4, <2>1, <2>2, ReadEchoIInv DEF ReadLoop
<1> QED BY <1>1, <1>2, <1>3, <1>4 DEF Next

LEMMA Invariance == Spec => []IInv
BY InitIInv, StepIInv, PTL DEF Spec

-----------------------------------------------------------------------------

(* Messages, waiters and results stay well formed.                          *)
THEOREM TypeCorrect == Spec => []TypeOK
<1>1. IInv => TypeOK
  BY DEF IInv
<1> QED BY <1>1, Invariance, PTL

(* Whatever path a ping reports was walked to the named node.               *)
THEOREM PathIsReal == Spec => []ReportedPathIsReal
<1>1. IInv => ReportedPathIsReal
  BY DEF IInv, ChanSound, Sound, ReportedPathIsReal
<1> QED BY <1>1, Invariance, PTL
=============================================================================
