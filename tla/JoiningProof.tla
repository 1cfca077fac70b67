----------------------------- MODULE JoiningProof -----------------------------
(***************************************************************************)
(* How a node comes to be in the mesh.  Module Dialing: two nodes at rest  *)
(* agree on the one connection there is, for any number of connections and *)
(* faults, whoever dials and whoever is recognised.  Module Bootstrap: the *)
(* lock excludes, what is written stays and success means usable, for any  *)
(* number of commands, nodes, kills and failing writes.                    *)
(***************************************************************************)
EXTENDS Dialing, Bootstrap, FiniteSetTheorems, TLAPS

(***************************************************************************)
(* Module Dialing                                                          *)
(***************************************************************************)

(* A session that is up and open at n is the registered one: what Replaced  *)
(* sees to.                                                                 *)
OpenIsRegistered ==
    \A n \in Node : \A c \in Conn :
        (conn[c].end[n] = "up" /\ n \notin conn[c].lost) => reg[n] = c

IInv == TypeOK /\ OpenIsRegistered

LEMMA TwoNodes ==
    /\ NoConn \notin Conn
    /\ \A n \in Node : Peer(n) \in Node /\ Peer(n) # n
BY DialingAssumption DEF NoConn, Conn, Node, Peer

LEMMA UnusedType ==
    /\ Unused \in Connection
    /\ \A n \in Node : Unused.end[n] = "none"
BY DEF Unused, Connection

(* Leaving a connection, or losing it, changes nothing at the other end     *)
(* but that a connection both have left is unused.                          *)
LEMMA LeftKeeps ==
    ASSUME NEW k \in Connection, NEW n \in Node
    PROVE  /\ Left(k, n) \in Connection
           /\ Left(k, n).end[n] # "up"
           /\ Left(k, n).end[Peer(n)] = "up" => Left(k, n).lost = k.lost \cup {n}
           /\ k.end[Peer(n)] = "up" => Left(k, n).end[Peer(n)] = "up"
           /\ Left(k, n).end[Peer(n)] = "up" => k.end[Peer(n)] = "up"
<1>1. CASE k.end[Peer(n)] = "over"
  BY <1>1, UnusedType, TwoNodes DEF Left
<1>2. CASE k.end[Peer(n)] # "over"
  BY <1>2, TwoNodes DEF Left, Connection
<1> QED BY <1>1, <1>2

LEMMA LostKeeps ==
    ASSUME NEW k \in Connection, NEW n \in Node
    PROVE  /\ Lost(k, n) \in Connection
           /\ Lost(k, n).end = k.end
           /\ Lost(k, n).lost = k.lost \cup {n}
BY DEF Lost, Connection

(* An end that comes up changes nothing else of its connection.             *)
LEMMA UpKeeps ==
    ASSUME NEW k \in Connection, NEW n \in Node
    PROVE  LET u == [k EXCEPT !.end[n] = "up"] IN
           /\ u \in Connection /\ u.lost = k.lost
           /\ u.end[n] = "up" /\ \A m \in Node \ {n} : u.end[m] = k.end[m]
<1> DEFINE u == [k EXCEPT !.end[n] = "up"]
<1>1. k.end \in [Node -> {"none", "begun", "hello", "up", "over"}]
  BY DEF Connection
<1>2. /\ u.end = [k.end EXCEPT ![n] = "up"]
      /\ u.lost = k.lost /\ u.greeted = k.greeted /\ u.dialer = k.dialer
  BY DEF Connection
<1>3. u \in Connection
  BY <1>1 DEF Connection
<1> HIDE DEF u
<1> QED BY <1>1, <1>2, <1>3 DEF u

LEMMA InitIInv == Init => IInv
<1> SUFFICES ASSUME Init PROVE IInv
  OBVIOUS
<1>1. TypeOK
  BY DialingAssumption, UnusedType DEF Init, TypeOK
<1>2. OpenIsRegistered
  BY UnusedType DEF Init, OpenIsRegistered
<1> QED BY <1>1, <1>2 DEF IInv

(* One end of one connection changes, n's entry only if it named c.         *)
EndChange(n, c, k) ==
    /\ k \in Connection
    /\ conn' = [conn EXCEPT ![c] = k]
    /\ \A m \in Node : k.end[m] = "up" => conn[c].end[m] = "up"
    /\ \A m \in Node \ {n} : conn[c].end[m] = "up" => k.end[m] = "up"
    /\ conn[c].lost \subseteq k.lost \/ \A m \in Node : k.end[m] # "up"
    /\ \/ reg' = reg /\ (conn[c].end[n] = "up" => k.end[n] = "up")
       \/ reg' = Unregistered(n, c) /\ n \in conn[c].lost
    /\ faults' \in 0 .. MaxFault

LEMMA EndChangeIInv ==
    ASSUME IInv, NEW n \in Node, NEW c \in Conn, NEW k, EndChange(n, c, k)
    PROVE  IInv'
<1> USE DEF IInv, EndChange
<1>1. conn' \in [Conn -> Connection]
  BY DEF TypeOK
<1>2. reg' \in [Node -> Conn \cup {NoConn}]
  BY DEF TypeOK, Unregistered
<1>3. ASSUME NEW m \in Node, reg'[m] # NoConn
      PROVE  conn'[reg'[m]].end[m] = "up"
  <2>1. reg'[m] = reg[m]
    BY <1>3 DEF Unregistered, TypeOK
  <2>2. reg[m] \in Conn /\ conn[reg[m]].end[m] = "up"
    BY <1>3, <2>1 DEF TypeOK
  <2>3. CASE reg[m] # c
    BY <2>1, <2>2, <2>3 DEF TypeOK
  <2>4. CASE reg[m] = c
    <3>1. m = n => reg' = reg
      BY <1>3, <2>1, <2>4 DEF Unregistered, TypeOK
    <3>2. k.end[m] = "up"
      BY <2>2, <2>4, <3>1, TwoNodes, <1>3, <2>1 DEF Unregistered, TypeOK
    <3> QED BY <2>1, <2>4, <3>2 DEF TypeOK
  <2> QED BY <2>3, <2>4
<1>4. OpenIsRegistered'
  <2> SUFFICES ASSUME NEW m \in Node, NEW d \in Conn,
                      conn'[d].end[m] = "up", m \notin conn'[d].lost
               PROVE  reg'[m] = d
    BY DEF OpenIsRegistered
  <2>1. conn[d].end[m] = "up" /\ m \notin conn[d].lost
    BY DEF TypeOK
  <2>2. reg[m] = d
    BY <2>1 DEF OpenIsRegistered
  <2> QED BY <2>1, <2>2 DEF Unregistered, TypeOK
<1> QED BY <1>1, <1>2, <1>3, <1>4 DEF TypeOK

LEMMA JoinIInv == ASSUME IInv, NEW n \in Node, Join(n) PROVE IInv'
<1>1. PICK c \in Conn : /\ conn[c] = Unused
                        /\ conn' = [conn EXCEPT ![c] =
                              [Unused EXCEPT !.dialer = n,
                                             !.end = [m \in Node |-> "begun"]]]
  BY DEF Join
<1> DEFINE k == [Unused EXCEPT !.dialer = n, !.end = [m \in Node |-> "begun"]]
<1>2. /\ k \in Connection /\ k.lost = {}
      /\ \A m \in Node : k.end[m] = "begun"
  BY DEF Unused, Connection
<1>3. conn[c].lost = {} /\ \A m \in Node : conn[c].end[m] = "none"
  BY <1>1 DEF Unused
<1>4. reg' = reg /\ faults' \in 0 .. MaxFault
  BY DEF Join, IInv, TypeOK
<1> HIDE DEF k
<1>5. conn' = [conn EXCEPT ![c] = k]
  BY <1>1 DEF k
<1>6. EndChange(n, c, k)
  BY <1>2, <1>3, <1>4, <1>5 DEF EndChange
<1> QED BY <1>6, EndChangeIInv

LEMMA RegisterIInv ==
    ASSUME IInv, NEW n \in Node, NEW c \in Conn, Register(n, c) PROVE IInv'
<1> USE DEF IInv
<1> DEFINE k == [conn[c] EXCEPT !.end[n] = "up"]
<1>1. /\ k \in Connection /\ k.lost = conn[c].lost
      /\ k.end[n] = "up" /\ \A m \in Node \ {n} : k.end[m] = conn[c].end[m]
  <2>1. conn[c] \in Connection
    BY DEF TypeOK
  <2> QED BY <2>1, UpKeeps
<1>2. \A d \in Conn : conn'[d] = IF d = c THEN k
                                 ELSE IF d = reg[n] THEN Lost(conn[d], n) ELSE conn[d]
  <2>1. reg[n] # c
    BY TwoNodes DEF Register, TypeOK
  <2>2. conn'[c] = k
    BY <2>1 DEF Register, Replaced
  <2>3. ASSUME NEW d \in Conn, d # c, d = reg[n]
        PROVE  conn'[d] = Lost(conn[d], n)
    BY <2>3 DEF Register, Replaced
  <2>4. ASSUME NEW d \in Conn, d # c, d # reg[n]
        PROVE  conn'[d] = conn[d]
    BY <2>4 DEF Register, Replaced
  <2> HIDE DEF k
  <2> QED BY <2>2, <2>3, <2>4
<1>3. reg' = [reg EXCEPT ![n] = c] /\ faults' = faults
  BY DEF Register
<1>4. \A d \in Conn : /\ conn[d] \in Connection
                      /\ Lost(conn[d], n) \in Connection
                      /\ Lost(conn[d], n).end = conn[d].end
                      /\ Lost(conn[d], n).lost = conn[d].lost \cup {n}
  BY LostKeeps DEF TypeOK
<1>5. conn' \in [Conn -> Connection]
  <2>1. conn' = [d \in Conn |-> conn'[d]]
    BY DEF Register, Replaced
  <2> HIDE DEF k
  <2>2. \A d \in Conn : conn'[d] \in Connection
    BY <1>1, <1>2, <1>4
  <2> QED BY <2>1, <2>2
<1> HIDE DEF k
<1>6. ASSUME NEW m \in Node, reg'[m] # NoConn
      PROVE  conn'[reg'[m]].end[m] = "up"
  <2>1. CASE m = n
    BY <1>1, <1>2, <1>3, <2>1 DEF TypeOK
  <2>2. CASE m # n
    <3>1. reg'[m] = reg[m] /\ reg[m] \in Conn /\ conn[reg[m]].end[m] = "up"
      BY <1>3, <1>6, <2>2 DEF TypeOK
    <3> QED BY <3>1, <1>1, <1>2, <1>4, <2>2
  <2> QED BY <2>1, <2>2
<1>7. OpenIsRegistered'
  <2> SUFFICES ASSUME NEW m \in Node, NEW d \in Conn,
                      conn'[d].end[m] = "up", m \notin conn'[d].lost
               PROVE  reg'[m] = d
    BY DEF OpenIsRegistered
  <2>1. CASE m = n /\ d = c
    BY <1>3, <2>1 DEF TypeOK
  <2>2. CASE m = n /\ d # c
    BY <1>2, <1>4, <2>2 DEF OpenIsRegistered
  <2>3. CASE m # n
    <3>1. conn[d].end[m] = "up" /\ m \notin conn[d].lost
      BY <1>1, <1>2, <1>4, <2>3
    <3> QED BY <1>3, <2>3, <3>1 DEF OpenIsRegistered, TypeOK
  <2> QED BY <2>1, <2>2, <2>3
<1> QED BY <1>3, <1>5, <1>6, <1>7 DEF TypeOK

LEMMA RestartIInv == ASSUME IInv, NEW n \in Node, Restart(n) PROVE IInv'
<1> USE DEF IInv
<1>1. \A d \in Conn : conn'[d] = IF Active(n, d) THEN Left(conn[d], n) ELSE conn[d]
  BY DEF Restart
<1>2. reg' = [reg EXCEPT ![n] = NoConn] /\ faults' \in 0 .. MaxFault
  BY DialingAssumption DEF Restart, TypeOK
<1>3. \A d \in Conn :
        /\ conn'[d] \in Connection
        /\ conn'[d].end[n] # "up"
        /\ conn[d].end[Peer(n)] = "up" => conn'[d].end[Peer(n)] = "up"
        /\ conn'[d].end[Peer(n)] = "up" => /\ conn[d].end[Peer(n)] = "up"
                                          /\ conn[d].lost \subseteq conn'[d].lost
  BY <1>1, LeftKeeps DEF TypeOK, Active
<1>4. conn' \in [Conn -> Connection]
  <2>1. conn' = [d \in Conn |-> conn'[d]]
    BY DEF Restart
  <2> QED BY <1>3, <2>1
<1>5. \A m \in Node : m # n => m = Peer(n)
  BY DEF Node, Peer
<1>6. TypeOK'
  BY <1>2, <1>3, <1>4, <1>5, TwoNodes DEF TypeOK
<1>7. OpenIsRegistered'
  BY <1>2, <1>3, <1>5 DEF OpenIsRegistered, TypeOK
<1> QED BY <1>6, <1>7

(* What n does with c, and what QUIC does to it.                            *)
LEMMA EndIInv ==
    ASSUME IInv, NEW n \in Node, NEW c \in Conn,
           Greet(n, c) \/ Fail(n, c) \/ Down(n, c) \/ Notice(n, c) \/ Timeout(n, c)
    PROVE  IInv'
<1>1. conn[c] \in Connection /\ faults \in 0 .. MaxFault
  BY DEF IInv, TypeOK
<1>2. \A m \in Node : m # n => m = Peer(n)
  BY DEF Node, Peer
<1>3. CASE Greet(n, c)
  <2> DEFINE k == [conn[c] EXCEPT !.end[n] = "hello", !.greeted = @ \cup {n}]
  <2>1. /\ k \in Connection /\ k.lost = conn[c].lost
        /\ k.end[n] = "hello" /\ \A m \in Node \ {n} : k.end[m] = conn[c].end[m]
    <3> DEFINE e == [conn[c].end EXCEPT ![n] = "hello"]
    <3>1. /\ e \in [Node -> {"none", "begun", "hello", "up", "over"}]
          /\ e[n] = "hello" /\ \A m \in Node \ {n} : e[m] = conn[c].end[m]
      BY <1>1 DEF Connection
    <3> DEFINE r == [dialer |-> conn[c].dialer, end |-> e, lost |-> conn[c].lost,
                     greeted |-> conn[c].greeted]
    <3>2. [conn[c] EXCEPT !.end[n] = "hello"] = r
      BY <1>1 DEF Connection
    <3>3. k = [r EXCEPT !.greeted = conn[c].greeted \cup {n}]
      BY <3>2
    <3> HIDE DEF e
    <3>4. /\ [r EXCEPT !.greeted = conn[c].greeted \cup {n}] \in Connection
          /\ [r EXCEPT !.greeted = conn[c].greeted \cup {n}].end = e
          /\ [r EXCEPT !.greeted = conn[c].greeted \cup {n}].lost = conn[c].lost
      BY <1>1, <3>1 DEF Connection
    <3> QED BY <3>1, <3>3, <3>4
  <2>2. conn' = [conn EXCEPT ![c] = k] /\ conn[c].end[n] = "begun"
    BY <1>3 DEF Greet, IInv, TypeOK
  <2>3. reg' = reg /\ faults' = faults
    BY <1>3 DEF Greet
  <2> HIDE DEF k
  <2>4. EndChange(n, c, k)
    <3>1. \A m \in Node : k.end[m] = "up" => conn[c].end[m] = "up"
      BY <2>1
    <3>2. \A m \in Node \ {n} : conn[c].end[m] = "up" => k.end[m] = "up"
      BY <2>1
    <3> QED BY <1>1, <2>1, <2>2, <2>3, <3>1, <3>2 DEF EndChange
  <2> QED BY <2>4, EndChangeIInv
<1>4. CASE Fail(n, c)
  <2>1. conn' = [conn EXCEPT ![c] = Left(conn[c], n)] /\ conn[c].end[n] # "up"
    BY <1>4 DEF Fail, Establishing
  <2>2. reg' = reg /\ faults' = faults
    BY <1>4 DEF Fail
  <2>3. EndChange(n, c, Left(conn[c], n))
    BY <1>1, <1>2, <2>1, <2>2, LeftKeeps DEF EndChange
  <2> QED BY <2>3, EndChangeIInv
<1>5. CASE Down(n, c)
  <2>1. conn' = [conn EXCEPT ![c] = Left(conn[c], n)] /\ n \in conn[c].lost
    BY <1>5 DEF Down
  <2>2. reg' = Unregistered(n, c) /\ faults' = faults
    BY <1>5 DEF Down
  <2>3. \A m \in Node : Left(conn[c], n).end[m] = "up" => conn[c].end[m] = "up"
    BY <1>1, <1>2, LeftKeeps
  <2>4. \A m \in Node \ {n} : conn[c].end[m] = "up" => Left(conn[c], n).end[m] = "up"
    BY <1>1, <1>2, LeftKeeps
  <2>5. \/ conn[c].lost \subseteq Left(conn[c], n).lost
        \/ \A m \in Node : Left(conn[c], n).end[m] # "up"
    BY <1>1, <1>2, LeftKeeps
  <2>6. EndChange(n, c, Left(conn[c], n))
    BY <1>1, <2>1, <2>2, <2>3, <2>4, <2>5, LeftKeeps DEF EndChange
  <2> QED BY <2>6, EndChangeIInv
<1>6. CASE Notice(n, c) \/ Timeout(n, c)
  <2>1. conn' = [conn EXCEPT ![c] = Lost(conn[c], n)] /\ reg' = reg
    BY <1>6 DEF Notice, Timeout
  <2>2. faults' \in 0 .. MaxFault
    BY <1>1, <1>6, DialingAssumption DEF Notice, Timeout
  <2>3. EndChange(n, c, Lost(conn[c], n))
    BY <1>1, <2>1, <2>2, LostKeeps DEF EndChange
  <2> QED BY <2>3, EndChangeIInv
<1> QED BY <1>3, <1>4, <1>5, <1>6

(* The invariant of both ends of every connection, in every reachable       *)
(* state.                                                                   *)
THEOREM Inductive == Spec => []IInv
<1>1. IInv /\ [Next]_vars => IInv'
  <2> SUFFICES ASSUME IInv, [Next]_vars PROVE IInv'
    OBVIOUS
  <2>1. CASE UNCHANGED vars
    BY <2>1 DEF vars, IInv, TypeOK, OpenIsRegistered
  <2>2. ASSUME NEW n \in Node, Join(n) PROVE IInv'
    BY <2>2, JoinIInv
  <2>3. ASSUME NEW n \in Node, Restart(n) PROVE IInv'
    BY <2>3, RestartIInv
  <2>4. ASSUME NEW n \in Node, NEW c \in Conn,
               Proceed(n, c) \/ Notice(n, c) \/ Timeout(n, c)
        PROVE  IInv'
    BY <2>4, RegisterIInv, EndIInv DEF Proceed
  <2> QED BY <2>1, <2>2, <2>3, <2>4 DEF Next
<1> QED BY InitIInv, <1>1, PTL DEF Spec

(* For any number of connections and faults, connections stay well formed   *)
(* and a registered session's end is up: establish and readLoop.            *)
THEOREM TypeCorrect == Spec => []TypeOK
<1>1. IInv => TypeOK
  BY DEF IInv
<1> QED BY Inductive, <1>1, PTL

(* For any number of connections and faults, whoever dials whom, the two    *)
(* nodes at rest use the same connection and have no other: establish       *)
(* replaces the older one.                                                  *)
THEOREM RestingNodesAgree == Spec => []SettledAgree
<1>1. IInv => SettledAgree
  BY DEF IInv, OpenIsRegistered, SettledAgree, Resting
<1> QED BY Inductive, <1>1, PTL

-----------------------------------------------------------------------------
(***************************************************************************)
(* Module Bootstrap                                                        *)
(***************************************************************************)

Command == Jobs \cup {Idle.job}
Work == [job : Command, at : Nat \ {0}, ca : Nat, root : Nat, id : Nat]
Stage == {"idle", "lock", "break", "check", "next", "load", "identity", "open",
          "unlock ok", "unlock failed"} \cup Creating \cup Filling
FileContent == [is : {"absent", "torn", "whole"}, key : Nat, by : Nat]

DirTypeOK ==
    /\ file \in [File -> FileContent]
    /\ pc \in [Proc -> Stage]
    /\ work \in [Proc -> Work]
    /\ count \in [run : Nat, loose : Nat, trouble : Nat, key : Nat]
    /\ stolen \in BOOLEAN /\ clash \in BOOLEAN

(* The lock is its maker's while that bootstrap works.                      *)
LockHeld == ~stolen => \A p \in Proc : HasLock(p) => lock = p

Alone == ~clash => \A p, q \in Proc : Working(p) /\ Working(q) => p = q

(* Of a process at l with work v.  Each command keeps to its own steps, and *)
(* where a name is meant there is one.                                      *)
Naming == {"load", "identity", "new pem", "fill pem", "new crt", "fill crt",
           "open"}
NameOf(v) == v.job.names[v.at]
InRange(l, v) ==
    /\ l \in Naming => v.job.kind # "init" /\ v.at \in DOMAIN v.job.names
    /\ l = "open" => v.job.kind = "node"
    /\ l \in {"new crt", "fill crt"} => v.job.kind # "node"
    /\ l \in {"check", "new ca.key", "fill ca.key", "new ca.crt", "fill ca.crt"}
          => v.job.kind \in {"bootstrap", "init"}
    /\ l \in {"lock", "break", "next"} => v.job.kind = "bootstrap"

(* A name that the loop has left behind has a certificate, of some kind.    *)
LeftBehind(l, v) ==
    /\ \A i \in DOMAIN v.job.names : i < v.at => Exists(Crt(v.job.names[i]))
    /\ l = "unlock ok" => v.at > Len(v.job.names)

(* What a command that works alone knows about the files.                   *)
IsWhole(f, key) == file[f].is = "whole" /\ file[f].key = key
IsTorn(f) == file[f].is = "torn"

(* The certificates of the nodes that are not called "ca".                  *)
Named == Name \ {"ca"}
NoCerts == \A n \in Named : file[Crt(n)].is # "whole"
CertsBy(key) ==
    \A n \in Named :
        file[Crt(n)].is = "whole" => /\ IsWhole(Pem(n), file[Crt(n)].key)
                                     /\ file[Crt(n)].by = key

Knows(l, v) ==
    /\ l = "new ca.key" => ~Exists(CaKey)
    /\ l = "fill ca.key" => IsTorn(CaKey)
    /\ l \in {"new ca.key", "fill ca.key", "new ca.crt"} => ~Exists(CaCrt)
    /\ l = "new ca.crt" => IsWhole(CaKey, v.ca)
    /\ l = "fill ca.crt" => IsTorn(CaCrt) /\ NoCerts /\ IsWhole(CaKey, v.ca)
    /\ l = "new pem" => ~Exists(Pem(NameOf(v)))
    /\ l = "fill pem" => IsTorn(Pem(NameOf(v)))
    /\ l \in {"load", "identity", "new pem", "fill pem", "new crt"}
          /\ v.job.kind = "bootstrap" => ~Exists(Crt(NameOf(v)))
    /\ l \in {"identity", "new pem", "fill pem", "new crt", "fill crt"}
          /\ v.job.kind # "node" => IsWhole(CaKey, v.ca)
    /\ l \in {"identity", "new pem", "fill pem", "new crt"}
          /\ v.job.kind # "node" => IsWhole(CaCrt, v.root)
    /\ l \in {"new crt", "fill crt"} =>
          IsWhole(Pem(NameOf(v)), v.id)
    /\ l = "fill crt" => /\ IsTorn(Crt(NameOf(v)))
                         /\ IF NameOf(v) = "ca" THEN CertsBy(v.ca)
                                                ELSE IsWhole(CaCrt, v.ca)

(* Every certificate is for the key beside it and by the CA, as long as the *)
(* CA's own certificate is not one that was signed for a node.              *)
CertsGood ==
    /\ ~Exists(CaCrt) => NoCerts
    /\ file[CaCrt].is = "whole" =>
          /\ IsWhole(CaKey, file[CaCrt].by)
          /\ file[CaCrt].key = file[CaCrt].by => CertsBy(file[CaCrt].key)

Commands == \A p \in Proc : InRange(pc[p], work[p]) /\ LeftBehind(pc[p], work[p])
FilesKnown == ~clash => CertsGood /\ \A p \in Proc : Knows(pc[p], work[p])

DirInv == DirTypeOK /\ LockHeld /\ Alone /\ Commands /\ FilesKnown

-----------------------------------------------------------------------------

AtRest == {"idle", "lock", "break"}

LEMMA Stages ==
    /\ AtRest \subseteq Stage /\ Naming \subseteq Stage
    /\ Creating \subseteq Stage /\ Filling \subseteq Stage
    /\ {"check", "next", "unlock ok", "unlock failed"} \subseteq Stage
    /\ {"idle", "lock", "break"} = AtRest /\ "check" \notin AtRest
BY DEF AtRest, Naming, Stage, Creating, Filling

LEMMA Rest ==
    \A v : InRange("idle", v) /\ \A l \in AtRest : Knows(l, v)
BY DEF AtRest, InRange, Knows, Naming

LEMMA FileTypes ==
    /\ CaKey \in File /\ CaCrt \in File /\ CaKey # CaCrt
    /\ \A n \in Name : /\ Pem(n) \in File /\ Crt(n) \in File /\ Pem(n) # Crt(n)
                       /\ Pem(n) # CaKey /\ Crt(n) # CaKey /\ Pem(n) # CaCrt
                       /\ Crt(n) = CaCrt <=> n = "ca"
    /\ Named \subseteq Name /\ \A n \in Named : Crt(n) # CaCrt
    /\ \A m, n \in Name : Pem(n) # Crt(m) /\ (m # n => Pem(n) # Pem(m) /\ Crt(n) # Crt(m))
BY DEF File, CaKey, CaCrt, Pem, Crt, Named

LEMMA IdleType ==
    /\ Idle \in Work /\ Idle.job.kind = "node" /\ Idle.at = 1
    /\ Idle.job.names = <<>>
    /\ \A l : l # "unlock ok" => LeftBehind(l, Idle)
<1>1. /\ Idle.job.kind = "node" /\ Idle.at = 1 /\ Idle.job.names = <<>>
  BY DEF Idle
<1>2. Idle.job \in Command
  BY DEF Command
<1>3. Idle \in Work
  BY <1>2 DEF Idle, Work
<1>4. DOMAIN Idle.job.names = {}
  BY <1>1
<1> QED BY <1>1, <1>3, <1>4 DEF LeftBehind

LEMMA CommandTypes ==
    ASSUME NEW v \in Work
    PROVE  /\ v.job \in Command /\ v.job.names \in Seq(Name) /\ v.job.kind \in Kind
           /\ v.at \in Nat /\ v.at >= 1
           /\ v.ca \in Nat /\ v.root \in Nat /\ v.id \in Nat
           /\ v.at \in DOMAIN v.job.names <=> v.at <= Len(v.job.names)
           /\ v.at \in DOMAIN v.job.names => NameOf(v) \in Name
<1>1. v.job \in Command /\ v.at \in Nat /\ v.at >= 1
      /\ v.ca \in Nat /\ v.root \in Nat /\ v.id \in Nat
  BY DEF Work
<1>2. v.job.names \in Seq(Name) /\ v.job.kind \in Kind
  <2>1. CASE v.job \in Jobs
    BY <2>1, BootstrapAssumption
  <2>2. CASE v.job = Idle.job
    <3>1. v.job.kind = "node" /\ v.job.names = <<>>
      BY <2>2, IdleType
    <3> QED BY <3>1 DEF Kind
  <2> QED BY <1>1, <2>1, <2>2 DEF Command
<1> QED BY <1>1, <1>2 DEF NameOf

(* One process changes its program counter and its work.                    *)
Moves(p, l, v) == /\ pc' = [pc EXCEPT ![p] = l]
                  /\ work' = [work EXCEPT ![p] = v]

LEMMA Others ==
    ASSUME DirTypeOK, NEW p \in Proc, NEW l \in Stage, NEW v \in Work,
           Moves(p, l, v)
    PROVE  /\ pc' \in [Proc -> Stage] /\ work' \in [Proc -> Work]
           /\ \A q \in Proc : /\ pc'[q] = IF q = p THEN l ELSE pc[q]
                              /\ work'[q] = IF q = p THEN v ELSE work[q]
BY DEF DirTypeOK, Moves

LEMMA StillAlone ==
    ASSUME Clash, clash \in BOOLEAN
    PROVE  /\ clash' \in BOOLEAN /\ (clash => clash')
           /\ Alone'
<1>1. clash' \in BOOLEAN /\ (clash => clash')
  BY DEF Clash
<1>2. ASSUME ~clash', NEW p \in Proc, NEW q \in Proc, p # q,
             Working(p)', Working(q)'
      PROVE  FALSE
  <2> DEFINE S == {r \in Proc : Working(r)'}
  <2>1. IsFiniteSet(S)
    <3>1. S \in SUBSET Proc /\ IsFiniteSet(Proc)
      BY BootstrapAssumption
    <3> QED BY <3>1, FS_Subset
  <2>2. {p, q} \subseteq S
    BY <1>2
  <2>3. Cardinality({p, q}) = 2
    <3>1. IsFiniteSet({p}) /\ Cardinality({p}) = 1 /\ {p} \cup {q} = {p, q}
      BY FS_Singleton
    <3> QED BY <1>2, <3>1, FS_AddElement
  <2>4. Cardinality(S) \in Nat /\ Cardinality({p, q}) <= Cardinality(S)
    BY <2>1, <2>2, FS_Subset, FS_CardinalityType
  <2>5. ~(Cardinality(S) > 1)
    BY <1>2 DEF Clash
  <2> QED BY <2>3, <2>4, <2>5
<1> QED BY <1>1, <1>2 DEF Alone

(* A step of p that writes no file.                                         *)
LEMMA Keeps ==
    ASSUME DirInv, NEW p \in Proc, NEW l \in Stage, NEW v \in Work,
           Moves(p, l, v), Clash, file' = file,
           count' \in [run : Nat, loose : Nat, trouble : Nat, key : Nat],
           stolen' \in BOOLEAN, stolen => stolen',
           ~stolen' => \A q \in Proc \ {p} : HasLock(q) => lock' = q,
           ~stolen' /\ v.job.kind = "bootstrap" /\ l \notin AtRest => lock' = p,
           InRange(l, v), LeftBehind(l, v), ~clash => Knows(l, v)
    PROVE  DirInv'
<1>1. /\ pc' \in [Proc -> Stage] /\ work' \in [Proc -> Work]
      /\ \A q \in Proc : /\ pc'[q] = IF q = p THEN l ELSE pc[q]
                         /\ work'[q] = IF q = p THEN v ELSE work[q]
  BY Others DEF DirInv
<1>2. clash' \in BOOLEAN /\ (clash => clash') /\ Alone'
  BY StillAlone DEF DirInv, DirTypeOK
<1>3. DirTypeOK'
  BY <1>1, <1>2 DEF DirInv, DirTypeOK
<1>4. LockHeld'
  BY <1>1 DEF DirInv, LockHeld, HasLock, Does, Working, AtRest
<1>5. \A f : Exists(f)' <=> Exists(f)
  BY DEF Exists
<1>6. \A m, u : (LeftBehind(m, u)' <=> LeftBehind(m, u))
                /\ (Knows(m, u)' <=> Knows(m, u))
  <2> TAKE m, u
  <2>1. LeftBehind(m, u)' <=> LeftBehind(m, u)
    BY <1>5 DEF LeftBehind
  <2>2. Knows(m, u)' <=> Knows(m, u)
    BY DEF Knows, IsWhole, IsTorn, Exists, NoCerts, CertsBy, NameOf
  <2> QED BY <2>1, <2>2
<1>7. Commands'
  BY <1>1, <1>6 DEF DirInv, Commands
<1>8. CertsGood' <=> CertsGood
  BY DEF CertsGood, NoCerts, CertsBy, IsWhole, Exists
<1>9. FilesKnown'
  BY <1>1, <1>2, <1>6, <1>8 DEF DirInv, FilesKnown
<1> QED BY <1>2, <1>3, <1>4, <1>7, <1>9 DEF DirInv

(* A step of p that writes one.                                             *)
LEMMA Writes ==
    ASSUME DirInv, NEW p \in Proc, NEW l \in Stage, NEW v \in Work,
           Moves(p, l, v), Clash, Working(p), UNCHANGED <<lock, stolen, count>>,
           NEW t \in File, NEW c \in FileContent, c.is # "absent",
           file' = [file EXCEPT ![t] = c],
           l \in AtRest \/ v.job.kind = Does(p),
           InRange(l, v), LeftBehind(l, v), ~clash => CertsGood' /\ Knows(l, v)'
    PROVE  DirInv'
<1>1. /\ pc' \in [Proc -> Stage] /\ work' \in [Proc -> Work]
      /\ \A q \in Proc : /\ pc'[q] = IF q = p THEN l ELSE pc[q]
                         /\ work'[q] = IF q = p THEN v ELSE work[q]
  BY Others DEF DirInv
<1>2. clash' \in BOOLEAN /\ (clash => clash') /\ Alone'
  BY StillAlone DEF DirInv, DirTypeOK
<1>3. DirTypeOK'
  BY <1>1, <1>2 DEF DirInv, DirTypeOK
<1>4. LockHeld'
  BY <1>1 DEF DirInv, LockHeld, HasLock, Does, Working, AtRest
<1>5. \A f \in File : Exists(f) => Exists(f)'
  BY DEF Exists, DirInv, DirTypeOK
<1>6. ASSUME NEW m, NEW u \in Work, LeftBehind(m, u) PROVE LeftBehind(m, u)'
  <2>1. u.job.names \in Seq(Name)
    BY CommandTypes
  <2>2. \A i \in DOMAIN u.job.names : Crt(u.job.names[i]) \in File
    BY <2>1, FileTypes
  <2> QED BY <1>5, <1>6, <2>2 DEF LeftBehind
<1>7. Commands'
  BY <1>1, <1>6 DEF DirInv, Commands
<1>8. ASSUME ~clash', NEW q \in Proc PROVE Knows(pc[q], work[q])'
  <2>1. CASE q = p
    BY <1>1, <1>2, <1>8, <2>1 DEF Knows
  <2>2. CASE q # p
    <3>1. ~Working(q) /\ pc'[q] = pc[q]
      BY <1>1, <1>2, <1>8, <2>2 DEF DirInv, Alone
    <3> QED BY <3>1, Rest DEF Working, Knows
  <2> QED BY <2>1, <2>2
<1>9. FilesKnown'
  BY <1>2, <1>8 DEF FilesKnown
<1> QED BY <1>2, <1>3, <1>4, <1>7, <1>9 DEF DirInv

-----------------------------------------------------------------------------
(* The steps                                                                *)

Counters == [run : Nat, loose : Nat, trouble : Nat, key : Nat]

LEMMA WithId ==
    ASSUME NEW v \in Work, NEW k \in Nat
    PROVE  /\ [v EXCEPT !.id = k] \in Work
           /\ [v EXCEPT !.id = k].job = v.job /\ [v EXCEPT !.id = k].at = v.at
           /\ [v EXCEPT !.id = k].root = v.root /\ [v EXCEPT !.id = k].id = k
           /\ [v EXCEPT !.id = k].ca = v.ca
BY DEF Work

LEMMA WithNext ==
    ASSUME NEW v \in Work
    PROVE  /\ [v EXCEPT !.at = v.at + 1] \in Work
           /\ [v EXCEPT !.at = v.at + 1].job = v.job
           /\ [v EXCEPT !.at = v.at + 1].at = v.at + 1
<1>1. v.at + 1 \in Nat \ {0}
  BY CommandTypes
<1> QED BY <1>1 DEF Work

LEMMA Counting ==
    ASSUME DirTypeOK
    PROVE  /\ count \in Counters /\ count.key + 1 \in Nat
           /\ [count EXCEPT !.key = @ + 1] \in Counters
           /\ [count EXCEPT !.trouble = @ + 1] \in Counters
           /\ \A d \in {0, 1} :
                 [count EXCEPT !.run = @ + 1, !.loose = @ + d] \in Counters
<1>1. count \in Counters
  BY DEF DirTypeOK, Counters
<1>2. /\ count.key + 1 \in Nat /\ count.trouble + 1 \in Nat /\ count.run + 1 \in Nat
      /\ \A d \in {0, 1} : count.loose + d \in Nat
  BY <1>1 DEF Counters
<1>3. [count EXCEPT !.key = @ + 1] \in Counters
  BY <1>1, <1>2 DEF Counters
<1>4. [count EXCEPT !.trouble = @ + 1] \in Counters
  BY <1>1, <1>2 DEF Counters
<1>5. ASSUME NEW d \in {0, 1}
      PROVE  [count EXCEPT !.run = @ + 1, !.loose = @ + d] \in Counters
  BY <1>1, <1>2 DEF Counters
<1> QED BY <1>1, <1>2, <1>3, <1>4, <1>5

(* What is known of p.                                                      *)
LEMMA OfOne ==
    ASSUME DirInv, NEW p \in Proc
    PROVE  /\ work[p] \in Work /\ pc[p] \in Stage
           /\ InRange(pc[p], work[p]) /\ LeftBehind(pc[p], work[p])
           /\ ~clash => Knows(pc[p], work[p])
           /\ \A l \in Stage : l # "unlock ok" => LeftBehind(l, work[p])
           /\ count \in Counters /\ stolen \in BOOLEAN /\ DirTypeOK
           /\ p \notin {"free", "dead"}
BY BootstrapAssumption
   DEF DirInv, DirTypeOK, Commands, FilesKnown, LeftBehind, Counters

(* A step that leaves lock and files alone and moves p within its command.  *)
LEMMA Within ==
    ASSUME DirInv, NEW p \in Proc, Working(p), NEW l \in Stage, NEW v \in Work,
           Moves(p, l, v), Clash, UNCHANGED <<file, lock, stolen>>,
           count' \in Counters, l = "idle" \/ v.job.kind = Does(p),
           InRange(l, v), LeftBehind(l, v), ~clash => Knows(l, v)
    PROVE  DirInv'
<1>1. stolen' \in BOOLEAN
  BY OfOne
<1>2. ~stolen' => \A q \in Proc : HasLock(q) => lock' = q
  BY DEF DirInv, LockHeld
<1>3. (v.job.kind = "bootstrap" /\ l \notin AtRest) => HasLock(p)
  BY DEF HasLock, AtRest
<1> QED BY <1>1, <1>2, <1>3, Keeps DEF Counters

(* The command of p returns.                                                *)
LEMMA ReturnsInv ==
    ASSUME DirInv, NEW p \in Proc, Working(p), NEW r \in {"ok", "failed"},
           Returns(p, r), Clash, UNCHANGED <<file, lock, stolen>>,
           count' \in Counters,
           r = "ok" /\ Does(p) = "bootstrap" => work[p].at > Len(work[p].job.names)
    PROVE  DirInv'
<1>1. CASE Does(p) # "bootstrap"
  <2>1. Moves(p, "idle", Idle)
    BY <1>1 DEF Returns, Moves
  <2>2. InRange("idle", Idle) /\ Knows("idle", Idle) /\ LeftBehind("idle", Idle)
    BY Rest, IdleType DEF AtRest
  <2>3. "idle" \in Stage
    BY DEF Stage
  <2> QED BY <2>1, <2>2, <2>3, IdleType, Within
<1>2. CASE Does(p) = "bootstrap"
  <2> DEFINE l == IF r = "ok" THEN "unlock ok" ELSE "unlock failed"
  <2>1. Moves(p, l, work[p])
    BY <1>2, OfOne DEF Returns, Goes, Moves, DirTypeOK
  <2>2. InRange(l, work[p]) /\ Knows(l, work[p])
    BY DEF InRange, Knows, Naming
  <2>3. LeftBehind(l, work[p])
    BY <1>2, OfOne DEF LeftBehind
  <2>4. l \in Stage
    BY DEF Stage
  <2> QED BY <2>1, <2>2, <2>3, <2>4, OfOne, Within DEF Does
<1> QED BY <1>1, <1>2

(* withMkdirLock, and a command that begins or is killed.                   *)
LEMMA LockInv ==
    ASSUME DirInv, NEW p \in Proc,
           \/ Begin(p) \/ Mkdir(p) \/ MkdirFails(p) \/ Deadline(p)
           \/ Break(p) \/ Unlock(p) \/ Kill(p)
    PROVE  DirInv'
<1> DEFINE v == work[p]
<1>1. CASE Begin(p)
  <2>1. PICK j \in Jobs :
          /\ count' = [count EXCEPT !.run = @ + 1,
                        !.loose = @ + IF j.kind = "bootstrap" THEN 0 ELSE 1]
          /\ work' = [work EXCEPT ![p] = [Idle EXCEPT !.job = j]]
          /\ pc' = [pc EXCEPT ![p] = CASE j.kind = "bootstrap" -> "lock"
                                       [] j.kind = "init"      -> "check"
                                       [] j.kind = "sign"      -> "load"
                                       [] j.kind = "node"      -> "identity"]
    BY <1>1 DEF Begin
  <2> DEFINE u == [Idle EXCEPT !.job = j]
             l == CASE j.kind = "bootstrap" -> "lock"
                    [] j.kind = "init"      -> "check"
                    [] j.kind = "sign"      -> "load"
                    [] j.kind = "node"      -> "identity"
  <2>2. j.kind \in Kind /\ j.names \in Seq(Name)
        /\ (j.kind \in {"sign", "node"} => Len(j.names) = 1)
    BY BootstrapAssumption
  <2>3. u \in Work /\ u.job = j /\ u.at = 1
    BY DEF Idle, Work, Command
  <2>4. l \in {"lock", "check", "load", "identity"}
        /\ (j.kind = "bootstrap" => l = "lock")
        /\ (l = "lock" => j.kind = "bootstrap") /\ (l = "check" => j.kind = "init")
        /\ (l = "load" => j.kind = "sign") /\ (l = "identity" => j.kind = "node")
    BY <2>2 DEF Kind
  <2>5. Moves(p, l, u) /\ count' \in Counters
    BY <2>1, OfOne, Counting DEF Moves
  <2> HIDE DEF u, l
  <2>6. InRange(l, u)
    <3>1. l \in Naming => Len(j.names) = 1
      BY <2>2, <2>4 DEF Naming
    <3>2. l # "open" /\ (l \in Naming => 1 \in DOMAIN j.names)
      BY <2>2, <2>4, <3>1
    <3> QED BY <2>3, <2>4, <3>2 DEF InRange, Naming
  <2>7. LeftBehind(l, u)
    <3>1. \A i \in DOMAIN j.names : ~(i < 1)
      BY <2>2
    <3>2. l # "unlock ok"
      BY <2>4
    <3> QED BY <2>3, <3>1, <3>2 DEF LeftBehind
  <2>8. Knows(l, u)
    BY <2>3, <2>4 DEF Knows
  <2>9. UNCHANGED <<file, lock, stolen>> /\ Clash
    BY <1>1 DEF Begin
  <2>10. l \in Stage
    BY <2>4 DEF Stage
  <2>11. ~(u.job.kind = "bootstrap" /\ l \notin AtRest)
    BY <2>3, <2>4 DEF AtRest
  <2>12. ~stolen' => \A q \in Proc : HasLock(q) => lock' = q
    BY <2>9 DEF DirInv, LockHeld
  <2> QED BY <2>3, <2>5, <2>6, <2>7, <2>8, <2>9, <2>10, <2>11, <2>12, OfOne, Stages, Keeps
          DEF Counters
<1>2. CASE Mkdir(p)
  <2>1. Moves(p, "check", v) /\ Clash /\ UNCHANGED <<file, stolen, count>>
        /\ lock' = p /\ lock = "free"
    BY <1>2, OfOne DEF Mkdir, Goes, Moves, DirTypeOK
  <2>2. InRange("check", v) /\ Knows("check", v) /\ LeftBehind("check", v)
    BY <1>2, OfOne, Stages DEF InRange, Knows, Naming, Mkdir
  <2>3. ~stolen' => \A q \in Proc : ~HasLock(q)
    BY <2>1, BootstrapAssumption DEF DirInv, LockHeld
  <2> QED BY <2>1, <2>2, <2>3, OfOne, Stages, Keeps DEF Counters
<1>3. CASE Deadline(p)
  <2>1. Moves(p, "break", v) /\ Clash /\ UNCHANGED <<file, stolen, count, lock>>
    BY <1>3, OfOne DEF Deadline, Goes, Moves, DirTypeOK, Reads
  <2>2. InRange("break", v) /\ Knows("break", v) /\ LeftBehind("break", v)
    BY <1>3, OfOne, Rest, Stages DEF InRange, Naming, Deadline
  <2>3. ~stolen' => \A q \in Proc : HasLock(q) => lock' = q
    BY <2>1 DEF DirInv, LockHeld
  <2>4. "break" \in AtRest
    BY DEF AtRest
  <2> QED BY <2>1, <2>2, <2>3, <2>4, OfOne, Stages, Keeps DEF Counters
<1>4. CASE Break(p)
  <2>1. Moves(p, "lock", v) /\ Clash /\ UNCHANGED <<file, count>>
        /\ stolen' = (stolen \/ lock \in Proc)
    BY <1>4, OfOne DEF Break, Goes, Moves, DirTypeOK
  <2>2. InRange("lock", v) /\ Knows("lock", v) /\ LeftBehind("lock", v)
    BY <1>4, OfOne, Rest, Stages DEF InRange, Naming, Break
  <2>3. ~stolen' => \A q \in Proc : ~HasLock(q)
    BY <2>1 DEF DirInv, LockHeld
  <2>4. "lock" \in AtRest /\ stolen' \in BOOLEAN /\ (stolen => stolen')
    BY <2>1, OfOne DEF AtRest
  <2> QED BY <2>1, <2>2, <2>3, <2>4, OfOne, Stages, Keeps DEF Counters
<1>5. CASE Unlock(p)
  <2>1. Moves(p, "idle", Idle) /\ Clash /\ UNCHANGED <<file, count>>
        /\ stolen' = (stolen \/ lock \in Proc \ {p})
    BY <1>5 DEF Unlock, Moves
  <2>2. InRange("idle", Idle) /\ Knows("idle", Idle) /\ LeftBehind("idle", Idle)
    BY Rest, IdleType, Stages
  <2>3. ~stolen' => \A q \in Proc \ {p} : ~HasLock(q)
    BY <2>1 DEF DirInv, LockHeld
  <2>4. "idle" \in AtRest /\ stolen' \in BOOLEAN /\ (stolen => stolen')
    BY <2>1, OfOne DEF AtRest
  <2> QED BY <2>1, <2>2, <2>3, <2>4, OfOne, IdleType, Stages, Keeps DEF Counters
<1>6. CASE Kill(p)
  <2>1. Moves(p, "idle", Idle) /\ Clash /\ UNCHANGED <<file, stolen>>
        /\ count' \in Counters
    BY <1>6, OfOne, Counting DEF Kill, Moves
  <2>2. InRange("idle", Idle) /\ Knows("idle", Idle) /\ LeftBehind("idle", Idle)
    BY Rest, IdleType, Stages
  <2>3. ~stolen' => \A q \in Proc \ {p} : HasLock(q) => lock' = q
    BY <1>6, <2>1 DEF DirInv, LockHeld, Kill
  <2>4. "idle" \in AtRest
    BY DEF AtRest
  <2> QED BY <2>1, <2>2, <2>3, <2>4, OfOne, IdleType, Stages, Keeps DEF Counters
<1>7. CASE MkdirFails(p)
  <2>1. Moves(p, "idle", Idle) /\ Clash /\ UNCHANGED <<file, lock, stolen>>
        /\ count' \in Counters
    BY <1>7, OfOne, Counting DEF MkdirFails, Moves
  <2>2. InRange("idle", Idle) /\ Knows("idle", Idle) /\ LeftBehind("idle", Idle)
    BY Rest, IdleType, Stages
  <2>3. ~stolen' => \A q \in Proc \ {p} : HasLock(q) => lock' = q
    BY <2>1 DEF DirInv, LockHeld
  <2>4. "idle" \in AtRest
    BY DEF AtRest
  <2> QED BY <2>1, <2>2, <2>3, <2>4, OfOne, IdleType, Stages, Keeps DEF Counters
<1> QED BY <1>1, <1>2, <1>3, <1>4, <1>5, <1>6, <1>7

(* bootstrapDirLocked and InitCAFiles, up to the first file.                *)
LEMMA CheckInv == ASSUME DirInv, NEW p \in Proc, Check(p) PROVE DirInv'
<1> DEFINE v == work[p]
<1>1. pc[p] = "check" /\ Working(p) /\ Clash
  BY DEF Check, Working, Reads, MakesCA
<1>2. CASE ~Exists(CaKey) /\ ~Exists(CaCrt) /\ MakesCA(p)
  <2>0. PICK k \in Nat : k = count.key + 1
    BY OfOne, Counting
  <2> DEFINE u == [v EXCEPT !.ca = k, !.root = k]
  <2>1. v \in Work /\ count' \in Counters
    BY <1>2, OfOne, Counting DEF MakesCA
  <2>2. u \in Work /\ u.job = v.job /\ u.at = v.at
    BY <2>0, <2>1 DEF Work
  <2>3. Moves(p, "new ca.key", u) /\ UNCHANGED <<file, lock, stolen>>
    BY <1>2, <2>0, OfOne DEF MakesCA, Moves, DirTypeOK
  <2> HIDE DEF u
  <2>4. InRange("new ca.key", u) /\ Knows("new ca.key", u)
    BY <1>1, <1>2, <2>2, OfOne DEF InRange, Knows, Naming
  <2>5. LeftBehind("new ca.key", u)
    BY <2>2, OfOne DEF LeftBehind
  <2>6. "new ca.key" \in Stage
    BY DEF Stage, Creating
  <2> QED BY <1>1, <2>1, <2>2, <2>3, <2>4, <2>5, <2>6, Within DEF Does
<1>3. CASE Goes(p, "next") /\ Reads /\ Does(p) = "bootstrap"
  <2>1. Moves(p, "next", v) /\ UNCHANGED <<file, lock, stolen, count>>
    BY <1>3, OfOne DEF Goes, Reads, Moves, DirTypeOK
  <2>2. /\ InRange("next", v) /\ Knows("next", v) /\ LeftBehind("next", v)
        /\ "next" \in Stage
    BY <1>3, OfOne, Stages DEF InRange, Knows, Naming, Does
  <2> QED BY <1>1, <2>1, <2>2, OfOne, Within DEF Does
<1>4. CASE Returns(p, "failed") /\ Reads
  BY <1>1, <1>4, OfOne, ReturnsInv DEF Reads
<1> QED BY <1>2, <1>3, <1>4 DEF Check

(* The loop over the names.                                                 *)
LEMMA NextNameInv == ASSUME DirInv, NEW p \in Proc, NextName(p) PROVE DirInv'
<1> DEFINE v == work[p]
<1>1. /\ pc[p] = "next" /\ Working(p) /\ Clash
      /\ UNCHANGED <<file, lock, stolen, count>> /\ count' \in Counters
  BY OfOne DEF NextName, Working, Reads
<1>2. /\ v \in Work /\ v.job.names \in Seq(Name) /\ v.at \in Nat /\ v.at >= 1
      /\ v.at \in DOMAIN v.job.names <=> v.at <= Len(v.job.names)
  BY OfOne, CommandTypes
<1>3. CASE v.at > Len(v.job.names)
  <2>1. Returns(p, "ok")
    BY <1>3 DEF NextName
  <2> QED BY <1>1, <1>3, <2>1, ReturnsInv
<1>4. CASE ~(v.at > Len(v.job.names)) /\ Exists(Crt(MyName(p)))
  <2> DEFINE u == [v EXCEPT !.at = v.at + 1]
  <2>1. u \in Work /\ u.job = v.job /\ u.at = v.at + 1
    BY <1>2, WithNext
  <2>2. Moves(p, "next", u)
    BY <1>1, <1>4, OfOne DEF NextName, Moves, DirTypeOK
  <2> HIDE DEF u
  <2>3. LeftBehind("next", u)
    <3>1. \A i \in DOMAIN v.job.names :
            i < v.at + 1 => i < v.at \/ i = v.at
      BY <1>2
    <3> QED BY <1>4, <2>1, <3>1, OfOne DEF LeftBehind, MyName
  <2>4. InRange("next", u) /\ Knows("next", u) /\ "next" \in Stage
    BY <1>1, <2>1, OfOne, Stages DEF InRange, Knows, Naming
  <2> QED BY <1>1, <2>1, <2>2, <2>3, <2>4, Within DEF Does
<1>5. CASE ~(v.at > Len(v.job.names)) /\ ~Exists(Crt(MyName(p)))
  <2>1. Moves(p, "load", v)
    BY <1>5, OfOne DEF NextName, Goes, Moves, DirTypeOK
  <2>2. v.at \in DOMAIN v.job.names
    BY <1>2, <1>5
  <2>3. InRange("load", v) /\ Knows("load", v)
    BY <1>1, <1>5, <2>2, OfOne DEF InRange, Knows, MyName, NameOf
  <2>4. LeftBehind("load", v) /\ "load" \in Stage
    BY OfOne, Stages DEF Naming
  <2> QED BY <1>1, <1>2, <2>1, <2>3, <2>4, Within DEF Does
<1> QED BY <1>3, <1>4, <1>5

(* LoadKey and LoadCert of the CA.                                          *)
LEMMA LoadInv == ASSUME DirInv, NEW p \in Proc, Load(p) PROVE DirInv'
<1> DEFINE v == work[p]
<1>1. /\ pc[p] = "load" /\ Working(p) /\ Clash
      /\ UNCHANGED <<file, lock, stolen, count>> /\ count' \in Counters
      /\ v \in Work
  BY OfOne DEF Load, Working, Reads
<1>2. CASE file[CaKey].is = "whole" /\ file[CaCrt].is = "whole"
  <2> DEFINE k == file[CaKey].key
             r == file[CaCrt].key
             u == [v EXCEPT !.ca = k, !.root = r]
  <2>1. k \in Nat /\ r \in Nat
    BY OfOne, FileTypes DEF DirTypeOK, FileContent
  <2>2. u \in Work /\ u.job = v.job /\ u.at = v.at /\ u.root = r /\ u.ca = k
    BY <1>1, <2>1 DEF Work
  <2>3. Moves(p, "identity", u)
    BY <1>2, OfOne DEF Load, Moves, DirTypeOK
  <2>4. IsWhole(CaCrt, r) /\ IsWhole(CaKey, k)
    BY <1>2 DEF IsWhole
  <2> HIDE DEF u, r, k
  <2>5. InRange("identity", u) /\ LeftBehind("identity", u) /\ "identity" \in Stage
    BY <1>1, <2>2, OfOne, Stages DEF InRange, LeftBehind, Naming
  <2>6. ~clash => Knows("identity", u)
    BY <1>1, <2>2, <2>4, OfOne DEF Knows, NameOf
  <2> QED BY <1>1, <2>2, <2>3, <2>5, <2>6, Within DEF Does
<1>3. CASE ~(file[CaKey].is = "whole" /\ file[CaCrt].is = "whole")
  <2>1. Returns(p, "failed")
    BY <1>3 DEF Load
  <2> QED BY <1>1, <2>1, ReturnsInv
<1> QED BY <1>2, <1>3

(* A command has its identity: a node goes on to its certificates, the      *)
(* others to the signature.                                                 *)
LEMMA HasIdentity ==
    ASSUME DirInv, NEW p \in Proc, pc[p] \in {"identity", "fill pem"},
           NEW u \in Work, u.job = work[p].job, u.at = work[p].at,
           u.root = work[p].root, u.ca = work[p].ca
    PROVE  /\ WithIdentity(p) \in Stage
           /\ InRange(WithIdentity(p), u) /\ LeftBehind(WithIdentity(p), u)
           /\ ~clash => /\ Does(p) # "node" => IsWhole(CaCrt, u.root) /\ IsWhole(CaKey, u.ca)
                        /\ Does(p) = "bootstrap" => ~Exists(Crt(NameOf(u)))
<1>1. WithIdentity(p) = (IF u.job.kind = "node" THEN "open" ELSE "new crt")
  BY DEF WithIdentity, Does
<1>2. u.at \in DOMAIN u.job.names /\ u.job.kind # "init"
  BY OfOne DEF InRange, Naming
<1>3. WithIdentity(p) \in Stage
  BY <1>1 DEF Stage, Creating
<1>4. InRange(WithIdentity(p), u) /\ LeftBehind(WithIdentity(p), u)
  BY <1>1, <1>2, OfOne DEF InRange, LeftBehind
<1>5. ~clash => /\ Does(p) # "node" => IsWhole(CaCrt, u.root) /\ IsWhole(CaKey, u.ca)
                /\ Does(p) = "bootstrap" => ~Exists(Crt(NameOf(u)))
  BY OfOne DEF Knows, NameOf, Does
<1> QED BY <1>3, <1>4, <1>5

(* LoadOrCreate.                                                            *)
LEMMA IdentityInv == ASSUME DirInv, NEW p \in Proc, LoadOrCreate(p) PROVE DirInv'
<1> DEFINE v == work[p]
           f == Pem(MyName(p))
<1>1. /\ pc[p] = "identity" /\ Working(p) /\ v \in Work
      /\ v.at \in DOMAIN v.job.names /\ f \in File /\ MyName(p) = NameOf(v)
  <2>1. pc[p] = "identity" /\ Working(p) /\ v \in Work
    BY OfOne DEF LoadOrCreate, Working
  <2>2. v.at \in DOMAIN v.job.names /\ MyName(p) = NameOf(v)
    BY <2>1, OfOne DEF InRange, Naming, MyName, NameOf
  <2> QED BY <2>1, <2>2, CommandTypes, FileTypes
<1>2. CASE Exists(f) /\ file[f].is = "whole"
  <2>1. PICK k \in Nat : k = file[f].key
    BY <1>1, OfOne DEF DirTypeOK, FileContent
  <2> DEFINE u == [v EXCEPT !.id = k]
             l == WithIdentity(p)
  <2>2. u \in Work /\ u.job = v.job /\ u.at = v.at /\ u.root = v.root /\ u.id = k
        /\ u.ca = v.ca
    BY <1>1, <2>1, WithId
  <2>3. /\ Moves(p, l, u) /\ UNCHANGED <<file, lock, stolen, count>> /\ Clash
        /\ count' \in Counters
    BY <1>2, <2>1, OfOne DEF LoadOrCreate, OldIdentity, Reads, Moves, DirTypeOK
  <2>4. IsWhole(Pem(NameOf(u)), k)
    BY <1>1, <1>2, <2>1, <2>2 DEF IsWhole, NameOf
  <2> HIDE DEF u
  <2>5. /\ l \in Stage /\ InRange(l, u) /\ LeftBehind(l, u)
        /\ ~clash => /\ Does(p) # "node" => IsWhole(CaCrt, u.root) /\ IsWhole(CaKey, u.ca)
                     /\ Does(p) = "bootstrap" => ~Exists(Crt(NameOf(u)))
    BY <1>1, <2>2, HasIdentity
  <2>6. ~clash => Knows(l, u)
    BY <2>2, <2>4, <2>5 DEF Knows, WithIdentity, Does
  <2> QED BY <1>1, <2>2, <2>3, <2>5, <2>6, Within DEF Does
<1>3. CASE Exists(f) /\ file[f].is # "whole"
  <2>1. Returns(p, "failed") /\ Reads
    BY <1>3 DEF LoadOrCreate, OldIdentity
  <2> QED BY <1>1, <2>1, OfOne, ReturnsInv DEF Reads
<1>4. CASE ~Exists(f)
  <2> DEFINE k == count.key + 1
             u == [v EXCEPT !.id = k]
  <2>1. k \in Nat /\ count' \in Counters
    BY <1>4, OfOne, Counting DEF LoadOrCreate, NewIdentity
  <2>2. u \in Work /\ u.job = v.job /\ u.at = v.at /\ u.root = v.root /\ u.id = k
        /\ u.ca = v.ca
    BY <1>1, <2>1, WithId
  <2>3. /\ Moves(p, "new pem", u) /\ UNCHANGED <<file, lock, stolen>> /\ Clash
    BY <1>4, OfOne DEF LoadOrCreate, NewIdentity, Moves, DirTypeOK
  <2> HIDE DEF u, k
  <2>4. InRange("new pem", u) /\ LeftBehind("new pem", u) /\ "new pem" \in Stage
    BY <1>1, <2>2, OfOne, Stages DEF InRange, LeftBehind, Naming
  <2>5. ~clash => Knows("new pem", u)
    BY <1>1, <1>4, <2>2, OfOne DEF Knows, NameOf
  <2> QED BY <1>1, <2>1, <2>2, <2>3, <2>4, <2>5, Within DEF Does
<1> QED BY <1>2, <1>3, <1>4

(* The commands that return without having written.                         *)
LEMMA ReturnInv ==
    ASSUME DirInv, NEW p \in Proc, Refused(p) \/ New(p) \/ WriteFails(p)
    PROVE  DirInv'
<1>1. CASE Refused(p)
  BY <1>1, OfOne, ReturnsInv DEF Refused, Reads, Working
<1>2. CASE New(p)
  <2>1. pc[p] = "open" /\ Working(p) /\ Does(p) # "bootstrap"
    BY <1>2, OfOne DEF New, Working, InRange, Does
  <2>2. \E r \in {"ok", "failed"} : Returns(p, r)
    BY <1>2 DEF New
  <2> QED BY <1>2, <2>1, <2>2, OfOne, ReturnsInv DEF New, Reads
<1>3. CASE WriteFails(p)
  <2>1. Working(p)
    BY <1>3 DEF WriteFails, Creating, Filling, Working
  <2>2. count' \in Counters
    BY <1>3, OfOne, Counting DEF WriteFails
  <2> QED BY <1>3, <2>1, <2>2, ReturnsInv DEF WriteFails
<1> QED BY <1>1, <1>2, <1>3

LEMMA TornType == Torn \in FileContent /\ Torn.is = "torn"
BY DEF FileContent, Torn

LEMMA WholeType ==
    ASSUME NEW k \in Nat, NEW m \in Nat
    PROVE  /\ Whole(k, m) \in FileContent /\ Whole(k, m).is = "whole"
           /\ Whole(k, m).key = k /\ Whole(k, m).by = m
BY DEF FileContent, Whole

(* To write neither the CA's files nor a key that is whole, and no whole    *)
(* certificate, leaves the certificates good.                               *)
LEMMA GoodKept ==
    ASSUME CertsGood, NEW t \in File, NEW c, t # CaKey, t # CaCrt,
           \A f \in File : file'[f] = IF f = t THEN c ELSE file[f],
           \A n \in Named : /\ Pem(n) = t => file[t].is # "whole"
                            /\ Crt(n) = t => c.is # "whole"
    PROVE  CertsGood'
<1>1. file'[CaCrt] = file[CaCrt] /\ file'[CaKey] = file[CaKey]
  BY FileTypes
<1>2. \A n \in Named : file'[Crt(n)].is = "whole" => file'[Crt(n)] = file[Crt(n)]
  BY FileTypes
<1>3. NoCerts => NoCerts'
  BY <1>2 DEF NoCerts
<1>4. ASSUME NEW k, CertsBy(k) PROVE CertsBy(k)'
  <2> SUFFICES ASSUME NEW n \in Named, file'[Crt(n)].is = "whole"
               PROVE  IsWhole(Pem(n), file[Crt(n)].key)' /\ file'[Crt(n)].by = k
    BY DEF CertsBy
  <2>1. /\ file'[Crt(n)] = file[Crt(n)] /\ IsWhole(Pem(n), file[Crt(n)].key)
        /\ file[Crt(n)].by = k
    BY <1>2, <1>4 DEF CertsBy
  <2>2. Pem(n) # t /\ Pem(n) \in File
    BY <2>1, FileTypes DEF IsWhole
  <2> QED BY <2>1, <2>2 DEF IsWhole
<1> QED BY <1>1, <1>3, <1>4 DEF CertsGood, Exists, IsWhole

(* os.WriteFile, first half: the file is there and empty.                   *)
LEMMA CreateInv == ASSUME DirInv, NEW p \in Proc, Create(p) PROVE DirInv'
<1>0. PICK v \in Work : v = work[p]
  BY OfOne
<1> DEFINE t == Target(p)
           m == MyName(p)
<1>1. /\ pc[p] \in Creating /\ Working(p) /\ Clash /\ v \in Work
      /\ UNCHANGED <<lock, stolen, count>>
      /\ file' = [file EXCEPT ![t] = Torn] /\ DirTypeOK
      /\ v.job.kind = Does(p) /\ m = NameOf(v)
  BY <1>0, OfOne DEF Create, Creating, Working, Does, MyName, NameOf
<1>2. pc[p] \in {"new pem", "new crt"} => v.at \in DOMAIN v.job.names /\ m \in Name
  BY <1>0, <1>1, OfOne, CommandTypes DEF InRange, Naming
<1>3. t \in File
  BY <1>1, <1>2, FileTypes DEF Target, Creating
<1>4. \A f \in File : file'[f] = IF f = t THEN Torn ELSE file[f]
  BY <1>1, <1>3 DEF DirTypeOK
<1>5. \A l \in Filling : LeftBehind(l, v) /\ l \in Stage
  BY <1>0, OfOne DEF Stage, Filling
<1>6. \A n \in Name : file'[Crt(n)].is = "whole" =>
                          Crt(n) # t /\ file'[Crt(n)] = file[Crt(n)]
  BY <1>0, <1>4, FileTypes, TornType
<1>7. CASE pc[p] = "new ca.key"
  <2>1. t = CaKey /\ Moves(p, "fill ca.key", v)
    BY <1>0, <1>1, <1>7 DEF Create, Goes, Moves, Target, DirTypeOK
  <2>2. InRange("fill ca.key", v)
    BY <1>0, <1>7, OfOne DEF InRange, Naming
  <2>3. ASSUME ~clash PROVE CertsGood' /\ Knows("fill ca.key", v)'
    <3>1. ~Exists(CaCrt) /\ CertsGood
      BY <1>0, <1>7, <2>3, OfOne DEF Knows, DirInv, FilesKnown
    <3>2. file'[CaCrt] = file[CaCrt] /\ file'[CaKey] = Torn
      BY <1>4, <2>1, FileTypes
    <3>3. NoCerts'
      BY <1>6, <3>1, FileTypes DEF CertsGood, NoCerts
    <3>4. CertsGood'
      BY <3>1, <3>2, <3>3 DEF CertsGood, Exists
    <3> QED BY <3>1, <3>2, <3>4, TornType DEF Knows, IsTorn, Exists
  <2> QED BY <1>0, <1>1, <1>3, <1>5, <2>1, <2>2, <2>3, TornType, Writes DEF Filling
<1>8. CASE pc[p] = "new ca.crt"
  <2>1. t = CaCrt /\ Moves(p, "fill ca.crt", v)
    BY <1>0, <1>1, <1>8 DEF Create, Goes, Moves, Target, DirTypeOK
  <2>2. InRange("fill ca.crt", v)
    BY <1>0, <1>8, OfOne DEF InRange, Naming
  <2>3. ASSUME ~clash PROVE CertsGood' /\ Knows("fill ca.crt", v)'
    <3>1. ~Exists(CaCrt) /\ CertsGood /\ IsWhole(CaKey, v.ca)
      BY <1>0, <1>8, <2>3, OfOne DEF Knows, DirInv, FilesKnown
    <3>2. file'[CaCrt] = Torn /\ file'[CaKey] = file[CaKey]
      BY <1>4, <2>1, FileTypes
    <3>3. NoCerts'
      BY <1>6, <3>1, FileTypes DEF CertsGood, NoCerts
    <3>4. CertsGood'
      BY <3>2, TornType DEF CertsGood, Exists
    <3> QED BY <3>1, <3>2, <3>3, <3>4, TornType DEF Knows, IsTorn, IsWhole
  <2> QED BY <1>0, <1>1, <1>3, <1>5, <2>1, <2>2, <2>3, TornType, Writes DEF Filling
<1>9. CASE pc[p] = "new pem"
  <2>1. t = Pem(m) /\ Moves(p, "fill pem", v)
    BY <1>0, <1>1, <1>9 DEF Create, Goes, Moves, Target, DirTypeOK
  <2>2. InRange("fill pem", v)
    BY <1>0, <1>9, OfOne DEF InRange, Naming
  <2>3. ASSUME ~clash PROVE CertsGood' /\ Knows("fill pem", v)'
    <3>1. Knows("new pem", v) /\ CertsGood
      BY <1>0, <1>9, <2>3, OfOne DEF DirInv, FilesKnown
    <3>2. CertsGood'
      <4>1. file[t].is # "whole" /\ t # CaKey /\ t # CaCrt
        BY <1>1, <1>2, <1>9, <2>1, <3>1, FileTypes DEF Knows, Exists
      <4>2. \A n \in Named : Crt(n) # t
        BY <1>2, <1>9, <2>1, FileTypes
      <4> QED BY <1>3, <1>4, <3>1, <4>1, <4>2, GoodKept
    <3>3. IsTorn(Pem(NameOf(v)))'
      BY <1>1, <1>3, <1>4, <2>1, TornType DEF IsTorn, NameOf
    <3>4. /\ file'[CaCrt] = file[CaCrt] /\ file'[CaKey] = file[CaKey]
          /\ file'[Crt(m)] = file[Crt(m)] /\ m = NameOf(v)
      BY <1>1, <1>2, <1>4, <1>9, <2>1, FileTypes
    <3>5. Knows("fill pem", v)'
      BY <3>1, <3>3, <3>4 DEF Knows, IsTorn, IsWhole, Exists, NameOf
    <3> QED BY <3>2, <3>5
  <2> QED BY <1>0, <1>1, <1>3, <1>5, <2>1, <2>2, <2>3, TornType, Writes DEF Filling
<1>10. CASE pc[p] = "new crt"
  <2>1. t = Crt(m) /\ Moves(p, "fill crt", v) /\ v.root = v.ca
    BY <1>0, <1>1, <1>10 DEF Create, Goes, Moves, Target, DirTypeOK
  <2>2. InRange("fill crt", v)
    BY <1>0, <1>10, OfOne DEF InRange, Naming
  <2>3. ASSUME ~clash PROVE CertsGood' /\ Knows("fill crt", v)'
    <3>1. Knows("new crt", v) /\ CertsGood /\ v.job.kind # "node"
      BY <1>0, <1>10, <2>3, OfOne DEF DirInv, FilesKnown, InRange
    <3>2. /\ IsWhole(CaCrt, v.ca) /\ IsWhole(CaKey, v.ca) /\ IsWhole(Pem(m), v.id)
          /\ m \in Name /\ file'[t] = Torn
      BY <1>1, <1>2, <1>3, <1>4, <1>10, <2>1, <3>1 DEF Knows
    <3>3. /\ IsWhole(Pem(NameOf(v)), v.id)' /\ IsWhole(CaKey, v.ca)'
          /\ IsTorn(Crt(NameOf(v)))'
      <4>1. t = Crt(m) /\ t # Pem(m) /\ t # CaKey /\ {t, Pem(m), CaKey} \subseteq File
        BY <2>1, <3>2, FileTypes
      <4>2. file'[Pem(m)] = file[Pem(m)] /\ file'[CaKey] = file[CaKey]
        BY <1>4, <4>1
      <4> QED BY <1>1, <3>2, <4>1, <4>2, TornType DEF IsWhole, IsTorn, NameOf
    <3>4. CASE m # "ca"
      <4>1. t # CaCrt /\ t # CaKey /\ \A n \in Named : Pem(n) # t
        BY <2>1, <3>2, <3>4, FileTypes
      <4>2. CertsGood'
        BY <1>3, <1>4, <3>1, <4>1, GoodKept, TornType
      <4>3. IsWhole(CaCrt, v.ca)'
        BY <1>4, <3>2, <4>1, FileTypes DEF IsWhole
      <4> QED BY <1>1, <3>3, <3>4, <4>2, <4>3 DEF Knows, NameOf
    <3>5. CASE m = "ca"
      <4>1. t = CaCrt /\ file'[CaCrt] = Torn
        BY <2>1, <3>2, <3>5, FileTypes
      <4>2. CertsGood'
        BY <4>1, TornType DEF CertsGood, Exists
      <4>3. CertsBy(v.ca)
        BY <3>1, <3>2 DEF CertsGood, IsWhole
      <4>4. \A n \in Named : /\ file'[Crt(n)] = file[Crt(n)]
                             /\ file'[Pem(n)] = file[Pem(n)]
        BY <1>4, <4>1, FileTypes
      <4>5. CertsBy(v.ca)'
        BY <4>3, <4>4 DEF CertsBy, IsWhole
      <4> QED BY <1>1, <3>3, <3>5, <4>2, <4>5 DEF Knows, NameOf
    <3> QED BY <3>4, <3>5
  <2> QED BY <1>0, <1>1, <1>3, <1>5, <2>1, <2>2, <2>3, TornType, Writes DEF Filling
<1> QED BY <1>1, <1>7, <1>8, <1>9, <1>10 DEF Creating

(* ... and the second: it has its content.                                  *)
LEMMA FillInv == ASSUME DirInv, NEW p \in Proc, Fill(p) PROVE DirInv'
<1>0. PICK v \in Work : v = work[p]
  BY OfOne
<1> DEFINE t == Target(p)
           m == MyName(p)
           c == Content(p)
<1>1. /\ pc[p] \in Filling /\ Working(p) /\ Clash /\ v \in Work
      /\ UNCHANGED <<lock, stolen, count>>
      /\ file' = [file EXCEPT ![t] = c] /\ DirTypeOK
      /\ v.job.kind = Does(p) /\ m = NameOf(v)
      /\ v.ca \in Nat /\ v.id \in Nat
  BY <1>0, OfOne, CommandTypes DEF Fill, Filling, Working, Does, MyName, NameOf
<1>2. pc[p] \in {"fill pem", "fill crt"} => v.at \in DOMAIN v.job.names /\ m \in Name
  BY <1>0, <1>1, OfOne, CommandTypes DEF InRange, Naming
<1>3. t \in File
  BY <1>1, <1>2, FileTypes DEF Target, Filling
<1>4. c \in FileContent /\ c.is = "whole"
  <2>1. c \in {Whole(v.ca, 0), Whole(v.ca, v.ca), Whole(v.id, 0), Whole(v.id, v.ca)}
    BY <1>0, <1>1 DEF Content, Filling
  <2> QED BY <1>1, <2>1, WholeType
<1>5. \A f \in File : file'[f] = IF f = t THEN c ELSE file[f]
  BY <1>1, <1>3 DEF DirTypeOK
<1>6. \A n \in Name : Crt(n) # t => file'[Crt(n)] = file[Crt(n)]
  BY <1>5, FileTypes
<1>7. /\ InRange("idle", Idle) /\ Knows("idle", Idle)' /\ LeftBehind("idle", Idle)
      /\ Idle \in Work /\ "idle" \in Stage /\ "idle" \in AtRest
  BY Rest, IdleType, Stages DEF AtRest, Knows
<1>8. LeftBehind("next", v) /\ "next" \in Stage /\ Knows("next", v)'
  BY <1>0, OfOne, Stages DEF Knows
<1>9. CASE pc[p] = "fill ca.key"
  <2>1. t = CaKey /\ Moves(p, "new ca.crt", v)
    BY <1>0, <1>1, <1>9 DEF Fill, Goes, Moves, Target, DirTypeOK
  <2>2. InRange("new ca.crt", v) /\ "new ca.crt" \in Stage
    BY <1>0, <1>9, OfOne DEF InRange, Naming, Stage, Creating
  <2>3. LeftBehind("new ca.crt", v)
    BY <1>0, <2>2, OfOne
  <2>4. ASSUME ~clash PROVE CertsGood' /\ Knows("new ca.crt", v)'
    <3>1. ~Exists(CaCrt) /\ CertsGood
      BY <1>0, <1>9, <2>4, OfOne DEF Knows, DirInv, FilesKnown
    <3>2. file'[CaCrt] = file[CaCrt] /\ file'[CaKey] = Whole(v.ca, 0)
      BY <1>0, <1>5, <1>9, <2>1, FileTypes DEF Content
    <3>3. NoCerts'
      BY <1>6, <2>1, <3>1, FileTypes DEF CertsGood, NoCerts
    <3>4. CertsGood'
      BY <3>1, <3>2, <3>3 DEF CertsGood, Exists
    <3>5. IsWhole(CaKey, v.ca)'
      BY <1>1, <3>2, WholeType DEF IsWhole
    <3> QED BY <3>1, <3>2, <3>4, <3>5 DEF Knows, Exists
  <2> QED BY <1>1, <1>3, <1>4, <2>1, <2>2, <2>3, <2>4, Writes
<1>10. CASE pc[p] = "fill ca.crt"
  <2>1. t = CaCrt
    BY <1>10 DEF Target
  <2>2. ASSUME ~clash PROVE CertsGood'
    <3>1. NoCerts /\ IsWhole(CaKey, v.ca)
      BY <1>0, <1>10, <2>2, OfOne DEF Knows, DirInv, FilesKnown
    <3>2. file'[CaCrt] = Whole(v.ca, v.ca) /\ file'[CaKey] = file[CaKey]
      BY <1>0, <1>5, <1>10, <2>1, FileTypes DEF Content
    <3>3. NoCerts'
      BY <1>6, <2>1, <3>1, FileTypes DEF NoCerts
    <3> QED BY <1>1, <3>1, <3>2, <3>3, WholeType
            DEF CertsGood, NoCerts, CertsBy, IsWhole, Exists
  <2>3. CASE Does(p) = "init"
    <3>1. Moves(p, "idle", Idle)
      BY <1>10, <2>3 DEF Fill, Returns, Moves
    <3> QED BY <1>1, <1>3, <1>4, <1>7, <2>2, <3>1, Writes
  <2>4. CASE Does(p) # "init"
    <3>1. Moves(p, "next", v)
      BY <1>0, <1>1, <1>10, <2>4 DEF Fill, Goes, Moves, DirTypeOK
    <3>2. InRange("next", v)
      BY <1>0, <1>1, <1>10, <2>4, OfOne DEF InRange, Naming
    <3> QED BY <1>1, <1>3, <1>4, <1>8, <2>2, <3>1, <3>2, Writes
  <2> QED BY <2>3, <2>4
<1>11. CASE pc[p] = "fill pem"
  <2>0. PICK l \in Stage : l = WithIdentity(p)
    BY <1>11, <1>0, HasIdentity
  <2>1. t = Pem(m) /\ Moves(p, l, v) /\ c.key = v.id
    <3>1. t = Pem(m) /\ Moves(p, l, v)
      BY <1>0, <1>1, <1>11, <2>0 DEF Fill, Goes, Moves, Target, DirTypeOK
    <3>2. c = Whole(v.id, 0)
      BY <1>0, <1>11 DEF Content
    <3> QED BY <1>1, <3>1, <3>2, WholeType
  <2>2. /\ l \in Stage /\ InRange(l, v) /\ LeftBehind(l, v)
        /\ ~clash => /\ Does(p) # "node" => IsWhole(CaCrt, v.root) /\ IsWhole(CaKey, v.ca)
                     /\ Does(p) = "bootstrap" => ~Exists(Crt(NameOf(v)))
    BY <1>0, <1>1, <1>11, <2>0, HasIdentity
  <2>3. ASSUME ~clash PROVE CertsGood' /\ Knows(l, v)'
    <3>1. IsTorn(Pem(m)) /\ CertsGood
      BY <1>0, <1>1, <1>11, <2>3, OfOne DEF Knows, DirInv, FilesKnown
    <3>2. CertsGood'
      <4>1. file[t].is # "whole" /\ t # CaKey /\ t # CaCrt
        BY <1>2, <1>11, <2>1, <3>1, FileTypes DEF IsTorn
      <4>2. \A n \in Named : Crt(n) # t
        BY <1>2, <1>11, <2>1, FileTypes
      <4> QED BY <1>3, <1>5, <3>1, <4>1, <4>2, GoodKept
    <3>3. IsWhole(Pem(NameOf(v)), v.id)'
      BY <1>1, <1>3, <1>4, <1>5, <2>1 DEF IsWhole, NameOf
    <3>4. /\ Does(p) # "node" => IsWhole(CaCrt, v.root)' /\ IsWhole(CaKey, v.ca)'
          /\ Does(p) = "bootstrap" => ~Exists(Crt(NameOf(v)))'
      BY <1>1, <1>2, <1>5, <1>11, <2>1, <2>2, <2>3, FileTypes DEF IsWhole, Exists
    <3>5. Knows(l, v)'
      BY <1>1, <2>0, <3>3, <3>4 DEF Knows, WithIdentity
    <3> QED BY <3>2, <3>5
  <2> QED BY <1>1, <1>3, <1>4, <2>1, <2>2, <2>3, Writes
<1>12. CASE pc[p] = "fill crt"
  <2>1. t = Crt(m) /\ c.key = v.id /\ c.by = v.ca
    <3>1. t = Crt(m) /\ c = Whole(v.id, v.ca)
      BY <1>0, <1>12 DEF Target, Content
    <3> QED BY <1>1, <3>1, WholeType
  <2>2. ASSUME ~clash PROVE CertsGood'
    <3>1. /\ IsWhole(CaKey, v.ca) /\ IsWhole(Pem(m), v.id) /\ CertsGood
          /\ IF m = "ca" THEN CertsBy(v.ca) ELSE IsWhole(CaCrt, v.ca)
      BY <1>0, <1>1, <1>12, <2>2, OfOne DEF Knows, InRange, DirInv, FilesKnown
    <3>2. m \in Name /\ t # CaKey /\ (t = CaCrt <=> m = "ca") /\ c.is = "whole"
      BY <1>2, <1>4, <1>12, <2>1, FileTypes
    <3>3. IsWhole(CaKey, v.ca)' /\ \A n \in Name : file'[Pem(n)] = file[Pem(n)]
      BY <1>5, <2>1, <3>1, <3>2, FileTypes DEF IsWhole
    <3>4. CASE m = "ca"
      <4>1. \A n \in Named : file'[Crt(n)] = file[Crt(n)]
        BY <1>6, <3>2, <3>4, FileTypes
      <4>2. CertsBy(v.ca)'
        BY <3>1, <3>3, <3>4, <4>1, FileTypes DEF CertsBy, IsWhole
      <4>3. file'[CaCrt] = c
        BY <1>5, <3>2, <3>4, FileTypes
      <4> QED BY <2>1, <3>2, <3>3, <4>2, <4>3 DEF CertsGood, Exists
    <3>5. CASE m # "ca"
      <4>1. file'[CaCrt] = file[CaCrt] /\ IsWhole(CaCrt, v.ca)
        BY <1>5, <3>1, <3>2, <3>5, FileTypes
      <4>2. ASSUME CertsBy(v.ca) PROVE CertsBy(v.ca)'
        <5>1. ASSUME NEW n \in Named, file'[Crt(n)].is = "whole"
              PROVE  IsWhole(Pem(n), file[Crt(n)].key)' /\ file'[Crt(n)].by = v.ca
          <6>1. CASE n = m
            BY <1>3, <1>5, <2>1, <3>1, <3>2, <3>3, <6>1 DEF IsWhole
          <6>2. CASE n # m
            <7>1. n \in Name /\ Crt(n) # t
              BY <2>1, <3>2, <6>2, FileTypes
            <7>2. file'[Crt(n)] = file[Crt(n)] /\ file'[Pem(n)] = file[Pem(n)]
              BY <1>6, <3>3, <7>1
            <7> QED BY <4>2, <5>1, <7>2 DEF CertsBy, IsWhole
          <6> QED BY <6>1, <6>2
        <5> QED BY <5>1 DEF CertsBy
      <4>3. v.ca = file[CaCrt].key /\ Exists(CaCrt)' /\ IsWhole(CaKey, file[CaCrt].by)
        BY <3>1, <4>1 DEF CertsGood, IsWhole, Exists
      <4>4. IsWhole(CaKey, file[CaCrt].by)'
        BY <1>5, <3>2, <4>1, <4>3, FileTypes DEF IsWhole
      <4> QED BY <3>1, <4>1, <4>2, <4>3, <4>4 DEF CertsGood, IsWhole
    <3> QED BY <3>4, <3>5
  <2>3. CASE Does(p) = "sign"
    <3>1. Moves(p, "idle", Idle)
      BY <1>12, <2>3 DEF Fill, Returns, Moves
    <3> QED BY <1>1, <1>3, <1>4, <1>7, <2>2, <3>1, Writes
  <2>4. CASE Does(p) # "sign"
    <3>1. Moves(p, "next", v)
      BY <1>0, <1>1, <1>12, <2>4 DEF Fill, Goes, Moves, DirTypeOK
    <3>2. InRange("next", v)
      <4>1. v.job.kind \in Kind
        BY <1>1, CommandTypes
      <4> QED BY <1>0, <1>1, <1>12, <2>4, <4>1, OfOne DEF InRange, Naming, Kind
    <3> QED BY <1>1, <1>3, <1>4, <1>8, <2>2, <3>1, <3>2, Writes
  <2> QED BY <2>3, <2>4
<1> QED BY <1>1, <1>9, <1>10, <1>11, <1>12 DEF Filling

LEMMA DirInvInit == DirInit => DirInv
<1> SUFFICES ASSUME DirInit PROVE DirInv
  OBVIOUS
<1>1. /\ file = [f \in File |-> Absent] /\ pc = [p \in Proc |-> "idle"]
      /\ work = [p \in Proc |-> Idle] /\ stolen = FALSE /\ clash = FALSE
      /\ count = [run |-> 0, loose |-> 0, trouble |-> 0, key |-> 0]
  BY DEF DirInit
<1>2. Absent \in FileContent /\ Absent.is = "absent"
  BY DEF Absent, FileContent
<1>3. "idle" \in Stage
  BY DEF Stage
<1>4. DirTypeOK
  BY <1>1, <1>2, <1>3, IdleType DEF DirTypeOK
<1>5. LockHeld /\ Alone
  BY <1>1 DEF LockHeld, Alone, HasLock, Working
<1>6. Commands
  BY <1>1, Rest, IdleType DEF Commands
<1>7. CertsGood
  BY <1>1, <1>2, FileTypes DEF CertsGood, NoCerts, Exists
<1>8. FilesKnown
  BY <1>1, <1>7, Rest DEF FilesKnown, AtRest
<1> QED BY <1>4, <1>5, <1>6, <1>8 DEF DirInv

LEMMA DirNextInv == DirInv /\ [DirNext]_dirVars => DirInv'
<1> SUFFICES ASSUME DirInv, [DirNext]_dirVars PROVE DirInv'
  OBVIOUS
<1>1. CASE UNCHANGED dirVars
  <2>1. /\ file' = file /\ lock' = lock /\ pc' = pc /\ work' = work
        /\ count' = count /\ stolen' = stolen /\ clash' = clash
    BY <1>1 DEF dirVars
  <2>2. DirTypeOK' /\ LockHeld' /\ Alone'
    BY <2>1 DEF DirInv, DirTypeOK, LockHeld, Alone, HasLock, Does, Working
  <2>3. \A l, v : /\ LeftBehind(l, v)' <=> LeftBehind(l, v)
                  /\ Knows(l, v)' <=> Knows(l, v)
    BY <2>1 DEF LeftBehind, Knows, IsWhole, IsTorn, Exists, NoCerts, CertsBy, NameOf
  <2>4. CertsGood' <=> CertsGood
    BY <2>1 DEF CertsGood, NoCerts, CertsBy, IsWhole, Exists
  <2>5. Commands' /\ FilesKnown'
    BY <2>1, <2>3, <2>4 DEF DirInv, Commands, FilesKnown
  <2> QED BY <2>2, <2>5 DEF DirInv
<1>2. ASSUME NEW p \in Proc, Step(p) \/ Begin(p) \/ MkdirFails(p) \/ WriteFails(p) \/ Kill(p)
      PROVE  DirInv'
  BY <1>2, LockInv, CheckInv, NextNameInv, LoadInv, IdentityInv, ReturnInv,
     CreateInv, FillInv DEF Step
<1> QED BY <1>1, <1>2 DEF DirNext

(* What a process that writes knows holds in every reachable state.         *)
THEOREM DirInvariant == DirSpec => []DirInv
BY DirInvInit, DirNextInv, PTL DEF DirSpec

(* withMkdirLock: as long as no lock of a living process was removed, at    *)
(* most one bootstrap works, for any number of processes and nodes.         *)
THEOREM LockExcludes == DirSpec => []Exclusive
<1>1. DirInv => Exclusive
  <2> SUFFICES ASSUME DirInv, ~stolen
               PROVE  Cardinality({p \in Proc : HasLock(p)}) <= 1
    BY DEF Exclusive
  <2> DEFINE S == {p \in Proc : HasLock(p)}
  <2>1. S \subseteq {lock}
    BY DEF DirInv, LockHeld
  <2>2. S = {} \/ S = {lock}
    BY <2>1
  <2>3. Cardinality({}) = 0 /\ Cardinality({lock}) = 1
    BY FS_EmptySet, FS_Singleton
  <2> QED BY <2>2, <2>3
<1> QED BY <1>1, DirInvariant, PTL

(* Only the two halves of os.WriteFile change a file.                       *)
LEMMA WhoWrites ==
    ASSUME [DirNext]_dirVars, file' # file
    PROVE  \E p \in Proc : Create(p) \/ Fill(p)
BY DEF DirNext, dirVars, Step, Mkdir, Deadline, Break, Unlock, Refused, Check,
       MakesCA, NextName, Load, LoadOrCreate, OldIdentity, NewIdentity, New,
       Begin, MkdirFails, WriteFails, Kill, Reads

(* BootstrapDir: no whole key or certificate is ever changed, except that   *)
(* `ca sign` writes its output again, for any number of processes, nodes,   *)
(* kills and failing writes, as long as commands do not work at one time.   *)
THEOREM WholeFilesStay == DirSpec => ExistingFilesLeftAlone
<1> DEFINE Spared(f) ==
        file[f].is = "whole" /\ file'[f] # file[f] =>
            \/ clash
            \/ \E p \in Proc : Does(p) = "sign" /\ f = Crt(MyName(p))
<1>1. ASSUME DirInv, [DirNext]_dirVars, NEW f \in File PROVE Spared(f)
  <2> SUFFICES ASSUME file[f].is = "whole", file'[f] # file[f], ~clash
               PROVE  \E p \in Proc : Does(p) = "sign" /\ f = Crt(MyName(p))
    OBVIOUS
  <2>1. PICK p \in Proc : Create(p) \/ Fill(p)
    BY <1>1, WhoWrites
  <2>2. /\ work[p] \in Work /\ Knows(pc[p], work[p]) /\ InRange(pc[p], work[p])
        /\ Does(p) = work[p].job.kind /\ MyName(p) = NameOf(work[p])
    BY <1>1, OfOne DEF Does, MyName, NameOf
  <2>3. f = Target(p)
    BY <1>1, <2>1 DEF Create, Fill, DirInv, DirTypeOK
  <2>4. CASE Create(p)
    <3>1. pc[p] = "new crt" /\ f = Crt(MyName(p))
      BY <2>2, <2>3, <2>4 DEF Create, Creating, Target, Knows, Exists
    <3>2. Does(p) # "bootstrap"
      BY <2>2, <3>1 DEF Knows, Exists
    <3>3. Does(p) \in Kind /\ Does(p) \notin {"node", "init"}
      BY <2>2, <3>1, CommandTypes DEF InRange, Naming
    <3> QED BY <3>1, <3>2, <3>3 DEF Kind
  <2>5. CASE Fill(p)
    BY <2>2, <2>3, <2>5 DEF Fill, Filling, Target, Knows, IsTorn
  <2> QED BY <2>1, <2>4, <2>5
<1>2. DirInv /\ [DirNext]_dirVars => [\A f \in File : Spared(f)]_dirVars
  BY <1>1
<1> QED BY <1>2, DirInvariant, PTL DEF DirSpec, ExistingFilesLeftAlone

LEMMA Before ==
    ASSUME NEW s \in Seq(Name), NEW i \in DOMAIN s, NEW k \in Nat, k > Len(s)
    PROVE  s[i] \in Name /\ i < k
OBVIOUS

(* At the end of the loop each name has its certificate.                    *)
LEMMA AllLeftBehind ==
    ASSUME NEW v \in Work, LeftBehind("unlock ok", v), NEW i \in DOMAIN v.job.names
    PROVE  v.job.names[i] \in Name /\ Exists(Crt(v.job.names[i]))
<1> DEFINE s == v.job.names
<1>1. s \in Seq(Name) /\ v.at \in Nat /\ v.at > Len(s)
  BY CommandTypes DEF LeftBehind
<1> HIDE DEF s
<1>2. i \in DOMAIN s
  BY DEF s
<1>3. s[i] \in Name /\ i < v.at
  BY <1>1, <1>2, Before
<1> QED BY <1>3 DEF LeftBehind, s

(* When a bootstrap that has worked alone reports success, each node it was *)
(* asked for can be started, unless a file was left cut off or `ca sign`    *)
(* has written over the CA's certificate, or the node is called "ca".       *)
THEOREM SuccessIsUsable == DirSpec => SuccessMeansUsable
<1> DEFINE Served(p) ==
        /\ pc[p] = "unlock ok" /\ pc'[p] = "idle" /\ ~clash
        /\ \A f \in File : file[f].is # "torn"
        /\ file[CaCrt].key = file[CaCrt].by
        => \A i \in DOMAIN work[p].job.names :
              LET n == work[p].job.names[i] IN
              n # "ca" => /\ file[Pem(n)].is = "whole"
                          /\ Accepts(n, file[Pem(n)].key)
<1>1. ASSUME DirInv, NEW p \in Proc PROVE Served(p)
  <2> SUFFICES ASSUME pc[p] = "unlock ok", ~clash,
                      \A f \in File : file[f].is # "torn",
                      file[CaCrt].key = file[CaCrt].by,
                      NEW i \in DOMAIN work[p].job.names,
                      work[p].job.names[i] # "ca"
               PROVE  LET n == work[p].job.names[i] IN
                      file[Pem(n)].is = "whole" /\ Accepts(n, file[Pem(n)].key)
    OBVIOUS
  <2> DEFINE n == work[p].job.names[i]
  <2>1. DirTypeOK /\ CertsGood /\ work[p] \in Work /\ LeftBehind(pc[p], work[p])
    BY <1>1, OfOne DEF DirInv, FilesKnown
  <2>2. n \in Name /\ Exists(Crt(n))
    BY <2>1, AllLeftBehind
  <2>3. Crt(n) \in File /\ CaCrt \in File /\ n \in Named
    BY <2>2, FileTypes DEF Named
  <2>4. file[Crt(n)].is = "whole"
    BY <2>1, <2>2, <2>3 DEF Exists, DirTypeOK, FileContent
  <2>5. Exists(CaCrt)
    BY <2>1, <2>3, <2>4 DEF CertsGood, NoCerts
  <2>6. file[CaCrt].is = "whole"
    BY <2>1, <2>3, <2>5 DEF Exists, DirTypeOK, FileContent
  <2>7. CertsBy(file[CaCrt].key)
    BY <2>1, <2>6 DEF CertsGood
  <2> QED BY <2>3, <2>4, <2>6, <2>7 DEF CertsBy, IsWhole, Accepts
<1>2. DirInv /\ [DirNext]_dirVars => [\A p \in Proc : Served(p)]_dirVars
  BY <1>1
<1> QED BY <1>2, DirInvariant, PTL DEF DirSpec, SuccessMeansUsable
=============================================================================
