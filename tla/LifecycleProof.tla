--------------------------- MODULE LifecycleProof ---------------------------
(***************************************************************************)
(* Life cycles: every learned route has an owner, for any number of        *)
(* sessions; and what a hopscotch process takes from its host it gives     *)
(* back, for any number of processes and any configurations.               *)
(***************************************************************************)
EXTENDS Sessions, HostSetup, TLAPS

-----------------------------------------------------------------------------
(* Sessions                                                                 *)

(* A reader exists exactly from Spawn on, and only a session that reached   *)
(* Register is ever in the map.                                             *)
Phases ==
    /\ \A s \in Sess : reader[s] # "none" <=> est[s] \in {"spawned", "up"}
    /\ cur # NoSess => est[cur] \notin {"idle", "pinned", "failed"}

(* The inductive invariant.                                                 *)
IInv == TypeOK /\ Phases /\ NoZombieSession /\ LearnedRoutesOwned

(* A session in the map still has its clean-up ahead of it.                 *)
LEMMA RegisteredWillCleanUp ==
    ASSUME TypeOK, Phases, NoZombieSession, cur # NoSess
    PROVE  cur \in Sess /\ WillCleanUp(cur)
<1>1. cur \in Sess
  BY DEF TypeOK
<1>2. est[cur] \in EstState /\ reader[cur] \in ReaderState
  BY <1>1 DEF TypeOK
<1>3. reader[cur] \in {"none", "reading", "unregister"}
  BY DEF NoZombieSession
<1>4. CASE reader[cur] = "none"
  <2>1. est[cur] \in {"registered", "closed", "released"}
    BY <1>1, <1>2, <1>4 DEF Phases, EstState
  <2> QED BY <1>1, <2>1 DEF WillCleanUp
<1>5. CASE reader[cur] \in {"reading", "unregister"}
  BY <1>1, <1>5 DEF WillCleanUp
<1> QED BY <1>3, <1>4, <1>5

LEMMA InitIInv == Init => IInv
BY MaxSessAssumption
   DEF Init, IInv, TypeOK, Phases, NoZombieSession, LearnedRoutesOwned,
       EstState, ReaderState, Routes, NoSess

(* The establishing goroutine.                                              *)
LEMMA EstablishIInv ==
    ASSUME IInv, NEW s \in Sess,
           \/ Retain(s) \/ DialFails(s) \/ Register(s) \/ CloseOld(s)
           \/ ReleaseOld(s) \/ Spawn(s) \/ onSessionUp(s)
    PROVE  IInv'
<1> USE DEF IInv
<1>0. s \in Nat /\ s # NoSess
  BY MaxSessAssumption DEF Sess, NoSess
<1>1. TypeOK'
  <2>1. refs' \in Nat
    BY DEF TypeOK, Released, Retain, DialFails, Register, CloseOld, ReleaseOld,
           Spawn, onSessionUp
  <2>2. rib' \subseteq Routes
    BY DEF TypeOK, Routes, Retain, DialFails, Register, CloseOld, ReleaseOld,
           Spawn, onSessionUp
  <2>3. est' \in [Sess -> EstState]
    BY DEF TypeOK, EstState, Retain, DialFails, Register, CloseOld, ReleaseOld,
           Spawn, onSessionUp
  <2>4. reader' \in [Sess -> ReaderState] /\ alive' \subseteq Sess
    BY DEF TypeOK, ReaderState, Retain, DialFails, Register, CloseOld,
           ReleaseOld, Spawn, onSessionUp
  <2>5. cur' \in Sess \cup {NoSess} /\ old' \in [Sess -> Sess \cup {NoSess}]
    BY DEF TypeOK, Retain, DialFails, Register, CloseOld, ReleaseOld, Spawn,
           onSessionUp
  <2>6. node' \in {"open", "closing", "closed"}
    BY DEF TypeOK, Retain, DialFails, Register, CloseOld, ReleaseOld, Spawn,
           onSessionUp
  <2> QED BY <2>1, <2>2, <2>3, <2>4, <2>5, <2>6 DEF TypeOK
<1>2. Phases'
  BY <1>0 DEF TypeOK, Phases, NoZombieSession, EstState, ReaderState, Retain,
         DialFails, Register, CloseOld, ReleaseOld, Spawn, onSessionUp
<1>3. NoZombieSession'
  BY <1>0 DEF TypeOK, Phases, NoZombieSession, Retain, DialFails, Register,
         CloseOld, ReleaseOld, Spawn, onSessionUp
<1>4. \A t \in Sess : WillCleanUp(t) => WillCleanUp(t)'
  BY DEF TypeOK, WillCleanUp, Phases, Retain, DialFails, Register, CloseOld,
         ReleaseOld, Spawn, onSessionUp
<1>5. "learned" \in rib' => "learned" \in rib
  BY DEF Retain, DialFails, Register, CloseOld, ReleaseOld, Spawn, onSessionUp
<1>6. LearnedRoutesOwned'
  BY <1>4, <1>5 DEF LearnedRoutesOwned
<1> QED BY <1>1, <1>2, <1>3, <1>6

(* readLoop and onSessionDown.                                              *)
LEMMA ReaderIInv ==
    ASSUME IInv, NEW s \in Sess,
           \/ handleRoutes(s) \/ ConnLost(s) \/ ReadFails(s) \/ Unregister(s)
           \/ CheckReplaced(s) \/ DeleteRoutes(s) \/ ReleasePin(s)
    PROVE  IInv'
<1> USE DEF IInv
<1>0. s \in Nat /\ s # NoSess
  BY MaxSessAssumption DEF Sess, NoSess
<1>1. TypeOK'
  <2>1. refs' \in Nat
    BY DEF TypeOK, Released, handleRoutes, ConnLost, ReadFails, Unregister,
           CheckReplaced, DeleteRoutes, ReleasePin
  <2>2. rib' \subseteq Routes
    BY DEF TypeOK, Routes, handleRoutes, ConnLost, ReadFails, Unregister,
           CheckReplaced, DeleteRoutes, ReleasePin
  <2>3. reader' \in [Sess -> ReaderState] /\ est' = est /\ old' = old
    BY DEF TypeOK, ReaderState, handleRoutes, ConnLost, ReadFails, Unregister,
           CheckReplaced, DeleteRoutes, ReleasePin
  <2>4. cur' \in Sess \cup {NoSess} /\ alive' \subseteq Sess /\ node' = node
    BY DEF TypeOK, handleRoutes, ConnLost, ReadFails, Unregister,
           CheckReplaced, DeleteRoutes, ReleasePin
  <2> QED BY <2>1, <2>2, <2>3, <2>4 DEF TypeOK
<1>2. Phases'
  BY <1>0 DEF TypeOK, Phases, handleRoutes, ConnLost, ReadFails, Unregister,
              CheckReplaced, DeleteRoutes, ReleasePin
<1>3. NoZombieSession'
  BY <1>0 DEF TypeOK, Phases, NoZombieSession, handleRoutes, ConnLost,
              ReadFails, Unregister, CheckReplaced, DeleteRoutes, ReleasePin
<1>4. LearnedRoutesOwned'
  <2>1. CASE handleRoutes(s)
    <3>1. WillCleanUp(s)'
      BY <2>1 DEF WillCleanUp, handleRoutes
    <3> QED BY <3>1 DEF LearnedRoutesOwned
  <2>2. CASE ConnLost(s) \/ ReadFails(s) \/ Unregister(s)
    <3>1. \A t \in Sess : WillCleanUp(t) => WillCleanUp(t)'
      BY <2>2 DEF TypeOK, WillCleanUp, ConnLost, ReadFails, Unregister
    <3>2. rib' = rib
      BY <2>2 DEF ConnLost, ReadFails, Unregister
    <3> QED BY <3>1, <3>2 DEF LearnedRoutesOwned
  <2>3. CASE CheckReplaced(s) /\ cur # NoSess /\ cur # s
    <3>1. cur \in Sess /\ WillCleanUp(cur)
      BY <2>3, RegisteredWillCleanUp
    <3>2. est' = est /\ reader'[cur] = reader[cur]
      BY <2>3, <3>1 DEF CheckReplaced, TypeOK
    <3>3. WillCleanUp(cur)'
      BY <2>3, <3>1, <3>2 DEF WillCleanUp, CheckReplaced
    <3>4. cur' \in Sess /\ cur' = cur
      BY <2>3, <3>1 DEF CheckReplaced
    <3> QED BY <3>1, <3>3, <3>4 DEF LearnedRoutesOwned
  <2>4. CASE CheckReplaced(s) /\ ~ (cur # NoSess /\ cur # s)
    <3>1. reader'[s] = "delete"
      BY <2>4 DEF CheckReplaced, TypeOK
    <3>2. WillCleanUp(s)'
      BY <3>1 DEF WillCleanUp
    <3> QED BY <3>2 DEF LearnedRoutesOwned
  <2>5. CASE DeleteRoutes(s)
    BY <2>5 DEF DeleteRoutes, LearnedRoutesOwned
  <2>6. CASE ReleasePin(s)
    <3>1. \A t \in Sess : WillCleanUp(t) => WillCleanUp(t)'
      BY <2>6 DEF TypeOK, WillCleanUp, ReleasePin
    <3>2. rib' = rib
      BY <2>6 DEF ReleasePin
    <3> QED BY <3>1, <3>2 DEF LearnedRoutesOwned
  <2> QED BY <2>1, <2>2, <2>3, <2>4, <2>5, <2>6
<1> QED BY <1>1, <1>2, <1>3, <1>4

LEMMA NextIInv == IInv /\ [Next]_vars => IInv'
<1> SUFFICES ASSUME IInv, [Next]_vars PROVE IInv'
  OBVIOUS
<1>1. CASE Close \/ ClearPins \/ UNCHANGED vars
  <2>1. TypeOK'
    BY <1>1 DEF IInv, TypeOK, Close, ClearPins, vars, NoSess
  <2>2. Phases' /\ NoZombieSession'
    BY <1>1 DEF IInv, Phases, NoZombieSession, Close, ClearPins, vars
  <2>3. LearnedRoutesOwned'
    <3>1. est' = est /\ reader' = reader /\ rib' = rib
      BY <1>1 DEF Close, ClearPins, vars
    <3> QED BY <3>1 DEF IInv, LearnedRoutesOwned, WillCleanUp
  <2> QED BY <2>1, <2>2, <2>3 DEF IInv
<1> QED BY <1>1, EstablishIInv, ReaderIInv DEF Next

-----------------------------------------------------------------------------

(* Type correctness at the granularity of the locks.                        *)
THEOREM TypeCorrect == Spec => []TypeOK
<1>1. IInv => TypeOK
  BY DEF IInv
<1> QED BY <1>1, InitIInv, NextIInv, PTL DEF Spec

(* A session in n.sessions always has its readLoop's clean-up ahead of it.  *)
THEOREM RegisteredHasReader == Spec => []NoZombieSession
<1>1. IInv => NoZombieSession
  BY DEF IInv
<1> QED BY <1>1, InitIInv, NextIInv, PTL DEF Spec

(* When onSessionDown keeps the routes for a newer session, that session's  *)
(* reader (or one newer still) will delete them: nothing learned from the   *)
(* peer is ever orphaned, for any number of sessions and replacements.      *)
THEOREM LearnedRoutesHaveOwner == Spec => []LearnedRoutesOwned
<1>1. IInv => LearnedRoutesOwned
  BY DEF IInv
<1> QED BY <1>1, InitIInv, NextIInv, PTL DEF Spec

-----------------------------------------------------------------------------
(* The host                                                                 *)

(* The calls a process can be about to make, and what a Node can hold.      *)
Onward == {"udp", "stat", "open", "sysctl", "stack", "socks", "http", "run"}
Middle == {"dial", "remove", "remove live", "bind", "chmod", "configure",
           "strip", "dns", "zone", "reset", "nft", "forward4", "forward6", "undo rules",
           "undo table"}
Leaving == {"close socks", "zone off", "dns off", "close tun", "unlink",
            "remove file", "rules off", "table off", "close udp",
            "exit process"}
Call == Onward \cup Middle \cup Leaving
Part == {"udp", "control", "tun", "zone", "exit", "socks"}
Counts == [fault : Nat, slip : Nat, death : Nat]

Host == [held : [Exclusive -> Proc \cup {Nobody}],
         sock : [Path -> Proc \cup {"none", "stale"}],
         dns : BOOLEAN, zone : BOOLEAN, table : BOOLEAN,
         rules : [Proc -> SUBSET Family], orphans : BOOLEAN,
         half : BOOLEAN, forwarding : BOOLEAN, hosts : BOOLEAN]

HostTypeOK ==
    /\ pc \in [Proc -> Call \cup {"off"}]
    /\ own \in [Proc -> SUBSET Part]
    /\ host \in Host
    /\ count \in Counts

(* What a process at l that holds o will still undo on its way out.         *)
WillUnlink(l, o) ==
    \/ l = "chmod"
    \/ /\ "control" \in o
       /\ l \notin {"rules off", "table off", "close udp", "exit process", "off"}
WillZone(l, o) ==
    /\ "zone" \in o
    /\ l \notin {"dns off", "close tun", "unlink", "remove file", "rules off",
                 "table off", "close udp", "exit process", "off"}
WillRules(l, o) ==
    \/ l \in {"forward6", "undo rules"}
    \/ "exit" \in o /\ l \notin {"table off", "close udp", "exit process", "off"}
WillTable(l, o) ==
    \/ l \in {"forward4", "forward6", "undo rules", "undo table"}
    \/ "exit" \in o /\ l \notin {"close udp", "exit process", "off"}

(* A descriptor dies with its process, and with the device its resolver.    *)
WithTun == {"configure", "strip", "dns", "zone"}
Descriptors ==
    /\ \A x \in Exclusive : host.held[x] # Nobody => pc[host.held[x]] # "off"
    /\ \A p \in Proc : pc[p] \in WithTun => host.held["tun"] = p
    /\ host.dns => host.held["tun"] # Nobody

(* Nobody was killed and no call of Close failed.                           *)
Orderly == count.death = 0 /\ count.slip = 0

(* What outlives a process has one that will undo it.                       *)
Accounted ==
    /\ \A x \in Path : host.sock[x] = "none"
          \/ \E p \in Proc : /\ host.sock[x] = p /\ x = PathOf[p]
                             /\ WillUnlink(pc[p], own[p])
    /\ host.zone => \E p \in Proc : WillZone(pc[p], own[p])
    /\ host.table => \E p \in Proc : WillTable(pc[p], own[p])
    /\ \A p \in Proc : host.rules[p] # {} => WillRules(pc[p], own[p])
    /\ ~host.orphans

HostInv == HostTypeOK /\ Descriptors /\ (Orderly => Accounted)

-----------------------------------------------------------------------------
LEMMA Least ==
    ASSUME NEW S \in SUBSET (1 .. 9), S # {}
    PROVE  \E m \in S : \A k \in S : m <= k
<1>1. \A k \in S : k \in {1, 2, 3, 4, 5, 6, 7, 8, 9}
  OBVIOUS
<1>2. CASE 1 \in S
  BY <1>1, <1>2
<1>3. CASE 1 \notin S /\ 2 \in S
  BY <1>1, <1>3
<1>4. CASE 1 \notin S /\ 2 \notin S /\ 3 \in S
  BY <1>1, <1>4
<1>5. CASE S \cap {1, 2, 3} = {} /\ 4 \in S
  BY <1>1, <1>5
<1>6. CASE S \cap {1, 2, 3, 4} = {} /\ 5 \in S
  BY <1>1, <1>6
<1>7. CASE S \cap {1, 2, 3, 4, 5} = {} /\ 6 \in S
  BY <1>1, <1>7
<1>8. CASE S \cap {1, 2, 3, 4, 5, 6} = {} /\ S # {}
  <2>1. \A k \in S : k \in {7, 8, 9}
    BY <1>1, <1>8
  <2>2. CASE 7 \in S
    BY <2>1, <2>2
  <2>3. CASE 7 \notin S /\ 8 \in S
    BY <2>1, <2>3
  <2>4. CASE 7 \notin S /\ 8 \notin S
    <3>1. \A k \in S : k = 9
      BY <2>1, <2>4
    <3>2. PICK m \in S : TRUE
      BY <1>8
    <3>3. \A k \in S : m <= k
      BY <3>1, <3>2
    <3> QED BY <3>3
  <2> QED BY <2>2, <2>3, <2>4
<1> QED BY <1>2, <1>3, <1>4, <1>5, <1>6, <1>7, <1>8

LEMMA CloseParts ==
    /\ Len(CloseOrder) = 9 /\ DOMAIN CloseOrder = 1 .. 9
    /\ CloseOrder[1][1] = "close socks" /\ CloseOrder[1][2] = "socks"
    /\ CloseOrder[2][1] = "zone off" /\ CloseOrder[2][2] = "zone"
    /\ CloseOrder[3][1] = "dns off" /\ CloseOrder[3][2] = "tun"
    /\ CloseOrder[4][1] = "close tun" /\ CloseOrder[4][2] = "tun"
    /\ CloseOrder[5][1] = "unlink" /\ CloseOrder[5][2] = "control"
    /\ CloseOrder[6][1] = "remove file" /\ CloseOrder[6][2] = "control"
    /\ CloseOrder[7][1] = "rules off" /\ CloseOrder[7][2] = "exit"
    /\ CloseOrder[8][1] = "table off" /\ CloseOrder[8][2] = "exit"
    /\ CloseOrder[9][1] = "close udp" /\ CloseOrder[9][2] = "udp"
<1>1. Len(CloseOrder) = 9 /\ DOMAIN CloseOrder = 1 .. 9
  BY DEF CloseOrder
<1>2. CloseOrder[1][1] = "close socks" /\ CloseOrder[1][2] = "socks"
  BY DEF CloseOrder
<1>3. CloseOrder[2][1] = "zone off" /\ CloseOrder[2][2] = "zone"
  BY DEF CloseOrder
<1>4. CloseOrder[3][1] = "dns off" /\ CloseOrder[3][2] = "tun"
  BY DEF CloseOrder
<1>5. CloseOrder[4][1] = "close tun" /\ CloseOrder[4][2] = "tun"
  BY DEF CloseOrder
<1>6. CloseOrder[5][1] = "unlink" /\ CloseOrder[5][2] = "control"
  BY DEF CloseOrder
<1>7. CloseOrder[6][1] = "remove file" /\ CloseOrder[6][2] = "control"
  BY DEF CloseOrder
<1>8. CloseOrder[7][1] = "rules off" /\ CloseOrder[7][2] = "exit"
  BY DEF CloseOrder
<1>9. CloseOrder[8][1] = "table off" /\ CloseOrder[8][2] = "exit"
  BY DEF CloseOrder
<1>10. CloseOrder[9][1] = "close udp" /\ CloseOrder[9][2] = "udp"
  BY DEF CloseOrder
<1> QED BY <1>1, <1>2, <1>3, <1>4, <1>5, <1>6, <1>7, <1>8, <1>9, <1>10

LEMMA CallNames ==
    ASSUME NEW i \in DOMAIN CloseOrder, NEW l, l = CloseOrder[i][1]
    PROVE  /\ i \in 0 .. 9 /\ i \in 1 .. 9
           /\ \/ i = 1 /\ l = "close socks"
              \/ i = 2 /\ l = "zone off"
              \/ i = 3 /\ l = "dns off"
              \/ i = 4 /\ l = "close tun"
              \/ i = 5 /\ l = "unlink"
              \/ i = 6 /\ l = "remove file"
              \/ i = 7 /\ l = "rules off"
              \/ i = 8 /\ l = "table off"
              \/ i = 9 /\ l = "close udp"
<1>1. DOMAIN CloseOrder = 1 .. 9
  BY CloseParts
<1>2. i \in 1 .. 9
  BY <1>1
<1>3. i \in {1, 2, 3, 4, 5, 6, 7, 8, 9} /\ i \in 0 .. 9
  BY <1>2
<1>4. CASE i = 1
  BY <1>2, <1>3, <1>4, CloseParts
<1>5. CASE i = 2
  BY <1>2, <1>3, <1>5, CloseParts
<1>6. CASE i = 3
  BY <1>2, <1>3, <1>6, CloseParts
<1>7. CASE i = 4
  BY <1>2, <1>3, <1>7, CloseParts
<1>8. CASE i = 5
  BY <1>2, <1>3, <1>8, CloseParts
<1>9. CASE i = 6
  BY <1>2, <1>3, <1>9, CloseParts
<1>10. CASE i = 7
  BY <1>2, <1>3, <1>10, CloseParts
<1>11. CASE i = 8
  BY <1>2, <1>3, <1>11, CloseParts
<1>12. CASE i = 9
  BY <1>2, <1>3, <1>12, CloseParts
<1> QED BY <1>3, <1>4, <1>5, <1>6, <1>7, <1>8, <1>9, <1>10, <1>11, <1>12

LEMMA CloseAfterIs ==
    ASSUME NEW holds, NEW i \in 0 .. 9
    PROVE  \/ /\ \A k \in (i + 1) .. 9 : CloseOrder[k][2] \notin holds
              /\ CloseAfter(holds, i) = "exit process"
           \/ \E j \in (i + 1) .. 9 :
                 /\ CloseAfter(holds, i) = CloseOrder[j][1]
                 /\ \A k \in (i + 1) .. 9 : CloseOrder[k][2] \in holds => j <= k
<1> DEFINE rest == {j \in (i + 1) .. Len(CloseOrder) : CloseOrder[j][2] \in holds}
<1>1. rest = {j \in (i + 1) .. 9 : CloseOrder[j][2] \in holds}
  BY CloseParts
<1>2. CloseAfter(holds, i) =
         IF rest = {} THEN "exit process"
         ELSE CloseOrder[CHOOSE j \in rest : \A k \in rest : j <= k][1]
  BY DEF CloseAfter
<1> HIDE DEF rest
<1>3. CASE rest = {}
  BY <1>1, <1>2, <1>3
<1>4. CASE rest # {}
  <2>1. rest \in SUBSET (1 .. 9)
    BY <1>1
  <2>2. PICK j : j = CHOOSE m \in rest : \A k \in rest : m <= k
    OBVIOUS
  <2>3. j \in rest /\ \A k \in rest : j <= k
    BY <2>1, <2>2, <1>4, Least
  <2>4. CloseAfter(holds, i) = CloseOrder[j][1]
    BY <1>2, <1>4, <2>2
  <2> QED BY <1>1, <2>3, <2>4
<1> QED BY <1>3, <1>4

LEMMA CloseAfterUndoes ==
    ASSUME NEW holds, NEW i \in 0 .. 9
    PROVE  /\ CloseAfter(holds, i) \in Leaving
           /\ i <= 1 /\ "zone" \in holds => WillZone(CloseAfter(holds, i), holds)
           /\ i <= 4 /\ "control" \in holds => WillUnlink(CloseAfter(holds, i), holds)
           /\ i <= 6 /\ "exit" \in holds => WillRules(CloseAfter(holds, i), holds)
           /\ i <= 7 /\ "exit" \in holds => WillTable(CloseAfter(holds, i), holds)
<1>1. CASE /\ \A k \in (i + 1) .. 9 : CloseOrder[k][2] \notin holds
           /\ CloseAfter(holds, i) = "exit process"
  <2> DEFINE Later(k) == k \in (i + 1) .. 9
  <2>0. /\ i <= 1 => Later(2)
        /\ i <= 4 => Later(5)
        /\ i <= 6 => Later(7)
        /\ i <= 7 => Later(8)
    OBVIOUS
  <2>a. \A k : Later(k) => CloseOrder[k][2] \notin holds
    BY <1>1
  <2> HIDE DEF Later
  <2>1. i <= 1 => "zone" \notin holds
    BY <2>0, <2>a, CloseParts
  <2>2. i <= 4 => "control" \notin holds
    BY <2>0, <2>a, CloseParts
  <2>3. i <= 6 => "exit" \notin holds
    BY <2>0, <2>a, CloseParts
  <2>4. i <= 7 => "exit" \notin holds
    BY <2>0, <2>a, CloseParts
  <2> QED BY <1>1, <2>1, <2>2, <2>3, <2>4 DEF Leaving
<1>2. CASE \E j \in (i + 1) .. 9 :
              /\ CloseAfter(holds, i) = CloseOrder[j][1]
              /\ \A k \in (i + 1) .. 9 : CloseOrder[k][2] \in holds => j <= k
  <2>1. PICK j \in (i + 1) .. 9 :
              /\ CloseAfter(holds, i) = CloseOrder[j][1]
              /\ \A k \in (i + 1) .. 9 : CloseOrder[k][2] \in holds => j <= k
    BY <1>2
  <2>2. j \in {1, 2, 3, 4, 5, 6, 7, 8, 9}
    BY <2>1
  <2> DEFINE Later(k) == k \in (i + 1) .. 9
  <2>0. /\ i <= 1 => Later(2)
        /\ i <= 4 => Later(5)
        /\ i <= 6 => Later(7)
        /\ i <= 7 => Later(8)
    OBVIOUS
  <2>a. \A k : Later(k) /\ CloseOrder[k][2] \in holds => j <= k
    BY <2>1
  <2> HIDE DEF Later
  <2>3. CloseAfter(holds, i) \in Leaving
    BY <2>1, <2>2, CloseParts DEF Leaving
  <2>4. i <= 1 /\ "zone" \in holds => WillZone(CloseAfter(holds, i), holds)
    <3>1. i <= 1 /\ "zone" \in holds => j <= 2
      BY <2>0, <2>a, CloseParts
    <3>2. j <= 2 => j \in {1, 2}
      BY <2>2
    <3> QED BY <2>1, <3>1, <3>2, CloseParts DEF WillZone
  <2>5. i <= 4 /\ "control" \in holds => WillUnlink(CloseAfter(holds, i), holds)
    <3>1. i <= 4 /\ "control" \in holds => j <= 5
      BY <2>0, <2>a, CloseParts
    <3>2. j <= 5 => j \in {1, 2, 3, 4, 5}
      BY <2>2
    <3> QED BY <2>1, <3>1, <3>2, CloseParts DEF WillUnlink
  <2>6. i <= 6 /\ "exit" \in holds => WillRules(CloseAfter(holds, i), holds)
    <3>1. i <= 6 /\ "exit" \in holds => j <= 7
      BY <2>0, <2>a, CloseParts
    <3>2. j <= 7 => j \in {1, 2, 3, 4, 5, 6, 7}
      BY <2>2
    <3> QED BY <2>1, <3>1, <3>2, CloseParts DEF WillRules
  <2>7. i <= 7 /\ "exit" \in holds => WillTable(CloseAfter(holds, i), holds)
    <3>1. i <= 7 /\ "exit" \in holds => j <= 8
      BY <2>0, <2>a, CloseParts
    <3>2. j <= 8 => j \in {1, 2, 3, 4, 5, 6, 7, 8}
      BY <2>2
    <3> QED BY <2>1, <3>1, <3>2, CloseParts DEF WillTable
  <2> QED BY <2>3, <2>4, <2>5, <2>6, <2>7
<1> QED BY <1>1, <1>2, CloseAfterIs

LEMMA StartParts ==
    /\ Len(StartOrder) = 7 /\ DOMAIN StartOrder = 1 .. 7
    /\ \A k \in 1 .. 7 : FirstCall(StartOrder[k]) \in Onward
<1>1. StartOrder = <<"udp", "control", "tun", "exit", "stack", "socks", "http">>
  BY DEF StartOrder
<1>2. Len(StartOrder) = 7 /\ DOMAIN StartOrder = 1 .. 7
  BY <1>1
<1>3. \A k \in 1 .. 7 : StartOrder[k] \in
          {"udp", "control", "tun", "exit", "stack", "socks", "http"}
  BY <1>1
<1> QED BY <1>2, <1>3 DEF FirstCall, Onward

LEMMA AfterPartIs ==
    ASSUME NEW p \in Proc, NEW i \in 0 .. 7
    PROVE  AfterPart(p, i) \in Onward
<1> DEFINE rest == {j \in (i + 1) .. Len(StartOrder) : StartOrder[j] \in Uses[p]}
<1>1. rest \in SUBSET (1 .. 9) /\ rest \subseteq 1 .. 7
  BY StartParts
<1>2. AfterPart(p, i) =
         IF rest = {} THEN "run"
         ELSE FirstCall(StartOrder[CHOOSE j \in rest : \A k \in rest : j <= k])
  BY DEF AfterPart
<1> HIDE DEF rest
<1>3. CASE rest = {}
  BY <1>2, <1>3 DEF Onward
<1>4. CASE rest # {}
  <2>1. PICK j : j = CHOOSE m \in rest : \A k \in rest : m <= k
    OBVIOUS
  <2>2. j \in rest
    BY <1>1, <1>4, <2>1, Least
  <2> QED BY <1>1, <1>2, <1>4, <2>1, <2>2, StartParts
<1> QED BY <1>3, <1>4

LEMMA AfterIs ==
    ASSUME NEW p \in Proc,
           NEW part \in {"udp", "control", "tun", "exit", "stack", "socks", "http"}
    PROVE  After(p, part) \in Onward
<1>1. PICK i : i = CHOOSE k \in DOMAIN StartOrder : StartOrder[k] = part
  OBVIOUS
<1>2. \E k \in DOMAIN StartOrder : StartOrder[k] = part
  BY DEF StartOrder
<1>3. i \in DOMAIN StartOrder
  BY <1>1, <1>2
<1>4. i \in 0 .. 7
  BY <1>3, StartParts
<1>5. After(p, part) = AfterPart(p, i)
  BY <1>1 DEF After
<1> QED BY <1>4, <1>5, AfterPartIs
-----------------------------------------------------------------------------
(* A step of p to the call l, holding o, that takes or gives only what is   *)
(* its own, keeps the invariant.                                            *)

(* What the step may do to the exclusive descriptors.                       *)
Holds(p, l) ==
    /\ \A x \in Exclusive : \/ host'.held[x] = host.held[x]
                            \/ host'.held[x] \in {p, Nobody}
    /\ \A x \in Exclusive : host.held[x] = host'.held[x]
                            \/ host.held[x] \in {p, Nobody}
    /\ l \in WithTun => host'.held["tun"] = p
    /\ host'.dns => host'.held["tun"] # Nobody

(* What it may do to the rest of the host when all is orderly.              *)
Sockets(p, l, o) ==
    \A x \in Path : /\ host'.sock[x] \in {"none", p, host.sock[x]}
                    /\ host'.sock[x] = p => x = PathOf[p] /\ WillUnlink(l, o)
Zones(p, l, o) ==
    host'.zone => WillZone(l, o) \/ (host.zone /\ ~WillZone(pc[p], own[p]))
Tables(p, l, o) ==
    host'.table => WillTable(l, o) \/ (host.table /\ ~WillTable(pc[p], own[p]))
Rules(p, l, o) ==
    /\ \A q \in Proc \ {p} : host'.rules[q] = host.rules[q]
    /\ host'.rules[p] # {} => WillRules(l, o)
    /\ host'.orphans = host.orphans
Accounts(p, l, o) ==
    Sockets(p, l, o) /\ Zones(p, l, o) /\ Tables(p, l, o) /\ Rules(p, l, o)

LEMMA StepKeeps ==
    ASSUME HostInv, NEW p \in Proc, NEW l \in Call, NEW o \in SUBSET Part,
           pc' = [pc EXCEPT ![p] = l], own' = [own EXCEPT ![p] = o],
           host' \in Host, count' \in Counts, Orderly' => Orderly,
           Holds(p, l), Orderly' => Accounts(p, l, o)
    PROVE  HostInv'
<1> USE DEF HostInv, Sockets, Zones, Tables, Rules
<1>1. HostTypeOK'
  BY DEF HostTypeOK
<1>2. /\ pc'[p] = l /\ own'[p] = o /\ l # "off"
      /\ \A q \in Proc \ {p} : pc'[q] = pc[q] /\ own'[q] = own[q]
  BY DEF HostTypeOK, Call, Onward, Middle, Leaving
<1>3. Nobody \notin Proc /\ "none" \notin Proc /\ "stale" \notin Proc
  BY HostSetupAssumption
<1>4. /\ \A x \in Exclusive : /\ host.held[x] \in Proc \cup {Nobody}
                              /\ host'.held[x] \in Proc \cup {Nobody}
      /\ "tun" \in Exclusive
  BY DEF HostTypeOK, Host, Exclusive
<1>5. Descriptors'
  <2>1. \A x \in Exclusive : host'.held[x] # Nobody => pc'[host'.held[x]] # "off"
    BY <1>2, <1>3, <1>4 DEF Descriptors, Holds
  <2>2. \A q \in Proc : pc'[q] \in WithTun => host'.held["tun"] = q
    <3>1. SUFFICES ASSUME NEW q \in Proc \ {p}, pc'[q] \in WithTun
                   PROVE  host'.held["tun"] = q
      BY <1>2 DEF Holds
    <3>2. host.held["tun"] = q
      BY <1>2, <3>1 DEF Descriptors
    <3> QED BY <1>3, <1>4, <3>1, <3>2 DEF Holds
  <2> QED BY <2>1, <2>2 DEF Descriptors, Holds
<1>6. ASSUME Orderly' PROVE Accounted'
  <2>0. Accounted /\ Accounts(p, l, o)
    BY <1>6
  <2>1. \A x \in Path : \/ host'.sock[x] = "none"
                        \/ \E q \in Proc : /\ host'.sock[x] = q /\ x = PathOf[q]
                                           /\ WillUnlink(pc'[q], own'[q])
    <3>1. SUFFICES ASSUME NEW x \in Path, host'.sock[x] # "none"
                   PROVE  \E q \in Proc : /\ host'.sock[x] = q /\ x = PathOf[q]
                                          /\ WillUnlink(pc'[q], own'[q])
      OBVIOUS
    <3>2. CASE host'.sock[x] = p
      BY <1>2, <2>0, <3>2 DEF Accounts
    <3>3. CASE host'.sock[x] # p
      <4>1. host'.sock[x] = host.sock[x]
        BY <2>0, <3>1, <3>3 DEF Accounts
      <4>2. PICK q \in Proc : /\ host.sock[x] = q /\ x = PathOf[q]
                              /\ WillUnlink(pc[q], own[q])
        BY <2>0, <3>1, <4>1 DEF Accounted
      <4> QED BY <1>2, <3>3, <4>1, <4>2
    <3> QED BY <3>2, <3>3
  <2>2. host'.zone => \E q \in Proc : WillZone(pc'[q], own'[q])
    <3>1. CASE host'.zone /\ ~WillZone(l, o)
      <4>1. host.zone /\ ~WillZone(pc[p], own[p])
        BY <2>0, <3>1 DEF Accounts
      <4>2. PICK q \in Proc : WillZone(pc[q], own[q])
        BY <2>0, <4>1 DEF Accounted
      <4> QED BY <1>2, <4>1, <4>2
    <3> QED BY <1>2, <3>1
  <2>3. host'.table => \E q \in Proc : WillTable(pc'[q], own'[q])
    <3>1. CASE host'.table /\ ~WillTable(l, o)
      <4>1. host.table /\ ~WillTable(pc[p], own[p])
        BY <2>0, <3>1 DEF Accounts
      <4>2. PICK q \in Proc : WillTable(pc[q], own[q])
        BY <2>0, <4>1 DEF Accounted
      <4> QED BY <1>2, <4>1, <4>2
    <3> QED BY <1>2, <3>1
  <2>4. \A q \in Proc : host'.rules[q] # {} => WillRules(pc'[q], own'[q])
    BY <1>2, <2>0 DEF Accounts, Accounted
  <2>5. ~host'.orphans
    BY <2>0 DEF Accounts, Accounted
  <2> QED BY <2>1, <2>2, <2>3, <2>4, <2>5 DEF Accounted
<1> QED BY <1>1, <1>5, <1>6

(* The fields of the record of the host.                                    *)
LEMMA HostFields ==
    ASSUME NEW h \in Host
    PROVE  /\ h.held \in [Exclusive -> Proc \cup {Nobody}]
           /\ h.sock \in [Path -> Proc \cup {"none", "stale"}]
           /\ h.rules \in [Proc -> SUBSET Family]
           /\ h.dns \in BOOLEAN /\ h.zone \in BOOLEAN /\ h.table \in BOOLEAN
           /\ h.orphans \in BOOLEAN
BY DEF Host

LEMMA WithoutIs ==
    ASSUME host \in Host, NEW p \in Proc, NEW x \in Exclusive,
           host' = Without(p, x)
    PROVE  /\ host' \in Host
           /\ host'.held = [host.held EXCEPT ![x] =
                               IF host.held[x] = p THEN Nobody ELSE host.held[x]]
           /\ host'.dns = (host.dns /\ ~(x = "tun" /\ host.held[x] = p))
           /\ host'.sock = host.sock /\ host'.zone = host.zone
           /\ host'.table = host.table /\ host'.rules = host.rules
           /\ host'.orphans = host.orphans
BY DEF Host, Without

(* What a process would undo before a step it would undo after it.          *)
Keeps(p, l, o) ==
    /\ WillUnlink(pc[p], own[p]) => WillUnlink(l, o)
    /\ WillZone(pc[p], own[p]) => WillZone(l, o)
    /\ WillRules(pc[p], own[p]) => WillRules(l, o)
    /\ WillTable(pc[p], own[p]) => WillTable(l, o)

(* The calls of Start with nothing of their own to undo.                    *)
Plain == (Onward \cup Middle)
            \ {"chmod", "forward4", "forward6", "undo rules", "undo table"}

LEMMA StartKeeps ==
    ASSUME NEW p \in Proc, pc[p] \in Plain \cup {"off"},
           NEW l \in Onward \cup Middle, NEW o, own[p] \subseteq o
    PROVE  Keeps(p, l, o)
BY DEF Keeps, Plain, Onward, Middle, WillUnlink, WillZone, WillRules, WillTable

LEMMA GivingUpKeeps ==
    ASSUME NEW p \in Proc, pc[p] \in Plain, NEW l, l = CloseAfter(own[p], 0)
    PROVE  Keeps(p, l, own[p]) /\ l \in Leaving
<1>1. /\ l \in Leaving
      /\ "zone" \in own[p] => WillZone(l, own[p])
      /\ "control" \in own[p] => WillUnlink(l, own[p])
      /\ "exit" \in own[p] => WillRules(l, own[p]) /\ WillTable(l, own[p])
  BY CloseAfterUndoes
<1> QED
  BY <1>1 DEF Keeps, Plain, Onward, Middle, WillUnlink, WillZone, WillRules, WillTable

(* The parts of the host a step leaves alone.                               *)
LEMMA SameSockets ==
    ASSUME HostInv, Orderly, NEW p \in Proc, NEW l, NEW o,
           host'.sock = host.sock,
           WillUnlink(pc[p], own[p]) => WillUnlink(l, o)
    PROVE  Sockets(p, l, o)
<1>1. \A x \in Path : \/ host.sock[x] = "none"
                      \/ \E q \in Proc : /\ host.sock[x] = q /\ x = PathOf[q]
                                         /\ WillUnlink(pc[q], own[q])
  BY DEF HostInv, Accounted
<1> QED BY <1>1, HostSetupAssumption DEF Sockets

LEMMA SameZones ==
    ASSUME HostInv, Orderly, NEW p \in Proc, NEW l, NEW o,
           host'.zone = host.zone,
           WillZone(pc[p], own[p]) => WillZone(l, o)
    PROVE  Zones(p, l, o)
BY DEF Zones

LEMMA SameTables ==
    ASSUME HostInv, Orderly, NEW p \in Proc, NEW l, NEW o,
           host'.table = host.table,
           WillTable(pc[p], own[p]) => WillTable(l, o)
    PROVE  Tables(p, l, o)
BY DEF Tables

LEMMA SameRules ==
    ASSUME HostInv, Orderly, NEW p \in Proc, NEW l, NEW o,
           host'.rules = host.rules, host'.orphans = host.orphans,
           WillRules(pc[p], own[p]) => WillRules(l, o)
    PROVE  Rules(p, l, o)
BY DEF HostInv, Accounted, Rules

LEMMA SameHolds ==
    ASSUME HostInv, NEW p \in Proc, NEW l,
           host'.held = host.held, host'.dns = host.dns,
           l \in WithTun => pc[p] \in WithTun
    PROVE  Holds(p, l)
BY DEF HostInv, Descriptors, Holds

(* Steps that leave the host as it is.                                      *)
LEMMA HostStays ==
    ASSUME HostInv, NEW p \in Proc, NEW l \in Call, NEW o \in SUBSET Part,
           pc' = [pc EXCEPT ![p] = l], own' = [own EXCEPT ![p] = o],
           host' = host, count' \in Counts, Orderly' => Orderly,
           l \in WithTun => pc[p] \in WithTun,
           Orderly' => Keeps(p, l, o)
    PROVE  HostInv'
<1>1. host' \in Host
  BY DEF HostInv, HostTypeOK
<1>2. Holds(p, l)
  BY SameHolds
<1>3. Orderly' => Accounts(p, l, o)
  BY SameSockets, SameZones, SameTables, SameRules DEF Keeps, Accounts
<1> QED BY <1>1, <1>2, <1>3, StepKeeps

LEMMA Counting ==
    ASSUME count \in Counts
    PROVE  /\ Fault => count' \in Counts /\ (Orderly' => Orderly)
           /\ Slip => count' \in Counts /\ ~Orderly'
           /\ count' = count => count' \in Counts /\ (Orderly' => Orderly)
<1>1. /\ Fault => count' = [count EXCEPT !.fault = @ + 1]
      /\ Slip => count' = [count EXCEPT !.slip = @ + 1]
  BY DEF Fault, Slip, Counted
<1>2. /\ [count EXCEPT !.fault = @ + 1] \in Counts
      /\ [count EXCEPT !.fault = @ + 1].slip = count.slip
      /\ [count EXCEPT !.fault = @ + 1].death = count.death
      /\ [count EXCEPT !.slip = @ + 1] \in Counts
      /\ [count EXCEPT !.slip = @ + 1].slip = count.slip + 1
      /\ count.slip \in Nat
  BY DEF Counts
<1>3. count.slip + 1 # 0
  BY <1>2
<1> QED BY <1>1, <1>2, <1>3 DEF Orderly

LEMMA Typed ==
    ASSUME HostInv, NEW p \in Proc
    PROVE  /\ pc[p] \in Call \cup {"off"} /\ own[p] \in SUBSET Part
           /\ host \in Host /\ count \in Counts
BY DEF HostInv, HostTypeOK

LEMMA BeginInv ==
    ASSUME HostInv, NEW p \in Proc, Begin(p)
    PROVE  HostInv'
<1>1. PICK l \in Onward : l = AfterPart(p, 0)
  BY AfterPartIs
<1>2. /\ pc[p] = "off" /\ pc' = [pc EXCEPT ![p] = l]
      /\ own' = own /\ host' = host /\ count' = count
  BY <1>1 DEF Begin
<1>3. own' = [own EXCEPT ![p] = own[p]]
  BY <1>2 DEF HostInv, HostTypeOK
<1>4. Keeps(p, l, own[p])
  BY <1>2, StartKeeps
<1>5. l \in Call /\ l \notin WithTun
  BY DEF Call, Onward, WithTun
<1> QED BY <1>2, <1>3, <1>4, <1>5, Typed, Counting, HostStays

(* Every step of Start before which p has nothing of its own to undo, and   *)
(* after which the host is as it was.                                       *)
LEMMA GivesUpInv ==
    ASSUME HostInv, NEW p \in Proc, Taken(p) \/ CallFails(p) \/ DialLive(p)
    PROVE  HostInv'
<1>1. pc[p] \in Plain
  BY DEF Taken, CallFails, DialLive, Plain, Onward, Middle
<1>2. PICK l : l = CloseAfter(own[p], 0)
  OBVIOUS
<1>3. /\ pc' = [pc EXCEPT ![p] = l] /\ own' = [own EXCEPT ![p] = own[p]]
      /\ host' = host /\ (count' = count \/ Fault)
  BY <1>2 DEF Taken, CallFails, DialLive, GivesUp, Goes
<1>4. Keeps(p, l, own[p]) /\ l \in Leaving
  BY <1>1, <1>2, GivingUpKeeps
<1>5. l \in Call /\ l \notin WithTun
  BY <1>4 DEF Call, Leaving, WithTun
<1> QED BY <1>3, <1>4, <1>5, Typed, Counting, HostStays

LEMMA QuietInv ==
    ASSUME HostInv, NEW p \in Proc,
           Inner(p) \/ Stat(p) \/ DialStale(p) \/ DialRefused(p) \/ Configure(p)
    PROVE  HostInv'
<1>1. pc[p] \in Plain
  BY DEF Inner, Stat, DialStale, DialRefused, Configure, At, Plain, Onward, Middle
<1>2. PICK l : /\ l \in Onward \cup Middle
               /\ pc' = [pc EXCEPT ![p] = l]
               /\ l \in WithTun => pc[p] \in WithTun
  <2>1. CASE Inner(p)
    <3>1. PICK part \in {"stack", "http"} : part = pc[p]
      BY <2>1 DEF Inner
    <3>2. After(p, part) \in Onward
      BY AfterIs
    <3>3. pc' = [pc EXCEPT ![p] = After(p, part)]
      BY <2>1, <3>1 DEF Inner, Goes
    <3> QED BY <3>2, <3>3 DEF Onward, WithTun
  <2>2. CASE Stat(p)
    <3>1. PICK l : l = IF Socket(p) = "none" THEN "bind" ELSE "dial"
      OBVIOUS
    <3>2. pc' = [pc EXCEPT ![p] = l]
      BY <2>2, <3>1 DEF Stat, At, Goes
    <3>3. l \in Middle /\ l \notin WithTun
      BY <3>1 DEF Middle, WithTun
    <3> QED BY <3>2, <3>3
  <2>3. CASE DialStale(p) \/ DialRefused(p)
    <3>1. PICK l \in {"remove", "remove live"} : pc' = [pc EXCEPT ![p] = l]
      BY <2>3 DEF DialStale, DialRefused, At, Goes
    <3>2. l \in Onward \cup Middle /\ l \notin WithTun
      BY DEF Middle, WithTun
    <3> QED BY <3>1, <3>2
  <2>4. CASE Configure(p)
    BY <2>4 DEF Configure, At, Goes, Middle, WithTun
  <2> QED BY <2>1, <2>2, <2>3, <2>4
<1>3. /\ own' = [own EXCEPT ![p] = own[p]] /\ host' = host
      /\ (count' = count \/ Fault)
  BY DEF Inner, Stat, DialStale, DialRefused, Configure, At, Goes
<1>4. Keeps(p, l, own[p]) /\ l \in Call
  BY <1>1, <1>2, StartKeeps DEF Call
<1> QED BY <1>2, <1>3, <1>4, Typed, Counting, HostStays

LEMMA ListenInv ==
    ASSUME HostInv, NEW p \in Proc, Listen(p)
    PROVE  HostInv'
<1>1. PICK x \in {"udp", "socks"} : x = pc[p]
  BY DEF Listen
<1>2. PICK l \in Onward : l = After(p, x)
  BY AfterIs
<1>3. PICK o : o = own[p] \cup {x}
  OBVIOUS
<1>4. /\ pc' = [pc EXCEPT ![p] = l] /\ own' = [own EXCEPT ![p] = o]
      /\ host' = [host EXCEPT !.held[x] = p] /\ count' = count
      /\ host.held[x] = Nobody
  BY <1>1, <1>2, <1>3 DEF Listen, Goes
<1>5. x \in Exclusive /\ x # "tun" /\ "tun" \in Exclusive
  BY DEF Exclusive
<1>6. /\ host' \in Host /\ host'.held = [host.held EXCEPT ![x] = p]
      /\ host'.sock = host.sock /\ host'.dns = host.dns /\ host'.zone = host.zone
      /\ host'.table = host.table /\ host'.rules = host.rules
      /\ host'.orphans = host.orphans
  <2>1. host \in Host /\ p \in Proc \cup {Nobody}
    BY Typed
  <2>2. host' = [host EXCEPT !.held[x] = p]
    BY <1>4
  <2> QED BY <1>5, <2>1, <2>2, HostFields DEF Host
<1>7. host.held \in [Exclusive -> Proc \cup {Nobody}]
  BY Typed, HostFields
<1>8. l \in Call /\ l \notin WithTun /\ o \in SUBSET Part
  BY <1>3, Typed DEF Call, Onward, WithTun, Part
<1>9. Holds(p, l)
  BY <1>4, <1>5, <1>6, <1>7, <1>8 DEF HostInv, Descriptors, Holds
<1>10. Keeps(p, l, o)
  BY <1>1, <1>3, StartKeeps DEF Plain, Onward, Middle
<1>11. Orderly' => Accounts(p, l, o)
  BY <1>4, <1>6, <1>10, Typed, Counting,
     SameSockets, SameZones, SameTables, SameRules DEF Keeps, Accounts
<1> QED BY <1>4, <1>6, <1>8, <1>9, <1>11, Typed, Counting, StepKeeps

(* The control socket.                                                      *)
LEMMA FileIs ==
    ASSUME HostInv, NEW p \in Proc, NEW v \in Proc \cup {"none"},
           host' = File(p, v)
    PROVE  /\ host' \in Host /\ host'.sock = [host.sock EXCEPT ![PathOf[p]] = v]
           /\ host'.held = host.held /\ host'.dns = host.dns
           /\ host'.zone = host.zone /\ host'.table = host.table
           /\ host'.rules = host.rules /\ host'.orphans = host.orphans
<1>1. PathOf[p] \in Path /\ host \in Host
  BY HostSetupAssumption, Typed
<1>2. host' = [host EXCEPT !.sock[PathOf[p]] = v]
  BY DEF File
<1> QED BY <1>1, <1>2 DEF Host

LEMMA UnlinkedSockets ==
    ASSUME HostInv, Orderly, NEW p \in Proc, NEW l, NEW o,
           host' = File(p, "none")
    PROVE  Sockets(p, l, o)
<1>1. /\ host'.sock = [host.sock EXCEPT ![PathOf[p]] = "none"]
      /\ host.sock \in [Path -> Proc \cup {"none", "stale"}]
  BY FileIs, Typed, HostFields
<1>2. "none" \notin Proc
  BY HostSetupAssumption
<1>3. \A x \in Path : host.sock[x] = p => x = PathOf[p]
  BY <1>2 DEF HostInv, Accounted
<1> QED BY <1>1, <1>2, <1>3 DEF Sockets

LEMMA RemoveStaleInv ==
    ASSUME HostInv, NEW p \in Proc, RemoveStale(p)
    PROVE  HostInv'
<1>1. /\ pc[p] \in {"remove", "remove live"} /\ pc' = [pc EXCEPT ![p] = "bind"]
      /\ own' = [own EXCEPT ![p] = own[p]]
      /\ host' = File(p, "none") /\ count' = count
  BY DEF RemoveStale, At, Goes
<1>2. "bind" \in Call /\ "bind" \notin WithTun /\ "bind" \in Onward \cup Middle
  BY DEF Call, Middle, WithTun
<1>3. Keeps(p, "bind", own[p])
  BY <1>1, <1>2, StartKeeps DEF Plain, Middle
<1>4. Holds(p, "bind")
  BY <1>1, <1>2, FileIs, SameHolds
<1>5. Orderly' => Accounts(p, "bind", own[p])
  BY <1>1, <1>3, Typed, Counting, FileIs, UnlinkedSockets,
     SameZones, SameTables, SameRules DEF Keeps, Accounts
<1> QED BY <1>1, <1>2, <1>4, <1>5, FileIs, Typed, Counting, StepKeeps

LEMMA BindInv ==
    ASSUME HostInv, NEW p \in Proc, Bind(p)
    PROVE  HostInv'
<1>1. CASE host' = host
  <2>1. PICK l : l = CloseAfter(own[p], 0)
    OBVIOUS
  <2>2. /\ pc[p] = "bind" /\ pc' = [pc EXCEPT ![p] = l]
        /\ own' = [own EXCEPT ![p] = own[p]] /\ count' = count
    <3>1. Socket(p) # "none"
      <4>1. ASSUME Socket(p) = "none", host' = File(p, p) PROVE FALSE
        <5>1. host'.sock = [host.sock EXCEPT ![PathOf[p]] = p]
          BY <4>1, FileIs
        <5>2. PathOf[p] \in Path /\ host.sock \in [Path -> Proc \cup {"none", "stale"}]
          BY HostSetupAssumption, Typed, HostFields
        <5>3. host.sock[PathOf[p]] = p
          BY <5>1, <5>2, <1>1
        <5> QED BY <4>1, <5>3, HostSetupAssumption DEF Socket
      <4> QED BY <4>1 DEF Bind
    <3> QED BY <3>1, <2>1 DEF Bind, GivesUp, Goes
  <2>3. Keeps(p, l, own[p]) /\ l \in Leaving
    BY <2>1, <2>2, GivingUpKeeps DEF Plain, Middle
  <2>4. l \in Call /\ l \notin WithTun
    BY <2>3 DEF Call, Leaving, WithTun
  <2> QED BY <1>1, <2>2, <2>3, <2>4, Typed, Counting, HostStays
<1>2. CASE /\ Socket(p) = "none" /\ host' = File(p, p) /\ Goes(p, "chmod", own[p])
  <2>1. /\ pc[p] = "bind" /\ pc' = [pc EXCEPT ![p] = "chmod"]
        /\ own' = [own EXCEPT ![p] = own[p]] /\ count' = count
    BY <1>2 DEF Bind, Goes
  <2>2. "chmod" \in Call /\ "chmod" \notin WithTun /\ "chmod" \in Onward \cup Middle
    BY DEF Call, Middle, WithTun
  <2>3. Keeps(p, "chmod", own[p])
    BY <2>1, <2>2, StartKeeps DEF Plain, Middle
  <2>4. Holds(p, "chmod")
    BY <1>2, <2>2, FileIs, SameHolds
  <2>5. Orderly => Sockets(p, "chmod", own[p])
    <3>1. /\ host'.sock = [host.sock EXCEPT ![PathOf[p]] = p]
          /\ host.sock \in [Path -> Proc \cup {"none", "stale"}]
      BY <1>2, FileIs, Typed, HostFields
    <3>2. Orderly => \A x \in Path : host.sock[x] = p => x = PathOf[p]
      BY HostSetupAssumption DEF HostInv, Accounted
    <3>3. WillUnlink("chmod", own[p])
      BY DEF WillUnlink
    <3> QED BY <3>1, <3>2, <3>3 DEF Sockets
  <2>6. Orderly' => Accounts(p, "chmod", own[p])
    BY <1>2, <2>1, <2>3, <2>5, Typed, Counting, FileIs,
       SameZones, SameTables, SameRules DEF Keeps, Accounts
  <2> QED BY <1>2, <2>1, <2>2, <2>4, <2>6, FileIs, Typed, Counting, StepKeeps
<1> QED BY <1>1, <1>2 DEF Bind

LEMMA ChmodInv ==
    ASSUME HostInv, NEW p \in Proc, Chmod(p)
    PROVE  HostInv'
<1>1. PICK l \in Onward : l = After(p, "control")
  BY AfterIs
<1>2. PICK o : o = own[p] \cup {"control"}
  OBVIOUS
<1>3. /\ pc[p] = "chmod" /\ pc' = [pc EXCEPT ![p] = l]
      /\ own' = [own EXCEPT ![p] = o] /\ host' = host /\ count' = count
  BY <1>1, <1>2 DEF Chmod, Goes
<1>4. l \in Call /\ l \notin WithTun /\ o \in SUBSET Part
  BY <1>2, Typed DEF Call, Onward, WithTun, Part
<1>5. Keeps(p, l, o)
  BY <1>2, <1>3 DEF Keeps, Onward, WillUnlink, WillZone, WillRules, WillTable
<1> QED BY <1>3, <1>4, <1>5, Typed, Counting, HostStays

(* Giving up at a call other than the plain ones.                           *)
LEMMA LeavingKeeps ==
    ASSUME NEW p \in Proc, NEW l, l = CloseAfter(own[p], 0)
    PROVE  /\ l \in Leaving /\ l \in Call /\ l \notin WithTun
           /\ WillZone(pc[p], own[p]) => WillZone(l, own[p])
           /\ pc[p] # "chmod" /\ WillUnlink(pc[p], own[p]) => WillUnlink(l, own[p])
           /\ /\ pc[p] \notin {"forward6", "undo rules"}
              /\ WillRules(pc[p], own[p])
              => WillRules(l, own[p])
           /\ /\ pc[p] \notin {"forward4", "forward6", "undo rules", "undo table"}
              /\ WillTable(pc[p], own[p])
              => WillTable(l, own[p])
<1>1. /\ l \in Leaving
      /\ "zone" \in own[p] => WillZone(l, own[p])
      /\ "control" \in own[p] => WillUnlink(l, own[p])
      /\ "exit" \in own[p] => WillRules(l, own[p]) /\ WillTable(l, own[p])
  BY CloseAfterUndoes
<1> QED
  BY <1>1 DEF Call, Leaving, WithTun, WillUnlink, WillZone, WillRules, WillTable

LEMMA ChmodFailsInv ==
    ASSUME HostInv, NEW p \in Proc, ChmodFails(p)
    PROVE  HostInv'
<1>1. PICK l : l = CloseAfter(own[p], 0)
  OBVIOUS
<1>2. /\ pc[p] = "chmod" /\ pc' = [pc EXCEPT ![p] = l]
      /\ own' = [own EXCEPT ![p] = own[p]] /\ host' = File(p, "none")
      /\ count' = count \/ Fault
  BY <1>1 DEF ChmodFails, GivesUp, Goes
<1>3. Holds(p, l)
  BY <1>1, <1>2, LeavingKeeps, FileIs, SameHolds
<1>4. Orderly' => Accounts(p, l, own[p])
  BY <1>1, <1>2, LeavingKeeps, Typed, Counting, FileIs, UnlinkedSockets,
     SameZones, SameTables, SameRules DEF Accounts
<1> QED BY <1>1, <1>2, <1>3, <1>4, LeavingKeeps, FileIs, Typed, Counting, StepKeeps

(* The TUN.                                                                 *)
LEMMA OpenInv ==
    ASSUME HostInv, NEW p \in Proc, Open(p)
    PROVE  HostInv'
<1>1. /\ pc[p] = "open" /\ pc' = [pc EXCEPT ![p] = "configure"]
      /\ own' = [own EXCEPT ![p] = own[p]] /\ host.held["tun"] = Nobody
      /\ host' = [host EXCEPT !.held["tun"] = p] /\ count' = count
  BY DEF Open, At, Goes
<1>2. "configure" \in Call /\ "configure" \in Onward \cup Middle /\ "tun" \in Exclusive
  BY DEF Call, Middle, Exclusive
<1>3. host \in Host /\ host.held \in [Exclusive -> Proc \cup {Nobody}]
  BY Typed, HostFields
<1>4. /\ host' \in Host /\ host'.held = [host.held EXCEPT !["tun"] = p]
      /\ host'.sock = host.sock /\ host'.dns = host.dns /\ host'.zone = host.zone
      /\ host'.table = host.table /\ host'.rules = host.rules
      /\ host'.orphans = host.orphans
  BY <1>1, <1>2, <1>3 DEF Host
<1>5. Holds(p, "configure")
  BY <1>1, <1>2, <1>3, <1>4 DEF HostInv, Descriptors, Holds
<1>6. Keeps(p, "configure", own[p])
  BY <1>1, <1>2, StartKeeps DEF Plain, Onward
<1>7. Orderly' => Accounts(p, "configure", own[p])
  BY <1>1, <1>4, <1>6, Typed, Counting,
     SameSockets, SameZones, SameTables, SameRules DEF Keeps, Accounts
<1> QED BY <1>1, <1>2, <1>4, <1>5, <1>7, Typed, Counting, StepKeeps

LEMMA WithoutHolds ==
    ASSUME HostInv, NEW p \in Proc, NEW x \in Exclusive, NEW l,
           host' = Without(p, x), l \notin WithTun
    PROVE  Holds(p, l)
<1>1. /\ host'.held = [host.held EXCEPT ![x] =
                           IF host.held[x] = p THEN Nobody ELSE host.held[x]]
      /\ host'.dns = (host.dns /\ ~(x = "tun" /\ host.held[x] = p))
  BY Typed, WithoutIs
<1>2. host.held \in [Exclusive -> Proc \cup {Nobody}] /\ "tun" \in Exclusive
  BY Typed, HostFields DEF Exclusive
<1>3. \A y \in Exclusive : \/ host'.held[y] = host.held[y]
                           \/ host.held[y] = p /\ host'.held[y] = Nobody /\ y = x
  BY <1>1, <1>2
<1>4. host'.dns => host'.held["tun"] # Nobody
  <2>1. SUFFICES ASSUME host'.dns PROVE host'.held["tun"] # Nobody
    OBVIOUS
  <2>2. host.dns /\ ~(x = "tun" /\ host.held[x] = p)
    BY <1>1, <2>1
  <2>3. host.held["tun"] # Nobody
    BY <2>2 DEF HostInv, Descriptors
  <2> QED BY <1>2, <1>3, <2>2, <2>3
<1> QED BY <1>3, <1>4 DEF Holds

LEMMA ConfigureFailsInv ==
    ASSUME HostInv, NEW p \in Proc, ConfigureFails(p)
    PROVE  HostInv'
<1>1. PICK l : l = CloseAfter(own[p], 0)
  OBVIOUS
<1>2. /\ pc[p] = "configure" /\ pc' = [pc EXCEPT ![p] = l]
      /\ own' = [own EXCEPT ![p] = own[p]] /\ host' = Without(p, "tun")
      /\ Fault
  BY <1>1 DEF ConfigureFails, GivesUp, Goes
<1>3. /\ host' \in Host /\ "tun" \in Exclusive
      /\ host'.sock = host.sock /\ host'.zone = host.zone
      /\ host'.table = host.table /\ host'.rules = host.rules
      /\ host'.orphans = host.orphans
  <2>1. "tun" \in Exclusive /\ host \in Host
    BY Typed DEF Exclusive
  <2>2. host' = Without(p, "tun")
    BY <1>2
  <2>3. PICK x \in Exclusive : x = "tun"
    BY <2>1
  <2> QED BY <2>1, <2>2, <2>3, WithoutIs
<1>4. Holds(p, l)
  BY <1>1, <1>2, <1>3, LeavingKeeps, WithoutHolds
<1>5. Orderly' => Accounts(p, l, own[p])
  BY <1>1, <1>2, <1>3, LeavingKeeps, Typed, Counting,
     SameSockets, SameZones, SameTables, SameRules DEF Accounts
<1> QED BY <1>1, <1>2, <1>3, <1>4, <1>5, LeavingKeeps, Typed, Counting, StepKeeps

LEMMA StripInv ==
    ASSUME HostInv, NEW p \in Proc, StripHopscotchHosts(p)
    PROVE  HostInv'
<1>1. /\ pc[p] = "strip" /\ pc' = [pc EXCEPT ![p] = "dns"]
      /\ own' = [own EXCEPT ![p] = own[p]]
      /\ host' = [host EXCEPT !.hosts = FALSE] /\ count' = count
  BY DEF StripHopscotchHosts, At, Goes
<1>2. "dns" \in Call /\ "dns" \in Onward \cup Middle
  BY DEF Call, Middle
<1>3. host \in Host
  BY Typed
<1>4. /\ host' \in Host /\ host'.held = host.held /\ host'.dns = host.dns
      /\ host'.sock = host.sock /\ host'.zone = host.zone
      /\ host'.table = host.table /\ host'.rules = host.rules
      /\ host'.orphans = host.orphans
  BY <1>1, <1>3 DEF Host
<1>5. Holds(p, "dns")
  BY <1>1, <1>4, SameHolds DEF WithTun
<1>6. Keeps(p, "dns", own[p])
  BY <1>1, <1>2, StartKeeps DEF Plain, Middle
<1>7. Orderly' => Accounts(p, "dns", own[p])
  BY <1>1, <1>4, <1>6, Typed, Counting,
     SameSockets, SameZones, SameTables, SameRules DEF Keeps, Accounts
<1> QED BY <1>1, <1>2, <1>4, <1>5, <1>7, Typed, Counting, StepKeeps

LEMMA InstallDNSInv ==
    ASSUME HostInv, NEW p \in Proc, InstallDNS(p)
    PROVE  HostInv'
<1>1. /\ pc[p] = "dns" /\ pc' = [pc EXCEPT ![p] = "zone"]
      /\ own' = [own EXCEPT ![p] = own[p]]
      /\ host' = [host EXCEPT !.dns = TRUE] /\ count' = count
  BY DEF InstallDNS, At, Goes
<1>2. "zone" \in Call /\ "zone" \in Onward \cup Middle
  BY DEF Call, Middle
<1>3. host \in Host
  BY Typed
<1>4. /\ host' \in Host /\ host'.held = host.held
      /\ host'.sock = host.sock /\ host'.zone = host.zone
      /\ host'.table = host.table /\ host'.rules = host.rules
      /\ host'.orphans = host.orphans
  BY <1>1, <1>3 DEF Host
<1>5. host.held["tun"] = p /\ p # Nobody
  BY <1>1, HostSetupAssumption DEF HostInv, Descriptors, WithTun
<1>6. Holds(p, "zone")
  BY <1>4, <1>5 DEF Holds
<1>7. Keeps(p, "zone", own[p])
  BY <1>1, <1>2, StartKeeps DEF Plain, Middle
<1>8. Orderly' => Accounts(p, "zone", own[p])
  BY <1>1, <1>4, <1>7, Typed, Counting,
     SameSockets, SameZones, SameTables, SameRules DEF Keeps, Accounts
<1> QED BY <1>1, <1>2, <1>4, <1>6, <1>8, Typed, Counting, StepKeeps

LEMMA ZoneInv ==
    ASSUME HostInv, NEW p \in Proc, Zone(p)
    PROVE  HostInv'
<1>1. PICK l \in Onward : l = After(p, "tun")
  BY AfterIs
<1>2. l \in Call /\ l \notin WithTun /\ l \in Onward \cup Middle
  BY DEF Call, Onward, WithTun
<1>3. CASE /\ host' = host
           /\ Goes(p, After(p, "tun"), own[p] \cup {"tun"})
  <2>1. PICK o : o = own[p] \cup {"tun"}
    OBVIOUS
  <2>2. /\ pc[p] = "zone" /\ pc' = [pc EXCEPT ![p] = l]
        /\ own' = [own EXCEPT ![p] = o] /\ host' = host /\ count' = count
    BY <1>1, <1>3, <2>1 DEF Zone, Goes
  <2>3. o \in SUBSET Part
    BY <2>1, Typed DEF Part
  <2>4. Keeps(p, l, o)
    BY <1>2, <2>1, <2>2, StartKeeps DEF Plain, Middle
  <2> QED BY <1>2, <2>2, <2>3, <2>4, Typed, Counting, HostStays
<1>4. CASE /\ host' = [host EXCEPT !.zone = TRUE]
           /\ Goes(p, After(p, "tun"), own[p] \cup {"tun", "zone"})
  <2>1. PICK o : o = own[p] \cup {"tun", "zone"}
    OBVIOUS
  <2>2. /\ pc[p] = "zone" /\ pc' = [pc EXCEPT ![p] = l]
        /\ own' = [own EXCEPT ![p] = o] /\ count' = count
    BY <1>1, <1>4, <2>1 DEF Zone, Goes
  <2>3. o \in SUBSET Part
    BY <2>1, Typed DEF Part
  <2>4. Keeps(p, l, o)
    BY <1>2, <2>1, <2>2, StartKeeps DEF Plain, Middle
  <2>5. host \in Host
    BY Typed
  <2>6. /\ host' \in Host /\ host'.held = host.held /\ host'.dns = host.dns
        /\ host'.sock = host.sock
        /\ host'.table = host.table /\ host'.rules = host.rules
        /\ host'.orphans = host.orphans
    BY <1>4, <2>5 DEF Host
  <2>7. Holds(p, l)
    BY <1>2, <2>6, SameHolds
  <2>8. Zones(p, l, o)
    BY <2>1 DEF Zones, WillZone, Onward
  <2>9. Orderly' => Accounts(p, l, o)
    BY <2>2, <2>4, <2>6, <2>8, Typed, Counting,
       SameSockets, SameTables, SameRules DEF Keeps, Accounts
  <2> QED BY <1>2, <2>2, <2>3, <2>6, <2>7, <2>9, Typed, Counting, StepKeeps
<1> QED BY <1>3, <1>4 DEF Zone

(* The NAT of an exit.                                                      *)
LEMMA SysctlInv ==
    ASSUME HostInv, NEW p \in Proc, Sysctl(p)
    PROVE  HostInv'
<1>1. /\ pc[p] = "sysctl" /\ pc' = [pc EXCEPT ![p] = "reset"]
      /\ own' = [own EXCEPT ![p] = own[p]]
      /\ host' = [host EXCEPT !.forwarding = TRUE] /\ count' = count
  BY DEF Sysctl, At, Goes
<1>2. "reset" \in Call /\ "reset" \in Onward \cup Middle /\ "reset" \notin WithTun
  BY DEF Call, Middle, WithTun
<1>3. host \in Host
  BY Typed
<1>4. /\ host' \in Host /\ host'.held = host.held /\ host'.dns = host.dns
      /\ host'.sock = host.sock /\ host'.zone = host.zone
      /\ host'.table = host.table /\ host'.rules = host.rules
      /\ host'.orphans = host.orphans
  BY <1>1, <1>3 DEF Host
<1>5. Holds(p, "reset")
  BY <1>2, <1>4, SameHolds
<1>6. Keeps(p, "reset", own[p])
  BY <1>1, <1>2, StartKeeps DEF Plain, Onward
<1>7. Orderly' => Accounts(p, "reset", own[p])
  BY <1>1, <1>4, <1>6, Typed, Counting,
     SameSockets, SameZones, SameTables, SameRules DEF Keeps, Accounts
<1> QED BY <1>1, <1>2, <1>4, <1>5, <1>7, Typed, Counting, StepKeeps

LEMMA TableIs ==
    ASSUME HostInv, NEW v \in BOOLEAN, host' = [host EXCEPT !.table = v]
    PROVE  /\ host' \in Host /\ host'.held = host.held /\ host'.dns = host.dns
           /\ host'.sock = host.sock /\ host'.zone = host.zone
           /\ host'.rules = host.rules /\ host'.orphans = host.orphans
           /\ host'.table = v
<1>1. host \in Host
  BY DEF HostInv, HostTypeOK
<1> QED BY <1>1 DEF Host

LEMMA ResetInv ==
    ASSUME HostInv, NEW p \in Proc, Reset(p)
    PROVE  HostInv'
<1>1. /\ pc[p] = "reset" /\ pc' = [pc EXCEPT ![p] = "nft"]
      /\ own' = [own EXCEPT ![p] = own[p]]
      /\ host' = [host EXCEPT !.table = FALSE] /\ count' = count
  BY DEF Reset, At, Goes, DeleteExitNFTTable
<1>2. "nft" \in Call /\ "nft" \in Onward \cup Middle /\ "nft" \notin WithTun
  BY DEF Call, Middle, WithTun
<1>3. Holds(p, "nft")
  BY <1>1, <1>2, TableIs, SameHolds
<1>4. Keeps(p, "nft", own[p])
  BY <1>1, <1>2, StartKeeps DEF Plain, Middle
<1>5. Tables(p, "nft", own[p])
  BY <1>1, TableIs DEF Tables
<1>6. Orderly' => Accounts(p, "nft", own[p])
  BY <1>1, <1>4, <1>5, TableIs, Typed, Counting,
     SameSockets, SameZones, SameRules DEF Keeps, Accounts
<1> QED BY <1>1, <1>2, <1>3, <1>6, TableIs, Typed, Counting, StepKeeps

LEMMA InstallExitNFTInv ==
    ASSUME HostInv, NEW p \in Proc, InstallExitNFT(p)
    PROVE  HostInv'
<1>1. /\ pc[p] = "nft" /\ pc' = [pc EXCEPT ![p] = "forward4"]
      /\ own' = [own EXCEPT ![p] = own[p]]
      /\ host' = [host EXCEPT !.table = TRUE] /\ count' = count
  BY DEF InstallExitNFT, At, Goes
<1>2. /\ "forward4" \in Call /\ "forward4" \in Onward \cup Middle
      /\ "forward4" \notin WithTun
  BY DEF Call, Middle, WithTun
<1>3. Holds(p, "forward4")
  BY <1>1, <1>2, TableIs, SameHolds
<1>4. Keeps(p, "forward4", own[p])
  BY <1>1, <1>2, StartKeeps DEF Plain, Middle
<1>5. Tables(p, "forward4", own[p])
  BY DEF Tables, WillTable
<1>6. Orderly' => Accounts(p, "forward4", own[p])
  BY <1>1, <1>4, <1>5, TableIs, Typed, Counting,
     SameSockets, SameZones, SameRules DEF Keeps, Accounts
<1> QED BY <1>1, <1>2, <1>3, <1>6, TableIs, Typed, Counting, StepKeeps

(* An assignment to p's own rules.                                          *)
LEMMA RulesIs ==
    ASSUME HostInv, NEW p \in Proc, NEW v \in SUBSET Family,
           host' = [host EXCEPT !.rules[p] = v]
    PROVE  /\ host' \in Host /\ host'.held = host.held /\ host'.dns = host.dns
           /\ host'.sock = host.sock /\ host'.zone = host.zone
           /\ host'.table = host.table /\ host'.orphans = host.orphans
           /\ host'.rules[p] = v
           /\ \A q \in Proc \ {p} : host'.rules[q] = host.rules[q]
<1>1. host \in Host /\ host.rules \in [Proc -> SUBSET Family]
  BY Typed, HostFields
<1>2. /\ host' \in Host /\ host'.held = host.held /\ host'.dns = host.dns
      /\ host'.sock = host.sock /\ host'.zone = host.zone
      /\ host'.table = host.table /\ host'.orphans = host.orphans
      /\ host'.rules = [host.rules EXCEPT ![p] = v]
  BY <1>1 DEF Host
<1> QED BY <1>1, <1>2

LEMMA OwnRules ==
    ASSUME HostInv, NEW p \in Proc, NEW l, NEW o, NEW v \in SUBSET Family,
           host' = [host EXCEPT !.rules[p] = v],
           v # {} => WillRules(l, o)
    PROVE  Rules(p, l, o)
BY RulesIs DEF Rules

LEMMA InsertForward4Inv ==
    ASSUME HostInv, NEW p \in Proc, InsertForward4(p)
    PROVE  HostInv'
<1>1. PICK v : v = {4}
  OBVIOUS
<1>2. /\ pc[p] = "forward4" /\ pc' = [pc EXCEPT ![p] = "forward6"]
      /\ own' = [own EXCEPT ![p] = own[p]]
      /\ host' = [host EXCEPT !.rules[p] = v] /\ count' = count
  BY <1>1 DEF InsertForward4, At, Goes
<1>3. "forward6" \in Call /\ "forward6" \notin WithTun /\ v \in SUBSET Family
  BY <1>1 DEF Call, Middle, WithTun, Family
<1>4. Holds(p, "forward6")
  BY <1>2, <1>3, RulesIs, SameHolds
<1>5. Keeps(p, "forward6", own[p])
  BY <1>2 DEF Keeps, WillUnlink, WillZone, WillRules, WillTable
<1>6. Rules(p, "forward6", own[p])
  BY <1>2, <1>3, OwnRules DEF WillRules
<1>7. Orderly' => Accounts(p, "forward6", own[p])
  BY <1>2, <1>3, <1>5, <1>6, RulesIs, Typed, Counting,
     SameSockets, SameZones, SameTables DEF Keeps, Accounts
<1> QED BY <1>2, <1>3, <1>4, <1>7, RulesIs, Typed, Counting, StepKeeps

LEMMA InsertForward6Inv ==
    ASSUME HostInv, NEW p \in Proc, InsertForward6(p)
    PROVE  HostInv'
<1>1. PICK l \in Onward : l = After(p, "exit")
  BY AfterIs
<1>2. PICK o : o = own[p] \cup {"exit"}
  OBVIOUS
<1>3. /\ pc[p] = "forward6" /\ pc' = [pc EXCEPT ![p] = l]
      /\ own' = [own EXCEPT ![p] = o]
      /\ host' = [host EXCEPT !.rules[p] = Family] /\ count' = count
  BY <1>1, <1>2 DEF InsertForward6, Goes
<1>4. l \in Call /\ l \notin WithTun /\ o \in SUBSET Part
  BY <1>2, Typed DEF Call, Onward, WithTun, Part
<1>5. Holds(p, l)
  BY <1>3, <1>4, RulesIs, SameHolds
<1>6. Keeps(p, l, o)
  BY <1>2, <1>3 DEF Keeps, Onward, WillUnlink, WillZone, WillRules, WillTable
<1>7. Rules(p, l, o)
  <2>1. WillRules(l, o)
    BY <1>2 DEF WillRules, Onward
  <2> QED BY <1>3, <2>1, OwnRules
<1>8. Orderly' => Accounts(p, l, o)
  BY <1>3, <1>6, <1>7, RulesIs, Typed, Counting,
     SameSockets, SameZones, SameTables DEF Keeps, Accounts
<1> QED BY <1>3, <1>4, <1>5, <1>8, RulesIs, Typed, Counting, StepKeeps

LEMMA InsertFailsInv ==
    ASSUME HostInv, NEW p \in Proc, InsertFails(p)
    PROVE  HostInv'
<1>1. PICK l \in {"undo table", "undo rules"} :
          /\ pc[p] = IF l = "undo table" THEN "forward4" ELSE "forward6"
          /\ pc' = [pc EXCEPT ![p] = l]
  <2>1. CASE At(p, "forward4", "undo table")
    BY <2>1 DEF At, Goes
  <2>2. CASE At(p, "forward6", "undo rules")
    BY <2>2 DEF At, Goes
  <2> QED BY <2>1, <2>2 DEF InsertFails
<1>2. own' = [own EXCEPT ![p] = own[p]] /\ host' = host /\ Fault
  BY DEF InsertFails, At, Goes
<1>3. l \in Call /\ l \notin WithTun
  BY DEF Call, Middle, WithTun
<1>4. Keeps(p, l, own[p])
  BY <1>1 DEF Keeps, WillUnlink, WillZone, WillRules, WillTable
<1> QED BY <1>1, <1>2, <1>3, <1>4, Typed, Counting, HostStays

(* The rules that the failed undo leaves are no process's any more.         *)
LEMMA HalfIs ==
    ASSUME HostInv, NEW p \in Proc, InsertHalfFails(p)
    PROVE  /\ host' \in Host /\ host'.held = host.held /\ host'.dns = host.dns
           /\ host'.sock = host.sock /\ host'.zone = host.zone
           /\ host'.table = host.table /\ host'.orphans = host.orphans
           /\ host'.rules[p] = {}
           /\ \A q \in Proc \ {p} : host'.rules[q] = host.rules[q]
<1>1. /\ host \in Host /\ host.rules \in [Proc -> SUBSET Family]
      /\ [host.rules EXCEPT ![p] = {}] \in [Proc -> SUBSET Family]
  BY Typed, HostFields
<1>2. host' = [host EXCEPT !.rules[p] = {}, !.half = TRUE]
  BY DEF InsertHalfFails
<1>3. PICK h : h = [host EXCEPT !.rules = [host.rules EXCEPT ![p] = {}]]
  OBVIOUS
<1>4. /\ h \in Host /\ h.held = host.held /\ h.dns = host.dns
      /\ h.sock = host.sock /\ h.zone = host.zone
      /\ h.table = host.table /\ h.orphans = host.orphans
      /\ h.rules = [host.rules EXCEPT ![p] = {}]
  BY <1>1, <1>3 DEF Host
<1>5. host' = [h EXCEPT !.half = TRUE]
  BY <1>2, <1>3
<1>6. /\ host' \in Host /\ host'.held = h.held /\ host'.dns = h.dns
      /\ host'.sock = h.sock /\ host'.zone = h.zone
      /\ host'.table = h.table /\ host'.orphans = h.orphans
      /\ host'.rules = h.rules
  BY <1>4, <1>5 DEF Host
<1> QED BY <1>1, <1>4, <1>6

LEMMA InsertHalfFailsInv ==
    ASSUME HostInv, NEW p \in Proc, InsertHalfFails(p)
    PROVE  HostInv'
<1>1. /\ pc[p] = "forward6" /\ pc' = [pc EXCEPT ![p] = "undo table"]
      /\ own' = [own EXCEPT ![p] = own[p]] /\ Fault
  BY DEF InsertHalfFails, At, Goes
<1>2. "undo table" \in Call /\ "undo table" \notin WithTun
  BY DEF Call, Middle, WithTun
<1>3. Holds(p, "undo table")
  BY <1>2, HalfIs, SameHolds
<1>4. /\ WillUnlink(pc[p], own[p]) => WillUnlink("undo table", own[p])
      /\ WillZone(pc[p], own[p]) => WillZone("undo table", own[p])
      /\ WillTable(pc[p], own[p]) => WillTable("undo table", own[p])
  BY <1>1 DEF WillUnlink, WillZone, WillTable
<1>5. Rules(p, "undo table", own[p])
  BY HalfIs DEF Rules
<1>6. Orderly' => Accounts(p, "undo table", own[p])
  BY <1>1, <1>4, <1>5, HalfIs, Typed, Counting,
     SameSockets, SameZones, SameTables DEF Accounts
<1> QED BY <1>1, <1>2, <1>3, <1>6, HalfIs, Typed, Counting, StepKeeps

LEMMA UndoRulesInv ==
    ASSUME HostInv, NEW p \in Proc, UndoRules(p)
    PROVE  HostInv'
<1>1. /\ pc[p] = "undo rules" /\ pc' = [pc EXCEPT ![p] = "undo table"]
      /\ own' = [own EXCEPT ![p] = own[p]]
  BY DEF UndoRules, At, Goes
<1>2. "undo table" \in Call /\ "undo table" \notin WithTun
  BY DEF Call, Middle, WithTun
<1>3. CASE host' = [host EXCEPT !.rules[p] = {}] /\ count' = count
  <2>0. PICK v \in SUBSET Family : v = {}
    OBVIOUS
  <2>a. host' = [host EXCEPT !.rules[p] = v]
    BY <1>3, <2>0
  <2>1. Holds(p, "undo table")
    BY <1>2, <2>a, RulesIs, SameHolds
  <2>2. /\ WillUnlink(pc[p], own[p]) => WillUnlink("undo table", own[p])
        /\ WillZone(pc[p], own[p]) => WillZone("undo table", own[p])
        /\ WillTable(pc[p], own[p]) => WillTable("undo table", own[p])
    BY <1>1 DEF WillUnlink, WillZone, WillTable
  <2>3. Rules(p, "undo table", own[p])
    BY <2>0, <2>a, OwnRules
  <2>4. Orderly' => Accounts(p, "undo table", own[p])
    BY <1>3, <2>a, <2>2, <2>3, RulesIs, Typed, Counting,
       SameSockets, SameZones, SameTables DEF Accounts
  <2> QED BY <1>1, <1>2, <1>3, <2>a, <2>1, <2>4,
             RulesIs, Typed, Counting, StepKeeps
<1>4. CASE Slip /\ host' = host
  BY <1>1, <1>2, <1>4, Typed, Counting, HostStays
<1> QED BY <1>3, <1>4 DEF UndoRules

LEMMA UndoTableInv ==
    ASSUME HostInv, NEW p \in Proc, UndoTable(p)
    PROVE  HostInv'
<1>1. PICK l : l = CloseAfter(own[p], 0)
  OBVIOUS
<1>2. /\ pc[p] = "undo table" /\ pc' = [pc EXCEPT ![p] = l]
      /\ own' = [own EXCEPT ![p] = own[p]]
  BY <1>1 DEF UndoTable, GivesUp, Goes
<1>3. CASE host' = [host EXCEPT !.table = FALSE] /\ count' = count
  <2>1. Holds(p, l)
    BY <1>1, <1>3, LeavingKeeps, TableIs, SameHolds
  <2>2. Tables(p, l, own[p])
    BY <1>3, TableIs DEF Tables
  <2>3. Orderly' => Accounts(p, l, own[p])
    BY <1>1, <1>2, <1>3, <2>2, LeavingKeeps, TableIs, Typed, Counting,
       SameSockets, SameZones, SameRules DEF Accounts
  <2> QED BY <1>1, <1>2, <1>3, <2>1, <2>3, LeavingKeeps, TableIs, Typed,
             Counting, StepKeeps
<1>4. CASE Slip /\ host' = host
  BY <1>1, <1>2, <1>4, LeavingKeeps, Typed, Counting, HostStays
<1> QED BY <1>3, <1>4 DEF UndoTable, DeleteExitNFTTable

(* Close.                                                                   *)
LEMMA StopInv ==
    ASSUME HostInv, NEW p \in Proc, Stop(p)
    PROVE  HostInv'
<1>1. PICK l : l = CloseAfter(own[p], 0)
  OBVIOUS
<1>2. /\ pc[p] = "run" /\ pc' = [pc EXCEPT ![p] = l]
      /\ own' = own /\ host' = host /\ count' = count
  BY <1>1 DEF Stop
<1>3. own' = [own EXCEPT ![p] = own[p]]
  BY <1>2 DEF HostInv, HostTypeOK
<1>4. Keeps(p, l, own[p])
  BY <1>1, <1>2, GivingUpKeeps DEF Plain, Onward
<1> QED BY <1>1, <1>2, <1>3, <1>4, LeavingKeeps, Typed, Counting, HostStays

(* A call of Close that went wrong: nobody counts on the rest any more.     *)
LEMMA SlippedCallInv ==
    ASSUME HostInv, NEW p \in Proc, NEW i \in DOMAIN CloseOrder, Slip,
           NEW rest, Goes(p, CloseAfter(rest, i), own[p]), host' = host
    PROVE  HostInv'
<1>1. i \in 0 .. 9
  BY CallNames
<1>2. PICK l : l = CloseAfter(rest, i)
  OBVIOUS
<1>3. l \in Leaving
  BY <1>1, <1>2, CloseAfterUndoes
<1>4. l \in Call /\ l \notin WithTun
  BY <1>3 DEF Call, Leaving, WithTun
<1>5. pc' = [pc EXCEPT ![p] = l] /\ own' = [own EXCEPT ![p] = own[p]]
  BY <1>2 DEF Goes
<1> QED BY <1>4, <1>5, Typed, Counting, HostStays

(* What p will still undo after the i-th call of Close.                     *)
LEMMA CallKeeps ==
    ASSUME NEW p \in Proc, NEW i \in DOMAIN CloseOrder, pc[p] = CloseOrder[i][1],
           NEW l, l = CloseAfter(own[p], i)
    PROVE  /\ l \in Call /\ l \notin WithTun
           /\ i # 2 => (WillZone(pc[p], own[p]) => WillZone(l, own[p]))
           /\ i \notin {5, 6} => (WillUnlink(pc[p], own[p]) => WillUnlink(l, own[p]))
           /\ i # 7 => (WillRules(pc[p], own[p]) => WillRules(l, own[p]))
           /\ i # 8 => (WillTable(pc[p], own[p]) => WillTable(l, own[p]))
<1>1. /\ i \in 0 .. 9
      /\ \/ i = 1 /\ pc[p] = "close socks"
         \/ i = 2 /\ pc[p] = "zone off"
         \/ i = 3 /\ pc[p] = "dns off"
         \/ i = 4 /\ pc[p] = "close tun"
         \/ i = 5 /\ pc[p] = "unlink"
         \/ i = 6 /\ pc[p] = "remove file"
         \/ i = 7 /\ pc[p] = "rules off"
         \/ i = 8 /\ pc[p] = "table off"
         \/ i = 9 /\ pc[p] = "close udp"
  BY CallNames
<1>2. /\ l \in Leaving
      /\ i <= 1 /\ "zone" \in own[p] => WillZone(l, own[p])
      /\ i <= 4 /\ "control" \in own[p] => WillUnlink(l, own[p])
      /\ i <= 6 /\ "exit" \in own[p] => WillRules(l, own[p])
      /\ i <= 7 /\ "exit" \in own[p] => WillTable(l, own[p])
  BY <1>1, CloseAfterUndoes
<1>3. l \in Call /\ l \notin WithTun
  BY <1>2 DEF Call, Leaving, WithTun
<1>4. i # 2 => (WillZone(pc[p], own[p]) => WillZone(l, own[p]))
  <2>1. ASSUME i # 2, WillZone(pc[p], own[p]) PROVE i = 1 /\ "zone" \in own[p]
    BY <1>1, <2>1 DEF WillZone
  <2> QED BY <1>2, <2>1
<1>5. i \notin {5, 6} => (WillUnlink(pc[p], own[p]) => WillUnlink(l, own[p]))
  <2>1. ASSUME i \notin {5, 6}, WillUnlink(pc[p], own[p])
        PROVE  i <= 4 /\ "control" \in own[p]
    <3>1. i \in {1, 2, 3, 4} /\ "control" \in own[p]
      BY <1>1, <2>1 DEF WillUnlink
    <3> QED BY <3>1
  <2> QED BY <1>2, <2>1
<1>6. i # 7 => (WillRules(pc[p], own[p]) => WillRules(l, own[p]))
  <2>1. ASSUME i # 7, WillRules(pc[p], own[p])
        PROVE  i <= 6 /\ "exit" \in own[p]
    <3>1. i \in {1, 2, 3, 4, 5, 6} /\ "exit" \in own[p]
      BY <1>1, <2>1 DEF WillRules
    <3> QED BY <3>1
  <2> QED BY <1>2, <2>1
<1>7. i # 8 => (WillTable(pc[p], own[p]) => WillTable(l, own[p]))
  <2>1. ASSUME i # 8, WillTable(pc[p], own[p])
        PROVE  i <= 7 /\ "exit" \in own[p]
    <3>1. i \in {1, 2, 3, 4, 5, 6, 7} /\ "exit" \in own[p]
      BY <1>1, <2>1 DEF WillTable
    <3> QED BY <3>1
  <2> QED BY <1>2, <2>1
<1> QED BY <1>3, <1>4, <1>5, <1>6, <1>7

LEMMA DoneCallInv ==
    ASSUME HostInv, NEW p \in Proc, NEW i \in DOMAIN CloseOrder,
           pc[p] = CloseOrder[i][1],
           Goes(p, CloseAfter(own[p], i), own[p]),
           host' = AfterCall(p, pc[p]), count' = count
    PROVE  HostInv'
<1>1. \/ i = 1 /\ pc[p] = "close socks"
      \/ i = 2 /\ pc[p] = "zone off"
      \/ i = 3 /\ pc[p] = "dns off"
      \/ i = 4 /\ pc[p] = "close tun"
      \/ i = 5 /\ pc[p] = "unlink"
      \/ i = 6 /\ pc[p] = "remove file"
      \/ i = 7 /\ pc[p] = "rules off"
      \/ i = 8 /\ pc[p] = "table off"
      \/ i = 9 /\ pc[p] = "close udp"
  BY CallNames
<1>2. PICK l : l = CloseAfter(own[p], i)
  OBVIOUS
<1>3. pc' = [pc EXCEPT ![p] = l] /\ own' = [own EXCEPT ![p] = own[p]]
  BY <1>2 DEF Goes
<1>4. /\ l \in Call /\ l \notin WithTun
      /\ i # 2 => (WillZone(pc[p], own[p]) => WillZone(l, own[p]))
      /\ i \notin {5, 6} => (WillUnlink(pc[p], own[p]) => WillUnlink(l, own[p]))
      /\ i # 7 => (WillRules(pc[p], own[p]) => WillRules(l, own[p]))
      /\ i # 8 => (WillTable(pc[p], own[p]) => WillTable(l, own[p]))
  BY <1>2, CallKeeps
<1>5. host \in Host /\ count' \in Counts /\ (Orderly' => Orderly) /\ own[p] \in SUBSET Part
  BY Typed, Counting
<1>6. SUFFICES /\ host' \in Host /\ Holds(p, l)
               /\ Orderly => Accounts(p, l, own[p])
  BY <1>3, <1>4, <1>5, StepKeeps
<1>7. CASE \E x \in Exclusive : host' = Without(p, x) /\ i \in {1, 4, 9}
  <2>1. PICK x \in Exclusive : host' = Without(p, x)
    BY <1>7
  <2>2. /\ host' \in Host
        /\ host'.sock = host.sock /\ host'.zone = host.zone
        /\ host'.table = host.table /\ host'.rules = host.rules
        /\ host'.orphans = host.orphans
    BY <1>5, <2>1, WithoutIs
  <2>3. Holds(p, l)
    BY <1>4, <2>1, WithoutHolds
  <2>4. Orderly => Accounts(p, l, own[p])
    BY <1>4, <1>7, <2>2, SameSockets, SameZones, SameTables, SameRules DEF Accounts
  <2> QED BY <2>2, <2>3, <2>4
<1>8. CASE i = 2 /\ host' = [host EXCEPT !.zone = FALSE]
  <2>1. /\ host' \in Host /\ host'.held = host.held /\ host'.dns = host.dns
        /\ host'.sock = host.sock /\ host'.zone = FALSE
        /\ host'.table = host.table /\ host'.rules = host.rules
        /\ host'.orphans = host.orphans
    BY <1>5, <1>8 DEF Host
  <2>2. Holds(p, l)
    BY <1>4, <2>1, SameHolds
  <2>3. Zones(p, l, own[p])
    BY <2>1 DEF Zones
  <2>4. Orderly => Accounts(p, l, own[p])
    BY <1>4, <1>8, <2>1, <2>3, SameSockets, SameTables, SameRules DEF Accounts
  <2> QED BY <2>1, <2>2, <2>4
<1>9. CASE i = 3 /\ host' = [host EXCEPT !.dns = FALSE]
  <2>1. /\ host' \in Host /\ host'.held = host.held /\ host'.dns = FALSE
        /\ host'.sock = host.sock /\ host'.zone = host.zone
        /\ host'.table = host.table /\ host'.rules = host.rules
        /\ host'.orphans = host.orphans
    BY <1>5, <1>9 DEF Host
  <2>2. Holds(p, l)
    BY <1>4, <2>1 DEF Holds
  <2>3. Orderly => Accounts(p, l, own[p])
    BY <1>4, <1>9, <2>1, SameSockets, SameZones, SameTables, SameRules DEF Accounts
  <2> QED BY <2>1, <2>2, <2>3
<1>10. CASE i \in {5, 6} /\ host' = File(p, "none")
  <2>1. PICK v \in Proc \cup {"none"} : v = "none"
    OBVIOUS
  <2>2. /\ host' \in Host /\ host'.held = host.held /\ host'.dns = host.dns
        /\ host'.zone = host.zone /\ host'.table = host.table
        /\ host'.rules = host.rules /\ host'.orphans = host.orphans
    BY <1>10, <2>1, FileIs
  <2>3. Holds(p, l)
    BY <1>4, <2>2, SameHolds
  <2>4. Orderly => Accounts(p, l, own[p])
    BY <1>4, <1>10, <2>2, UnlinkedSockets, SameZones, SameTables, SameRules
       DEF Accounts
  <2> QED BY <2>2, <2>3, <2>4
<1>11. CASE i = 7 /\ host' = [host EXCEPT !.rules[p] = {}]
  <2>1. PICK v \in SUBSET Family : v = {}
    OBVIOUS
  <2>2. host' = [host EXCEPT !.rules[p] = v]
    BY <1>11, <2>1
  <2>3. Holds(p, l)
    BY <1>4, <2>2, RulesIs, SameHolds
  <2>4. Rules(p, l, own[p])
    BY <2>1, <2>2, OwnRules
  <2>5. Orderly => Accounts(p, l, own[p])
    BY <1>4, <1>11, <2>2, <2>4, RulesIs, SameSockets, SameZones, SameTables
       DEF Accounts
  <2> QED BY <2>2, <2>3, <2>5, RulesIs
<1>12. CASE i = 8 /\ host' = [host EXCEPT !.table = FALSE]
  <2>0. /\ host' \in Host /\ host'.held = host.held /\ host'.dns = host.dns
        /\ host'.sock = host.sock /\ host'.zone = host.zone
        /\ host'.rules = host.rules /\ host'.orphans = host.orphans
        /\ host'.table = FALSE
    BY <1>12, TableIs
  <2>1. Holds(p, l)
    BY <1>4, <2>0, SameHolds
  <2>2. Tables(p, l, own[p])
    BY <2>0 DEF Tables
  <2>3. Orderly => Accounts(p, l, own[p])
    BY <1>4, <1>12, <2>0, <2>2, SameSockets, SameZones, SameRules DEF Accounts
  <2> QED BY <2>0, <2>1, <2>3
<1>13. \/ i = 1 /\ host' = Without(p, "socks")
       \/ i = 2 /\ host' = [host EXCEPT !.zone = FALSE]
       \/ i = 3 /\ host' = [host EXCEPT !.dns = FALSE]
       \/ i = 4 /\ host' = Without(p, "tun")
       \/ i \in {5, 6} /\ host' = File(p, "none")
       \/ i = 7 /\ host' = [host EXCEPT !.rules[p] = {}]
       \/ i = 8 /\ host' = [host EXCEPT !.table = FALSE]
       \/ i = 9 /\ host' = Without(p, "udp")
  BY <1>1 DEF AfterCall, DeleteExitNFTTable
<1>14. {"socks", "tun", "udp"} \subseteq Exclusive
  BY DEF Exclusive
<1> QED BY <1>7, <1>8, <1>9, <1>10, <1>11, <1>12, <1>13, <1>14

LEMMA CloseCallInv ==
    ASSUME HostInv, NEW p \in Proc, CloseCall(p)
    PROVE  HostInv'
<1>1. PICK i \in DOMAIN CloseOrder :
        /\ pc[p] = CloseOrder[i][1]
        /\ \/ /\ host' = AfterCall(p, pc[p])
              /\ Goes(p, CloseAfter(own[p], i), own[p])
              /\ UNCHANGED count
           \/ /\ Slip
              /\ Goes(p, CloseAfter(own[p] \ (IF pc[p] = "rules off"
                                              THEN {"exit"} ELSE {}), i), own[p])
              /\ UNCHANGED host
  BY DEF CloseCall
<1>2. PICK rest : rest = own[p] \ (IF pc[p] = "rules off" THEN {"exit"} ELSE {})
  OBVIOUS
<1> QED BY <1>1, <1>2, SlippedCallInv, DoneCallInv

-----------------------------------------------------------------------------
(* The end of a process.                                                    *)
LEMMA EndedIs ==
    ASSUME HostInv, NEW p \in Proc, host' = Ended(p)
    PROVE  /\ host' \in Host
           /\ \A x \in Exclusive :
                 host'.held[x] = IF host.held[x] = p THEN Nobody ELSE host.held[x]
           /\ \A x \in Path :
                 host'.sock[x] = IF host.sock[x] = p THEN "stale" ELSE host.sock[x]
           /\ host'.dns => host.dns /\ host.held["tun"] # p
           /\ host'.zone = host.zone /\ host'.table = host.table
           /\ host'.orphans => host.orphans \/ host.rules[p] # {}
           /\ \A q \in Proc : host'.rules[q] = IF q = p THEN {} ELSE host.rules[q]
<1>1. host \in Host
  BY Typed
<1>2. /\ host.held \in [Exclusive -> Proc \cup {Nobody}]
      /\ host.sock \in [Path -> Proc \cup {"none", "stale"}]
      /\ host.rules \in [Proc -> SUBSET Family]
      /\ host.dns \in BOOLEAN /\ host.orphans \in BOOLEAN
  BY <1>1, HostFields
<1>3. /\ host' \in Host
      /\ host'.held = [x \in Exclusive |->
                          IF host.held[x] = p THEN Nobody ELSE host.held[x]]
      /\ host'.sock = [x \in Path |->
                          IF host.sock[x] = p THEN "stale" ELSE host.sock[x]]
      /\ host'.dns = (host.dns /\ host.held["tun"] # p)
      /\ host'.zone = host.zone /\ host'.table = host.table
      /\ host'.orphans = (host.orphans \/ host.rules[p] # {})
      /\ host'.rules = [host.rules EXCEPT ![p] = {}]
  BY <1>1, <1>2 DEF Ended, Host
<1> QED BY <1>2, <1>3

(* The processes that go on keep what they have.                            *)
LEMMA EndsDescriptors ==
    ASSUME HostInv, NEW p \in Proc, Ends(p)
    PROVE  Descriptors'
<1>1. /\ pc'[p] = "off" /\ \A q \in Proc \ {p} : pc'[q] = pc[q]
  BY DEF Ends, HostInv, HostTypeOK
<1>2. /\ \A x \in Exclusive :
            host'.held[x] = IF host.held[x] = p THEN Nobody ELSE host.held[x]
      /\ host'.dns => host.dns /\ host.held["tun"] # p
  BY EndedIs DEF Ends
<1>3. /\ host.held \in [Exclusive -> Proc \cup {Nobody}]
      /\ "tun" \in Exclusive /\ "off" \notin WithTun
  BY Typed, HostFields DEF Exclusive, WithTun
<1>4. \A x \in Exclusive : host'.held[x] # Nobody => pc'[host'.held[x]] # "off"
  BY <1>1, <1>2, <1>3 DEF HostInv, Descriptors
<1>5. \A q \in Proc : pc'[q] \in WithTun => host'.held["tun"] = q
  BY <1>1, <1>2, <1>3 DEF HostInv, Descriptors
<1>6. host'.dns => host'.held["tun"] # Nobody
  BY <1>2, <1>3 DEF HostInv, Descriptors
<1> QED BY <1>4, <1>5, <1>6 DEF Descriptors

LEMMA EndsTypeOK ==
    ASSUME HostInv, NEW p \in Proc, Ends(p), count' \in Counts
    PROVE  HostTypeOK'
BY EndedIs DEF Ends, HostInv, HostTypeOK

LEMMA ExitInv ==
    ASSUME HostInv, NEW p \in Proc, Exit(p)
    PROVE  HostInv'
<1>1. Ends(p) /\ pc[p] = "exit process" /\ count' = count
  BY DEF Exit
<1>2. HostTypeOK' /\ Descriptors'
  BY <1>1, EndsTypeOK, EndsDescriptors, Typed, Counting
<1>3. ASSUME Orderly' PROVE Accounted'
  <2>1. Accounted
    BY <1>1, <1>3, Typed, Counting DEF HostInv
  <2>2. /\ \A q \in Proc \ {p} : pc'[q] = pc[q] /\ own'[q] = own[q]
    BY <1>1 DEF Ends, HostInv, HostTypeOK
  <2>3. /\ ~WillUnlink(pc[p], own[p]) /\ ~WillZone(pc[p], own[p])
        /\ ~WillRules(pc[p], own[p]) /\ ~WillTable(pc[p], own[p])
    BY <1>1 DEF WillUnlink, WillZone, WillRules, WillTable
  <2>4. host.rules[p] = {}
    BY <2>1, <2>3 DEF Accounted
  <2>5. \A x \in Path : host.sock[x] # p
    BY <2>1, <2>3, HostSetupAssumption DEF Accounted
  <2>6. host' = Ended(p)
    BY <1>1 DEF Ends
  <2>7. \A x \in Path : \/ host'.sock[x] = "none"
                        \/ \E q \in Proc : /\ host'.sock[x] = q /\ x = PathOf[q]
                                           /\ WillUnlink(pc'[q], own'[q])
    <3>1. SUFFICES ASSUME NEW x \in Path, host'.sock[x] # "none"
                   PROVE  \E q \in Proc : /\ host'.sock[x] = q /\ x = PathOf[q]
                                          /\ WillUnlink(pc'[q], own'[q])
      OBVIOUS
    <3>2. host'.sock[x] = host.sock[x]
      BY <2>5, <2>6, EndedIs
    <3>3. PICK q \in Proc : /\ host.sock[x] = q /\ x = PathOf[q]
                            /\ WillUnlink(pc[q], own[q])
      BY <2>1, <3>1, <3>2 DEF Accounted
    <3> QED BY <2>2, <2>3, <3>2, <3>3
  <2>8. host'.zone => \E q \in Proc : WillZone(pc'[q], own'[q])
    <3>1. host'.zone = host.zone
      BY <2>6, EndedIs
    <3>2. ASSUME host.zone PROVE \E q \in Proc \ {p} : WillZone(pc[q], own[q])
      BY <2>1, <2>3, <3>2 DEF Accounted
    <3> QED BY <2>2, <3>1, <3>2
  <2>9. host'.table => \E q \in Proc : WillTable(pc'[q], own'[q])
    <3>1. host'.table = host.table
      BY <2>6, EndedIs
    <3>2. ASSUME host.table PROVE \E q \in Proc \ {p} : WillTable(pc[q], own[q])
      BY <2>1, <2>3, <3>2 DEF Accounted
    <3> QED BY <2>2, <3>1, <3>2
  <2>10. \A q \in Proc : host'.rules[q] # {} => WillRules(pc'[q], own'[q])
    BY <2>1, <2>2, <2>6, EndedIs DEF Accounted
  <2>11. ~host'.orphans
    BY <2>1, <2>4, <2>6, EndedIs DEF Accounted
  <2> QED BY <2>7, <2>8, <2>9, <2>10, <2>11 DEF Accounted
<1> QED BY <1>2, <1>3 DEF HostInv

(* After a death nobody counts on anything.                                 *)
LEMMA DiesInv ==
    ASSUME HostInv, NEW p \in Proc, Kill(p) \/ RollbackPanics(p)
    PROVE  HostInv'
<1>1. Ends(p) /\ \/ count' = [count EXCEPT !.death = @ + 1]
                 \/ count' = [count EXCEPT !.fault = @ + 1, !.death = @ + 1]
  BY DEF Kill, RollbackPanics, Counted
<1>2. count \in Counts
  BY Typed
<1>3. count.death \in Nat
  BY <1>2 DEF Counts
<1>4. count' \in Counts /\ count'.death = count.death + 1
  <2>1. CASE count' = [count EXCEPT !.death = @ + 1]
    BY <1>2, <2>1 DEF Counts
  <2>2. CASE count' = [count EXCEPT !.fault = @ + 1, !.death = @ + 1]
    <3>1. PICK c : c = [count EXCEPT !.fault = count.fault + 1]
      OBVIOUS
    <3>2. c \in Counts /\ c.death = count.death
      BY <1>2, <3>1 DEF Counts
    <3>3. count' = [c EXCEPT !.death = c.death + 1]
      BY <2>2, <3>1, <3>2
    <3> QED BY <3>2, <3>3 DEF Counts
  <2> QED BY <1>1, <2>1, <2>2
<1>5. ~Orderly'
  <2>1. count.death + 1 # 0
    BY <1>3
  <2> QED BY <1>4, <2>1 DEF Orderly
<1>6. HostTypeOK' /\ Descriptors'
  BY <1>1, <1>4, EndsTypeOK, EndsDescriptors
<1> QED BY <1>5, <1>6 DEF HostInv

-----------------------------------------------------------------------------
LEMMA HostInitInv == HostInit => HostInv
<1> SUFFICES ASSUME HostInit PROVE HostInv
  OBVIOUS
<1>1. /\ pc = [p \in Proc |-> "off"] /\ own = [p \in Proc |-> {}]
      /\ count = [fault |-> 0, slip |-> 0, death |-> 0]
      /\ host = [held |-> [x \in Exclusive |-> Nobody],
                 sock |-> [x \in Path |-> "none"],
                 dns |-> FALSE, zone |-> FALSE,
                 table |-> FALSE, rules |-> [p \in Proc |-> {}],
                 orphans |-> FALSE, half |-> FALSE,
                 forwarding |-> FALSE, hosts |-> TRUE]
  BY DEF HostInit, Clean
<1>2. host \in Host
  BY <1>1 DEF Host
<1>3. count \in Counts
  BY <1>1 DEF Counts
<1>4. HostTypeOK
  BY <1>1, <1>2, <1>3 DEF HostTypeOK
<1>5. Descriptors
  BY <1>1 DEF Descriptors, WithTun, Exclusive
<1>6. Accounted
  BY <1>1 DEF Accounted
<1> QED BY <1>4, <1>5, <1>6 DEF HostInv

LEMMA HostNextInv ==
    ASSUME HostInv, [HostNext]_hostVars
    PROVE  HostInv'
<1>1. CASE UNCHANGED hostVars
  BY <1>1 DEF hostVars, HostInv, HostTypeOK, Descriptors, Orderly, Accounted
<1>2. ASSUME NEW p \in Proc, StartCall(p) PROVE HostInv'
  BY <1>2, BeginInv, GivesUpInv, ListenInv, QuietInv, RemoveStaleInv, BindInv,
     ChmodInv, ChmodFailsInv, OpenInv, ConfigureFailsInv, StripInv,
     InstallDNSInv, DiesInv, ZoneInv, SysctlInv, ResetInv, InstallExitNFTInv,
     InsertForward4Inv, InsertForward6Inv, InsertFailsInv, InsertHalfFailsInv,
     UndoRulesInv, UndoTableInv
  DEF StartCall
<1>3. ASSUME NEW p \in Proc, Stop(p) \/ CloseCall(p) \/ Exit(p) \/ Kill(p)
      PROVE  HostInv'
  BY <1>3, StopInv, CloseCallInv, ExitInv, DiesInv
<1> QED BY <1>1, <1>2, <1>3 DEF HostNext

(* The inductive invariant holds in every reachable state.                  *)
THEOREM HostInvariant == HostSpec => []HostInv
<1>1. HostInit => HostInv
  BY HostInitInv
<1>2. HostInv /\ [HostNext]_hostVars => HostInv'
  BY HostNextInv
<1> QED BY <1>1, <1>2, PTL DEF HostSpec

LEMMA SameHost ==
    ASSUME NEW h \in Host, NEW g \in Host,
           h.held = g.held, h.sock = g.sock, h.dns = g.dns, h.zone = g.zone,
           h.table = g.table, h.rules = g.rules, h.orphans = g.orphans,
           h.half = g.half, h.forwarding = g.forwarding, h.hosts = g.hosts
    PROVE  h = g
BY DEF Host

(* However Start and Close of any number of processes overlap and whichever *)
(* call of Start fails: once all have ended, without a death and without a  *)
(* failing call of Close or of an undo, nothing of them is left on the      *)
(* host but the rules of an exit whose second family's batch failed.        *)
THEOREM ExitsLeaveTheHostClean == HostSpec => []CleanExit
<1>1. HostInv => CleanExit
  <2>1. SUFFICES ASSUME HostInv, AllOff, Orderly PROVE IsClean(host)
    BY DEF CleanExit, Orderly
  <2>2. \A p \in Proc :
          /\ ~WillUnlink(pc[p], own[p]) /\ ~WillZone(pc[p], own[p])
          /\ ~WillRules(pc[p], own[p]) /\ ~WillTable(pc[p], own[p])
    BY <2>1 DEF AllOff, WillUnlink, WillZone, WillRules, WillTable
  <2>3. /\ \A x \in Path : host.sock[x] = "none"
        /\ ~host.zone /\ ~host.table /\ ~host.orphans
        /\ \A p \in Proc : host.rules[p] = {}
    BY <2>1, <2>2 DEF HostInv, Accounted
  <2>4. /\ host \in Host /\ host.held \in [Exclusive -> Proc \cup {Nobody}]
        /\ host.sock \in [Path -> Proc \cup {"none", "stale"}]
        /\ host.rules \in [Proc -> SUBSET Family]
        /\ host.dns \in BOOLEAN /\ host.zone \in BOOLEAN
        /\ host.table \in BOOLEAN /\ host.orphans \in BOOLEAN
    BY <2>1, HostFields DEF HostInv, HostTypeOK
  <2>5. \A x \in Exclusive : host.held[x] = Nobody
    BY <2>1, <2>4 DEF HostInv, Descriptors, AllOff
  <2>6. /\ host.held = [x \in Exclusive |-> Nobody]
        /\ host.sock = [x \in Path |-> "none"]
        /\ host.rules = [p \in Proc |-> {}]
    BY <2>3, <2>4, <2>5
  <2>7. /\ host.dns = FALSE /\ host.zone = FALSE /\ host.table = FALSE
        /\ host.orphans = FALSE
    BY <2>1, <2>3, <2>4, <2>5 DEF HostInv, Descriptors, Exclusive
  <2>8. PICK h : h = [host EXCEPT !.forwarding = FALSE, !.hosts = FALSE, !.half = FALSE]
    OBVIOUS
  <2>9. /\ h \in Host /\ h.held = host.held /\ h.sock = host.sock
        /\ h.dns = host.dns /\ h.zone = host.zone /\ h.table = host.table
        /\ h.rules = host.rules /\ h.orphans = host.orphans
        /\ h.half = FALSE /\ h.forwarding = FALSE /\ h.hosts = FALSE
    BY <2>4, <2>8 DEF Host
  <2>10. PICK c : c = Clean
    OBVIOUS
  <2>11. /\ c \in Host /\ c.held = [x \in Exclusive |-> Nobody]
         /\ c.sock = [x \in Path |-> "none"]
         /\ c.dns = FALSE /\ c.zone = FALSE /\ c.table = FALSE
         /\ c.rules = [p \in Proc |-> {}] /\ c.orphans = FALSE
         /\ c.half = FALSE /\ c.forwarding = FALSE /\ c.hosts = FALSE
    BY <2>10 DEF Host, Clean
  <2>12. h = c
    <3>1. /\ h.held = c.held /\ h.sock = c.sock /\ h.dns = c.dns
          /\ h.zone = c.zone /\ h.table = c.table /\ h.rules = c.rules
          /\ h.orphans = c.orphans /\ h.half = c.half
          /\ h.forwarding = c.forwarding /\ h.hosts = c.hosts
      BY <2>6, <2>7, <2>9, <2>11
    <3> QED BY <2>9, <2>11, <3>1, SameHost
  <2> QED BY <2>8, <2>10, <2>12 DEF IsClean
<1> QED BY <1>1, HostInvariant, PTL

-----------------------------------------------------------------------------
(* What a process does to the host and how it goes on, step by step.        *)

Acts(p) == StartCall(p) \/ Stop(p) \/ CloseCall(p) \/ Exit(p) \/ Kill(p)

(* The assignments to the host that p makes at its calls.                   *)
Touches(p) ==
    \/ host' = host
    \/ pc[p] \in {"udp", "socks"} /\ host.held[pc[p]] = Nobody
       /\ host' = [host EXCEPT !.held[pc[p]] = p]
       /\ pc'[p] \notin {"udp", "off"} /\ (pc[p] = "socks" => pc'[p] \in {"http", "run"})
    \/ pc[p] = "open" /\ host.held["tun"] = Nobody
       /\ host' = [host EXCEPT !.held["tun"] = p] /\ pc'[p] = "configure"
    \/ \E x \in Exclusive : host' = Without(p, x) /\ pc'[p] \in Leaving
    \/ pc[p] \in {"remove", "remove live", "chmod", "unlink", "remove file"}
       /\ host' = File(p, "none")
    \/ pc[p] = "bind" /\ Socket(p) = "none" /\ host' = File(p, p)
       /\ pc'[p] = "chmod"
    \/ pc[p] = "strip" /\ host' = [host EXCEPT !.hosts = FALSE]
    \/ pc[p] = "dns" /\ host' = [host EXCEPT !.dns = TRUE]
    \/ pc[p] = "dns off" /\ host' = [host EXCEPT !.dns = FALSE]
    \/ pc[p] = "zone" /\ host' = [host EXCEPT !.zone = TRUE]
    \/ pc[p] = "zone off" /\ host' = [host EXCEPT !.zone = FALSE]
    \/ pc[p] = "sysctl" /\ host' = [host EXCEPT !.forwarding = TRUE]
    \/ pc[p] \in {"reset", "undo table", "table off"}
       /\ host' = [host EXCEPT !.table = FALSE]
    \/ pc[p] = "nft" /\ host' = [host EXCEPT !.table = TRUE]
    \/ \E v \in SUBSET Family : host' = [host EXCEPT !.rules[p] = v]
    \/ InsertHalfFails(p)
    \/ host' = Ended(p) /\ pc'[p] = "off"

(* What the others can see of that.                                         *)
Effects(p) ==
    /\ \A x \in Exclusive :
          \/ host'.held[x] = host.held[x] /\ (host.held[x] = p => pc'[p] # "off")
          \/ /\ host.held[x] = p /\ host'.held[x] = Nobody
             /\ pc'[p] \in Leaving \cup {"off"}
          \/ /\ host.held[x] = Nobody /\ host'.held[x] = p
             /\ x = "udp" => pc'[p] # "udp"
             /\ x = "tun" => pc'[p] = "configure"
             /\ x = "socks" => pc'[p] \in {"http", "run"}
    /\ \A x \in Path :
          \/ host'.sock[x] = host.sock[x] /\ (host.sock[x] = p => pc'[p] # "off")
          \/ host.sock[x] = p /\ host'.sock[x] = "stale"
          \/ /\ x = PathOf[p] /\ host'.sock[x] = "none"
             /\ pc[p] \in {"remove", "remove live", "chmod", "unlink", "remove file"}
          \/ /\ x = PathOf[p] /\ host.sock[x] = "none" /\ host'.sock[x] = p
             /\ pc[p] = "bind" /\ pc'[p] = "chmod"
    /\ host.dns => host'.dns \/ host.held["tun"] = p \/ pc[p] = "dns off"
    /\ host.zone => host'.zone \/ pc[p] = "zone off"
    /\ host'.zone => host.zone \/ pc[p] = "zone"
    /\ host.table => host'.table \/ pc[p] \in {"reset", "undo table", "table off"}
    /\ host'.table => host.table \/ pc[p] = "nft"
    /\ \A q \in Proc \ {p} : host'.rules[q] = host.rules[q]

LEMMA TouchesHave ==
    ASSUME HostInv, NEW p \in Proc, Touches(p),
           pc'[p] = "off" => host' = Ended(p)
    PROVE  Effects(p)
<1>1. /\ host \in Host /\ pc[p] \in Call \cup {"off"}
      /\ host.held \in [Exclusive -> Proc \cup {Nobody}]
      /\ host.sock \in [Path -> Proc \cup {"none", "stale"}]
      /\ host.rules \in [Proc -> SUBSET Family]
      /\ host.dns \in BOOLEAN /\ host.zone \in BOOLEAN /\ host.table \in BOOLEAN
      /\ PathOf[p] \in Path /\ Nobody \notin Proc
  BY Typed, HostFields, HostSetupAssumption
<1>2. CASE pc'[p] = "off"
  <2>1. /\ \A x \in Exclusive :
              host'.held[x] = IF host.held[x] = p THEN Nobody ELSE host.held[x]
        /\ \A x \in Path :
              host'.sock[x] = IF host.sock[x] = p THEN "stale" ELSE host.sock[x]
        /\ host'.zone = host.zone /\ host'.table = host.table
        /\ \A q \in Proc \ {p} : host'.rules[q] = host.rules[q]
    BY <1>2, EndedIs
  <2>2. host'.dns = (host.dns /\ host.held["tun"] # p)
    <3>1. host' = Ended(p)
      BY <1>2
    <3> QED BY <1>1, <3>1 DEF Ended, Host
  <2> QED BY <1>2, <2>1, <2>2 DEF Effects
<1> SUFFICES ASSUME pc'[p] # "off" PROVE Effects(p)
  BY <1>2
<1>3. CASE host' = host
  BY <1>3 DEF Effects
<1>4. ASSUME NEW x \in Exclusive, host.held[x] = Nobody,
             host' = [host EXCEPT !.held[x] = p],
             x = "udp" => pc'[p] # "udp", x = "tun" => pc'[p] = "configure",
             x = "socks" => pc'[p] \in {"http", "run"}
      PROVE  Effects(p)
  <2>1. /\ host'.held = [host.held EXCEPT ![x] = p]
        /\ host'.sock = host.sock /\ host'.dns = host.dns /\ host'.zone = host.zone
        /\ host'.table = host.table /\ host'.rules = host.rules
    BY <1>1, <1>4 DEF Host
  <2>2. \A y \in Exclusive : host'.held[y] = IF y = x THEN p ELSE host.held[y]
    BY <1>1, <2>1
  <2> QED BY <1>4, <2>1, <2>2 DEF Effects
<1>5. ASSUME NEW x \in Exclusive, host' = Without(p, x), pc'[p] \in Leaving
      PROVE  Effects(p)
  <2>1. /\ host'.held = [host.held EXCEPT ![x] =
                           IF host.held[x] = p THEN Nobody ELSE host.held[x]]
        /\ host'.dns = (host.dns /\ ~(x = "tun" /\ host.held[x] = p))
        /\ host'.sock = host.sock /\ host'.zone = host.zone
        /\ host'.table = host.table /\ host'.rules = host.rules
    BY <1>1, <1>5, WithoutIs
  <2>2. \A y \in Exclusive : \/ host'.held[y] = host.held[y]
                             \/ host.held[y] = p /\ host'.held[y] = Nobody
    BY <1>1, <2>1
  <2> QED BY <1>5, <2>1, <2>2 DEF Effects
<1>6. ASSUME NEW v \in {"none", p}, host' = File(p, v),
             v = "none" => pc[p] \in {"remove", "remove live", "chmod", "unlink", "remove file"},
             v = p => pc[p] = "bind" /\ Socket(p) = "none" /\ pc'[p] = "chmod"
      PROVE  Effects(p)
  <2>1. /\ host'.sock = [host.sock EXCEPT ![PathOf[p]] = v]
        /\ host'.held = host.held /\ host'.dns = host.dns
        /\ host'.zone = host.zone /\ host'.table = host.table
        /\ host'.rules = host.rules
    BY <1>6, FileIs
  <2>2. \A x \in Path : host'.sock[x] = IF x = PathOf[p] THEN v ELSE host.sock[x]
    BY <1>1, <2>1
  <2>3. \A x \in Path :
          \/ host'.sock[x] = host.sock[x]
          \/ /\ x = PathOf[p] /\ host'.sock[x] = "none"
             /\ pc[p] \in {"remove", "remove live", "chmod", "unlink", "remove file"}
          \/ /\ x = PathOf[p] /\ host.sock[x] = "none" /\ host'.sock[x] = p
             /\ pc[p] = "bind" /\ pc'[p] = "chmod"
    BY <1>6, <2>2 DEF Socket
  <2> QED BY <2>1, <2>3 DEF Effects
<1>7. CASE \/ pc[p] = "strip" /\ host' = [host EXCEPT !.hosts = FALSE]
           \/ pc[p] = "sysctl" /\ host' = [host EXCEPT !.forwarding = TRUE]
  <2>1. /\ host'.held = host.held /\ host'.sock = host.sock
        /\ host'.dns = host.dns /\ host'.zone = host.zone
        /\ host'.table = host.table /\ host'.rules = host.rules
    BY <1>1, <1>7 DEF Host
  <2> QED BY <2>1 DEF Effects
<1>8. CASE \/ pc[p] = "dns" /\ host' = [host EXCEPT !.dns = TRUE]
           \/ pc[p] = "dns off" /\ host' = [host EXCEPT !.dns = FALSE]
  <2>1. /\ host'.held = host.held /\ host'.sock = host.sock
        /\ host'.zone = host.zone /\ (pc[p] = "dns" => host'.dns)
        /\ host'.table = host.table /\ host'.rules = host.rules
    BY <1>1, <1>8 DEF Host
  <2> QED BY <1>8, <2>1 DEF Effects
<1>9. CASE \/ pc[p] = "zone" /\ host' = [host EXCEPT !.zone = TRUE]
           \/ pc[p] = "zone off" /\ host' = [host EXCEPT !.zone = FALSE]
  <2>1. /\ host'.held = host.held /\ host'.sock = host.sock
        /\ host'.dns = host.dns
        /\ (pc[p] = "zone" => host'.zone) /\ (pc[p] = "zone off" => ~host'.zone)
        /\ host'.table = host.table /\ host'.rules = host.rules
    BY <1>1, <1>9 DEF Host
  <2> QED BY <1>9, <2>1 DEF Effects
<1>10. CASE \/ pc[p] \in {"reset", "undo table", "table off"}
               /\ host' = [host EXCEPT !.table = FALSE]
            \/ pc[p] = "nft" /\ host' = [host EXCEPT !.table = TRUE]
  <2>1. /\ host'.held = host.held /\ host'.sock = host.sock
        /\ host'.dns = host.dns /\ host'.zone = host.zone
        /\ (pc[p] = "nft" => host'.table) /\ (pc[p] # "nft" => ~host'.table)
        /\ host'.rules = host.rules
    BY <1>1, <1>10 DEF Host
  <2> QED BY <1>10, <2>1 DEF Effects
<1>11. ASSUME NEW v \in SUBSET Family, host' = [host EXCEPT !.rules[p] = v]
       PROVE  Effects(p)
  <2>1. /\ host'.held = host.held /\ host'.sock = host.sock
        /\ host'.dns = host.dns /\ host'.zone = host.zone
        /\ host'.table = host.table
        /\ \A q \in Proc \ {p} : host'.rules[q] = host.rules[q]
    BY <1>11, RulesIs
  <2> QED BY <2>1 DEF Effects
<1>17. CASE InsertHalfFails(p)
  BY <1>17, HalfIs DEF Effects
<1>12. {"udp", "socks", "tun"} \subseteq Exclusive
  BY DEF Exclusive
<1>13. CASE /\ pc[p] \in {"udp", "socks"} /\ host.held[pc[p]] = Nobody
            /\ host' = [host EXCEPT !.held[pc[p]] = p]
            /\ pc'[p] \notin {"udp", "off"}
            /\ (pc[p] = "socks" => pc'[p] \in {"http", "run"})
  <2>1. PICK x \in Exclusive : x = pc[p]
    BY <1>12, <1>13
  <2> QED BY <1>4, <1>13, <2>1
<1>14. CASE /\ pc[p] = "open" /\ host.held["tun"] = Nobody
            /\ host' = [host EXCEPT !.held["tun"] = p] /\ pc'[p] = "configure"
  <2>1. PICK x \in Exclusive : x = "tun"
    BY <1>12
  <2> QED BY <1>4, <1>14, <2>1
<1>15. CASE pc[p] \in {"remove", "remove live", "chmod", "unlink", "remove file"}
            /\ host' = File(p, "none")
  BY <1>6, <1>15, HostSetupAssumption
<1>16. CASE pc[p] = "bind" /\ Socket(p) = "none" /\ host' = File(p, p)
            /\ pc'[p] = "chmod"
  BY <1>6, <1>16, HostSetupAssumption
<1> QED BY <1>3, <1>5, <1>7, <1>8, <1>9, <1>10, <1>11, <1>13, <1>14, <1>15,
           <1>16, <1>17 DEF Touches

(* The parts of Start in their order: what follows a part is a later part,  *)
(* and nothing is between the TUN and the NAT.                              *)
LEMMA StartNames ==
    /\ StartOrder[1] = "udp" /\ StartOrder[2] = "control" /\ StartOrder[3] = "tun"
    /\ StartOrder[4] = "exit" /\ StartOrder[5] = "stack"
    /\ StartOrder[6] = "socks" /\ StartOrder[7] = "http"
BY DEF StartOrder

LEMMA AfterPartFlow ==
    ASSUME NEW p \in Proc, NEW i \in 0 .. 7
    PROVE  \/ AfterPart(p, i) = "run"
           \/ \E j \in (i + 1) .. 7 :
                 /\ AfterPart(p, i) = FirstCall(StartOrder[j])
                 /\ j = 4 => i = 3
<1> DEFINE rest == {j \in (i + 1) .. Len(StartOrder) : StartOrder[j] \in Uses[p]}
<1>1. rest = {j \in (i + 1) .. 7 : StartOrder[j] \in Uses[p]}
  BY StartParts
<1>2. AfterPart(p, i) =
         IF rest = {} THEN "run"
         ELSE FirstCall(StartOrder[CHOOSE j \in rest : \A k \in rest : j <= k])
  BY DEF AfterPart
<1>3. rest \in SUBSET (1 .. 9) /\ rest \subseteq (i + 1) .. 7
  BY <1>1
<1>4. 4 \in rest => 3 \in rest \/ i = 3
  <2>1. SUFFICES ASSUME 4 \in rest, i # 3 PROVE 3 \in rest
    OBVIOUS
  <2>2. "exit" \in Uses[p]
    BY <1>1, <2>1, StartNames
  <2>3. "tun" \in Uses[p]
    BY <2>2, HostSetupAssumption
  <2>4. 3 \in (i + 1) .. 7
    BY <1>3, <2>1
  <2> QED BY <1>1, <2>3, <2>4, StartNames
<1> HIDE DEF rest
<1>5. CASE rest = {}
  BY <1>2, <1>5
<1>6. CASE rest # {}
  <2>1. PICK j : j = CHOOSE m \in rest : \A k \in rest : m <= k
    OBVIOUS
  <2>2. j \in rest /\ \A k \in rest : j <= k
    BY <1>3, <1>6, <2>1, Least
  <2>3. j = 4 => i = 3
    <3>1. ~(4 <= 3)
      OBVIOUS
    <3> QED BY <1>4, <2>2, <3>1
  <2> QED BY <1>2, <1>3, <1>6, <2>1, <2>2, <2>3
<1> QED BY <1>5, <1>6

LEMMA AfterFlow ==
    ASSUME NEW p \in Proc
    PROVE  /\ AfterPart(p, 0) \in Onward \ {"sysctl"}
           /\ After(p, "udp") \in Onward \ {"udp", "sysctl"}
           /\ After(p, "control") \in Onward \ {"udp", "stat", "sysctl"}
           /\ After(p, "tun") \in Onward \ {"udp", "stat", "open"}
           /\ After(p, "exit") \in {"stack", "socks", "http", "run"}
           /\ After(p, "stack") \in {"socks", "http", "run"}
           /\ After(p, "socks") \in {"http", "run"}
           /\ After(p, "http") = "run"
<1>1. /\ FirstCall(StartOrder[1]) = "udp" /\ FirstCall(StartOrder[2]) = "stat"
      /\ FirstCall(StartOrder[3]) = "open" /\ FirstCall(StartOrder[4]) = "sysctl"
      /\ FirstCall(StartOrder[5]) = "stack" /\ FirstCall(StartOrder[6]) = "socks"
      /\ FirstCall(StartOrder[7]) = "http"
  BY StartNames DEF FirstCall
<1>2. ASSUME NEW i \in {1, 2, 3, 4, 5, 6, 7}
      PROVE  After(p, StartOrder[i]) = AfterPart(p, i)
  <2>1. PICK j : j = CHOOSE k \in DOMAIN StartOrder : StartOrder[k] = StartOrder[i]
    OBVIOUS
  <2>2. i \in DOMAIN StartOrder
    BY StartParts
  <2>3. j \in DOMAIN StartOrder /\ StartOrder[j] = StartOrder[i]
    BY <2>1, <2>2
  <2>4. j \in 1 .. 7
    BY <2>3, StartParts
  <2>5. j \in {1, 2, 3, 4, 5, 6, 7}
    BY <2>4
  <2>6. j = i
    BY <2>3, <2>5, StartNames
  <2> QED BY <2>1, <2>6 DEF After
<1>3. ASSUME NEW i \in 0 .. 7
      PROVE  \/ AfterPart(p, i) = "run"
             \/ i < 1 /\ AfterPart(p, i) = "udp"
             \/ i < 2 /\ AfterPart(p, i) = "stat"
             \/ i < 3 /\ AfterPart(p, i) = "open"
             \/ i = 3 /\ AfterPart(p, i) = "sysctl"
             \/ i < 5 /\ AfterPart(p, i) = "stack"
             \/ i < 6 /\ AfterPart(p, i) = "socks"
             \/ i < 7 /\ AfterPart(p, i) = "http"
  <2>1. CASE \E j \in (i + 1) .. 7 :
                 /\ AfterPart(p, i) = FirstCall(StartOrder[j])
                 /\ j = 4 => i = 3
    <3>1. PICK j \in (i + 1) .. 7 :
                 /\ AfterPart(p, i) = FirstCall(StartOrder[j])
                 /\ j = 4 => i = 3
      BY <2>1
    <3>2. j \in {1, 2, 3, 4, 5, 6, 7} /\ i < j
      OBVIOUS
    <3> QED BY <1>1, <3>1, <3>2
  <2> QED BY <2>1, AfterPartFlow
<1>4. AfterPart(p, 0) \in Onward \ {"sysctl"}
  BY <1>3 DEF Onward
<1>5. AfterPart(p, 1) \in Onward \ {"udp", "sysctl"}
  BY <1>3 DEF Onward
<1>6. AfterPart(p, 2) \in Onward \ {"udp", "stat", "sysctl"}
  BY <1>3 DEF Onward
<1>7. AfterPart(p, 3) \in Onward \ {"udp", "stat", "open"}
  BY <1>3 DEF Onward
<1>8. AfterPart(p, 4) \in {"stack", "socks", "http", "run"}
  BY <1>3
<1>9. AfterPart(p, 5) \in {"socks", "http", "run"}
  BY <1>3
<1>10. AfterPart(p, 6) \in {"http", "run"}
  BY <1>3
<1>11. AfterPart(p, 7) = "run"
  BY <1>3
<1> QED BY <1>2, <1>4, <1>5, <1>6, <1>7, <1>8, <1>9, <1>10, <1>11, StartNames

(* A call of Close is made only for what the Node holds.                    *)
Called(l, o) ==
    /\ l = "zone off" => "zone" \in o
    /\ l \in {"dns off", "close tun"} => "tun" \in o
    /\ l \in {"unlink", "remove file"} => "control" \in o
    /\ l \in {"rules off", "table off"} => "exit" \in o

LEMMA CloseAfterCalled ==
    ASSUME NEW holds, NEW i \in 0 .. 9
    PROVE  Called(CloseAfter(holds, i), holds)
<1> DEFINE rest == {j \in (i + 1) .. Len(CloseOrder) : CloseOrder[j][2] \in holds}
<1>1. rest = {j \in (i + 1) .. 9 : CloseOrder[j][2] \in holds}
  BY CloseParts
<1>2. CloseAfter(holds, i) =
         IF rest = {} THEN "exit process"
         ELSE CloseOrder[CHOOSE j \in rest : \A k \in rest : j <= k][1]
  BY DEF CloseAfter
<1> HIDE DEF rest
<1>3. CASE rest = {}
  BY <1>2, <1>3 DEF Called
<1>4. CASE rest # {}
  <2>1. rest \in SUBSET (1 .. 9)
    BY <1>1
  <2>2. PICK j : j = CHOOSE m \in rest : \A k \in rest : m <= k
    OBVIOUS
  <2>3. j \in rest
    BY <2>1, <2>2, <1>4, Least
  <2>4. CloseAfter(holds, i) = CloseOrder[j][1]
    BY <1>2, <1>4, <2>2
  <2>5. j \in {1, 2, 3, 4, 5, 6, 7, 8, 9} /\ CloseOrder[j][2] \in holds
    <3>1. j \in 1 .. 9 /\ CloseOrder[j][2] \in holds
      BY <1>1, <2>3
    <3> QED BY <3>1
  <2>6. \A k \in {1, 2, 3, 4, 5, 6, 7, 8, 9} :
           CloseOrder[k][2] \in holds => Called(CloseOrder[k][1], holds)
    BY CloseParts DEF Called
  <2>7. Called(CloseOrder[j][1], holds)
    BY <2>5, <2>6
  <2> QED BY <2>4, <2>7
<1> QED BY <1>3, <1>4

(* How a process at l that holds o goes on to m and holds w: in Start, out  *)
(* of Start, in Close, and to its end.                                      *)
WithExit == {"sysctl", "reset", "nft", "forward4", "forward6", "undo rules",
             "undo table"}

Starts(l, m, o, w) ==
    \/ l = "off" /\ m \in Onward \ {"sysctl"} /\ w = o
    \/ l = "udp" /\ m \in Onward \ {"udp", "sysctl"} /\ w = o \cup {"udp"}
    \/ l = "stack" /\ m \in {"socks", "http", "run"} /\ w = o
    \/ l = "socks" /\ m \in {"http", "run"} /\ w = o \cup {"socks"}
    \/ l = "http" /\ m = "run" /\ w = o
    \/ l = "stat" /\ m \in {"bind", "dial"} /\ w = o
    \/ l = "dial" /\ m \in {"remove", "remove live"} /\ w = o
    \/ l \in {"remove", "remove live"} /\ m = "bind" /\ w = o
    \/ l = "bind" /\ m = "chmod" /\ w = o
    \/ l = "chmod" /\ m \in Onward \ {"udp", "stat", "sysctl"}
       /\ w = o \cup {"control"}
    \/ l = "open" /\ m = "configure" /\ w = o
    \/ l \in WithTun /\ m \in WithTun /\ w = o
    \/ l = "zone" /\ m \in Onward \ {"udp", "stat", "open"}
       /\ w \in {o \cup {"tun"}, o \cup {"tun", "zone"}}
    \/ l \in WithExit /\ m \in WithExit /\ w = o
    \/ l = "forward6" /\ m \in {"stack", "socks", "http", "run"}
       /\ w = o \cup {"exit"}

LEMMA StartsHold ==
    ASSUME NEW l, NEW m, NEW o, NEW w, Starts(l, m, o, w)
    PROVE  \/ w = o
           \/ l = "udp" /\ w = o \cup {"udp"}
           \/ l = "socks" /\ w = o \cup {"socks"}
           \/ l = "chmod" /\ w = o \cup {"control"}
           \/ l = "zone" /\ w \in {o \cup {"tun"}, o \cup {"tun", "zone"}}
           \/ l = "forward6" /\ w = o \cup {"exit"}
BY DEF Starts

(* What Start has seen, or done to the host, on its way to some calls.      *)
Guarded(p, l, m) ==
    /\ l = "stat" /\ m = "bind" => Socket(p) = "none" /\ host' = host
    /\ l = "dial" /\ m = "remove" =>
          Socket(p) \in {"none", "stale"} /\ host' = host
    /\ l = "dial" /\ m = "remove live" => Socket(p) \in Proc /\ host' = host
    /\ l \in {"remove", "remove live"} /\ m = "bind" => host' = File(p, "none")
    /\ l = "bind" /\ m = "chmod" => Socket(p) = "none" /\ host' = File(p, p)
    /\ l = "open" /\ m = "configure" => host.held["tun"] = Nobody

(* The first call of Close: nothing that p holds is forgotten.              *)
GivesBack(l, m, o, w) ==
    /\ l \in Onward \cup Middle /\ m \in Leaving /\ w = o /\ Called(m, o)
    /\ "control" \in o => WillUnlink(m, o)
    /\ "zone" \in o => WillZone(m, o)
    /\ "exit" \in o => WillTable(m, o)

Closes(p, l, m, o, w) ==
    /\ l \in Leaving /\ m \in Leaving /\ w = o /\ Called(m, o)
    /\ \/ count'.slip = count.slip + 1
       \/ /\ l \in {"unlink", "remove file"} => host' = File(p, "none")
          /\ l \notin {"unlink", "remove file"} /\ WillUnlink(l, o)
             => WillUnlink(m, o)
          /\ l = "zone off" => ~host'.zone
          /\ l # "zone off" /\ WillZone(l, o) => WillZone(m, o)
          /\ l = "table off" => ~host'.table
          /\ l # "table off" /\ WillTable(l, o) => WillTable(m, o)

FlowOf(p, l, m, o, w) ==
    \/ Starts(l, m, o, w) /\ Guarded(p, l, m)
    \/ GivesBack(l, m, o, w)
    \/ Closes(p, l, m, o, w)
    \/ l # "off" /\ m = "off" /\ w = {}

Flow(p) == FlowOf(p, pc[p], pc'[p], own[p], own'[p])

LEMMA GoesTo ==
    ASSUME HostInv, NEW p \in Proc, NEW m, NEW w, Goes(p, m, w)
    PROVE  /\ pc'[p] = m /\ own'[p] = w
           /\ \A q \in Proc \ {p} : pc'[q] = pc[q] /\ own'[q] = own[q]
BY DEF HostInv, HostTypeOK, Goes

LEMMA GivesUpFlow ==
    ASSUME HostInv, NEW p \in Proc, pc[p] \in Onward \cup Middle,
           pc'[p] = CloseAfter(own[p], 0), own'[p] = own[p]
    PROVE  Flow(p) /\ pc'[p] \in Leaving
<1>1. PICK m : m = CloseAfter(own[p], 0)
  OBVIOUS
<1>2. /\ m \in Leaving /\ Called(m, own[p])
      /\ "control" \in own[p] => WillUnlink(m, own[p])
      /\ "zone" \in own[p] => WillZone(m, own[p])
      /\ "exit" \in own[p] => WillTable(m, own[p])
  BY <1>1, CloseAfterUndoes, CloseAfterCalled
<1> QED BY <1>1, <1>2 DEF Flow, FlowOf, GivesBack

LEMMA StartingFlow ==
    ASSUME HostInv, NEW p \in Proc,
           \/ Begin(p) \/ Listen(p) \/ Inner(p) \/ Chmod(p) \/ Zone(p)
           \/ InsertForward6(p)
    PROVE  Flow(p) /\ Touches(p) /\ pc'[p] # "off"
<1>1. CASE Begin(p)
  <2>1. pc[p] = "off" /\ pc'[p] = AfterPart(p, 0) /\ own'[p] = own[p] /\ host' = host
    BY <1>1 DEF Begin, HostInv, HostTypeOK
  <2> QED BY <2>1, AfterFlow DEF Flow, FlowOf, Starts, Guarded, Touches, Onward
<1>2. CASE Listen(p) /\ pc[p] = "udp"
  <2>1. Goes(p, After(p, "udp"), own[p] \cup {"udp"})
    BY <1>2 DEF Listen
  <2>2. pc'[p] = After(p, "udp") /\ own'[p] = own[p] \cup {"udp"}
    BY <2>1, GoesTo
  <2>3. host.held[pc[p]] = Nobody /\ host' = [host EXCEPT !.held[pc[p]] = p]
    BY <1>2 DEF Listen
  <2>4. Flow(p) /\ pc'[p] \notin {"udp", "off"}
    BY <1>2, <2>2, AfterFlow DEF Flow, FlowOf, Starts, Guarded, Onward
  <2> QED BY <1>2, <2>3, <2>4 DEF Touches
<1>3. CASE Listen(p) /\ pc[p] = "socks"
  <2>1. Goes(p, After(p, "socks"), own[p] \cup {"socks"})
    BY <1>3 DEF Listen
  <2>2. pc'[p] = After(p, "socks") /\ own'[p] = own[p] \cup {"socks"}
    BY <2>1, GoesTo
  <2>3. host.held[pc[p]] = Nobody /\ host' = [host EXCEPT !.held[pc[p]] = p]
    BY <1>3 DEF Listen
  <2>4. Flow(p) /\ pc'[p] \in {"http", "run"}
    BY <1>3, <2>2, AfterFlow DEF Flow, FlowOf, Starts, Guarded
  <2> QED BY <1>3, <2>3, <2>4 DEF Touches
<1>4. CASE Inner(p)
  <2>1. Goes(p, After(p, pc[p]), own[p]) /\ host' = host /\ pc[p] \in {"stack", "http"}
    BY <1>4 DEF Inner
  <2>2. pc'[p] = After(p, pc[p]) /\ own'[p] = own[p]
    BY <2>1, GoesTo
  <2>3. CASE pc[p] = "stack"
    BY <2>1, <2>2, <2>3, AfterFlow DEF Flow, FlowOf, Starts, Guarded, Touches
  <2>4. CASE pc[p] = "http"
    BY <2>1, <2>2, <2>4, AfterFlow DEF Flow, FlowOf, Starts, Guarded, Touches
  <2> QED BY <2>1, <2>3, <2>4
<1>5. CASE Chmod(p)
  <2>1. /\ pc[p] = "chmod" /\ host' = host
        /\ Goes(p, After(p, "control"), own[p] \cup {"control"})
    BY <1>5 DEF Chmod
  <2>2. pc'[p] = After(p, "control") /\ own'[p] = own[p] \cup {"control"}
    BY <2>1, GoesTo
  <2> QED BY <2>1, <2>2, AfterFlow DEF Flow, FlowOf, Starts, Guarded, Touches, Onward
<1>6. CASE Zone(p)
  <2>1. /\ pc[p] = "zone"
        /\ host' = host \/ host' = [host EXCEPT !.zone = TRUE]
        /\ \/ Goes(p, After(p, "tun"), own[p] \cup {"tun", "zone"})
           \/ Goes(p, After(p, "tun"), own[p] \cup {"tun"})
    BY <1>6 DEF Zone
  <2>2. /\ pc'[p] = After(p, "tun")
        /\ own'[p] \in {own[p] \cup {"tun"}, own[p] \cup {"tun", "zone"}}
    BY <2>1, GoesTo
  <2>3. Flow(p) /\ pc'[p] # "off"
    BY <2>1, <2>2, AfterFlow DEF Flow, FlowOf, Starts, Guarded, Onward
  <2> QED BY <2>1, <2>3 DEF Touches
<1>7. CASE InsertForward6(p)
  <2>1. /\ pc[p] = "forward6" /\ host' = [host EXCEPT !.rules[p] = Family]
        /\ Goes(p, After(p, "exit"), own[p] \cup {"exit"})
    BY <1>7 DEF InsertForward6
  <2>2. pc'[p] = After(p, "exit") /\ own'[p] = own[p] \cup {"exit"}
    BY <2>1, GoesTo
  <2>3. Flow(p) /\ pc'[p] # "off"
    BY <2>1, <2>2, AfterFlow DEF Flow, FlowOf, Starts, Guarded
  <2>4. Family \in SUBSET Family
    OBVIOUS
  <2> QED BY <2>1, <2>3, <2>4 DEF Touches
<1> QED BY <1>1, <1>2, <1>3, <1>4, <1>5, <1>6, <1>7 DEF Listen

LEMMA SteppingFlow ==
    ASSUME HostInv, NEW p \in Proc,
           \/ Stat(p) \/ DialStale(p) \/ DialRefused(p) \/ RemoveStale(p)
           \/ Open(p) \/ Configure(p) \/ StripHopscotchHosts(p) \/ InstallDNS(p)
           \/ Sysctl(p) \/ Reset(p) \/ InstallExitNFT(p) \/ InsertForward4(p)
           \/ InsertFails(p) \/ InsertHalfFails(p) \/ UndoRules(p)
    PROVE  Flow(p) /\ Touches(p) /\ pc'[p] # "off"
<1>1. ASSUME NEW m, At(p, pc[p], m) PROVE pc'[p] = m /\ own'[p] = own[p]
  BY <1>1, GoesTo DEF At
<1>2. ASSUME NEW l, NEW m, At(p, l, m)
      PROVE  pc[p] = l /\ pc'[p] = m /\ own'[p] = own[p]
  BY <1>1, <1>2 DEF At
<1>3. CASE Stat(p)
  <2>1. /\ pc[p] = "stat" /\ own'[p] = own[p] /\ host' = host
        /\ pc'[p] = IF Socket(p) = "none" THEN "bind" ELSE "dial"
    BY <1>2, <1>3 DEF Stat
  <2>2. Flow(p)
    BY <2>1 DEF Flow, FlowOf, Starts, Guarded
  <2> QED BY <2>1, <2>2 DEF Touches
<1>4. CASE DialStale(p)
  <2>1. /\ pc[p] = "dial" /\ pc'[p] = "remove" /\ own'[p] = own[p]
        /\ host' = host /\ Socket(p) \in {"none", "stale"}
    BY <1>2, <1>4 DEF DialStale
  <2>2. Flow(p)
    BY <2>1 DEF Flow, FlowOf, Starts, Guarded
  <2> QED BY <2>1, <2>2 DEF Touches
<1>16. CASE DialRefused(p)
  <2>1. /\ pc[p] = "dial" /\ pc'[p] = "remove live" /\ own'[p] = own[p]
        /\ host' = host /\ Socket(p) \in Proc
    BY <1>2, <1>16 DEF DialRefused
  <2>2. Flow(p)
    BY <2>1 DEF Flow, FlowOf, Starts, Guarded
  <2> QED BY <2>1, <2>2 DEF Touches
<1>5. CASE RemoveStale(p)
  <2>1. /\ pc[p] \in {"remove", "remove live"} /\ pc'[p] = "bind" /\ own'[p] = own[p]
        /\ host' = File(p, "none")
    BY <1>2, <1>5 DEF RemoveStale
  <2>2. Flow(p)
    BY <2>1 DEF Flow, FlowOf, Starts, Guarded
  <2> QED BY <2>1, <2>2 DEF Touches
<1>6. CASE Open(p)
  <2>1. /\ pc[p] = "open" /\ pc'[p] = "configure" /\ own'[p] = own[p]
        /\ host' = [host EXCEPT !.held["tun"] = p] /\ host.held["tun"] = Nobody
    BY <1>2, <1>6 DEF Open
  <2>2. Flow(p)
    BY <2>1 DEF Flow, FlowOf, Starts, Guarded
  <2> QED BY <2>1, <2>2 DEF Touches
<1>7. CASE Configure(p)
  <2>1. /\ pc[p] = "configure" /\ pc'[p] = "strip" /\ own'[p] = own[p]
        /\ host' = host
    BY <1>2, <1>7 DEF Configure
  <2>2. Flow(p)
    BY <2>1 DEF Flow, FlowOf, Starts, Guarded, WithTun
  <2> QED BY <2>1, <2>2 DEF Touches
<1>8. CASE StripHopscotchHosts(p)
  <2>1. /\ pc[p] = "strip" /\ pc'[p] = "dns" /\ own'[p] = own[p]
        /\ host' = [host EXCEPT !.hosts = FALSE]
    BY <1>2, <1>8 DEF StripHopscotchHosts
  <2>2. Flow(p)
    BY <2>1 DEF Flow, FlowOf, Starts, Guarded, WithTun
  <2> QED BY <2>1, <2>2 DEF Touches
<1>9. CASE InstallDNS(p)
  <2>1. /\ pc[p] = "dns" /\ pc'[p] = "zone" /\ own'[p] = own[p]
        /\ host' = [host EXCEPT !.dns = TRUE]
    BY <1>2, <1>9 DEF InstallDNS
  <2>2. Flow(p)
    BY <2>1 DEF Flow, FlowOf, Starts, Guarded, WithTun
  <2> QED BY <2>1, <2>2 DEF Touches
<1>10. CASE Sysctl(p)
  <2>1. /\ pc[p] = "sysctl" /\ pc'[p] = "reset" /\ own'[p] = own[p]
        /\ host' = [host EXCEPT !.forwarding = TRUE]
    BY <1>2, <1>10 DEF Sysctl
  <2>2. Flow(p)
    BY <2>1 DEF Flow, FlowOf, Starts, Guarded, WithExit
  <2> QED BY <2>1, <2>2 DEF Touches
<1>11. CASE Reset(p)
  <2>1. /\ pc[p] = "reset" /\ pc'[p] = "nft" /\ own'[p] = own[p]
        /\ host' = [host EXCEPT !.table = FALSE]
    BY <1>2, <1>11 DEF Reset, DeleteExitNFTTable
  <2>2. Flow(p)
    BY <2>1 DEF Flow, FlowOf, Starts, Guarded, WithExit
  <2> QED BY <2>1, <2>2 DEF Touches
<1>12. CASE InstallExitNFT(p)
  <2>1. /\ pc[p] = "nft" /\ pc'[p] = "forward4" /\ own'[p] = own[p]
        /\ host' = [host EXCEPT !.table = TRUE]
    BY <1>2, <1>12 DEF InstallExitNFT
  <2>2. Flow(p)
    BY <2>1 DEF Flow, FlowOf, Starts, Guarded, WithExit
  <2> QED BY <2>1, <2>2 DEF Touches
<1>13. CASE InsertForward4(p)
  <2>1. /\ pc[p] = "forward4" /\ pc'[p] = "forward6" /\ own'[p] = own[p]
        /\ host' = [host EXCEPT !.rules[p] = {4}]
    BY <1>2, <1>13 DEF InsertForward4
  <2>2. {4} \in SUBSET Family
    BY DEF Family
  <2>3. Flow(p)
    BY <2>1 DEF Flow, FlowOf, Starts, Guarded, WithExit
  <2> QED BY <2>1, <2>2, <2>3 DEF Touches
<1>14. CASE InsertFails(p)
  <2>1. /\ pc[p] \in {"forward4", "forward6"} /\ own'[p] = own[p]
        /\ pc'[p] \in {"undo table", "undo rules"} /\ host' = host
    BY <1>2, <1>14 DEF InsertFails
  <2>2. Flow(p)
    BY <2>1 DEF Flow, FlowOf, Starts, Guarded, WithExit
  <2> QED BY <2>1, <2>2 DEF Touches
<1>17. CASE InsertHalfFails(p)
  <2>1. pc[p] = "forward6" /\ pc'[p] = "undo table" /\ own'[p] = own[p]
    BY <1>2, <1>17 DEF InsertHalfFails
  <2>2. Flow(p)
    BY <2>1 DEF Flow, FlowOf, Starts, Guarded, WithExit
  <2> QED BY <1>17, <2>1, <2>2 DEF Touches
<1>15. CASE UndoRules(p)
  <2>1. /\ pc[p] = "undo rules" /\ pc'[p] = "undo table" /\ own'[p] = own[p]
        /\ host' = host \/ host' = [host EXCEPT !.rules[p] = {}]
    BY <1>2, <1>15 DEF UndoRules
  <2>2. {} \in SUBSET Family
    OBVIOUS
  <2>3. Flow(p)
    BY <2>1 DEF Flow, FlowOf, Starts, Guarded, WithExit
  <2> QED BY <2>1, <2>2, <2>3 DEF Touches
<1> QED BY <1>3, <1>4, <1>5, <1>6, <1>7, <1>8, <1>9, <1>10, <1>11, <1>12,
           <1>13, <1>14, <1>15, <1>16, <1>17

LEMMA GivingUpFlow ==
    ASSUME HostInv, NEW p \in Proc,
           \/ Taken(p) \/ CallFails(p) \/ DialLive(p) \/ Bind(p)
           \/ ChmodFails(p) \/ ConfigureFails(p) \/ UndoTable(p) \/ Stop(p)
    PROVE  Flow(p) /\ Touches(p) /\ pc'[p] # "off"
<1>1. ASSUME GivesUp(p), pc[p] \in Onward \cup Middle
      PROVE  Flow(p) /\ pc'[p] \in Leaving
  <2>1. pc'[p] = CloseAfter(own[p], 0) /\ own'[p] = own[p]
    BY <1>1, GoesTo DEF GivesUp
  <2> QED BY <1>1, <2>1, GivesUpFlow
<1>2. "off" \notin Leaving
  BY DEF Leaving
<1>3. CASE Taken(p) \/ CallFails(p) \/ DialLive(p)
  <2>1. GivesUp(p) /\ host' = host /\ pc[p] \in Onward \cup Middle
    BY <1>3 DEF Taken, CallFails, DialLive, Onward, Middle
  <2> QED BY <1>1, <1>2, <2>1 DEF Touches
<1>4. CASE Bind(p) /\ GivesUp(p) /\ host' = host
  <2>1. pc[p] \in Onward \cup Middle
    BY <1>4 DEF Bind, Onward, Middle
  <2> QED BY <1>1, <1>2, <1>4, <2>1 DEF Touches
<1>5. CASE Bind(p) /\ Socket(p) = "none" /\ host' = File(p, p) /\ Goes(p, "chmod", own[p])
  <2>1. pc[p] = "bind" /\ pc'[p] = "chmod" /\ own'[p] = own[p]
    BY <1>5, GoesTo DEF Bind
  <2>2. Flow(p)
    BY <1>5, <2>1 DEF Flow, FlowOf, Starts, Guarded
  <2> QED BY <1>5, <2>1, <2>2 DEF Touches
<1>6. CASE ChmodFails(p)
  <2>1. pc[p] = "chmod" /\ host' = File(p, "none") /\ GivesUp(p)
    BY <1>6 DEF ChmodFails
  <2>2. Flow(p) /\ pc'[p] \in Leaving
    BY <1>1, <2>1 DEF Middle
  <2> QED BY <1>2, <2>1, <2>2 DEF Touches
<1>7. CASE ConfigureFails(p)
  <2>1. pc[p] = "configure" /\ host' = Without(p, "tun") /\ GivesUp(p)
    BY <1>7 DEF ConfigureFails
  <2>2. Flow(p) /\ pc'[p] \in Leaving
    BY <1>1, <2>1 DEF Middle
  <2>3. PICK x \in Exclusive : x = "tun"
    BY DEF Exclusive
  <2> QED BY <1>2, <2>1, <2>2, <2>3 DEF Touches
<1>8. CASE UndoTable(p)
  <2>1. pc[p] = "undo table" /\ GivesUp(p)
        /\ (host' = host \/ host' = [host EXCEPT !.table = FALSE])
    BY <1>8 DEF UndoTable, DeleteExitNFTTable
  <2>2. Flow(p) /\ pc'[p] \in Leaving
    BY <1>1, <2>1 DEF Middle
  <2> QED BY <1>2, <2>1, <2>2 DEF Touches
<1>9. CASE Stop(p)
  <2>1. /\ pc[p] = "run" /\ host' = host
        /\ pc'[p] = CloseAfter(own[p], 0) /\ own'[p] = own[p]
    BY <1>9 DEF Stop, HostInv, HostTypeOK
  <2>2. Flow(p) /\ pc'[p] \in Leaving
    BY <2>1, GivesUpFlow DEF Onward
  <2> QED BY <1>2, <2>1, <2>2 DEF Touches
<1> QED BY <1>3, <1>4, <1>5, <1>6, <1>7, <1>8, <1>9 DEF Bind

LEMMA ClosingFlow ==
    ASSUME HostInv, NEW p \in Proc, CloseCall(p)
    PROVE  Flow(p) /\ Touches(p) /\ pc'[p] # "off"
<1>1. PICK i \in DOMAIN CloseOrder :
        /\ pc[p] = CloseOrder[i][1]
        /\ \/ /\ host' = AfterCall(p, pc[p])
              /\ Goes(p, CloseAfter(own[p], i), own[p])
              /\ UNCHANGED count
           \/ /\ Slip
              /\ Goes(p, CloseAfter(own[p] \ (IF pc[p] = "rules off"
                                              THEN {"exit"} ELSE {}), i), own[p])
              /\ UNCHANGED host
  BY DEF CloseCall
<1>2. /\ i \in 0 .. 9
      /\ \/ i = 1 /\ pc[p] = "close socks"
         \/ i = 2 /\ pc[p] = "zone off"
         \/ i = 3 /\ pc[p] = "dns off"
         \/ i = 4 /\ pc[p] = "close tun"
         \/ i = 5 /\ pc[p] = "unlink"
         \/ i = 6 /\ pc[p] = "remove file"
         \/ i = 7 /\ pc[p] = "rules off"
         \/ i = 8 /\ pc[p] = "table off"
         \/ i = 9 /\ pc[p] = "close udp"
  BY <1>1, CallNames
<1>3. pc[p] \in Leaving /\ "off" \notin Leaving
  BY <1>2 DEF Leaving
<1>4. CASE /\ Slip /\ host' = host
           /\ Goes(p, CloseAfter(own[p] \ (IF pc[p] = "rules off"
                                           THEN {"exit"} ELSE {}), i), own[p])
  <2>1. PICK rest : rest = own[p] \ (IF pc[p] = "rules off" THEN {"exit"} ELSE {})
    OBVIOUS
  <2>2. PICK m : m = CloseAfter(rest, i)
    OBVIOUS
  <2>3. pc'[p] = m /\ own'[p] = own[p]
    BY <1>4, <2>1, <2>2, GoesTo
  <2>4. m \in Leaving /\ Called(m, rest) /\ rest \subseteq own[p]
    BY <1>2, <2>1, <2>2, CloseAfterUndoes, CloseAfterCalled
  <2>5. Called(m, own[p])
    BY <2>4 DEF Called
  <2>6. count'.slip = count.slip + 1
    BY <1>4, Typed DEF Slip, Counted, Counts
  <2>7. Flow(p)
    BY <1>3, <2>3, <2>4, <2>5, <2>6 DEF Flow, FlowOf, Closes
  <2> QED BY <1>3, <1>4, <2>3, <2>4, <2>7 DEF Touches
<1>5. CASE /\ host' = AfterCall(p, pc[p])
           /\ Goes(p, CloseAfter(own[p], i), own[p])
  <2>1. PICK m : m = CloseAfter(own[p], i)
    OBVIOUS
  <2>2. pc'[p] = m /\ own'[p] = own[p]
    BY <1>5, <2>1, GoesTo
  <2>3. m \in Leaving /\ Called(m, own[p])
    BY <1>2, <2>1, CloseAfterUndoes, CloseAfterCalled
  <2>4. /\ i # 2 => (WillZone(pc[p], own[p]) => WillZone(m, own[p]))
        /\ i \notin {5, 6} => (WillUnlink(pc[p], own[p]) => WillUnlink(m, own[p]))
        /\ i # 8 => (WillTable(pc[p], own[p]) => WillTable(m, own[p]))
    BY <1>1, <2>1, CallKeeps
  <2>5. /\ pc[p] # "zone off" /\ WillZone(pc[p], own[p]) => WillZone(m, own[p])
        /\ pc[p] \notin {"unlink", "remove file"} /\ WillUnlink(pc[p], own[p])
           => WillUnlink(m, own[p])
        /\ pc[p] # "table off" /\ WillTable(pc[p], own[p]) => WillTable(m, own[p])
    <3>1. /\ (i = 2 => pc[p] = "zone off") /\ (i = 8 => pc[p] = "table off")
          /\ (i = 5 => pc[p] = "unlink") /\ (i = 6 => pc[p] = "remove file")
      BY <1>1, CloseParts
    <3>2. i \in {5, 6} => pc[p] \in {"unlink", "remove file"}
      BY <3>1
    <3> QED BY <2>4, <3>1, <3>2
  <2>6. \/ \E x \in Exclusive : host' = Without(p, x)
           /\ pc[p] \notin {"zone off", "unlink", "remove file", "table off"}
        \/ pc[p] = "zone off" /\ host' = [host EXCEPT !.zone = FALSE]
        \/ pc[p] = "dns off" /\ host' = [host EXCEPT !.dns = FALSE]
        \/ pc[p] \in {"unlink", "remove file"} /\ host' = File(p, "none")
        \/ pc[p] = "rules off" /\ host' = [host EXCEPT !.rules[p] = {}]
        \/ pc[p] = "table off" /\ host' = [host EXCEPT !.table = FALSE]
    <3>1. {"socks", "tun", "udp"} \subseteq Exclusive
      BY DEF Exclusive
    <3>2. CASE pc[p] = "close socks"
      <4>1. host' = Without(p, "socks")
        BY <1>5, <3>2 DEF AfterCall
      <4> QED BY <3>1, <3>2, <4>1
    <3>3. CASE pc[p] = "close tun"
      <4>1. host' = Without(p, "tun")
        BY <1>5, <3>3 DEF AfterCall
      <4> QED BY <3>1, <3>3, <4>1
    <3>4. CASE pc[p] = "close udp"
      <4>1. host' = Without(p, "udp")
        BY <1>5, <3>4 DEF AfterCall
      <4> QED BY <3>1, <3>4, <4>1
    <3>5. CASE pc[p] \notin {"close socks", "close tun", "close udp"}
      BY <1>2, <1>5, <3>5 DEF AfterCall, DeleteExitNFTTable
    <3> QED BY <3>2, <3>3, <3>4, <3>5
  <2>7. pc[p] = "zone off" => ~host'.zone
    <3>1. pc[p] = "zone off" => host' = [host EXCEPT !.zone = FALSE]
      BY <2>6
    <3> QED BY <3>1, Typed DEF Host
  <2>8. pc[p] = "table off" => ~host'.table
    <3>1. pc[p] = "table off" => host' = [host EXCEPT !.table = FALSE]
      BY <2>6
    <3> QED BY <3>1, Typed DEF Host
  <2>9. pc[p] \in {"unlink", "remove file"} => host' = File(p, "none")
    BY <2>6
  <2>10. Flow(p)
    BY <1>3, <2>2, <2>3, <2>5, <2>7, <2>8, <2>9 DEF Flow, FlowOf, Closes
  <2>11. {} \in SUBSET Family
    OBVIOUS
  <2>12. Touches(p)
    BY <1>3, <2>2, <2>3, <2>6, <2>11 DEF Touches
  <2> QED BY <1>3, <2>2, <2>3, <2>10, <2>12
<1> QED BY <1>1, <1>4, <1>5

LEMMA EndingFlow ==
    ASSUME HostInv, NEW p \in Proc, Exit(p) \/ Kill(p) \/ RollbackPanics(p)
    PROVE  Flow(p) /\ Touches(p) /\ host' = Ended(p)
<1>1. pc[p] # "off" /\ Ends(p)
  BY DEF Exit, Kill, RollbackPanics
<1>2. pc'[p] = "off" /\ own'[p] = {} /\ host' = Ended(p)
  BY <1>1 DEF Ends, HostInv, HostTypeOK
<1> QED BY <1>1, <1>2 DEF Flow, FlowOf, Touches

(* A step of p, as the others see it.                                       *)
LEMMA ActsFlow ==
    ASSUME HostInv, NEW p \in Proc, Acts(p)
    PROVE  Flow(p) /\ Effects(p)
<1>1. CASE StartCall(p) \/ Stop(p)
  BY <1>1, StartingFlow, SteppingFlow, GivingUpFlow, EndingFlow, TouchesHave DEF StartCall
<1>2. CASE CloseCall(p) \/ Exit(p) \/ Kill(p)
  BY <1>2, ClosingFlow, EndingFlow, TouchesHave
<1> QED BY <1>1, <1>2 DEF Acts

-----------------------------------------------------------------------------
(* Who runs beside whom                                                     *)

(* What a process is about to do agrees with what it holds.                 *)
Holdings == \A p \in Proc :
    /\ pc[p] = "off" => own[p] = {}
    /\ Called(pc[p], own[p])
    /\ "zone" \in own[p] => "tun" \in own[p]
    /\ "tun" \in own[p] /\ pc[p] \in Onward \cup Middle => host.held["tun"] = p

(* A process has of the host only what it has come to in Start.             *)
Takes == \A p \in Proc :
    /\ host.held["udp"] = p => pc[p] # "udp"
    /\ host.held["tun"] = p =>
          pc[p] \notin {"udp", "stat", "dial", "remove", "remove live", "bind", "chmod", "open"}
    /\ host.held["socks"] = p => pc[p] \in {"http", "run"} \cup Leaving
    /\ \A x \in Path : host.sock[x] = p =>
          /\ x = PathOf[p]
          /\ pc[p] \notin {"off", "udp", "stat", "dial", "remove", "remove live", "bind"}

(* Beside a running p, a process q gets neither past the device that p has  *)
(* nor past the socket that p answers on.                                   *)
Guests == \A q \in Proc : \A p \in since[q] :
    /\ p # q /\ pc[p] = "run" /\ pc[q] # "off"
    /\ host.held["tun"] = p =>
          /\ own[q] \cap {"tun", "zone", "exit"} = {}
          /\ pc[q] \notin WithTun \cup WithExit
    /\ PathOf[q] = PathOf[p] /\ Socket(p) = p =>
          "control" \notin own[q] /\ pc[q] \notin {"remove", "bind", "chmod"}

(* A process without any other finds its way to the socket free.            *)
Alone == \A p \in alone :
    /\ pc[p] # "off" /\ \A q \in Proc \ {p} : pc[q] = "off"
    /\ pc[p] = "bind" => Socket(p) = "none"
    /\ pc[p] = "chmod" => Socket(p) = p

(* What such a process holds and will not undo any more is undone.          *)
Healed == \A p \in alone : count.slip = 0 =>
    /\ "control" \in own[p] /\ ~WillUnlink(pc[p], own[p]) => Socket(p) = "none"
    /\ "zone" \in own[p] /\ ~WillZone(pc[p], own[p]) => ~host.zone
    /\ "exit" \in own[p] /\ ~WillTable(pc[p], own[p]) => ~host.table

Company ==
    /\ since \in [Proc -> SUBSET Proc] /\ alone \in SUBSET Proc
    /\ Holdings /\ Takes /\ Guests /\ Alone /\ Healed

(* A step of p as its neighbours are counted.                               *)
Others(p) == \A q \in Proc \ {p} : pc'[q] = pc[q] /\ own'[q] = own[q]

Turns(p) ==
    \/ /\ pc[p] = "off" /\ pc'[p] # "off"
       /\ since' = [since EXCEPT ![p] = {q \in Proc : pc[q] = "run"}]
       /\ alone' = IF \A q \in Proc : pc[q] = "off" THEN {p} ELSE {}
    \/ /\ pc[p] = "run" /\ pc'[p] # "off" /\ alone' = alone
       /\ since' = [q \in Proc |-> since[q] \ {p}]
    \/ /\ pc'[p] = "off" /\ alone' = alone \ {p}
       /\ since' = [q \in Proc |-> IF q = p THEN {} ELSE since[q] \ {p}]
    \/ /\ pc[p] \notin {"off", "run"} /\ pc'[p] # "off"
       /\ since' = since /\ alone' = alone

LEMMA ActsTurn ==
    ASSUME HostInv, NEW p \in Proc, Acts(p)
    PROVE  /\ Others(p) /\ Turns(p)
           /\ \/ count' = count \/ Fault \/ Slip
              \/ Exit(p) \/ Kill(p) \/ RollbackPanics(p)
<1>1. ASSUME NEW m, NEW w, Goes(p, m, w), pc[p] \notin {"off", "run"},
             pc'[p] # "off"
      PROVE  Others(p) /\ Turns(p)
  BY <1>1, GoesTo DEF Goes, Others, Turns
<1>2. ASSUME GivesUp(p), pc[p] \notin {"off", "run"}, pc'[p] # "off"
      PROVE  Others(p) /\ Turns(p)
  BY <1>1, <1>2 DEF GivesUp
<1>3. ASSUME NEW l, NEW m, At(p, l, m), l \notin {"off", "run"}, pc'[p] # "off"
      PROVE  Others(p) /\ Turns(p)
  BY <1>1, <1>3 DEF At
<1>4. ASSUME Ends(p) PROVE Others(p) /\ Turns(p) /\ pc'[p] = "off"
  BY <1>4 DEF Ends, Others, Turns, HostInv, HostTypeOK
<1>5. CASE Begin(p)
  <2>1. /\ pc[p] = "off" /\ pc' = [pc EXCEPT ![p] = AfterPart(p, 0)]
        /\ own' = own /\ count' = count
        /\ since' = [since EXCEPT ![p] = {q \in Proc : pc[q] = "run"}]
        /\ alone' = IF \A q \in Proc : pc[q] = "off" THEN {p} ELSE {}
    BY <1>5 DEF Begin
  <2>2. pc'[p] # "off"
    BY <1>5, StartingFlow
  <2> QED BY <2>1, <2>2 DEF Others, Turns, HostInv, HostTypeOK
<1>6. CASE Stop(p)
  BY <1>6, GivingUpFlow DEF Stop, Others, Turns, HostInv, HostTypeOK
<1>7. CASE Taken(p) \/ Listen(p) \/ Inner(p) \/ CallFails(p) \/ DialLive(p)
  <2>1. pc'[p] # "off"
    BY <1>7, StartingFlow, GivingUpFlow
  <2> QED BY <1>1, <1>2, <1>7, <2>1 DEF Taken, Listen, Inner, CallFails, DialLive
<1>8. CASE \/ Stat(p) \/ DialStale(p) \/ DialRefused(p) \/ RemoveStale(p) \/ Open(p)
           \/ Configure(p) \/ StripHopscotchHosts(p) \/ InstallDNS(p)
  <2>1. pc'[p] # "off"
    BY <1>8, SteppingFlow
  <2> QED BY <1>3, <1>8, <2>1 DEF Stat, DialStale, DialRefused, RemoveStale, Open, Configure,
                                  StripHopscotchHosts, InstallDNS
<1>9. CASE \/ Sysctl(p) \/ Reset(p) \/ InstallExitNFT(p) \/ InsertForward4(p)
           \/ InsertFails(p) \/ InsertHalfFails(p) \/ UndoRules(p)
  <2>1. pc'[p] # "off"
    BY <1>9, SteppingFlow
  <2> QED BY <1>3, <1>9, <2>1 DEF Sysctl, Reset, InstallExitNFT, InsertForward4,
                                  InsertFails, InsertHalfFails, UndoRules
<1>10. CASE Bind(p) \/ Chmod(p) \/ ChmodFails(p) \/ ConfigureFails(p)
  <2>1. pc'[p] # "off"
    BY <1>10, StartingFlow, GivingUpFlow
  <2> QED BY <1>1, <1>2, <1>10, <2>1 DEF Bind, Chmod, ChmodFails, ConfigureFails
<1>11. CASE Zone(p) \/ InsertForward6(p) \/ UndoTable(p)
  <2>1. pc'[p] # "off"
    BY <1>11, StartingFlow, GivingUpFlow
  <2> QED BY <1>1, <1>2, <1>11, <2>1 DEF Zone, InsertForward6, UndoTable
<1>12. CASE CloseCall(p)
  <2>1. \E i \in DOMAIN CloseOrder :
          /\ pc[p] = CloseOrder[i][1] /\ (count' = count \/ Slip)
          /\ \E m : Goes(p, m, own[p])
    BY <1>12 DEF CloseCall
  <2>2. PICK i \in DOMAIN CloseOrder :
          /\ pc[p] = CloseOrder[i][1] /\ (count' = count \/ Slip)
          /\ \E m : Goes(p, m, own[p])
    BY <2>1
  <2>3. pc[p] \notin {"off", "run"}
    BY <2>2, CallNames
  <2>4. pc'[p] # "off"
    BY <1>12, ClosingFlow
  <2> QED BY <1>1, <2>2, <2>3, <2>4
<1>13. CASE Exit(p) \/ Kill(p) \/ RollbackPanics(p)
  BY <1>4, <1>13 DEF Exit, Kill, RollbackPanics
<1> QED BY <1>5, <1>6, <1>7, <1>8, <1>9, <1>10, <1>11, <1>12, <1>13
        DEF Acts, StartCall

LEMMA SlipsStay ==
    ASSUME HostInv, NEW p \in Proc, Acts(p)
    PROVE  count.slip \in Nat /\ (count'.slip = 0 => count.slip = 0)
<1>1. count \in Counts
  BY Typed
<1>2. count.slip \in Nat /\ count.slip + 1 # 0
  BY <1>1 DEF Counts
<1>3. CASE count' = count \/ Fault \/ Slip
  BY <1>1, <1>2, <1>3 DEF Fault, Slip, Counted, Counts
<1>4. CASE Exit(p) \/ Kill(p) \/ RollbackPanics(p)
  BY <1>1, <1>4 DEF Exit, Kill, RollbackPanics, Counted, Counts
<1> QED BY <1>2, <1>3, <1>4, ActsTurn

Moves(p) == Flow(p) /\ Effects(p) /\ Others(p) /\ Turns(p)

LEMMA ActsMove ==
    ASSUME HostInv, NEW p \in Proc, Acts(p)
    PROVE  Moves(p)
BY ActsFlow, ActsTurn DEF Moves

LEMMA Apart == (Onward \cup Middle) \cap (Leaving \cup {"off"}) = {}
BY DEF Onward, Middle, Leaving

LEMMA HoldingsKept ==
    ASSUME HostInv, Company, NEW p \in Proc, Moves(p)
    PROVE  Holdings'
<1>1. /\ Nobody \notin Proc /\ "tun" \in Exclusive
      /\ host.held \in [Exclusive -> Proc \cup {Nobody}]
      /\ pc[p] \in Call \cup {"off"}
  BY Typed, HostFields, HostSetupAssumption DEF Exclusive
<1>2. ASSUME NEW q \in Proc \ {p}
      PROVE  /\ pc'[q] = "off" => own'[q] = {}
             /\ Called(pc'[q], own'[q])
             /\ "zone" \in own'[q] => "tun" \in own'[q]
             /\ "tun" \in own'[q] /\ pc'[q] \in Onward \cup Middle
                => host'.held["tun"] = q
  <2>1. pc'[q] = pc[q] /\ own'[q] = own[q]
    BY DEF Moves, Others
  <2>2. host.held["tun"] = q => host'.held["tun"] = q
    BY <1>1 DEF Moves, Effects
  <2>3. /\ pc[q] = "off" => own[q] = {}
        /\ Called(pc[q], own[q])
        /\ "zone" \in own[q] => "tun" \in own[q]
        /\ "tun" \in own[q] /\ pc[q] \in Onward \cup Middle
           => host.held["tun"] = q
    BY DEF Company, Holdings
  <2> QED BY <2>1, <2>2, <2>3
<1>3. /\ pc'[p] = "off" => own'[p] = {}
      /\ Called(pc'[p], own'[p])
      /\ "zone" \in own'[p] => "tun" \in own'[p]
  <2>1. /\ pc[p] = "off" => own[p] = {}
        /\ Called(pc[p], own[p])
        /\ "zone" \in own[p] => "tun" \in own[p]
    BY DEF Company, Holdings
  <2> QED BY <2>1 DEF Moves, Flow, FlowOf, Starts, GivesBack, Closes, Called, Onward, Leaving, WithTun, WithExit
<1>4. ASSUME "tun" \in own'[p], pc'[p] \in Onward \cup Middle
      PROVE  host'.held["tun"] = p
  <2>0. pc'[p] \notin Leaving \cup {"off"}
    BY <1>4, Apart
  <2>1. SUFFICES host.held["tun"] = p
    BY <1>1, <2>0 DEF Moves, Effects
  <2>2. pc[p] \in Onward \cup Middle /\ ("tun" \in own[p] \/ pc[p] = "zone")
    <3>2. pc[p] = "off" => own[p] = {}
      BY DEF Company, Holdings
    <3>3. Starts(pc[p], pc'[p], own[p], own'[p])
      BY <2>0 DEF Moves, Flow, FlowOf, GivesBack, Closes
    <3>4. pc[p] # "off"
      BY <1>4, <3>2, <3>3 DEF Starts, WithTun, WithExit
    <3>5. "tun" \in own[p] \/ pc[p] = "zone"
      BY <1>4, <3>3, StartsHold
    <3>6. pc[p] \in Onward \cup Middle
      BY <3>3, <3>4 DEF Starts, Onward, Middle, WithTun, WithExit
    <3> QED BY <3>5, <3>6
  <2>3. pc[p] = "zone" => host.held["tun"] = p
    BY DEF HostInv, Descriptors, WithTun
  <2> QED BY <2>2, <2>3 DEF Company, Holdings
<1> QED BY <1>2, <1>3, <1>4 DEF Holdings

LEMMA TakesKept ==
    ASSUME HostInv, Company, NEW p \in Proc, Moves(p)
    PROVE  Takes'
<1>1. /\ Nobody \notin Proc /\ {"none", "stale"} \cap Proc = {}
      /\ host.held \in [Exclusive -> Proc \cup {Nobody}]
      /\ host.sock \in [Path -> Proc \cup {"none", "stale"}]
      /\ {"udp", "tun", "socks"} \subseteq Exclusive
  BY Typed, HostFields, HostSetupAssumption DEF Exclusive
<1>2. \A x \in Exclusive : host.held[x] = p => pc[p] # "off"
  BY <1>1 DEF HostInv, Descriptors
<1>3. ASSUME NEW q \in Proc \ {p}
      PROVE  /\ \A x \in Exclusive : host'.held[x] = q => host.held[x] = q
             /\ \A x \in Path : host'.sock[x] = q => host.sock[x] = q
             /\ pc'[q] = pc[q]
  <2>1. \A x \in Exclusive : host'.held[x] = q => host.held[x] = q
    <3>1. \A x \in Exclusive :
             host'.held[x] = host.held[x] \/ host'.held[x] \in {Nobody, p}
      BY DEF Moves, Effects
    <3> QED BY <1>1, <3>1
  <2>2. \A x \in Path : host'.sock[x] = q => host.sock[x] = q
    BY <1>1 DEF Moves, Effects
  <2> QED BY <2>1, <2>2 DEF Moves, Others
<1>4. ASSUME NEW q \in Proc \ {p}
      PROVE  /\ host'.held["udp"] = q => pc'[q] # "udp"
             /\ host'.held["tun"] = q => pc'[q] \notin
                   {"udp", "stat", "dial", "remove", "remove live", "bind", "chmod", "open"}
             /\ host'.held["socks"] = q => pc'[q] \in {"http", "run"} \cup Leaving
             /\ \A x \in Path : host'.sock[x] = q =>
                   /\ x = PathOf[q]
                   /\ pc'[q] \notin {"off", "udp", "stat", "dial", "remove", "remove live", "bind"}
  <2>1. /\ host.held["udp"] = q => pc[q] # "udp"
        /\ host.held["tun"] = q => pc[q] \notin
              {"udp", "stat", "dial", "remove", "remove live", "bind", "chmod", "open"}
        /\ host.held["socks"] = q => pc[q] \in {"http", "run"} \cup Leaving
        /\ \A x \in Path : host.sock[x] = q =>
              /\ x = PathOf[q]
              /\ pc[q] \notin {"off", "udp", "stat", "dial", "remove", "remove live", "bind"}
    BY DEF Company, Takes
  <2>2. pc'[q] = pc[q]
    BY <1>3
  <2>3. host'.held["udp"] = q => host.held["udp"] = q
    BY <1>1, <1>3
  <2>4. host'.held["tun"] = q => host.held["tun"] = q
    BY <1>1, <1>3
  <2>5. host'.held["socks"] = q => host.held["socks"] = q
    BY <1>1, <1>3
  <2>6. \A x \in Path : host'.sock[x] = q => host.sock[x] = q
    BY <1>3
  <2> QED BY <2>1, <2>2, <2>3, <2>4, <2>5, <2>6
<1>5. host'.held["udp"] = p => pc'[p] # "udp"
  <2>1. SUFFICES ASSUME host'.held["udp"] = p, pc'[p] = "udp" PROVE FALSE
    OBVIOUS
  <2>2. host.held["udp"] = p
    BY <1>1, <2>1 DEF Moves, Effects
  <2>3. pc[p] \notin {"udp", "off"}
    BY <1>1, <1>2, <2>2 DEF Company, Takes
  <2> QED BY <2>1, <2>3 DEF Moves, Flow, FlowOf, Starts, GivesBack, Closes, Onward, Leaving, WithTun, WithExit
<1>6. host'.held["tun"] = p =>
         pc'[p] \notin {"udp", "stat", "dial", "remove", "remove live", "bind", "chmod", "open"}
  <2>1. SUFFICES ASSUME host'.held["tun"] = p, host.held["tun"] = p
        PROVE pc'[p] \notin {"udp", "stat", "dial", "remove", "remove live", "bind", "chmod", "open"}
    BY <1>1 DEF Moves, Effects
  <2>2. pc[p] \notin {"off", "udp", "stat", "dial", "remove", "remove live", "bind", "chmod", "open"}
    BY <1>1, <1>2, <2>1 DEF Company, Takes
  <2> QED BY <2>2 DEF Moves, Flow, FlowOf, Starts, GivesBack, Closes, Onward, Leaving, WithTun, WithExit
<1>7. host'.held["socks"] = p => pc'[p] \in {"http", "run"} \cup Leaving
  <2>1. SUFFICES ASSUME host'.held["socks"] = p, host.held["socks"] = p
        PROVE pc'[p] \in {"http", "run"} \cup Leaving
    BY <1>1 DEF Moves, Effects
  <2>2. pc'[p] # "off"
    BY <1>1, <2>1 DEF Moves, Effects
  <2>3. pc[p] \in {"http", "run"} \cup Leaving
    BY <2>1 DEF Company, Takes
  <2> QED BY <2>2, <2>3 DEF Moves, Flow, FlowOf, Starts, GivesBack, Closes, Leaving, WithTun, WithExit
<1>8. ASSUME NEW x \in Path, host'.sock[x] = p
      PROVE  /\ x = PathOf[p]
             /\ pc'[p] \notin {"off", "udp", "stat", "dial", "remove", "remove live", "bind"}
  <2>1. CASE host.sock[x] = p
    <3>1. /\ x = PathOf[p] /\ pc'[p] # "off"
          /\ pc[p] \notin {"off", "udp", "stat", "dial", "remove", "remove live", "bind"}
      BY <1>1, <1>8, <2>1 DEF Company, Takes, Moves, Effects
    <3> QED BY <3>1 DEF Moves, Flow, FlowOf, Starts, GivesBack, Closes, Onward, Leaving, WithTun, WithExit
  <2>2. CASE host.sock[x] # p
    BY <1>1, <1>8, <2>2 DEF Moves, Effects
  <2> QED BY <2>1, <2>2
<1> QED BY <1>4, <1>5, <1>6, <1>7, <1>8 DEF Takes

LEMMA GuestsKept ==
    ASSUME HostInv, Company, NEW p \in Proc, Moves(p)
    PROVE  Guests'
<1>1. /\ Nobody \notin Proc /\ {"none", "stale"} \cap Proc = {}
      /\ PathOf \in [Proc -> Path] /\ "tun" \in Exclusive
      /\ since \in [Proc -> SUBSET Proc]
  BY HostSetupAssumption DEF Exclusive, Company
<1> SUFFICES ASSUME NEW q \in Proc, NEW r \in since'[q]
             PROVE  /\ r # q /\ pc'[r] = "run" /\ pc'[q] # "off"
                    /\ host'.held["tun"] = r =>
                          /\ own'[q] \cap {"tun", "zone", "exit"} = {}
                          /\ pc'[q] \notin WithTun \cup WithExit
                    /\ PathOf[q] = PathOf[r] /\ host'.sock[PathOf[r]] = r =>
                          /\ "control" \notin own'[q]
                          /\ pc'[q] \notin {"remove", "bind", "chmod"}
  BY DEF Guests, Socket
<1>2. \A k \in Proc : \A n \in since[k] : n # k /\ pc[n] = "run" /\ pc[k] # "off"
  BY DEF Company, Guests
<1>3. /\ r \in Proc \ {p} /\ pc[r] = "run"
      /\ r \in since[q] \/ (q = p /\ pc[p] = "off")
      /\ q = p => pc'[p] # "off"
  <2>1. CASE /\ pc[p] = "off" /\ pc'[p] # "off"
             /\ since' = [since EXCEPT ![p] = {k \in Proc : pc[k] = "run"}]
    <3>1. CASE q = p
      BY <1>1, <2>1, <3>1
    <3>2. CASE q # p
      BY <1>1, <1>2, <2>1, <3>2
    <3> QED BY <3>1, <3>2
  <2>2. CASE /\ pc[p] = "run" /\ pc'[p] # "off"
             /\ since' = [k \in Proc |-> since[k] \ {p}]
    BY <1>1, <1>2, <2>2
  <2>3. CASE since' = [k \in Proc |-> IF k = p THEN {} ELSE since[k] \ {p}]
    BY <1>1, <1>2, <2>3
  <2>4. CASE pc[p] # "run" /\ pc'[p] # "off" /\ since' = since
    BY <1>1, <1>2, <2>4
  <2> QED BY <2>1, <2>2, <2>3, <2>4 DEF Moves, Turns
<1>4. r # q /\ pc'[r] = "run" /\ pc'[q] # "off"
  BY <1>2, <1>3 DEF Moves, Others
<1>5. host'.held["tun"] = r => host.held["tun"] = r
  <2>1. host'.held["tun"] = host.held["tun"] \/ host'.held["tun"] \in {Nobody, p}
    BY <1>1 DEF Moves, Effects
  <2> QED BY <1>1, <1>3, <2>1
<1>6. host'.sock[PathOf[r]] = r => host.sock[PathOf[r]] = r
  <2>1. PathOf[r] \in Path
    BY <1>1, <1>3
  <2>2. \/ host'.sock[PathOf[r]] = host.sock[PathOf[r]]
        \/ host'.sock[PathOf[r]] \in {"none", "stale", p}
    BY <2>1 DEF Moves, Effects
  <2> QED BY <1>1, <1>3, <2>2
<1>7. CASE q # p
  <2>1. /\ host.held["tun"] = r =>
              /\ own[q] \cap {"tun", "zone", "exit"} = {}
              /\ pc[q] \notin WithTun \cup WithExit
        /\ PathOf[q] = PathOf[r] /\ host.sock[PathOf[r]] = r =>
              "control" \notin own[q] /\ pc[q] \notin {"remove", "bind", "chmod"}
    BY <1>3, <1>7 DEF Company, Guests, Socket
  <2>2. pc'[q] = pc[q] /\ own'[q] = own[q]
    BY <1>7 DEF Moves, Others
  <2> QED BY <1>4, <1>5, <1>6, <2>1, <2>2
<1>8. CASE q = p /\ pc[p] = "off"
  <2>1. own[p] = {}
    BY <1>8 DEF Company, Holdings
  <2>2. Starts("off", pc'[p], {}, own'[p])
    BY <1>3, <1>8, <2>1 DEF Moves, Flow, FlowOf, GivesBack, Closes, Onward, Middle, Leaving
  <2>3. pc'[p] \in Onward \ {"sysctl"} /\ own'[p] = {}
    BY <2>2 DEF Starts, WithTun, WithExit
  <2>4. pc'[p] \notin WithTun \cup WithExit \cup {"remove", "bind", "chmod"}
    BY <2>3 DEF Onward, WithTun, WithExit
  <2> QED BY <1>4, <1>8, <2>3, <2>4
<1>9. CASE q = p /\ r \in since[p]
  <2>1. /\ host.held["tun"] = r =>
              /\ own[p] \cap {"tun", "zone", "exit"} = {}
              /\ pc[p] \notin WithTun \cup WithExit
        /\ PathOf[p] = PathOf[r] /\ host.sock[PathOf[r]] = r =>
              "control" \notin own[p] /\ pc[p] \notin {"remove", "bind", "chmod"}
        /\ pc[p] # "off"
    BY <1>9 DEF Company, Guests, Socket
  <2>2. \/ Starts(pc[p], pc'[p], own[p], own'[p]) /\ Guarded(p, pc[p], pc'[p])
        \/ pc'[p] \in Leaving /\ own'[p] = own[p]
    BY <1>3, <1>9 DEF Moves, Flow, FlowOf, GivesBack, Closes
  <2>3. ASSUME host.held["tun"] = r
        PROVE  /\ own'[p] \cap {"tun", "zone", "exit"} = {}
               /\ pc'[p] \notin WithTun \cup WithExit
    <3>1. CASE Starts(pc[p], pc'[p], own[p], own'[p]) /\ Guarded(p, pc[p], pc'[p])
      <4>1. ~(pc[p] = "open" /\ pc'[p] = "configure")
        BY <1>1, <1>3, <2>3, <3>1 DEF Guarded
      <4>2. pc[p] \notin WithTun \cup WithExit /\ pc[p] \notin {"zone", "forward6"}
        BY <2>1, <2>3 DEF WithTun, WithExit
      <4>3. own'[p] \in {own[p], own[p] \cup {"udp"}, own[p] \cup {"socks"},
                        own[p] \cup {"control"}}
        BY <3>1, <4>2 DEF Starts
      <4>4. pc'[p] \in {"dial", "remove", "remove live", "bind", "chmod"}
                        \cup (Onward \ {"sysctl"})
        BY <2>1, <3>1, <4>1, <4>2 DEF Starts, Onward
      <4>5. pc'[p] \notin WithTun \cup WithExit
        BY <4>4 DEF Onward, WithTun, WithExit
      <4> QED BY <2>1, <2>3, <4>3, <4>5
    <3>2. CASE pc'[p] \in Leaving /\ own'[p] = own[p]
      BY <2>1, <2>3, <3>2 DEF Leaving, WithTun, WithExit
    <3> QED BY <2>2, <3>1, <3>2
  <2>4. ASSUME PathOf[p] = PathOf[r], host.sock[PathOf[r]] = r,
               host'.sock[PathOf[r]] = r
        PROVE  "control" \notin own'[p] /\ pc'[p] \notin {"remove", "bind", "chmod"}
    <3>1. CASE Starts(pc[p], pc'[p], own[p], own'[p]) /\ Guarded(p, pc[p], pc'[p])
      <4>1. pc[p] \notin {"remove", "bind", "chmod"} /\ "control" \notin own[p]
        BY <2>1, <2>4
      <4>2. /\ ~(pc[p] = "stat" /\ pc'[p] = "bind")
            /\ ~(pc[p] = "dial" /\ pc'[p] = "remove")
        BY <1>1, <1>3, <2>4, <3>1 DEF Guarded, Socket
      <4>5. ~(pc[p] = "remove live" /\ pc'[p] = "bind")
        <5>1. SUFFICES ASSUME host' = File(p, "none") PROVE FALSE
          BY <3>1 DEF Guarded
        <5>2. /\ host'.sock = [host.sock EXCEPT ![PathOf[p]] = "none"]
              /\ host.sock \in [Path -> Proc \cup {"none", "stale"}]
              /\ PathOf[p] \in Path
          BY <1>1, <5>1, FileIs, Typed, HostFields
        <5> QED BY <1>1, <1>3, <2>4, <5>2
      <4>3. "control" \notin own'[p]
        BY <3>1, <4>1, StartsHold
      <4>4. pc'[p] \notin {"remove", "bind", "chmod"}
        BY <3>1, <4>1, <4>2, <4>5 DEF Starts, Onward, WithTun, WithExit
      <4> QED BY <4>3, <4>4
    <3>2. CASE pc'[p] \in Leaving /\ own'[p] = own[p]
      BY <2>1, <2>4, <3>2 DEF Leaving
    <3> QED BY <2>2, <3>1, <3>2
  <2> QED BY <1>4, <1>5, <1>6, <1>9, <2>3, <2>4
<1> QED BY <1>3, <1>7, <1>8, <1>9

(* Only the process that has the host to itself can move.                   *)
LEMMA AloneMoves ==
    ASSUME HostInv, Company, NEW p \in Proc, Moves(p), NEW q \in alone'
    PROVE  /\ q = p /\ pc'[p] # "off" /\ \A k \in Proc \ {p} : pc'[k] = "off"
           /\ p \in alone \/ pc[p] = "off"
<1>1. /\ alone \in SUBSET Proc
      /\ \A k \in alone : pc[k] # "off" /\ \A n \in Proc \ {k} : pc[n] = "off"
  BY DEF Company, Alone
<1>2. CASE pc[p] = "off" /\ pc'[p] # "off"
  <2>1. q = p /\ \A k \in Proc : pc[k] = "off"
    BY <1>1, <1>2 DEF Moves, Turns
  <2> QED BY <1>2, <2>1 DEF Moves, Others
<1>3. CASE ~(pc[p] = "off" /\ pc'[p] # "off")
  <2>1. q \in alone /\ (q = p => pc'[p] # "off")
    BY <1>3 DEF Moves, Turns
  <2>2. pc[p] # "off"
    BY <1>1, <1>3, <2>1 DEF Moves, Flow, FlowOf, Starts, GivesBack, Closes,
       Onward, Middle, Leaving, WithTun, WithExit
  <2>3. q = p
    BY <1>1, <2>1, <2>2
  <2> QED BY <1>1, <2>1, <2>3 DEF Moves, Others
<1> QED BY <1>2, <1>3

LEMMA AloneKept ==
    ASSUME HostInv, Company, NEW p \in Proc, Moves(p)
    PROVE  Alone'
<1> SUFFICES ASSUME NEW q \in alone'
             PROVE  /\ pc'[q] # "off" /\ \A k \in Proc \ {q} : pc'[k] = "off"
                    /\ pc'[q] = "bind" => host'.sock[PathOf[q]] = "none"
                    /\ pc'[q] = "chmod" => host'.sock[PathOf[q]] = q
  BY DEF Alone, Socket
<1>1. q = p /\ pc'[p] # "off" /\ \A k \in Proc \ {p} : pc'[k] = "off"
  BY AloneMoves
<1>2. /\ PathOf[p] \in Path /\ host \in Host
      /\ host.sock \in [Path -> Proc \cup {"none", "stale"}]
  BY Typed, HostFields, HostSetupAssumption
<1>3. \/ Starts(pc[p], pc'[p], own[p], own'[p]) /\ Guarded(p, pc[p], pc'[p])
      \/ pc'[p] \in Leaving
  BY <1>1 DEF Moves, Flow, FlowOf, GivesBack, Closes
<1>4. ASSUME pc'[p] = "bind" PROVE host'.sock[PathOf[p]] = "none"
  <2>1. Starts(pc[p], "bind", own[p], own'[p]) /\ Guarded(p, pc[p], "bind")
    BY <1>3, <1>4 DEF Leaving
  <2>2. pc[p] \in {"stat", "remove", "remove live"}
    BY <2>1 DEF Starts, Onward, WithTun, WithExit
  <2>3. \/ Socket(p) = "none" /\ host' = host
        \/ host' = File(p, "none")
    BY <2>1, <2>2 DEF Guarded
  <2>4. PICK v \in Proc \cup {"none"} : v = "none"
    OBVIOUS
  <2>5. CASE host' = File(p, v)
    <3>1. host'.sock = [host.sock EXCEPT ![PathOf[p]] = v]
      BY <1>2, <2>5, FileIs
    <3> QED BY <1>2, <2>4, <3>1
  <2> QED BY <2>3, <2>4, <2>5 DEF Socket
<1>5. ASSUME pc'[p] = "chmod" PROVE host'.sock[PathOf[p]] = p
  <2>1. Starts(pc[p], "chmod", own[p], own'[p]) /\ Guarded(p, pc[p], "chmod")
    BY <1>3, <1>5 DEF Leaving
  <2>2. pc[p] = "bind"
    BY <2>1 DEF Starts, Onward, WithTun, WithExit
  <2>3. host' = File(p, p)
    BY <2>1, <2>2 DEF Guarded
  <2>4. PICK v \in Proc \cup {"none"} : v = p
    OBVIOUS
  <2>5. host'.sock = [host.sock EXCEPT ![PathOf[p]] = v]
    BY <1>2, <2>3, <2>4, FileIs
  <2> QED BY <1>2, <2>4, <2>5
<1> QED BY <1>1, <1>4, <1>5

LEMMA HealedKept ==
    ASSUME HostInv, Company, NEW p \in Proc, Moves(p),
           count.slip \in Nat, count'.slip = 0 => count.slip = 0
    PROVE  Healed'
<1> SUFFICES ASSUME NEW q \in alone', count'.slip = 0
             PROVE  /\ "control" \in own'[q] /\ ~WillUnlink(pc'[q], own'[q])
                       => host'.sock[PathOf[q]] = "none"
                    /\ "zone" \in own'[q] /\ ~WillZone(pc'[q], own'[q])
                       => ~host'.zone
                    /\ "exit" \in own'[q] /\ ~WillTable(pc'[q], own'[q])
                       => ~host'.table
  BY DEF Healed, Socket
<1>1. /\ q = p /\ pc'[p] # "off" /\ count.slip = 0
      /\ p \in alone \/ pc[p] = "off"
  BY AloneMoves
<1>2. ASSUME Starts(pc[p], pc'[p], own[p], own'[p])
      PROVE  /\ "control" \in own'[p] => WillUnlink(pc'[p], own'[p])
             /\ "zone" \in own'[p] => WillZone(pc'[p], own'[p])
             /\ "exit" \in own'[p] => WillTable(pc'[p], own'[p])
  <2>1. pc'[p] \notin Leaving \cup {"off"}
    BY <1>2 DEF Starts, Onward, Leaving, WithTun, WithExit
  <2> QED BY <2>1 DEF Leaving, WillUnlink, WillZone, WillTable
<1>3. ASSUME GivesBack(pc[p], pc'[p], own[p], own'[p])
      PROVE  /\ "control" \in own'[p] => WillUnlink(pc'[p], own'[p])
             /\ "zone" \in own'[p] => WillZone(pc'[p], own'[p])
             /\ "exit" \in own'[p] => WillTable(pc'[p], own'[p])
  BY <1>3 DEF GivesBack
<1>4. CASE Closes(p, pc[p], pc'[p], own[p], own'[p])
  <2>1. count'.slip # count.slip + 1
    BY <1>1
  <2>2. /\ pc[p] \in Leaving /\ own'[p] = own[p]
        /\ pc[p] \in {"unlink", "remove file"} => host' = File(p, "none")
        /\ pc[p] \notin {"unlink", "remove file"} /\ WillUnlink(pc[p], own[p])
           => WillUnlink(pc'[p], own[p])
        /\ pc[p] = "zone off" => ~host'.zone
        /\ pc[p] # "zone off" /\ WillZone(pc[p], own[p])
           => WillZone(pc'[p], own[p])
        /\ pc[p] = "table off" => ~host'.table
        /\ pc[p] # "table off" /\ WillTable(pc[p], own[p])
           => WillTable(pc'[p], own[p])
    BY <1>4, <2>1 DEF Closes
  <2>3. /\ pc[p] \notin {"off", "bind", "zone", "nft"}
        /\ p \in alone
    BY <1>1, <2>2 DEF Leaving
  <2>4. /\ "control" \in own[p] /\ ~WillUnlink(pc[p], own[p]) => Socket(p) = "none"
        /\ "zone" \in own[p] /\ ~WillZone(pc[p], own[p]) => ~host.zone
        /\ "exit" \in own[p] /\ ~WillTable(pc[p], own[p]) => ~host.table
    BY <1>1, <2>3 DEF Company, Healed
  <2>5. /\ PathOf[p] \in Path /\ host \in Host /\ p \notin {"none", "stale"}
        /\ host.sock \in [Path -> Proc \cup {"none", "stale"}]
    BY Typed, HostFields, HostSetupAssumption
  <2>6. pc[p] \in {"unlink", "remove file"} => host'.sock[PathOf[p]] = "none"
    <3>1. PICK v \in Proc \cup {"none"} : v = "none"
      OBVIOUS
    <3>2. CASE host' = File(p, v)
      <4>1. host'.sock = [host.sock EXCEPT ![PathOf[p]] = v]
        BY <3>2, FileIs
      <4> QED BY <2>5, <3>1, <4>1
    <3> QED BY <2>2, <3>1, <3>2
  <2>7. Socket(p) = "none" => host'.sock[PathOf[p]] = "none"
    BY <2>3, <2>5 DEF Moves, Effects, Socket
  <2>8. "control" \in own[p] /\ ~WillUnlink(pc'[p], own[p])
           => host'.sock[PathOf[p]] = "none"
    BY <2>2, <2>4, <2>6, <2>7
  <2>9. "zone" \in own[p] /\ ~WillZone(pc'[p], own[p]) => ~host'.zone
    <3>1. ~host.zone => ~host'.zone
      BY <2>3 DEF Moves, Effects
    <3> QED BY <2>2, <2>4, <3>1
  <2>10. "exit" \in own[p] /\ ~WillTable(pc'[p], own[p]) => ~host'.table
    <3>1. ~host.table => ~host'.table
      BY <2>3 DEF Moves, Effects
    <3> QED BY <2>2, <2>4, <3>1
  <2> QED BY <1>1, <2>2, <2>8, <2>9, <2>10
<1> QED BY <1>1, <1>2, <1>3, <1>4 DEF Moves, Flow, FlowOf

LEMMA CompanyKept ==
    ASSUME HostInv, Company, [HostNext]_hostVars
    PROVE  Company'
<1>1. CASE UNCHANGED hostVars
  <2>1. /\ pc' = pc /\ own' = own /\ host' = host
        /\ since' = since /\ alone' = alone /\ count' = count
    BY <1>1 DEF hostVars
  <2>2. Holdings' /\ Takes'
    BY <2>1 DEF Company, Holdings, Takes
  <2>3. Guests'
    BY <2>1 DEF Company, Guests, Socket
  <2>4. Alone' /\ Healed'
    BY <2>1 DEF Company, Alone, Healed, Socket
  <2> QED BY <2>1, <2>2, <2>3, <2>4 DEF Company
<1>2. ASSUME NEW p \in Proc, Acts(p)
      PROVE  Company'
  <2>1. Moves(p)
    BY <1>2, ActsMove
  <2>2. since' \in [Proc -> SUBSET Proc] /\ alone' \in SUBSET Proc
    BY <2>1 DEF Moves, Turns, Company
  <2>3. Healed'
    BY <1>2, <2>1, SlipsStay, HealedKept
  <2> QED BY <2>1, <2>2, <2>3, HoldingsKept, TakesKept, GuestsKept, AloneKept
          DEF Company
<1> QED BY <1>1, <1>2 DEF HostNext, Acts

LEMMA CompanyInit == HostInit => Company
<1> SUFFICES ASSUME HostInit PROVE Company
  OBVIOUS
<1>1. /\ pc = [p \in Proc |-> "off"] /\ own = [p \in Proc |-> {}]
      /\ since = [p \in Proc |-> {}] /\ alone = {}
      /\ host = [held |-> [x \in Exclusive |-> Nobody],
                 sock |-> [x \in Path |-> "none"],
                 dns |-> FALSE, zone |-> FALSE,
                 table |-> FALSE, rules |-> [p \in Proc |-> {}],
                 orphans |-> FALSE, half |-> FALSE,
                 forwarding |-> FALSE, hosts |-> TRUE]
  BY DEF HostInit, Clean
<1>2. Holdings
  BY <1>1 DEF Holdings, Called
<1>3. Takes
  BY <1>1, HostSetupAssumption DEF Takes, Exclusive
<1>4. Guests /\ Alone /\ Healed
  BY <1>1 DEF Guests, Alone, Healed
<1> QED BY <1>1, <1>2, <1>3, <1>4 DEF Company

(* The second half of the inductive invariant holds in every reachable      *)
(* state: what each process is about to do agrees with what it holds, with  *)
(* what the host has of it, and with who runs beside it.                    *)
THEOREM CompanyInvariant == HostSpec => []Company
<1>1. HostInit => HostInv /\ Company
  BY HostInitInv, CompanyInit
<1>2. HostInv /\ Company /\ [HostNext]_hostVars => HostInv' /\ Company'
  BY HostNextInv, CompanyKept
<1> QED BY <1>1, <1>2, PTL DEF HostSpec

LEMMA ActorIs ==
    ASSUME HostInv, [HostNext]_hostVars, NEW p \in Proc, pc'[p] # pc[p]
    PROVE  Acts(p) /\ Moves(p)
<1>1. PICK q \in Proc : Acts(q)
  BY DEF HostNext, Acts, hostVars
<1>2. Moves(q)
  BY <1>1, ActsMove
<1>3. p = q
  BY <1>2 DEF Moves, Others
<1> QED BY <1>1, <1>2, <1>3

(* A process that starts beside a running node, fails there or is killed    *)
(* takes neither the TUN, the resolver, the zone nor the NAT away from it,  *)
(* and the control socket only after a dial that the node did not accept,   *)
(* for any number of processes and configurations.                          *)
THEOREM NothingTakenByGuests == HostSpec => GuestsTakeNothing
<1>1. ASSUME HostInv, Company, [HostNext]_hostVars, NEW p \in Proc, NEW q \in Proc,
             p \in since[q], pc'[q] # pc[q],
             NEW x \in StillHas(p), ~(pc[q] = "remove live" /\ x = "control")
      PROVE  x \in StillHas(p)'
  <2>1. Moves(q)
    BY <1>1, ActorIs
  <2>2. /\ p # q /\ pc[p] = "run"
        /\ host.held["tun"] = p =>
              /\ own[q] \cap {"tun", "zone", "exit"} = {}
              /\ pc[q] \notin WithTun \cup WithExit
        /\ PathOf[q] = PathOf[p] /\ Socket(p) = p =>
              "control" \notin own[q] /\ pc[q] \notin {"remove", "bind", "chmod"}
    BY <1>1 DEF Company, Guests
  <2>3. Called(pc[q], own[q])
    BY <1>1 DEF Company, Holdings
  <2>4. /\ Nobody # p /\ p \notin {"none", "stale"} /\ PathOf[p] \in Path
        /\ Exclusive = {"udp", "tun", "socks"}
    BY HostSetupAssumption DEF Exclusive
  <2>5. own'[p] = own[p]
    BY <2>1, <2>2 DEF Moves, Others
  <2>6. Socket(p) = p /\ pc[q] # "remove live" => host'.sock[PathOf[p]] = p
    <3>1. ASSUME Socket(p) = p, PathOf[q] = PathOf[p]
          PROVE  pc[q] \notin {"remove", "chmod", "unlink", "remove file"}
      BY <2>2, <2>3, <3>1 DEF Called
    <3> QED BY <2>1, <2>2, <2>4, <3>1 DEF Moves, Effects, Socket
  <2>7. \A y \in Exclusive : host.held[y] = p => host'.held[y] = p
    BY <2>1, <2>2, <2>4 DEF Moves, Effects
  <2>8. ASSUME host.held["tun"] = p
        PROVE  /\ host.dns => host'.dns
               /\ host.zone => host'.zone
               /\ host.table => host'.table
    <3>1. pc[q] \notin {"dns off", "zone off", "reset", "undo table", "table off"}
      BY <2>2, <2>3, <2>8 DEF Called, WithExit
    <3> QED BY <2>1, <2>2, <2>8, <3>1 DEF Moves, Effects
  <2>9. host'.rules[p] = host.rules[p]
    BY <2>1, <2>2 DEF Moves, Effects
  <2>10. "zone" \in own[p] => host.held["tun"] = p
    BY <1>1, <2>2 DEF Company, Holdings, Onward
  <2>11. x \in Wants \cup {"dns", "zone"}
    BY <1>1 DEF StillHas
  <2>12. CASE x = "control"
    BY <1>1, <2>4, <2>6, <2>11, <2>12 DEF StillHas, Socket
  <2>13. CASE x \in Exclusive
    BY <1>1, <2>4, <2>7, <2>11, <2>13 DEF StillHas
  <2>14. CASE x = "dns"
    BY <1>1, <2>4, <2>7, <2>8, <2>11, <2>14 DEF StillHas
  <2>15. CASE x = "zone"
    BY <1>1, <2>4, <2>5, <2>8, <2>10, <2>11, <2>15 DEF StillHas
  <2>16. CASE x = "exit"
    BY <1>1, <2>4, <2>7, <2>8, <2>9, <2>11, <2>16 DEF StillHas
  <2>17. CASE x \notin Exclusive \cup {"control", "dns", "zone", "exit"}
    BY <1>1, <2>4, <2>11, <2>17 DEF StillHas
  <2> QED BY <2>12, <2>13, <2>14, <2>15, <2>16, <2>17
<1>2. HostInv /\ Company /\ [HostNext]_hostVars =>
         [\A p, q \in Proc :
             p \in since[q] /\ pc'[q] # pc[q] =>
                 StillHas(p) \ (IF pc[q] = "remove live" THEN {"control"} ELSE {})
                     \subseteq StillHas(p)']_hostVars
  BY <1>1
<1> QED BY <1>2, HostInvariant, CompanyInvariant, PTL
        DEF HostSpec, GuestsTakeNothing

(* A node that no other process was beside leaves no socket file, no zone   *)
(* and no table behind when it held one, not even those of processes killed *)
(* before it.                                                               *)
THEOREM ExitsHeal == HostSpec => OrderlyExitHeals
<1>1. ASSUME HostInv, Company, [HostNext]_hostVars, NEW p \in Proc,
             pc[p] = "exit process", pc'[p] = "off",
             p \in alone, count.slip = 0
      PROVE  /\ "control" \in own[p] => host'.sock[PathOf[p]] = "none"
             /\ "zone" \in own[p] => ~host'.zone
             /\ "exit" \in own[p] => ~host'.table
  <2>1. Effects(p)
    BY <1>1, ActorIs DEF Moves
  <2>2. /\ "control" \in own[p] => Socket(p) = "none"
        /\ "zone" \in own[p] => ~host.zone
        /\ "exit" \in own[p] => ~host.table
    BY <1>1 DEF Company, Healed, WillUnlink, WillZone, WillTable
  <2>3. PathOf[p] \in Path /\ p # "none"
    BY HostSetupAssumption
  <2>4. Socket(p) = "none" => host'.sock[PathOf[p]] = "none"
    BY <1>1, <2>1, <2>3 DEF Effects, Socket
  <2>5. (~host.zone => ~host'.zone) /\ (~host.table => ~host'.table)
    BY <1>1, <2>1 DEF Effects
  <2> QED BY <2>2, <2>4, <2>5
<1>2. HostInv /\ Company /\ [HostNext]_hostVars =>
         [\A p \in Proc :
             /\ pc[p] = "exit process" /\ pc'[p] = "off"
             /\ p \in alone /\ count.slip = 0
             => /\ "control" \in own[p] => host'.sock[PathOf[p]] = "none"
                /\ "zone" \in own[p] => ~host'.zone
                /\ "exit" \in own[p] => ~host'.table
         ]_hostVars
  BY <1>1
<1> QED BY <1>2, HostInvariant, CompanyInvariant, PTL
        DEF HostSpec, OrderlyExitHeals

LEMMA ClosingIs == Closing = Leaving
<1>1. DOMAIN CloseOrder = {1, 2, 3, 4, 5, 6, 7, 8, 9}
  <2>1. 1 .. 9 = {1, 2, 3, 4, 5, 6, 7, 8, 9}
    OBVIOUS
  <2> QED BY <2>1, CloseParts
<1>2. \A i \in DOMAIN CloseOrder : CloseOrder[i][1] \in Leaving
  BY <1>1, CloseParts DEF Leaving
<1>3. \A l \in Leaving :
         l = "exit process" \/ \E i \in DOMAIN CloseOrder : l = CloseOrder[i][1]
  BY <1>1, CloseParts DEF Leaving
<1>4. "exit process" \in Leaving
  BY DEF Leaving
<1> QED BY <1>2, <1>3, <1>4 DEF Closing

LEMMA StaysInStart ==
    ASSUME HostInv, NEW p \in Proc,
           \/ Listen(p) \/ Inner(p) \/ Chmod(p) \/ Zone(p) \/ InsertForward6(p)
           \/ Stat(p) \/ DialStale(p) \/ DialRefused(p) \/ RemoveStale(p)
           \/ Open(p) \/ Configure(p) \/ StripHopscotchHosts(p) \/ InstallDNS(p)
           \/ Sysctl(p) \/ Reset(p) \/ InstallExitNFT(p) \/ InsertForward4(p)
           \/ InsertFails(p) \/ InsertHalfFails(p) \/ UndoRules(p)
    PROVE  pc'[p] \notin Leaving
<1>1. ASSUME NEW m, NEW w, Goes(p, m, w) PROVE pc'[p] = m
  BY <1>1, GoesTo
<1>2. ASSUME NEW l, NEW m, At(p, l, m) PROVE pc'[p] = m
  BY <1>1, <1>2 DEF At
<1>3. CASE Listen(p) \/ Inner(p) \/ Chmod(p) \/ Zone(p) \/ InsertForward6(p)
  <2>1. \E part \in {"udp", "socks", "stack", "http", "control", "tun", "exit"} :
           pc'[p] = After(p, part)
    BY <1>1, <1>3 DEF Listen, Inner, Chmod, Zone, InsertForward6
  <2>2. pc'[p] \in Onward
    BY <2>1, AfterFlow DEF Onward
  <2> QED BY <2>2, Apart
<1>4. CASE \/ Stat(p) \/ DialStale(p) \/ DialRefused(p) \/ RemoveStale(p) \/ Open(p)
           \/ Configure(p) \/ StripHopscotchHosts(p) \/ InstallDNS(p)
  BY <1>2, <1>4 DEF Stat, DialStale, DialRefused, RemoveStale, Open, Configure,
                    StripHopscotchHosts, InstallDNS, Leaving
<1>5. CASE \/ Sysctl(p) \/ Reset(p) \/ InstallExitNFT(p) \/ InsertForward4(p)
           \/ InsertFails(p) \/ InsertHalfFails(p) \/ UndoRules(p)
  BY <1>2, <1>5 DEF Sysctl, Reset, InstallExitNFT, InsertForward4, InsertFails,
                    InsertHalfFails, UndoRules, Leaving
<1> QED BY <1>3, <1>4, <1>5

(* Why Start gives up when no call failed.                                  *)
LEMMA GivesUpBecause ==
    ASSUME HostInv, NEW p \in Proc, Acts(p), Starting(p), pc'[p] \in Closing,
           pc[p] \notin Undoing, count'.fault = count.fault
    PROVE  \/ Taken(p) \/ DialLive(p)
           \/ pc[p] = "bind" /\ Socket(p) # "none"
           \/ pc[p] = "chmod" /\ Socket(p) = "none"
<1>1. /\ pc[p] \notin {"off", "run"} /\ pc[p] \notin Leaving
      /\ pc'[p] \in Leaving
  BY ClosingIs DEF Starting
<1>2. "off" \notin Leaving /\ "chmod" \notin Leaving
  BY DEF Leaving
<1>3. ~Fault
  <2>1. count \in Counts
    BY Typed
  <2>2. Fault => count'.fault = count.fault + 1 /\ count.fault \in Nat
    BY <2>1 DEF Fault, Counted, Counts
  <2>3. count.fault \in Nat => count.fault + 1 # count.fault
    OBVIOUS
  <2> QED BY <2>2, <2>3
<1>4. ~Begin(p) /\ ~Stop(p) /\ ~UndoTable(p)
  BY <1>1 DEF Begin, Stop, UndoTable, Undoing
<1>5. ~CallFails(p) /\ ~ConfigureFails(p)
  BY <1>3 DEF CallFails, ConfigureFails
<1>6. ~Exit(p) /\ ~Kill(p) /\ ~RollbackPanics(p)
  <2>1. Ends(p) => pc'[p] = "off"
    BY DEF Ends, HostInv, HostTypeOK
  <2> QED BY <1>1, <1>2, <2>1 DEF Exit, Kill, RollbackPanics
<1>7. ~CloseCall(p)
  <2>1. SUFFICES ASSUME NEW i \in DOMAIN CloseOrder, pc[p] = CloseOrder[i][1]
                 PROVE  FALSE
    BY DEF CloseCall
  <2> QED BY <1>1, <2>1, ClosingIs DEF Closing
<1>8. Bind(p) => pc[p] = "bind" /\ Socket(p) # "none"
  <2>1. Goes(p, "chmod", own[p]) => pc'[p] = "chmod"
    BY GoesTo
  <2> QED BY <1>1, <1>2, <2>1 DEF Bind
<1>9. ChmodFails(p) => pc[p] = "chmod" /\ Socket(p) = "none"
  BY <1>3 DEF ChmodFails
<1> QED BY <1>1, <1>4, <1>5, <1>6, <1>7, <1>8, <1>9, StaysInStart
        DEF Acts, StartCall

(* What killed processes left never makes Start give up: without a failing  *)
(* call it does so only when another process was there.                     *)
THEOREM StartGetsThrough == HostSpec => StaleStateNeverBlocks
<1>1. ASSUME HostInv, Company, [HostNext]_hostVars, NEW p \in Proc, Starting(p),
             pc'[p] \in Closing, pc[p] \notin Undoing, count'.fault = count.fault,
             p \in alone
      PROVE  FALSE
  <2>1. Acts(p)
    <3>1. pc'[p] # pc[p]
      BY <1>1 DEF Starting
    <3> QED BY <1>1, <3>1, ActorIs
  <2>2. /\ \A q \in Proc \ {p} : pc[q] = "off"
        /\ pc[p] = "bind" => Socket(p) = "none"
        /\ pc[p] = "chmod" => Socket(p) = p
    BY <1>1 DEF Company, Alone
  <2>3. /\ host.held \in [Exclusive -> Proc \cup {Nobody}]
        /\ host.sock \in [Path -> Proc \cup {"none", "stale"}]
        /\ PathOf[p] \in Path /\ {"none", "stale"} \cap Proc = {}
        /\ {"udp", "tun", "socks"} \subseteq Exclusive /\ Nobody \notin Proc
    BY <1>1, Typed, HostFields, HostSetupAssumption DEF Exclusive
  <2>4. \A x \in Exclusive : host.held[x] # Nobody => host.held[x] = p
    BY <1>1, <2>2, <2>3 DEF HostInv, Descriptors
  <2>5. ~Taken(p)
    <3>1. SUFFICES ASSUME pc[p] \in {"udp", "open", "socks"},
                 host.held[IF pc[p] = "open" THEN "tun" ELSE pc[p]] # Nobody
                 PROVE  FALSE
      BY DEF Taken
    <3>2. /\ pc[p] = "udp" => host.held["udp"] = p
          /\ pc[p] = "open" => host.held["tun"] = p
          /\ pc[p] = "socks" => host.held["socks"] = p
      BY <2>3, <2>4, <3>1
    <3>3. /\ host.held["udp"] = p => pc[p] # "udp"
          /\ host.held["tun"] = p => pc[p] # "open"
          /\ host.held["socks"] = p => pc[p] # "socks"
      BY <1>1 DEF Company, Takes, Leaving
    <3> QED BY <3>1, <3>2, <3>3
  <2>6. ~DialLive(p)
    <3>1. SUFFICES ASSUME pc[p] = "dial", Socket(p) \in Proc PROVE FALSE
      BY DEF DialLive
    <3>2. PICK q \in Proc : q = Socket(p)
      BY <3>1
    <3>3. pc[q] \notin {"off", "dial"}
      BY <1>1, <2>3, <3>2 DEF Company, Takes, Socket
    <3> QED BY <2>2, <3>1, <3>3
  <2> QED BY <1>1, <2>1, <2>2, <2>3, <2>5, <2>6, GivesUpBecause
<1>2. HostInv /\ Company /\ [HostNext]_hostVars =>
         [\A p \in Proc :
             Starting(p) /\ (pc'[p] \in Closing) /\ pc[p] \notin Undoing
                /\ count'.fault = count.fault
             => p \notin alone]_hostVars
  BY <1>1
<1> QED BY <1>2, HostInvariant, CompanyInvariant, PTL
        DEF HostSpec, StaleStateNeverBlocks
=============================================================================
