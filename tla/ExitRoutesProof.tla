---------------------------- MODULE ExitRoutesProof ---------------------------
(***************************************************************************)
(* The default routes of a client, for any number of goroutines, timers,   *)
(* sessions and routes.  Module ExitDefaults: the type invariant, and that *)
(* the defaults always have someone to take them down.  Module HostRoutes: *)
(* the pins are counted as they are held, no route is left behind, and the *)
(* /1 routes never capture the traffic that carries them.                  *)
(***************************************************************************)
EXTENDS ExitDefaults, HostRoutes, FiniteSetTheorems, TLAPS

(***************************************************************************)
(* Module ExitDefaults                                                     *)
(***************************************************************************)

(* Inductive: the timer clause of TypeOK is what Fired and Stopped need,    *)
(* and a goroutine leaves "revert" only by Revert.                          *)
IInv == TypeOK /\ NoOrphanDefaults

(* Stopping the timer and moving a goroutine keep program counters in range. *)
LEMMA StoppedType ==
    ASSUME TypeOK
    PROVE  /\ Stopped(pc) \in [Proc -> PC]
           /\ \A p \in Proc : pc[p] = "revert" => Stopped(pc)[p] = "revert"
           /\ \A p \in Proc : Stopped(pc)[p] = "revert" => pc[p] = "revert"
  BY ProcAssumption DEF TypeOK, Stopped, Proc, PC

(* The goroutine that leaves, and the resolver it may start, stay in range. *)
LEMMA LeaveType ==
    ASSUME TypeOK, NEW p \in Proc, NEW b \in BOOLEAN
    PROVE  /\ Leave(p, b) \in [Proc -> PC]
           /\ \A q \in Proc \ {p} : pc[q] = "revert" => Leave(p, b)[q] = "revert"
           /\ \A t \in Timer \ {p} : Leave(p, b)[t] = pc[t]
  BY ProcAssumption DEF TypeOK, Leave, Proc, PC

(* Every step of a goroutine, a timer or the RIB keeps the invariant.       *)
LEMMA Invariance == IInv /\ [Next]_vars => IInv'
  <1> SUFFICES ASSUME IInv, [Next]_vars PROVE IInv'
    OBVIOUS
  <1> USE ProcAssumption DEF IInv
  <1>1. CASE UNCHANGED vars
    BY <1>1 DEF TypeOK, NoOrphanDefaults, vars
  <1>2. ASSUME NEW p \in Proc, Sync(p) PROVE IInv'
    BY <1>2 DEF TypeOK, NoOrphanDefaults, Sync, Goto, PC, Proc, path
  <1>3. ASSUME NEW p \in Proc, Step(p) PROVE IInv'
    <2>1. CASE CheckRoute(p)
      BY <2>1 DEF TypeOK, NoOrphanDefaults, CheckRoute, Goto, PC, path
    <2>2. CASE CheckULA(p)
      <3>1. PICK l \in PC : Goto(p, l)
        BY <2>2 DEF CheckULA, PC
      <3>2. hasULA' \in BOOLEAN
        BY <2>2 DEF CheckULA, TypeOK
      <3> QED
        BY <2>2, <3>1, <3>2 DEF TypeOK, NoOrphanDefaults, CheckULA, Goto
    <2>3. CASE CheckHop(p)
      BY <2>3 DEF TypeOK, NoOrphanDefaults, CheckHop, Goto, PC, path
    <2>4. CASE Schedule(p)
      <3>1. pc[p] = "schedule" /\ (~hasULA) \in BOOLEAN
        BY <2>4 DEF Schedule
      <3>2. CASE pc' = Leave(p, ~hasULA) /\ timer' = timer
        <4>1. \A q \in Proc : pc[q] = "revert" => pc'[q] = "revert"
          BY <3>1, <3>2, LeaveType
        <4>2. pc' \in [Proc -> PC] /\ \A t \in Timer : t # p => pc'[t] = pc[t]
          BY <3>1, <3>2, LeaveType
        <4>3. timer' # NoTimer => pc'[timer'] \in {"armed", "fired"}
          BY <3>1, <3>2, <4>2 DEF TypeOK
        <4> QED
          BY <2>4, <3>2, <4>1, <4>2, <4>3 DEF TypeOK, NoOrphanDefaults, Schedule, path
      <3>3. CASE \E t \in Timer : /\ pc[t] = "idle"
                                  /\ pc' = [Leave(p, ~hasULA) EXCEPT ![t] = "armed"]
                                  /\ timer' = t
        <4>1. PICK t \in Timer : /\ pc[t] = "idle"
                                 /\ pc' = [Leave(p, ~hasULA) EXCEPT ![t] = "armed"]
                                 /\ timer' = t
          BY <3>3
        <4>2. t \in Proc /\ pc' \in [Proc -> PC] /\ pc'[t] = "armed"
          <5>1. Leave(p, ~hasULA) \in [Proc -> PC]
            BY <3>1, LeaveType
          <5>2. t \in Proc /\ "armed" \in PC
            BY DEF Proc, PC
          <5> QED
            BY <4>1, <5>1, <5>2
        <4>3. \A q \in Proc : pc[q] = "revert" => pc'[q] = "revert"
          BY <4>1, <4>2, <3>1, LeaveType
        <4> QED
          BY <2>4, <4>1, <4>2, <4>3 DEF TypeOK, NoOrphanDefaults, Schedule, path
      <3> QED
        BY <2>4, <3>2, <3>3 DEF Schedule
    <2>5. CASE Cancel(p)
      BY <2>5, StoppedType DEF TypeOK, NoOrphanDefaults, Cancel, PC, path
    <2>6. CASE Ensure(p)
      <3>1. pc[p] = "ensure" /\ FALSE \in BOOLEAN
        BY <2>6 DEF Ensure
      <3>2. pc' = Leave(p, FALSE) /\ timer' = timer
        BY <2>6 DEF Ensure
      <3>3. \A q \in Proc : pc[q] = "revert" => pc'[q] = "revert"
        BY <3>1, <3>2, LeaveType
      <3>4. pc' \in [Proc -> PC] /\ \A t \in Timer : t # p => pc'[t] = pc[t]
        BY <3>1, <3>2, LeaveType
      <3>5. timer' # NoTimer => pc'[timer'] \in {"armed", "fired"}
        BY <3>1, <3>2, <3>4 DEF TypeOK
      <3>6. CASE revert' = TRUE /\ kernel' = TRUE
        BY <2>6, <3>2, <3>4, <3>5, <3>6 DEF TypeOK, NoOrphanDefaults, Ensure, path
      <3>7. CASE UNCHANGED <<revert, kernel>>
        BY <2>6, <3>2, <3>3, <3>4, <3>5, <3>7 DEF TypeOK, NoOrphanDefaults, Ensure, path
      <3> QED
        BY <2>6, <3>6, <3>7 DEF Ensure
    <2>7. CASE Clear(p)
      BY <2>7, StoppedType DEF TypeOK, NoOrphanDefaults, Clear, PC, path
    <2>8. CASE Revert(p)
      <3>1. PICK l \in PC : Goto(p, l)
        BY <2>8 DEF Revert, PC
      <3>2. TypeOK'
        <4>1. kernel' \in BOOLEAN /\ refused' \in BOOLEAN
          BY <2>8 DEF Revert, TypeOK
        <4>2. pc' \in [Proc -> PC] /\ (timer # NoTimer => pc'[timer] = pc[timer])
          BY <2>8, <3>1 DEF TypeOK, Revert, Goto
        <4> QED
          BY <2>8, <4>1, <4>2 DEF TypeOK, Revert, path
      <3>3. CASE kernel' = FALSE
        BY <3>2, <3>3 DEF NoOrphanDefaults
      <3>4. CASE refused' = TRUE
        BY <3>2, <3>4 DEF NoOrphanDefaults
      <3> QED
        BY <2>8, <3>3, <3>4 DEF Revert
    <2>9. CASE p \in Timer /\ Fire(p)
      BY <2>9 DEF TypeOK, NoOrphanDefaults, Fire, Goto, PC, path
    <2>10. CASE p \in Timer /\ Fired(p)
      BY <2>10 DEF TypeOK, NoOrphanDefaults, Fired, Goto, PC, path
    <2>11. CASE p = Resolver /\ Resolve
      <3>1. PICK l \in PC : Goto(p, l)
        BY <2>11 DEF Resolve, PC
      <3>2. hasULA' \in BOOLEAN
        BY <2>11 DEF Resolve, TypeOK
      <3> QED
        BY <2>11, <3>1, <3>2 DEF TypeOK, NoOrphanDefaults, Resolve, Goto
    <2> QED
      BY <1>3, <2>1, <2>2, <2>3, <2>4, <2>5, <2>6, <2>7, <2>8, <2>9, <2>10, <2>11
         DEF Step
  <1>4. CASE Close
    BY <1>4 DEF TypeOK, NoOrphanDefaults, Close, Goto, PC, Proc, path
  <1>5. CASE PathChanges
    BY <1>5 DEF TypeOK, NoOrphanDefaults, PathChanges
  <1> QED
    BY <1>1, <1>2, <1>3, <1>4, <1>5 DEF Next

(* Both hold in every reachable state.                                      *)
THEOREM Inductive == Spec => []IInv
  <1>1. Init => IInv
    BY ProcAssumption DEF Init, IInv, TypeOK, NoOrphanDefaults, PC
  <1> QED
    BY <1>1, Invariance, PTL DEF Spec

(* A timer that is set has not run its callback: exitDefaultsTimer is never *)
(* left pointing at a timer that is over.                                   *)
THEOREM TypeCorrect == Spec => []TypeOK
  <1>1. IInv => TypeOK
    BY DEF IInv
  <1> QED
    BY <1>1, Inductive, PTL

(* However installs, timers, clears and Close interleave, default routes in *)
(* the host's table have someone to take them down.                         *)
THEOREM DefaultsAreOwned == Spec => []NoOrphanDefaults
  <1>1. IInv => NoOrphanDefaults
    BY DEF IInv
  <1> QED
    BY <1>1, Inductive, PTL

-----------------------------------------------------------------------------
(***************************************************************************)
(* Module HostRoutes                                                       *)
(***************************************************************************)


(* An install goes forward from its first route; while one is on or being   *)
(* undone, no other installation is recorded.                               *)
JobsInRange ==
    /\ \A w \in Worker : job[w].do = "install" => job[w].from <= job[w].next
    /\ (\E w \in Worker : job[w].do \in {"install", "undo"}) => way = 0

(* No reference is missing but those that a stray release has taken.        *)
PinsCounted == node = "open" => Cardinality(Pins!Holding) <= refs + stray

(* The routes of the defaults have an owner even after Close.               *)
TableOwned == ~stuck => \A i \in table : Installations(i) # {}

(* A host route that an installation counts on is there, as long as every   *)
(* installation began with the host routes and nobody else deleted one.     *)
FromTheFirst ==
    ~exposed =>
        /\ way \in {0, 1}
        /\ \A w \in Worker :
              job[w].do \in {"install", "undo", "down"} => job[w].from = 1
        /\ \A i \in 1 .. Hosts : Installations(i) # {} => InTable(i)

RoutesInv == /\ RoutesTypeOK /\ JobsInRange
             /\ NeverOvercounted /\ PinsCounted
             /\ TableOwned /\ NoOrphanRoute /\ FromTheFirst

-----------------------------------------------------------------------------
(* Counting holders                                                         *)

InHand == {"holding", "undo"}
HoldersIn(a) == {h \in Holder : a[h] \in InHand}

(* FiniteSets reaches this module along two ways.                           *)
LEMMA SameCardinality == \A S : Pins!Cardinality(S) = Cardinality(S)
BY DEF Pins!Cardinality, Cardinality

(* A holder that moves changes the number of those who hold by itself only. *)
LEMMA HoldersMove ==
    ASSUME NEW a \in [Holder -> Pins!PC], NEW h \in Holder, NEW l \in Pins!PC,
           NEW b, b = [a EXCEPT ![h] = l]
    PROVE  /\ b \in [Holder -> Pins!PC]
           /\ Cardinality(HoldersIn(a)) \in Nat
           /\ a[h] \in InHand => Cardinality(HoldersIn(a)) # 0
           /\ Cardinality(HoldersIn(b)) =
                Cardinality(HoldersIn(a))
                  + (IF l \in InHand THEN 1 ELSE 0)
                  - (IF a[h] \in InHand THEN 1 ELSE 0)
<1> DEFINE A == HoldersIn(a)
           B == HoldersIn(b)
<1>1. IsFiniteSet(Holder) /\ A \in SUBSET Holder
  BY HostRoutesAssumption DEF HoldersIn
<1>2. IsFiniteSet(A)
  BY <1>1, FS_Subset
<1>3. Cardinality(A) \in Nat
  BY <1>2, FS_CardinalityType
<1>4. a[h] \in InHand => Cardinality(A) # 0
  <2> SUFFICES ASSUME a[h] \in InHand PROVE Cardinality(A) # 0
    OBVIOUS
  <2>1. h \in A
    BY DEF HoldersIn
  <2> QED BY <1>2, <2>1, FS_EmptySet
<1>5. B = IF l \in InHand THEN A \cup {h} ELSE A \ {h}
  BY DEF HoldersIn
<1>6. h \in A <=> a[h] \in InHand
  BY DEF HoldersIn
<1> HIDE DEF A, B
<1>7. Cardinality(A \cup {h}) = IF h \in A THEN Cardinality(A)
                                           ELSE Cardinality(A) + 1
  BY <1>2, FS_AddElement
<1>8. Cardinality(A \ {h}) = IF h \in A THEN Cardinality(A) - 1
                                        ELSE Cardinality(A)
  BY <1>2, FS_RemoveElement
<1>9. Cardinality(B) = Cardinality(A) + (IF l \in InHand THEN 1 ELSE 0)
                                      - (IF a[h] \in InHand THEN 1 ELSE 0)
  BY <1>3, <1>5, <1>6, <1>7, <1>8
<1> QED BY <1>3, <1>4, <1>9 DEF A, B

(* The pins' own part of the invariant.                                     *)
PinsInv == Pins!TypeOK /\ NeverOvercounted /\ PinsCounted

LEMMA PinsInit == RoutesInit => PinsInv
<1> SUFFICES ASSUME RoutesInit PROVE PinsInv
  OBVIOUS
<1>1. Pins!TypeOK
  BY DEF RoutesInit, Pins!Init, Pins!TypeOK, Pins!PC
<1>2. Pins!Holding = {} /\ refs = 0 /\ stray = 0 /\ leaked = 0
  BY DEF RoutesInit, Pins!Init, Pins!Holding
<1> QED
  BY <1>1, <1>2, FS_EmptySet, SameCardinality
     DEF PinsInv, NeverOvercounted, Pins!NeverOvercounted, PinsCounted

(* One holder's step, whatever the defaults do meanwhile.                   *)
LEMMA PinsStep ==
    ASSUME PinsInv, NEW h \in Holder,
           \/ Pins!Retain(h) \/ Pins!Insert(h) \/ Pins!Release(h)
           \/ Pins!ReleaseReplaced(h) \/ Pins!SkipRelease(h)
           \/ Pins!PinHost(h) \/ Pins!PinFails(h)
           \/ Pins!Undo(h) \/ Pins!Revert
    PROVE  PinsInv'
<1> DEFINE n == Cardinality(HoldersIn(at))
<1>1. /\ at \in [Holder -> Pins!PC] /\ refs \in Nat /\ reverts \in Nat
      /\ stray \in Nat /\ leaked \in Nat /\ node # "panicked"
      /\ nilMap \in BOOLEAN /\ pinned \in BOOLEAN
      /\ node \in {"open", "closing", "closed", "panicked"}
      /\ refs <= n + leaked
      /\ node = "open" => n <= refs + stray
  BY SameCardinality DEF PinsInv, Pins!TypeOK, NeverOvercounted, Pins!NeverOvercounted,
         PinsCounted, Pins!Holding, HoldersIn, InHand, Pins!Retain,
         Pins!Insert, Pins!Release, Pins!ReleaseReplaced, Pins!SkipRelease,
         Pins!PinHost, Pins!PinFails, Pins!Undo, Pins!Revert, Pins!At, Pins!Running
<1>2. SUFFICES
        /\ Pins!TypeOK'
        /\ refs' <= Cardinality(HoldersIn(at')) + leaked'
        /\ node' = "open" => Cardinality(HoldersIn(at')) <= refs' + stray'
  BY SameCardinality DEF PinsInv, NeverOvercounted, Pins!NeverOvercounted, PinsCounted,
         Pins!Holding, HoldersIn, InHand
<1>3. ASSUME NEW l \in Pins!PC, Pins!Goto(h, l)
      PROVE  /\ at' \in [Holder -> Pins!PC] /\ n \in Nat
             /\ at[h] \in InHand => n # 0
             /\ Cardinality(HoldersIn(at')) =
                  n + (IF l \in InHand THEN 1 ELSE 0)
                    - (IF at[h] \in InHand THEN 1 ELSE 0)
  <2>1. at' = [at EXCEPT ![h] = l]
    BY <1>3 DEF Pins!Goto
  <2>3. /\ at' \in [Holder -> Pins!PC] /\ Cardinality(HoldersIn(at)) \in Nat
        /\ at[h] \in InHand => Cardinality(HoldersIn(at)) # 0
        /\ Cardinality(HoldersIn(at')) =
             Cardinality(HoldersIn(at))
               + (IF l \in InHand THEN 1 ELSE 0)
               - (IF at[h] \in InHand THEN 1 ELSE 0)
    BY <1>1, <2>1, HoldersMove
  <2> QED BY <2>3 DEF n
<1> HIDE DEF n
<1>4. CASE Pins!Retain(h)
  <2>1. PICK l \in {"holding", "pin"} :
          /\ Pins!Goto(h, l) /\ at[h] = "idle"
          /\ l = "holding" => refs' = refs + 1
          /\ l = "pin" => refs' = refs
          /\ nilMap' = FALSE /\ UNCHANGED <<pinned, reverts, stray, leaked, node>>
    BY <1>4 DEF Pins!Retain, Pins!At
  <2>2. l \in Pins!PC /\ at[h] \notin InHand /\ (l \in InHand <=> l = "holding")
    BY <2>1 DEF Pins!PC, InHand
  <2>3. refs' \in Nat
    BY <1>1, <2>1
  <2>4. Pins!TypeOK'
    BY <1>1, <1>3, <2>1, <2>2, <2>3 DEF Pins!TypeOK
  <2> QED BY <1>1, <1>3, <2>1, <2>2, <2>4
<1>5. CASE Pins!Insert(h)
  <2>1. CASE refs = 0 /\ nilMap
    <3>1. /\ at' = at /\ refs' = refs /\ node' = "panicked"
          /\ UNCHANGED <<nilMap, pinned, reverts, stray, leaked>>
      BY <1>5, <2>1 DEF Pins!Insert
    <3> QED BY <1>1, <3>1 DEF Pins!TypeOK, n
  <2>2. CASE ~(refs = 0 /\ nilMap)
    <3>1. PICK l \in InHand :
            /\ Pins!Goto(h, l) /\ at[h] = "installed"
            /\ refs' = refs + 1
            /\ UNCHANGED <<nilMap, pinned, reverts, stray, leaked, node>>
      BY <1>1, <1>5, <2>2 DEF Pins!Insert, Pins!At, InHand
    <3>2. l \in Pins!PC /\ at[h] \notin InHand
      BY <3>1 DEF Pins!PC, InHand
    <3>3. Pins!TypeOK'
      BY <1>1, <1>3, <3>1, <3>2 DEF Pins!TypeOK
    <3> QED BY <1>1, <1>3, <3>1, <3>2, <3>3
  <2> QED BY <2>1, <2>2
<1>6. CASE Pins!Release(h) \/ Pins!ReleaseReplaced(h)
  <2>1. PICK l \in {"idle", "replaced"} :
          /\ Pins!Goto(h, l) /\ at[h] \in {"holding", "unpinned", "replaced"}
          /\ Pins!releaseUnderlayPin /\ stray' = Pins!Taken(h)
          /\ UNCHANGED <<nilMap, pinned, leaked, node>>
    BY <1>6 DEF Pins!Release, Pins!ReleaseReplaced, Pins!At
  <2>2. /\ l \in Pins!PC /\ l \notin InHand
        /\ at[h] \in InHand <=> at[h] = "holding"
    BY <2>1 DEF Pins!PC, InHand
  <2>3. /\ refs' = IF refs = 0 THEN 0 ELSE refs - 1
        /\ refs' \in Nat /\ reverts' \in Nat
    BY <1>1, <2>1 DEF Pins!releaseUnderlayPin
  <2>4. /\ stray' = IF at[h] = "holding" \/ refs = 0 THEN stray ELSE stray + 1
        /\ stray' \in Nat
    BY <1>1, <2>1 DEF Pins!Taken
  <2>5. Pins!TypeOK'
    BY <1>1, <1>3, <2>1, <2>2, <2>3, <2>4 DEF Pins!TypeOK
  <2>6. CASE at[h] = "holding"
    BY <1>1, <1>3, <2>1, <2>2, <2>3, <2>4, <2>5, <2>6
  <2>7. CASE at[h] # "holding"
    BY <1>1, <1>3, <2>1, <2>2, <2>3, <2>4, <2>5, <2>7
  <2> QED BY <2>6, <2>7
<1>7. CASE Pins!SkipRelease(h)
  <2>1. /\ Pins!Goto(h, "idle") /\ at[h] \in {"holding", "unpinned", "replaced"}
        /\ leaked' = IF at[h] = "holding" THEN leaked + 1 ELSE leaked
        /\ UNCHANGED <<refs, nilMap, pinned, reverts, stray, node>>
    BY <1>7 DEF Pins!SkipRelease, Pins!At
  <2>2. /\ "idle" \in Pins!PC /\ "idle" \notin InHand
        /\ at[h] \in InHand <=> at[h] = "holding"
    BY <2>1 DEF Pins!PC, InHand
  <2>3. leaked' \in Nat
    BY <1>1, <2>1
  <2>4. Pins!TypeOK'
    BY <1>1, <1>3, <2>1, <2>2, <2>3 DEF Pins!TypeOK
  <2>5. CASE at[h] = "holding"
    BY <1>1, <1>3, <2>1, <2>2, <2>4, <2>5
  <2>6. CASE at[h] # "holding"
    BY <1>1, <1>3, <2>1, <2>2, <2>4, <2>6
  <2> QED BY <2>5, <2>6
<1>8. CASE Pins!PinHost(h) \/ Pins!PinFails(h) \/ Pins!Undo(h)
  <2>1. PICK l \in Pins!PC :
          /\ Pins!Goto(h, l) /\ (l \in InHand <=> at[h] \in InHand)
          /\ pinned' \in BOOLEAN
          /\ UNCHANGED <<refs, nilMap, reverts, stray, leaked, node>>
    BY <1>1, <1>8 DEF Pins!PinHost, Pins!PinFails, Pins!Undo, Pins!At, Pins!PC, InHand
  <2>2. Pins!TypeOK'
    BY <1>1, <1>3, <2>1 DEF Pins!TypeOK
  <2> QED BY <1>1, <1>3, <2>1, <2>2
<1>9. CASE Pins!Revert
  <2>1. /\ reverts' = reverts - 1 /\ reverts > 0 /\ pinned' = FALSE
        /\ UNCHANGED <<at, refs, nilMap, stray, leaked, node>>
    BY <1>9 DEF Pins!Revert
  <2>2. reverts' \in Nat /\ pinned' \in BOOLEAN
    <3>1. reverts' \in Nat
      BY <1>1, <2>1
    <3>2. pinned' \in BOOLEAN
      BY <2>1
    <3> QED BY <3>1, <3>2
  <2>3. Pins!TypeOK'
    BY <1>1, <2>1, <2>2 DEF Pins!TypeOK
  <2> QED BY <1>1, <2>1, <2>3 DEF n
<1> QED BY <1>4, <1>5, <1>6, <1>7, <1>8, <1>9

(* Close of the pins, and whatever leaves them alone.                       *)
LEMMA PinsRest ==
    ASSUME PinsInv,
           Pins!Clear \/ Pins!ClearRevert
             \/ (pinned' \in BOOLEAN /\ UNCHANGED <<at, refs, nilMap, reverts, stray, leaked, node>>)
    PROVE  PinsInv'
<1>1. at' = at /\ reverts' = reverts /\ stray' = stray /\ leaked' = leaked
  BY DEF Pins!Clear, Pins!ClearRevert
<1>2. Pins!Holding' = Pins!Holding /\ Cardinality(Pins!Holding) \in Nat
  <2>1. IsFiniteSet(Holder) /\ Pins!Holding \in SUBSET Holder
    BY HostRoutesAssumption DEF Pins!Holding
  <2>2. Cardinality(Pins!Holding) \in Nat
    BY <2>1, FS_Subset, FS_CardinalityType
  <2> QED BY <1>1, <2>2 DEF Pins!Holding
<1>3. Pins!TypeOK'
  <2>1. refs' \in Nat /\ node' \in {"open", "closing", "closed", "panicked"}
    BY DEF PinsInv, Pins!TypeOK, Pins!Clear, Pins!ClearRevert
  <2>2. nilMap' \in BOOLEAN
    BY DEF PinsInv, Pins!TypeOK, Pins!Clear, Pins!ClearRevert
  <2>3. pinned' \in BOOLEAN
    BY DEF PinsInv, Pins!TypeOK, Pins!Clear, Pins!ClearRevert
  <2> QED BY <1>1, <2>1, <2>2, <2>3 DEF PinsInv, Pins!TypeOK
<1>4. NeverOvercounted'
  BY <1>1, <1>2, SameCardinality DEF PinsInv, NeverOvercounted, Pins!NeverOvercounted,
              Pins!TypeOK, Pins!Clear, Pins!ClearRevert
<1>5. PinsCounted'
  BY <1>1, <1>2 DEF PinsInv, PinsCounted, Pins!Clear, Pins!ClearRevert
<1> QED BY <1>3, <1>4, <1>5 DEF PinsInv

-----------------------------------------------------------------------------
(* Jobs                                                                     *)

Exclusively == {"install", "undo"}

(* The installation j counts on route i, or has still to delete it.         *)
Counts(j, i) == /\ j.from <= i
                /\ \/ j.do = "install" /\ i < j.next
                   \/ j.do \in {"undo", "down"} /\ i <= j.next

Owned(v, jobs, i) == (v # 0 /\ v <= i) \/ \E w \in Worker : Counts(jobs[w], i)

LEMMA OwnersAre ==
    /\ \A i : Installations(i) # {} <=> Owned(way, job, i)
    /\ \A i : Installations(i)' # {} <=> Owned(way', job', i)
BY DEF Installations, Owned, Counts

(* One goroutine's job changes, under exitMu if it is an install.           *)
LEMMA JobSet ==
    ASSUME RoutesTypeOK, JobsInRange, NEW w \in Worker, NEW j \in Job,
           job' = [job EXCEPT ![w] = j],
           j.do = "install" => j.from <= j.next,
           j.do \in Exclusively => way' = 0 /\ (Free \/ job[w].do \in Exclusively),
           way' \in {0, way} \/ (job[w].do = "install" /\ j.do = "idle")
    PROVE  /\ job' \in [Worker -> Job]
           /\ \A v, u \in Worker :
                 ({job'[v].do, job'[u].do} \subseteq Exclusively) => v = u
           /\ JobsInRange'
<1>1. job \in [Worker -> Job]
  BY DEF RoutesTypeOK
<1>2. \A u \in Worker : job'[u] = IF u = w THEN j ELSE job[u]
  BY <1>1
<1>3. \A v, u \in Worker :
        job[v].do \in Exclusively /\ job[u].do \in Exclusively => v = u
  BY DEF RoutesTypeOK, Exclusively
<1>4. job' \in [Worker -> Job]
  BY <1>1
<1>5. ASSUME NEW v \in Worker, NEW u \in Worker,
             job'[v].do \in Exclusively, job'[u].do \in Exclusively
      PROVE  v = u
  BY <1>2, <1>3, <1>5 DEF Free, Exclusively
<1>6. ASSUME NEW u \in Worker, job'[u].do \in Exclusively
      PROVE  way' = 0
  <2>1. CASE u = w
    BY <1>2, <1>6, <2>1
  <2>2. CASE u # w
    <3>1. job[u].do \in Exclusively /\ way = 0
      BY <1>2, <1>6, <2>2 DEF JobsInRange, Exclusively
    <3>2. job[w].do # "install"
      BY <1>3, <2>2, <3>1 DEF Exclusively
    <3> QED BY <3>1, <3>2
  <2> QED BY <2>1, <2>2
<1>7. JobsInRange'
  <2>1. \A u \in Worker : job'[u].do = "install" => job'[u].from <= job'[u].next
    BY <1>2 DEF JobsInRange
  <2> QED BY <1>6, <2>1 DEF JobsInRange, Exclusively
<1> QED BY <1>4, <1>5, <1>7

(* Steps that change neither table nor who is responsible for what.         *)
LEMMA SameOwners ==
    ASSUME RoutesInv, UNCHANGED <<pins, table, stuck>>,
           \A i \in Route : Owned(way, job, i) <=> Owned(way', job', i)
    PROVE  /\ TableOwned' /\ NoOrphanRoute'
           /\ ~exposed =>
                \A i \in 1 .. Hosts : Installations(i)' # {} => InTable(i)'
<1>1. table \subseteq Route /\ 1 \in Route /\ 1 .. Hosts \subseteq Route
  BY HostRoutesAssumption DEF RoutesInv, RoutesTypeOK, Route, Last
<1>2. \A i \in Route : Installations(i) # {} <=> Installations(i)' # {}
  BY OwnersAre
<1>3. TableOwned'
  BY <1>1, <1>2 DEF RoutesInv, TableOwned
<1>4. NoOrphanRoute'
  BY <1>1, <1>2 DEF RoutesInv, NoOrphanRoute, pins
<1>5. ~exposed => \A i \in 1 .. Hosts : Installations(i)' # {} => InTable(i)'
  <2>1. \A i : InTable(i) <=> InTable(i)'
    BY DEF InTable, pins
  <2> QED BY <1>1, <1>2, <2>1 DEF RoutesInv, FromTheFirst
<1> QED BY <1>3, <1>4, <1>5

(* The job of w becomes one that counts on the same routes, or way does.    *)
LEMMA OwnersKept ==
    ASSUME RoutesTypeOK, NEW w \in Worker, NEW j \in Job,
           job' = [job EXCEPT ![w] = j],
           \A i \in Route : (way # 0 /\ way <= i) \/ Counts(job[w], i)
                         <=> (way' # 0 /\ way' <= i) \/ Counts(j, i)
    PROVE  \A i \in Route : Owned(way, job, i) <=> Owned(way', job', i)
<1>1. \A u \in Worker : job'[u] = IF u = w THEN j ELSE job[u]
  BY DEF RoutesTypeOK
<1> QED BY <1>1 DEF Owned

-----------------------------------------------------------------------------
(* The steps                                                                *)

LEMMA RouteNumbers ==
    /\ Hosts \in Nat /\ Hosts >= 1 /\ Last \in Nat /\ Last > Hosts
    /\ Last = Hosts + Halves
    /\ Route = 1 .. Last
BY HostRoutesAssumption DEF Last, Route

LEMMA JobTypes ==
    ASSUME RoutesTypeOK, NEW w \in Worker
    PROVE  /\ job[w] \in Job
           /\ job[w].next \in 0 .. Last + 1
           /\ job[w].from \in {1, Hosts + 1}
           /\ Idle \in Job /\ Idle.do = "idle" /\ Idle.next = 0 /\ Idle.from = 1
           /\ \A i : ~Counts(Idle, i)
BY RouteNumbers DEF RoutesTypeOK, Job, Idle, Counts

LEMMA JobFields ==
    ASSUME NEW j \in Job, NEW n \in 0 .. Last + 1
    PROVE  /\ [j EXCEPT !.next = n] \in Job
           /\ [j EXCEPT !.next = n].do = j.do
           /\ [j EXCEPT !.next = n].from = j.from
           /\ [j EXCEPT !.next = n].next = n
BY DEF Job

(* syncExitHostDefaults, ensureExitHostDefaults, the end of an install,     *)
(* the start and the end of a teardown.                                     *)
LEMMA BookkeepingInv ==
    ASSUME RoutesInv, NEW w \in Worker,
           \/ SyncDefaults(w) \/ EnsureDefaults(w) \/ InstallFails(w)
           \/ Installed(w) \/ ClearDefaults(w) \/ Done(w)
    PROVE  RoutesInv'
<1>0. RoutesTypeOK /\ JobsInRange /\ PinsInv /\ FromTheFirst
  BY DEF RoutesInv, RoutesTypeOK, PinsInv
<1>1. /\ UNCHANGED <<pins, table, stuck, tun>>
      /\ exposed' \in BOOLEAN /\ (exposed => exposed')
  BY <1>0 DEF RoutesTypeOK, SyncDefaults, EnsureDefaults, InstallFails,
              Installed, ClearDefaults, Done
<1>2. PinsInv'
  BY <1>0, <1>1, PinsRest DEF pins, PinsInv, Pins!TypeOK
<1> DEFINE jw == job[w]
<1>3. /\ jw \in Job /\ jw.next \in 0 .. Last + 1 /\ jw.from \in {1, Hosts + 1}
      /\ Idle \in Job /\ Idle.do = "idle" /\ Idle.next = 0 /\ Idle.from = 1
      /\ \A i : ~Counts(Idle, i)
      /\ way \in {0, 1, Hosts + 1}
  BY <1>0, JobTypes DEF RoutesTypeOK
<1>4. \A i \in Route : i \in Nat /\ 1 <= i /\ i <= Last
  BY RouteNumbers
<1>5. \E j \in Job :
        /\ job' = [job EXCEPT ![w] = j]
        /\ j.do = "install" => j.from <= j.next
        /\ j.do \in Exclusively =>
              way' = 0 /\ (Free \/ jw.do \in Exclusively)
        /\ way' \in {0, way} \/ (jw.do = "install" /\ j.do = "idle")
        /\ \A i \in Route : (way # 0 /\ way <= i) \/ Counts(jw, i)
                          <=> (way' # 0 /\ way' <= i) \/ Counts(j, i)
        /\ way' \in {0, 1, Hosts + 1}
        /\ ~exposed' => /\ way' \in {0, 1}
                        /\ j.do \in {"install", "undo", "down"} => j.from = 1
  <2>1. CASE SyncDefaults(w)
    <3> DEFINE j == [Idle EXCEPT !.do = "sync"]
    <3>1. j \in Job /\ j.do = "sync" /\ \A i : ~Counts(j, i)
      BY <1>3 DEF Job, Counts, Idle
    <3>2. /\ job' = [job EXCEPT ![w] = j] /\ way' = way /\ exposed' = exposed
          /\ \A i : ~Counts(jw, i)
      BY <2>1 DEF SyncDefaults, Set, Counts
    <3> HIDE DEF j
    <3> QED BY <1>0, <1>3, <3>1, <3>2 DEF FromTheFirst, Exclusively
  <2>2. CASE EnsureDefaults(w) /\ way # 0
    <3>1. /\ job' = [job EXCEPT ![w] = Idle] /\ way' = way /\ exposed' = exposed
          /\ \A i : ~Counts(jw, i)
      BY <2>2 DEF EnsureDefaults, Set, Counts
    <3> QED BY <1>0, <1>3, <3>1 DEF FromTheFirst, Exclusively
  <2>3. CASE EnsureDefaults(w) /\ way = 0
    <3>1. PICK from \in First :
            /\ job' = [job EXCEPT ![w] = [do |-> "install", next |-> from, from |-> from]]
            /\ exposed' = (exposed \/ from # 1)
      BY <2>3 DEF EnsureDefaults, Set
    <3> DEFINE j == [do |-> "install", next |-> from, from |-> from]
    <3>2. /\ j \in Job /\ j.do = "install" /\ j.from = from /\ j.next = from
          /\ \A i \in Route : ~Counts(j, i)
      BY <1>4, RouteNumbers DEF Job, Counts, First
    <3>3. Free /\ way' = 0 /\ \A i : ~Counts(jw, i)
      BY <2>3 DEF EnsureDefaults, Counts
    <3>4. job' = [job EXCEPT ![w] = j] /\ from \in Nat
      BY <3>1, RouteNumbers DEF First
    <3>5. ~exposed' => from = 1
      BY <3>1
    <3> HIDE DEF j
    <3>6. j.from <= j.next /\ way = 0
      BY <2>3, <3>2, <3>4
    <3>7. \A i \in Route : (way # 0 /\ way <= i) \/ Counts(jw, i)
                       <=> (way' # 0 /\ way' <= i) \/ Counts(j, i)
      BY <3>2, <3>3, <3>6
    <3> QED BY <3>2, <3>3, <3>4, <3>5, <3>6, <3>7
  <2>4. CASE InstallFails(w)
    <3> DEFINE e == [jw EXCEPT !.do = "undo"]
               j == [jw EXCEPT !.do = "undo", !.next = @ - 1]
    <3>1. /\ job' = [job EXCEPT ![w] = j] /\ jw.do = "install" /\ jw.next <= Last
          /\ way' = way /\ exposed' = exposed /\ way = 0 /\ jw.from <= jw.next
      BY <1>0, <2>4 DEF InstallFails, Set, JobsInRange
    <3>2. j.do = "undo" /\ j.from = jw.from /\ j.next = jw.next - 1 /\ j \in Job
      <4>1. e \in Job /\ e.do = "undo" /\ e.from = jw.from /\ e.next = jw.next
        BY <1>3 DEF Job
      <4>2. j = [e EXCEPT !.next = jw.next - 1]
        OBVIOUS
      <4>3. jw.next - 1 \in 0 .. Last + 1
        BY <1>3, <3>1, RouteNumbers
      <4> QED BY <4>1, <4>2, <4>3, JobFields
    <3> HIDE DEF j
    <3>3. \A i \in Route : Counts(jw, i) <=> Counts(j, i)
      BY <1>3, <1>4, <3>1, <3>2, RouteNumbers DEF Counts
    <3>4. ~exposed' => j.from = 1
      BY <1>0, <3>1, <3>2 DEF FromTheFirst
    <3> QED BY <1>3, <3>1, <3>2, <3>3, <3>4 DEF Exclusively
  <2>5. CASE Installed(w)
    <3>1. /\ job' = [job EXCEPT ![w] = Idle] /\ jw.do = "install" /\ jw.next > Last
          /\ way' = jw.from /\ exposed' = exposed /\ way = 0
      BY <1>0, <2>5 DEF Installed, Set, JobsInRange
    <3>2. \A i \in Route : Counts(jw, i) <=> jw.from <= i
      BY <1>3, <1>4, <3>1, RouteNumbers DEF Counts
    <3>3. ~exposed' => jw.from = 1
      BY <1>0, <3>1 DEF FromTheFirst
    <3>4. jw.from # 0
      BY <1>3, RouteNumbers
    <3> QED BY <1>3, <3>1, <3>2, <3>3, <3>4 DEF Exclusively
  <2>6. CASE ClearDefaults(w)
    <3> DEFINE j == [do |-> "down", next |-> IF way = 0 THEN 0 ELSE Last,
                     from |-> IF way = 0 THEN 1 ELSE way]
    <3>1. /\ job' = [job EXCEPT ![w] = j] /\ jw.do = "idle"
          /\ way' = 0 /\ exposed' = exposed
      BY <2>6 DEF ClearDefaults, Set
    <3>2. /\ j \in Job /\ j.do = "down"
          /\ j.from = (IF way = 0 THEN 1 ELSE way)
          /\ j.next = (IF way = 0 THEN 0 ELSE Last)
      BY <1>3, RouteNumbers DEF Job
    <3> HIDE DEF j
    <3>3. \A i \in Route : (way # 0 /\ way <= i) <=> Counts(j, i)
      BY <1>3, <1>4, <3>2, RouteNumbers DEF Counts
    <3>4. \A i : ~Counts(jw, i)
      BY <3>1 DEF Counts
    <3>5. ~exposed' => j.from = 1
      BY <1>0, <3>1, <3>2 DEF FromTheFirst
    <3> QED BY <1>3, <3>1, <3>2, <3>3, <3>4, <3>5 DEF Exclusively
  <2>7. CASE Done(w)
    <3> DEFINE j == [Idle EXCEPT !.do = IF w = CloseWorker /\ jw.do = "down"
                                        THEN "closed" ELSE "idle"]
    <3>1. /\ job' = [job EXCEPT ![w] = j] /\ jw.do \in {"undo", "down"}
          /\ jw.next < jw.from /\ way' = way /\ exposed' = exposed
      BY <2>7 DEF Done, Set
    <3>2. j \in Job /\ j.do \in {"idle", "closed"} /\ \A i : ~Counts(j, i)
      BY <1>3 DEF Job, Counts, Idle
    <3> HIDE DEF j
    <3>3. \A i \in Route : ~Counts(jw, i)
      BY <1>3, <1>4, <3>1, RouteNumbers DEF Counts
    <3> QED BY <1>0, <1>3, <3>1, <3>2, <3>3 DEF FromTheFirst, Exclusively
  <2> QED BY <2>1, <2>2, <2>3, <2>4, <2>5, <2>6, <2>7
<1>6. PICK j \in Job :
        /\ job' = [job EXCEPT ![w] = j]
        /\ j.do = "install" => j.from <= j.next
        /\ j.do \in Exclusively =>
              way' = 0 /\ (Free \/ jw.do \in Exclusively)
        /\ way' \in {0, way} \/ (jw.do = "install" /\ j.do = "idle")
        /\ \A i \in Route : (way # 0 /\ way <= i) \/ Counts(jw, i)
                          <=> (way' # 0 /\ way' <= i) \/ Counts(j, i)
        /\ way' \in {0, 1, Hosts + 1}
        /\ ~exposed' => /\ way' \in {0, 1}
                        /\ j.do \in {"install", "undo", "down"} => j.from = 1
  BY <1>5
<1>7. /\ job' \in [Worker -> Job]
      /\ \A v, u \in Worker :
            ({job'[v].do, job'[u].do} \subseteq Exclusively) => v = u
      /\ JobsInRange'
  BY <1>0, <1>6, JobSet
<1>8. RoutesTypeOK'
  BY <1>0, <1>1, <1>2, <1>6, <1>7 DEF RoutesTypeOK, PinsInv, Exclusively
<1>9. \A i \in Route : Owned(way, job, i) <=> Owned(way', job', i)
  BY <1>0, <1>6, OwnersKept
<1>10. /\ TableOwned' /\ NoOrphanRoute'
       /\ ~exposed => \A i \in 1 .. Hosts : Installations(i)' # {} => InTable(i)'
  BY <1>1, <1>9, SameOwners
<1>11. FromTheFirst'
  <2>1. \A u \in Worker : job'[u] = IF u = w THEN j ELSE job[u]
    BY <1>0, <1>6 DEF RoutesTypeOK
  <2>2. ~exposed' => \A u \in Worker :
          job'[u].do \in {"install", "undo", "down"} => job'[u].from = 1
    BY <1>0, <1>1, <1>6, <2>1 DEF FromTheFirst
  <2> QED BY <1>1, <1>6, <1>10, <2>2 DEF FromTheFirst
<1> QED BY <1>2, <1>7, <1>8, <1>10, <1>11 DEF RoutesInv, PinsInv

(* nlRouteReplace of the next route.                                        *)
LEMMA InstallInv == ASSUME RoutesInv, NEW w \in Worker, Install(w) PROVE RoutesInv'
<1> DEFINE jw == job[w]
           n == jw.next
           j == [jw EXCEPT !.next = n + 1]
<1>0. RoutesTypeOK /\ JobsInRange /\ PinsInv /\ FromTheFirst
  BY DEF RoutesInv, RoutesTypeOK, PinsInv
<1>1. /\ jw \in Job /\ n \in 0 .. Last + 1 /\ jw.from \in {1, Hosts + 1}
      /\ jw.do = "install" /\ n <= Last /\ jw.from <= n
      /\ job' = [job EXCEPT ![w] = j]
      /\ UNCHANGED <<at, refs, nilMap, reverts, stray, leaked, node, way, tun, stuck, exposed>>
  BY <1>0, JobTypes DEF Install, Set, JobsInRange
<1>2. n \in Route /\ n + 1 \in 0 .. Last + 1 /\ jw.from <= n + 1
  BY <1>1, RouteNumbers
<1>3. j \in Job /\ j.do = "install" /\ j.from = jw.from /\ j.next = n + 1
  BY <1>1, <1>2, JobFields
<1>4. \A i : InTable(i)' <=> InTable(i) \/ i = n
  BY DEF Install, Put, InTable
<1>5. pinned' \in BOOLEAN /\ table' \subseteq 2 .. Last
  <2>1. table \subseteq 2 .. Last
    BY <1>0 DEF RoutesTypeOK
  <2>2. CASE n = 1
    <3>1. pinned' = TRUE /\ table' = table
      BY <2>2 DEF Install, Put
    <3> QED BY <2>1, <3>1
  <2>3. CASE n # 1
    <3>1. pinned' = pinned
      BY <2>3 DEF Install, Put
    <3>2. table' = table \cup {n}
      BY <2>3 DEF Install, Put
    <3>3. pinned' \in BOOLEAN
      BY <1>0, <3>1 DEF PinsInv, Pins!TypeOK
    <3>4. n \in 2 .. Last
      BY <1>1, <2>3, RouteNumbers
    <3> QED BY <2>1, <3>2, <3>3, <3>4
  <2> QED BY <2>2, <2>3
<1>6. PinsInv'
  BY <1>0, <1>1, <1>5, PinsRest
<1> HIDE DEF j
<1>7. /\ job' \in [Worker -> Job]
      /\ \A v, u \in Worker :
            ({job'[v].do, job'[u].do} \subseteq Exclusively) => v = u
      /\ JobsInRange'
  <2>1. j.do \in Exclusively => way' = 0 /\ (Free \/ jw.do \in Exclusively)
    BY <1>0, <1>1 DEF JobsInRange, Exclusively
  <2> QED BY <1>0, <1>1, <1>2, <1>3, <2>1, JobSet
<1>8. RoutesTypeOK'
  BY <1>0, <1>1, <1>5, <1>6, <1>7 DEF RoutesTypeOK, PinsInv, Exclusively
<1>9. \A u \in Worker : job'[u] = IF u = w THEN j ELSE job[u]
  BY <1>0, <1>1 DEF RoutesTypeOK
<1>10. \A i \in Route : Owned(way', job', i) <=> Owned(way, job, i) \/ i = n
  <2>1. \A i \in Route : Counts(j, i) <=> Counts(jw, i) \/ i = n
    BY <1>1, <1>3, RouteNumbers DEF Counts
  <2> QED BY <1>1, <1>9, <2>1 DEF Owned
<1>11. \A i \in Route : Installations(i)' # {} <=> Installations(i) # {} \/ i = n
  BY <1>10, OwnersAre
<1>12. table' \subseteq Route /\ 1 \in Route /\ 1 .. Hosts \subseteq Route
  BY <1>5, RouteNumbers
<1>13. TableOwned'
  <2>1. \A i \in table' : i \in table \/ i = n
    BY DEF Install, Put
  <2> QED BY <1>1, <1>11, <1>12, <2>1 DEF RoutesInv, TableOwned
<1>14. NoOrphanRoute'
  <2>1. pinned' => pinned \/ n = 1
    BY DEF Install, Put
  <2>2. (node' = "open" /\ ~stuck' /\ pinned') =>
            \/ refs' > 0 \/ Installations(1)' # {} \/ reverts' > 0
            \/ \E h \in Holder : at'[h] \in {"installed", "undo"}
    BY <1>1, <1>11, <1>12, <2>1 DEF RoutesInv, NoOrphanRoute
  <2> QED BY <1>13, <2>2 DEF NoOrphanRoute, TableOwned
<1>15. FromTheFirst'
  <2>1. ~exposed' => \A u \in Worker :
          job'[u].do \in {"install", "undo", "down"} => job'[u].from = 1
    BY <1>0, <1>1, <1>3, <1>9 DEF FromTheFirst
  <2>2. ~exposed' => \A i \in 1 .. Hosts : Installations(i)' # {} => InTable(i)'
    BY <1>0, <1>1, <1>4, <1>11, <1>12 DEF FromTheFirst
  <2> QED BY <1>0, <1>1, <2>1, <2>2 DEF FromTheFirst
<1> QED BY <1>6, <1>7, <1>8, <1>13, <1>14, <1>15 DEF RoutesInv, PinsInv

(* revertRoutes: one delete, of a failed install or of a teardown.          *)
LEMMA DeleteInv == ASSUME RoutesInv, NEW w \in Worker, Delete(w) PROVE RoutesInv'
<1> DEFINE jw == job[w]
           n == jw.next
           j == [jw EXCEPT !.next = n - 1]
<1>0. RoutesTypeOK /\ JobsInRange /\ PinsInv /\ FromTheFirst
  BY DEF RoutesInv, RoutesTypeOK, PinsInv
<1>1. /\ jw \in Job /\ n \in 0 .. Last + 1 /\ jw.from \in {1, Hosts + 1}
      /\ jw.do \in {"undo", "down"} /\ jw.from <= n
      /\ job' = [job EXCEPT ![w] = j]
      /\ UNCHANGED <<at, refs, nilMap, reverts, stray, leaked, node, way, tun>>
      /\ way \in {0, 1, Hosts + 1}
  BY <1>0, JobTypes DEF Delete, Set, RoutesTypeOK
<1>2. n - 1 \in 0 .. Last + 1
  BY <1>1, RouteNumbers
<1>3. j \in Job /\ j.do = jw.do /\ j.from = jw.from /\ j.next = n - 1
  BY <1>1, <1>2, JobFields
<1>4. exposed' = (exposed \/ Exposes(n, {w}))
  BY DEF Delete
<1>5. /\ pinned' \in BOOLEAN /\ table' \subseteq 2 .. Last /\ stuck' \in BOOLEAN
      /\ stuck => stuck'
      /\ exposed' \in BOOLEAN
      /\ table' \subseteq table /\ (pinned' => pinned)
      /\ \A i : InTable(i) /\ i # n => InTable(i)'
      /\ ~stuck' => /\ n \notin table'
                    /\ ~(n = 1 /\ pinned')
  <2>1. stuck \in BOOLEAN /\ pinned \in BOOLEAN /\ table \subseteq 2 .. Last
    BY <1>0 DEF RoutesTypeOK, Pins!TypeOK
  <2>2. exposed' \in BOOLEAN
    BY <1>0, <1>4 DEF RoutesTypeOK, Exposes
  <2>3. CASE Remove(n) /\ UNCHANGED stuck
    <3>1. CASE n = 1
      <4>1. pinned' = FALSE /\ table' = table
        BY <2>3, <3>1 DEF Remove
      <4>2. \A i : InTable(i) /\ i # n => InTable(i)'
        BY <3>1, <4>1 DEF InTable
      <4>3. n \notin table'
        BY <2>1, <3>1, <4>1
      <4> QED BY <2>1, <2>2, <2>3, <4>1, <4>2, <4>3
    <3>2. CASE n # 1
      <4>1. table' = table \ {n}
        BY <2>3, <3>2 DEF Remove
      <4>2. pinned' = pinned
        BY <2>3, <3>2 DEF Remove
      <4>3. \A i : InTable(i) /\ i # n => InTable(i)'
        BY <3>2, <4>1, <4>2 DEF InTable
      <4>4. table' \subseteq table /\ n \notin table'
        BY <4>1
      <4>5. pinned' \in BOOLEAN /\ (pinned' => pinned)
        BY <2>1, <4>2
      <4>6. stuck' \in BOOLEAN /\ (stuck => stuck')
        BY <2>1, <2>3
      <4> QED BY <2>1, <2>2, <3>2, <4>3, <4>4, <4>5, <4>6
    <3> QED BY <3>1, <3>2
  <2>4. CASE stuck' = TRUE /\ UNCHANGED <<table, pinned>>
    BY <2>1, <2>2, <2>4 DEF InTable
  <2> QED BY <2>3, <2>4 DEF Delete
<1>6. PinsInv'
  BY <1>0, <1>1, <1>5, PinsRest
<1> HIDE DEF j
<1>7. /\ job' \in [Worker -> Job]
      /\ \A v, u \in Worker :
            ({job'[v].do, job'[u].do} \subseteq Exclusively) => v = u
      /\ JobsInRange'
  <2>1. j.do \in Exclusively => way' = 0 /\ (Free \/ jw.do \in Exclusively)
    BY <1>0, <1>1, <1>3 DEF JobsInRange, Exclusively
  <2> QED BY <1>0, <1>1, <1>3, <2>1, JobSet
<1>8. RoutesTypeOK'
  BY <1>0, <1>1, <1>5, <1>6, <1>7 DEF RoutesTypeOK, PinsInv, Exclusively
<1>9. \A u \in Worker : job'[u] = IF u = w THEN j ELSE job[u]
  BY <1>0, <1>1 DEF RoutesTypeOK
<1>10. \A i \in Route : Counts(j, i) <=> Counts(jw, i) /\ i # n
  BY <1>1, <1>3, RouteNumbers DEF Counts
<1>11. \A i \in Route : /\ Owned(way', job', i) => Owned(way, job, i)
                        /\ i # n => (Owned(way, job, i) => Owned(way', job', i))
  BY <1>1, <1>9, <1>10 DEF Owned
<1>12. \A i \in Route : /\ Installations(i)' # {} => Installations(i) # {}
                        /\ i # n => (Installations(i) # {} => Installations(i)' # {})
  BY <1>11, OwnersAre
<1>13. table \subseteq Route /\ 1 \in Route /\ 1 .. Hosts \subseteq Route
  BY <1>0, RouteNumbers DEF RoutesTypeOK
<1>14. TableOwned'
  BY <1>5, <1>12, <1>13 DEF RoutesInv, TableOwned
<1>15. NoOrphanRoute'
  <2>1. (node' = "open" /\ ~stuck' /\ pinned') =>
            \/ refs' > 0 \/ Installations(1)' # {} \/ reverts' > 0
            \/ \E h \in Holder : at'[h] \in {"installed", "undo"}
    BY <1>1, <1>5, <1>12, <1>13 DEF RoutesInv, NoOrphanRoute
  <2> QED BY <1>14, <2>1 DEF NoOrphanRoute, TableOwned
<1>16. ASSUME ~exposed', NEW i \in 1 .. Hosts, i = n
       PROVE  Installations(i)' = {}
  <2>1. ~(i > Hosts)
    BY <1>16, RouteNumbers
  <2>2. Installations(i) \ {w} = {}
    BY <1>4, <1>16, <2>1 DEF Exposes, Half
  <2>3. 0 # w
    BY HostRoutesAssumption
  <2>4. ~(way # 0 /\ way <= i) /\ \A u \in Worker : u # w => ~Counts(job[u], i)
    BY <2>2, <2>3 DEF Installations, Counts
  <2>5. i \in Route
    BY <1>13, <1>16
  <2>6. ~Owned(way', job', i)
    BY <1>1, <1>9, <1>10, <1>16, <2>4, <2>5 DEF Owned
  <2> QED BY <2>6, OwnersAre
<1>17. FromTheFirst'
  <2>1. ~exposed' => ~exposed
    BY <1>4
  <2>2. ~exposed' => \A u \in Worker :
          job'[u].do \in {"install", "undo", "down"} => job'[u].from = 1
    BY <1>0, <1>1, <1>3, <1>9, <2>1 DEF FromTheFirst
  <2>3. ~exposed' => \A i \in 1 .. Hosts : Installations(i)' # {} => InTable(i)'
    <3> SUFFICES ASSUME ~exposed', NEW i \in 1 .. Hosts, Installations(i)' # {}
                 PROVE  InTable(i)'
      OBVIOUS
    <3>1. i # n
      BY <1>16
    <3>2. InTable(i)
      BY <1>0, <1>12, <1>13, <2>1 DEF FromTheFirst
    <3> QED BY <1>5, <3>1, <3>2
  <2> QED BY <1>0, <1>1, <2>1, <2>2, <2>3 DEF FromTheFirst
<1> QED BY <1>6, <1>7, <1>8, <1>14, <1>15, <1>17 DEF RoutesInv, PinsInv

(* A session's step on its pin: the route goes although an installation     *)
(* counts on it only at the price of exposed.                               *)
LEMMA PinStepInv == ASSUME RoutesInv, NEW h \in Holder, PinStep(h) PROVE RoutesInv'
<1>0. RoutesTypeOK /\ JobsInRange /\ PinsInv /\ FromTheFirst
  BY DEF RoutesInv, RoutesTypeOK, PinsInv
<1>1. UNCHANGED <<table, way, job, tun, stuck>> /\ exposed' \in BOOLEAN
      /\ (exposed => exposed')
  BY <1>0 DEF PinStep, Exposes, RoutesTypeOK
<1>2. PinsInv'
  BY <1>0, PinsStep DEF PinStep
<1>3. \A i : Installations(i)' = Installations(i)
  BY <1>1 DEF Installations
<1>4. RoutesTypeOK' /\ JobsInRange' /\ TableOwned'
  BY <1>0, <1>1, <1>2, <1>3
     DEF RoutesTypeOK, JobsInRange, RoutesInv, TableOwned, PinsInv
<1>5. at \in [Holder -> Pins!PC] /\ refs \in Nat /\ reverts \in Nat
  BY <1>0 DEF PinsInv, Pins!TypeOK
<1>6. \/ pinned' = pinned
      \/ /\ pinned' = TRUE
         /\ at'[h] \in {"installed", "undo"}
      \/ /\ pinned' = FALSE
         /\ ~exposed' => Installations(1) = {}
  <2>1. CASE \/ Pins!Retain(h) \/ Pins!Insert(h) \/ Pins!Release(h)
             \/ Pins!ReleaseReplaced(h) \/ Pins!SkipRelease(h)
    BY <2>1 DEF Pins!Retain, Pins!Insert, Pins!Release, Pins!ReleaseReplaced,
                Pins!SkipRelease
  <2>2. CASE Pins!PinHost(h) \/ Pins!PinFails(h)
    BY <1>5, <2>2 DEF Pins!PinHost, Pins!PinFails, Pins!Goto
  <2>3. CASE (Pins!Undo(h) \/ Pins!Revert) /\ exposed' = (exposed \/ Exposes(1, {}))
    <3>1. ~Half(1)
      BY RouteNumbers DEF Half
    <3> QED BY <2>3, <3>1 DEF Pins!Undo, Pins!Revert, Exposes
  <2> QED BY <2>1, <2>2, <2>3 DEF PinStep
<1>7. FromTheFirst'
  BY <1>0, <1>1, <1>3, <1>6 DEF FromTheFirst, InTable
<1>8. (node' = "open" /\ ~stuck' /\ pinned') =>
          \/ refs' > 0 \/ Installations(1)' # {} \/ reverts' > 0
          \/ \E g \in Holder : at'[g] \in {"installed", "undo"}
  <2> SUFFICES ASSUME node' = "open", ~stuck', pinned'
               PROVE  \/ refs' > 0 \/ Installations(1)' # {} \/ reverts' > 0
                      \/ \E g \in Holder : at'[g] \in {"installed", "undo"}
    OBVIOUS
  <2>1. (node = "open" /\ pinned) =>
            \/ refs > 0 \/ Installations(1)' # {} \/ reverts > 0
            \/ \E g \in Holder : at[g] \in {"installed", "undo"}
    BY <1>1, <1>3 DEF RoutesInv, NoOrphanRoute
  <2>2. \A l : Pins!Goto(h, l) =>
            \A g \in Holder : at'[g] = IF g = h THEN l ELSE at[g]
    BY <1>5 DEF Pins!Goto
  <2>3. CASE Pins!Retain(h)
    BY <1>5, <2>1, <2>2, <2>3 DEF Pins!Retain, Pins!At
  <2>4. CASE Pins!Insert(h)
    BY <1>5, <2>4 DEF Pins!Insert
  <2>5. CASE Pins!Release(h) \/ Pins!ReleaseReplaced(h)
    <3>1. /\ at[h] \in {"holding", "unpinned", "replaced"}
          /\ \A g \in Holder : g # h => at'[g] = at[g]
          /\ node' = node /\ pinned' = pinned /\ Pins!releaseUnderlayPin
      BY <2>2, <2>5 DEF Pins!Release, Pins!ReleaseReplaced, Pins!At
    <3>2. refs > 0 => refs' > 0 \/ reverts' > 0
      BY <1>5, <3>1 DEF Pins!releaseUnderlayPin
    <3>3. reverts > 0 => reverts' > 0
      BY <1>5, <3>1 DEF Pins!releaseUnderlayPin
    <3> QED BY <2>1, <3>1, <3>2, <3>3
  <2>6. CASE Pins!PinHost(h)
    BY <2>2, <2>6 DEF Pins!PinHost
  <2>7. CASE Pins!PinFails(h) \/ Pins!SkipRelease(h)
    BY <1>5, <2>1, <2>2, <2>7 DEF Pins!PinFails, Pins!SkipRelease, Pins!At
  <2>8. CASE Pins!Undo(h) \/ Pins!Revert
    BY <2>8 DEF Pins!Undo, Pins!Revert
  <2> QED BY <2>3, <2>4, <2>5, <2>6, <2>7, <2>8 DEF PinStep
<1>9. NoOrphanRoute'
  BY <1>4, <1>8 DEF NoOrphanRoute, TableOwned
<1> QED BY <1>2, <1>4, <1>7, <1>9 DEF RoutesInv, PinsInv

(* The rest of Node.Close.                                                  *)
LEMMA CloseInv == ASSUME RoutesInv, ClosePins \/ CloseTun PROVE RoutesInv'
<1>0. RoutesTypeOK /\ JobsInRange /\ PinsInv /\ FromTheFirst
  BY DEF RoutesInv, RoutesTypeOK, PinsInv
<1>1. /\ UNCHANGED <<way, job, stuck>>
      /\ \A i : Installations(i)' = Installations(i)
  BY DEF ClosePins, CloseTun, Installations, pins
<1>2. /\ exposed' \in BOOLEAN /\ (exposed => exposed')
      /\ tun' \in BOOLEAN
  BY <1>0 DEF ClosePins, CloseTun, Exposes, RoutesTypeOK
<1>3. PinsInv'
  <2>1. CASE ClosePins
    BY <1>0, <2>1, PinsRest DEF ClosePins
  <2>2. CASE CloseTun
    BY <1>0, <2>2, PinsRest DEF CloseTun, pins, PinsInv, Pins!TypeOK
  <2> QED BY <2>1, <2>2
<1>4. table' \subseteq table /\ \A i \in 1 .. Hosts : i \in table => i \in table'
  <2>1. CASE ClosePins
    BY <2>1 DEF ClosePins
  <2>2. CASE CloseTun
    BY <2>2, RouteNumbers DEF CloseTun, Half
  <2> QED BY <2>1, <2>2
<1>5. RoutesTypeOK' /\ JobsInRange' /\ TableOwned'
  BY <1>0, <1>1, <1>2, <1>3, <1>4
     DEF RoutesTypeOK, JobsInRange, RoutesInv, TableOwned, PinsInv
<1>6. node' # "open"
  BY DEF ClosePins, CloseTun, Pins!Clear, Pins!ClearRevert, pins
<1>7. NoOrphanRoute'
  BY <1>6 DEF NoOrphanRoute
<1>8. \/ pinned' = pinned
      \/ /\ pinned' = FALSE
         /\ ~exposed' => Installations(1) = {}
  <2>1. ~Half(1)
    BY RouteNumbers DEF Half
  <2> QED BY <2>1 DEF ClosePins, CloseTun, Pins!Clear, Pins!ClearRevert,
                      Exposes, pins
<1>9. FromTheFirst'
  <2>1. ~exposed' => \A i \in 1 .. Hosts : Installations(i)' # {} => InTable(i)'
    <3> SUFFICES ASSUME ~exposed', NEW i \in 1 .. Hosts, Installations(i) # {}
                 PROVE  InTable(i)'
      BY <1>1
    <3>1. InTable(i)
      BY <1>0, <1>2 DEF FromTheFirst
    <3> QED BY <1>4, <1>8, <3>1 DEF InTable
  <2> QED BY <1>0, <1>1, <1>2, <2>1 DEF FromTheFirst
<1> QED BY <1>3, <1>5, <1>7, <1>9 DEF RoutesInv, PinsInv

LEMMA RoutesInvInit == RoutesInit => RoutesInv
<1> SUFFICES ASSUME RoutesInit PROVE RoutesInv
  OBVIOUS
<1>1. PinsInv
  BY PinsInit
<1>2. /\ table = {} /\ way = 0 /\ pinned = FALSE /\ job = [w \in Worker |-> Idle]
      /\ tun = TRUE /\ stuck = FALSE /\ exposed = FALSE
  BY DEF RoutesInit, Pins!Init
<1>3. Idle \in Job /\ Idle.do = "idle"
  BY RouteNumbers DEF Idle, Job
<1>4. \A w \in Worker : job[w].do = "idle"
  BY <1>2, <1>3
<1>5. \A i : Installations(i) = {}
  BY <1>2, <1>4 DEF Installations
<1>6. RoutesTypeOK
  BY <1>1, <1>2, <1>3, <1>4 DEF RoutesTypeOK, PinsInv
<1> QED
  BY <1>1, <1>2, <1>4, <1>5, <1>6
     DEF RoutesInv, PinsInv, JobsInRange, TableOwned, NoOrphanRoute, FromTheFirst

LEMMA RoutesInvNext == RoutesInv /\ [RoutesNext]_routesVars => RoutesInv'
<1> SUFFICES ASSUME RoutesInv, [RoutesNext]_routesVars PROVE RoutesInv'
  OBVIOUS
<1>1. CASE UNCHANGED routesVars
  <2>1. /\ UNCHANGED <<table, way, job, tun, stuck, exposed>>
        /\ UNCHANGED <<at, refs, nilMap, pinned, reverts, stray, leaked, node>>
    BY <1>1 DEF routesVars, pins, defaults
  <2>2. PinsInv'
    BY <2>1, PinsRest DEF RoutesInv, RoutesTypeOK, PinsInv, Pins!TypeOK
  <2>3. \A i : Installations(i)' = Installations(i) /\ InTable(i)' = InTable(i)
    BY <2>1 DEF Installations, InTable
  <2> QED BY <2>1, <2>2, <2>3
          DEF RoutesInv, PinsInv, RoutesTypeOK, JobsInRange, TableOwned,
              NoOrphanRoute, FromTheFirst
<1>2. CASE \E h \in Holder : PinStep(h)
  BY <1>2, PinStepInv
<1>3. CASE \E w \in Worker :
             \/ SyncDefaults(w) \/ EnsureDefaults(w) \/ InstallFails(w)
             \/ Installed(w) \/ ClearDefaults(w) \/ Done(w)
  BY <1>3, BookkeepingInv
<1>4. CASE \E w \in Worker : Install(w)
  BY <1>4, InstallInv
<1>5. CASE \E w \in Worker : Delete(w)
  BY <1>5, DeleteInv
<1>6. CASE ClosePins \/ CloseTun
  BY <1>6, CloseInv
<1> QED BY <1>1, <1>2, <1>3, <1>4, <1>5, <1>6 DEF RoutesNext

(* The inductive invariant holds in every reachable state, for any number   *)
(* of sessions, goroutines and routes.                                      *)
THEOREM RoutesInvariant == RoutesSpec => []RoutesInv
BY RoutesInvInit, RoutesInvNext, PTL DEF RoutesSpec

(* Pins, jobs and the table stay in range and exitMu has at most one owner. *)
THEOREM RoutesTypeCorrect == RoutesSpec => []RoutesTypeOK
<1>1. RoutesInv => RoutesTypeOK
  BY DEF RoutesInv
<1> QED BY <1>1, RoutesInvariant, PTL

(* underlay_pin.go never counts more references than there are holders and  *)
(* sessions that ended without a release.                                   *)
THEOREM PinsNeverOvercounted == RoutesSpec => []NeverOvercounted
<1>1. RoutesInv => NeverOvercounted
  BY DEF RoutesInv
<1> QED BY <1>1, RoutesInvariant, PTL

(* The entry of underlayPins stays as long as more holders count on it than *)
(* there were releases too many: of a pin that had failed, or of a session  *)
(* whose replacement had released it before, and was gone in its turn.      *)
THEOREM HoldersKeepPins == RoutesSpec => []HolderKeepsPin
<1>1. RoutesInv => HolderKeepsPin
  <2> SUFFICES ASSUME RoutesInv, node = "open", Cardinality(Pins!Holding) > stray
               PROVE  refs > 0
    BY SameCardinality DEF HolderKeepsPin, Pins!HolderKeepsPin
  <2>1. refs \in Nat /\ stray \in Nat
    BY DEF RoutesInv, RoutesTypeOK, Pins!TypeOK
  <2>2. Cardinality(Pins!Holding) \in Nat
    <3>1. Pins!Holding \in SUBSET Holder
      BY DEF Pins!Holding
    <3> QED BY <3>1, HostRoutesAssumption, FS_Subset, FS_CardinalityType
  <2> QED BY <2>1, <2>2 DEF RoutesInv, PinsCounted
<1> QED BY <1>1, RoutesInvariant, PTL

(* Whatever fails half way, each route in the host's table has somebody who *)
(* will delete it, until Close or a delete that is refused.                 *)
THEOREM NoRouteLeftBehind == RoutesSpec => []NoOrphanRoute
<1>1. RoutesInv => NoOrphanRoute
  BY DEF RoutesInv
<1> QED BY <1>1, RoutesInvariant, PTL

(* While a /1 route is up the configured peers are reached around it: who   *)
(* owns a /1 route counts on all host routes of the installation.           *)
THEOREM PeersNeverCaptured == RoutesSpec => []NeverCaptured
<1>1. RoutesInv => NeverCaptured
  <2> SUFFICES ASSUME RoutesInv, ~stuck, ~exposed,
                      NEW i \in Route, Half(i), InTable(i),
                      NEW k \in Route, ~Half(k)
               PROVE  InTable(k)
    BY DEF NeverCaptured
  <2>0. RoutesTypeOK /\ FromTheFirst /\ TableOwned
    BY DEF RoutesInv
  <2>1. k \in 1 .. Hosts /\ i \in Nat /\ i > Hosts /\ i # 1 /\ k <= i
    BY RouteNumbers DEF Half
  <2>2. i \in table
    BY <2>1 DEF InTable
  <2>3. Owned(way, job, i)
    BY <2>0, <2>2, OwnersAre DEF TableOwned
  <2>4. Owned(way, job, k)
    <3>1. CASE way # 0 /\ way <= i
      BY <2>0, <2>1, <3>1 DEF FromTheFirst, Owned
    <3>2. CASE \E w \in Worker : Counts(job[w], i)
      <4>1. PICK w \in Worker : Counts(job[w], i)
        BY <3>2
      <4>2. job[w].from = 1 /\ job[w].next \in 0 .. Last + 1
        BY <2>0, <4>1, JobTypes DEF FromTheFirst, Counts
      <4>3. Counts(job[w], k)
        BY <2>1, <4>1, <4>2, RouteNumbers DEF Counts
      <4> QED BY <4>3 DEF Owned
    <3> QED BY <2>3, <3>1, <3>2 DEF Owned
  <2> QED BY <2>0, <2>1, <2>4, OwnersAre DEF FromTheFirst
<1> QED BY <1>1, RoutesInvariant, PTL
=============================================================================
