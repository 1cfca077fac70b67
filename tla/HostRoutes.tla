------------------------------ MODULE HostRoutes ------------------------------
(***************************************************************************)
(* The host's routing table under a client with exit_node set: the pins of *)
(* module UnderlayPins (per session, for one address) and the default      *)
(* routes of exit_defaults.go, installed route by route by                 *)
(* tun.installDefaultRoutes, in one table without owners.                  *)
(*                                                                         *)
(* The installation of the defaults is a list of routes: first a host      *)
(* route per configured peer, the first one of which is for the address    *)
(* that the sessions pin too, then the /1 routes.  They are deleted in     *)
(* reverse.  exitMu is held throughout an install, not during a teardown.  *)
(* When the defaults are wanted is the subject of module ExitDefaults;     *)
(* here they may be installed and torn down at any time.                   *)
(***************************************************************************)
EXTENDS Integers, FiniteSets

CONSTANTS Holder, MaxSlips, MaxReverts,   \* see UnderlayPins
          Worker,      \* goroutines that install or tear down the defaults
          CloseWorker, \* ... of which this one runs Node.Close
          Hosts,       \* host routes of an installation
          Halves       \* its /1 routes (4)

ASSUME HostRoutesAssumption ==
    /\ IsFiniteSet(Holder)
    /\ MaxSlips \in Nat /\ MaxReverts \in Nat
    /\ CloseWorker \in Worker /\ 0 \notin Worker
    /\ Hosts \in Nat \ {0} /\ Halves \in Nat \ {0}

VARIABLES
    at, refs, nilMap, pinned, reverts, stray, leaked, node, \* see UnderlayPins
    table,      \* the other routes in the host's table
    way,        \* exitDefaultsRevert: the first route it deletes last, or 0
    job,        \* job[w]: what w is at
    tun,        \* the device exists
    stuck,      \* a delete has failed
    exposed     \* a host route the defaults count on was not installed for
                \* want of a gateway, or deleted by somebody else

pins == <<at, refs, nilMap, pinned, reverts, stray, leaked, node>>
defaults == <<table, way, job, tun, stuck, exposed>>
routesVars == <<pins, defaults>>

Pins == INSTANCE UnderlayPins

Last == Hosts + Halves
Route == 1 .. Last

(* do: "sync" (has seen the node's device), "install", "undo" (of a failed  *)
(* install), "down" (a teardown), "closed" (Close has cleared the defaults);*)
(* next: the route that comes next; from: the first route of the            *)
(* installation, Hosts + 1 without a gateway.                               *)
Job == [do : {"idle", "sync", "install", "undo", "down", "closed"},
        next : 0 .. Last + 1, from : {1, Hosts + 1}]
Idle == [do |-> "idle", next |-> 0, from |-> 1]

RoutesInit ==
    /\ Pins!Init
    /\ table = {}
    /\ way = 0
    /\ job = [w \in Worker |-> Idle]
    /\ tun = TRUE
    /\ stuck = FALSE /\ exposed = FALSE

(* exitMu                                                                   *)
Free == \A w \in Worker : job[w].do \notin {"install", "undo"}

Half(i) == i > Hosts

InTable(i) == IF i = 1 THEN pinned ELSE i \in table

Put(i) == IF i = 1 THEN pinned' = TRUE /\ UNCHANGED table
          ELSE table' = table \cup {i} /\ UNCHANGED pinned

Remove(i) == IF i = 1 THEN pinned' = FALSE /\ UNCHANGED table
             ELSE table' = table \ {i} /\ UNCHANGED pinned

(* Who will delete route i as part of an installation: its worker, or       *)
(* whoever calls exitDefaultsRevert (0).                                    *)
Installations(i) ==
    (IF way # 0 /\ way <= i THEN {0} ELSE {}) \cup
    {w \in Worker :
        /\ job[w].from <= i
        /\ \/ job[w].do = "install" /\ i < job[w].next
           \/ job[w].do \in {"undo", "down"} /\ i <= job[w].next}

(* Route i goes although an installation other than `of` counts on it.      *)
Exposes(i, of) == ~Half(i) /\ Installations(i) \ of # {}

-----------------------------------------------------------------------------
(* The sessions' pins; what is done under exitMu waits for an install       *)

PinStep(h) ==
    /\ \/ /\ Free /\ UNCHANGED exposed
          /\ \/ Pins!Retain(h) \/ Pins!Insert(h)
             \/ Pins!Release(h) \/ Pins!ReleaseReplaced(h)
       \/ (Pins!PinHost(h) \/ Pins!PinFails(h) \/ Pins!SkipRelease(h)) /\ UNCHANGED exposed
       \/ (Pins!Undo(h) \/ Pins!Revert) /\ exposed' = (exposed \/ Exposes(1, {}))
    /\ UNCHANGED <<table, way, job, tun, stuck>>

-----------------------------------------------------------------------------
(* ensureExitHostDefaults and tun.installDefaultRoutes                      *)

Set(w, j) == job' = [job EXCEPT ![w] = j]

(* syncExitHostDefaults reads n.tun; Close takes it away first.             *)
SyncDefaults(w) ==
    /\ Pins!Running /\ job[w].do = "idle" /\ w # CloseWorker
    /\ job[CloseWorker].do = "idle"
    /\ Set(w, [Idle EXCEPT !.do = "sync"])
    /\ UNCHANGED <<pins, table, way, tun, stuck, exposed>>

(* The first route of an installation: physicalGateway finds a gateway, or  *)
(* it does not and the host routes are skipped, silently.                   *)
First == {1, Hosts + 1}

(* Unless the defaults are up.                                              *)
EnsureDefaults(w) ==
    /\ Pins!Running /\ job[w].do = "sync" /\ Free
    /\ \/ way # 0 /\ Set(w, Idle) /\ UNCHANGED exposed
       \/ /\ way = 0
          /\ \E from \in First :
                /\ Set(w, [do |-> "install", next |-> from, from |-> from])
                /\ exposed' = (exposed \/ from # 1)
    /\ UNCHANGED <<pins, table, way, tun, stuck>>

(* nlRouteReplace of the next route; a /1 route needs the device.           *)
Install(w) ==
    /\ Pins!Running /\ job[w].do = "install" /\ job[w].next <= Last
    /\ Half(job[w].next) => tun
    /\ Put(job[w].next)
    /\ Set(w, [job[w] EXCEPT !.next = @ + 1])
    /\ UNCHANGED <<at, refs, nilMap, reverts, stray, leaked, node, way, tun, stuck, exposed>>

(* Fault of InstallFails: what was installed so far stays.                  *)
InstallFailsOnly(w) ==
    /\ Pins!Running /\ job[w].do = "install" /\ job[w].next <= Last
    /\ Set(w, Idle)
    /\ UNCHANGED <<pins, table, way, tun, stuck, exposed>>

(* It fails: what was installed so far is deleted, in reverse.              *)
InstallFails(w) ==
    /\ Pins!Running /\ job[w].do = "install" /\ job[w].next <= Last
    /\ Set(w, [job[w] EXCEPT !.do = "undo", !.next = @ - 1])
    /\ UNCHANGED <<pins, table, way, tun, stuck, exposed>>

Installed(w) ==
    /\ Pins!Running /\ job[w].do = "install" /\ job[w].next > Last
    /\ way' = job[w].from
    /\ Set(w, Idle)
    /\ UNCHANGED <<pins, table, tun, stuck, exposed>>

-----------------------------------------------------------------------------
(* clearExitHostDefaultsNow                                                 *)

(* The way back is taken out, under exitMu ...                              *)
ClearDefaults(w) ==
    /\ Pins!Running /\ job[w].do = "idle" /\ Free
    /\ w # CloseWorker => way # 0
    /\ Set(w, [do |-> "down",
               next |-> IF way = 0 THEN 0 ELSE Last,
               from |-> IF way = 0 THEN 1 ELSE way])
    /\ way' = 0
    /\ UNCHANGED <<pins, table, tun, stuck, exposed>>

(* Fault of Delete: a teardown deletes the host routes first.               *)
DeleteInOrder(w) ==
    /\ Pins!Running /\ job[w].do \in {"undo", "down"} /\ job[w].next >= job[w].from
    /\ Remove(IF job[w].do = "down" THEN Last + job[w].from - job[w].next ELSE job[w].next)
    /\ Set(w, [job[w] EXCEPT !.next = @ - 1])
    /\ UNCHANGED <<at, refs, nilMap, reverts, stray, leaked, node, way, tun, stuck, exposed>>

(* ... and followed, without it: revertRoutes deletes the last route first  *)
(* and goes on when a delete fails.                                         *)
Delete(w) ==
    /\ Pins!Running /\ job[w].do \in {"undo", "down"} /\ job[w].next >= job[w].from
    /\ \/ Remove(job[w].next) /\ UNCHANGED stuck
       \/ stuck' = TRUE /\ UNCHANGED <<table, pinned>>
    /\ exposed' = (exposed \/ Exposes(job[w].next, {w}))
    /\ Set(w, [job[w] EXCEPT !.next = @ - 1])
    /\ UNCHANGED <<at, refs, nilMap, reverts, stray, leaked, node, way, tun>>

Done(w) ==
    /\ Pins!Running /\ job[w].do \in {"undo", "down"} /\ job[w].next < job[w].from
    /\ Set(w, [Idle EXCEPT !.do = IF w = CloseWorker /\ job[w].do = "down"
                                  THEN "closed" ELSE "idle"])
    /\ UNCHANGED <<pins, table, way, tun, stuck, exposed>>

-----------------------------------------------------------------------------
(* The rest of Node.Close: the pins, then the device with its routes        *)

ClosePins ==
    /\ job[CloseWorker].do = "closed"
    /\ \/ Free /\ Pins!Clear /\ UNCHANGED exposed
       \/ Pins!ClearRevert /\ exposed' = (exposed \/ Exposes(1, {}))
    /\ UNCHANGED <<table, way, job, tun, stuck>>

CloseTun ==
    /\ node = "closed" /\ tun
    /\ tun' = FALSE
    /\ table' = {i \in table : ~Half(i)}
    /\ UNCHANGED <<pins, way, job, stuck, exposed>>

RoutesNext ==
    \/ \E h \in Holder : PinStep(h)
    \/ \E w \in Worker :
          \/ SyncDefaults(w) \/ EnsureDefaults(w) \/ Install(w)
          \/ InstallFails(w) \/ Installed(w)
          \/ ClearDefaults(w) \/ Delete(w) \/ Done(w)
    \/ ClosePins
    \/ CloseTun

RoutesSpec == RoutesInit /\ [][RoutesNext]_routesVars

-----------------------------------------------------------------------------
(* Properties                                                               *)

(* Pins and jobs stay in range, and exitMu has at most one owner.           *)
RoutesTypeOK ==
    /\ Pins!TypeOK
    /\ table \subseteq 2 .. Last
    /\ way \in {0, 1, Hosts + 1}
    /\ job \in [Worker -> Job]
    /\ tun \in BOOLEAN /\ stuck \in BOOLEAN /\ exposed \in BOOLEAN
    /\ \A v, w \in Worker :
          ({job[v].do, job[w].do} \subseteq {"install", "undo"}) => v = w

(* See UnderlayPins: never more references than holders and sessions that   *)
(* ended without a release; the entry stays as long as more holders count   *)
(* on it than stray releases have taken references.                         *)
NeverOvercounted == Pins!NeverOvercounted
HolderKeepsPin == Pins!HolderKeepsPin

(* What does not hold: a pin in the map has its host route in the kernel.   *)
PinnedIsInstalled == Pins!PinnedIsInstalled

(* No route is left behind: until the node closes, each one in the table    *)
(* has a reference, a goroutine or the defaults' way back to delete it,     *)
(* however installs fail half way and pins and defaults overlap, unless a   *)
(* delete was refused.  (A leaked reference keeps its route until Close.)   *)
NoOrphanRoute ==
    (node = "open" /\ ~stuck) =>
        /\ \A i \in table : Installations(i) # {}
        /\ pinned => \/ refs > 0 \/ Installations(1) # {}
                     \/ reverts > 0
                     \/ \E h \in Holder : at[h] \in {"installed", "undo"}

(* While a /1 route is up the configured peers are reached around it, at    *)
(* every step of an install, of its undoing and of a teardown: nobody's     *)
(* underlay traffic goes into the tunnel it carries.  Except that a session *)
(* or an overlapping teardown may delete a host route that is not its own,  *)
(* and that without a gateway there is none.                                *)
NeverCaptured ==
    (~stuck /\ ~exposed /\ \E i \in Route : Half(i) /\ InTable(i)) =>
        \A i \in Route : Half(i) \/ InTable(i)

(* What does not hold: a peer with a session is reached around the /1       *)
(* routes once nobody is in the middle of a change.                         *)
SessionsBypass ==
    ((\A w \in Worker : job[w].do = "idle") /\ Pins!Quiet /\ refs > 0
        /\ \E i \in Route : Half(i) /\ InTable(i)) => pinned

(* What does not hold: Close leaves nothing in the table.                   *)
CloseCleans ==
    (~tun /\ ~stuck /\ \A w \in Worker : job[w].do \in {"idle", "closed"})
        => table = {}
=============================================================================
