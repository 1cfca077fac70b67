----------------------------- MODULE ExitDefaults -----------------------------
(***************************************************************************)
(* The host's /1 default routes on a client with exit_node set             *)
(* (internal/node/exit_defaults.go).  Every RIB change and every refresh   *)
(* tick runs syncExitHostDefaults, in the goroutine that made the change:  *)
(* it installs the routes when there is a path to the exit and otherwise   *)
(* arms a timer whose callback takes them down.  The path changes under    *)
(* all of them.                                                            *)
(***************************************************************************)
EXTENDS Naturals

CONSTANTS
    Caller,     \* goroutines that call syncExitHostDefaults
    Timer,      \* bound: timers armed, firing or in their callback at once
    Resolver,   \* the resolveExitULABackground goroutine
    Closer,     \* the goroutine that runs Node.Close
    NoTimer

ASSUME ProcAssumption == /\ Caller \cap Timer = {} /\ NoTimer \notin Timer
                         /\ Resolver \notin Caller \cup Timer
                         /\ Closer \notin Caller \cup Timer
                         /\ Resolver # Closer

Proc == Caller \cup Timer \cup {Resolver, Closer}

VARIABLES
    pc,        \* pc[p]: where goroutine or timer p is
    timer,     \* n.exitDefaultsTimer
    revert,    \* n.exitDefaultsRevert # nil
    kernel,    \* /1 routes are in the host's table
    refused,   \* a delete has failed: kernel can no longer be relied on
    tunUp,     \* n.tun # nil
    hasRoute,  \* the RIB has a default route
    hasULA,    \* n.exitULA is known
    hasHop     \* there is a next hop to it

vars == <<pc, timer, revert, kernel, refused, tunUp, hasRoute, hasULA, hasHop>>
path == <<hasRoute, hasULA, hasHop>>

PC == {"idle", "route", "ula", "hop", "schedule", "cancel", "ensure",
       "armed", "fired", "clear", "revert", "resolve", "done"}

Init == /\ pc = [p \in Proc |-> "idle"]
        /\ timer = NoTimer
        /\ revert = FALSE
        /\ kernel = FALSE /\ refused = FALSE
        /\ tunUp = TRUE
        /\ hasRoute = FALSE /\ hasULA = FALSE /\ hasHop = FALSE

Goto(p, l) == pc' = [pc EXCEPT ![p] = l]

-----------------------------------------------------------------------------
(* syncExitHostDefaults                                                     *)

(* n.tun is read under n.mu; without a TUN everything is cleared at once.   *)
Sync(p) ==
    /\ p \in Caller /\ pc[p] = "idle"
    /\ Goto(p, IF tunUp THEN "route" ELSE "clear")
    /\ UNCHANGED <<timer, revert, kernel, refused, tunUp, path>>

(* hasDefaultExitRoute, in a sync or in the timer's exitPathReady.          *)
CheckRoute(p) ==
    /\ pc[p] = "route"
    /\ Goto(p, IF hasRoute THEN "ula" ELSE IF p \in Timer THEN "clear" ELSE "schedule")
    /\ UNCHANGED <<timer, revert, kernel, refused, tunUp, path>>

(* resolvedExitULA: known, or found among the live sessions now, or not.    *)
CheckULA(p) ==
    /\ pc[p] = "ula"
    /\ \/ hasULA' = TRUE /\ Goto(p, "hop")
       \/ /\ ~hasULA /\ UNCHANGED hasULA
          /\ Goto(p, IF p \in Timer THEN "clear" ELSE "schedule")
    /\ UNCHANGED <<timer, revert, kernel, refused, tunUp, hasRoute, hasHop>>

(* nextHop to the exit.  A path that is ready ends the timer's callback.    *)
CheckHop(p) ==
    /\ pc[p] = "hop"
    /\ Goto(p, IF p \in Timer THEN (IF hasHop THEN "idle" ELSE "clear")
                              ELSE (IF hasHop THEN "cancel" ELSE "schedule"))
    /\ UNCHANGED <<timer, revert, kernel, refused, tunUp, path>>

(* The goroutine is done; one that did not know the exit's ULA has started  *)
(* the resolver, of which there is only one.                                *)
Leave(p, resolve) ==
    [pc EXCEPT ![p] = "idle",
               ![Resolver] = IF p = Resolver THEN "idle"
                             ELSE IF resolve /\ @ = "idle" THEN "resolve" ELSE @]

(* scheduleExitHostDefaultsDown: only when the defaults are up and no timer *)
(* is set.  Then go resolveExitULABackground.                               *)
Schedule(p) ==
    /\ pc[p] = "schedule"
    /\ \/ /\ ~revert \/ timer # NoTimer
          /\ pc' = Leave(p, ~hasULA)
          /\ UNCHANGED timer
       \/ /\ revert /\ timer = NoTimer
          /\ \E t \in Timer : /\ pc[t] = "idle"
                              /\ pc' = [Leave(p, ~hasULA) EXCEPT ![t] = "armed"]
                              /\ timer' = t
    /\ UNCHANGED <<revert, kernel, refused, tunUp, path>>

(* Stop: a timer that has not fired never will.                             *)
Stopped(f) == IF timer # NoTimer /\ f[timer] = "armed"
              THEN [f EXCEPT ![timer] = "idle"] ELSE f

(* Fault of Cancel: the stopped timer is still set.                         *)
CancelUncleared(p) ==
    /\ pc[p] = "cancel"
    /\ pc' = [Stopped(pc) EXCEPT ![p] = "ensure"]
    /\ UNCHANGED <<timer, revert, kernel, refused, tunUp, path>>

(* cancelExitHostDefaultsDown.                                              *)
Cancel(p) ==
    /\ pc[p] = "cancel"
    /\ pc' = [Stopped(pc) EXCEPT ![p] = "ensure"]
    /\ timer' = NoTimer
    /\ UNCHANGED <<revert, kernel, refused, tunUp, path>>

(* Fault of Ensure: installs without keeping the way back.                  *)
EnsureUnowned(p) ==
    /\ pc[p] = "ensure"
    /\ kernel' = TRUE /\ UNCHANGED revert
    /\ pc' = Leave(p, FALSE)
    /\ UNCHANGED <<timer, refused, tunUp, path>>

(* ensureExitHostDefaults: installs under exitMu, unless up; may fail.      *)
Ensure(p) ==
    /\ pc[p] = "ensure"
    /\ \/ ~revert /\ revert' = TRUE /\ kernel' = TRUE
       \/ UNCHANGED <<revert, kernel>>
    /\ pc' = Leave(p, FALSE)
    /\ UNCHANGED <<timer, refused, tunUp, path>>

(* resolveExitULABackground: a mesh ping finds the exit, then syncs, or not. *)
Resolve ==
    /\ pc[Resolver] = "resolve"
    /\ \/ hasULA' = TRUE /\ Goto(Resolver, IF tunUp THEN "route" ELSE "clear")
       \/ UNCHANGED hasULA /\ Goto(Resolver, "idle")
    /\ UNCHANGED <<timer, revert, kernel, refused, tunUp, hasRoute, hasHop>>

-----------------------------------------------------------------------------
(* The timer                                                                *)

(* exitDefaultsDownGrace has passed.                                        *)
Fire(t) ==
    /\ pc[t] = "armed"
    /\ Goto(t, "fired")
    /\ UNCHANGED <<timer, revert, kernel, refused, tunUp, path>>

(* Fault of Fired: the timer is left set.                                   *)
FiredStillSet(t) ==
    /\ pc[t] = "fired"
    /\ Goto(t, "route")
    /\ UNCHANGED <<timer, revert, kernel, refused, tunUp, path>>

(* The callback clears exitDefaultsTimer, whichever timer that is by now,   *)
(* and goes on to exitPathReady.                                            *)
Fired(t) ==
    /\ pc[t] = "fired"
    /\ Goto(t, "route")
    /\ timer' = NoTimer
    /\ UNCHANGED <<revert, kernel, refused, tunUp, path>>

(* clearExitHostDefaultsNow: under exitMu the way back is taken out ...     *)
Clear(p) ==
    /\ pc[p] = "clear"
    /\ pc' = [Stopped(pc) EXCEPT ![p] =
                IF revert THEN "revert" ELSE IF p = Closer THEN "done" ELSE "idle"]
    /\ timer' = NoTimer
    /\ revert' = FALSE
    /\ UNCHANGED <<kernel, refused, tunUp, path>>

(* ... and called after it: the routes go.  An error is only logged, and    *)
(* the way back is gone already.                                            *)
Revert(p) ==
    /\ pc[p] = "revert"
    /\ \/ kernel' = FALSE /\ UNCHANGED refused
       \/ refused' = TRUE /\ UNCHANGED kernel
    /\ Goto(p, IF p = Closer THEN "done" ELSE "idle")
    /\ UNCHANGED <<timer, revert, tunUp, path>>

-----------------------------------------------------------------------------
(* Node.Close takes the TUN out of the node, then clears the defaults.      *)
Close ==
    /\ pc[Closer] = "idle"
    /\ tunUp' = FALSE
    /\ Goto(Closer, "clear")
    /\ UNCHANGED <<timer, revert, kernel, refused, path>>

(* The RIB changes (module Routing).                                        *)
PathChanges ==
    /\ \/ hasRoute' = ~hasRoute /\ UNCHANGED hasHop
       \/ hasHop' = ~hasHop /\ UNCHANGED hasRoute
    /\ UNCHANGED <<pc, timer, revert, kernel, refused, tunUp, hasULA>>

Step(p) == \/ CheckRoute(p) \/ CheckULA(p) \/ CheckHop(p)
           \/ Schedule(p) \/ Cancel(p) \/ Ensure(p)
           \/ Clear(p) \/ Revert(p)
           \/ (p \in Timer /\ (Fire(p) \/ Fired(p)))
           \/ (p = Resolver /\ Resolve)

Next == \/ \E p \in Proc : Sync(p) \/ Step(p)
        \/ Close
        \/ PathChanges

Spec == Init /\ [][Next]_vars

(* What has started runs on; the refresh tick calls sync until Close.       *)
FairSpec == Spec /\ \A p \in Proc : WF_vars(tunUp /\ Sync(p)) /\ WF_vars(Step(p))

-----------------------------------------------------------------------------
(* Properties                                                               *)

(* Program counters in range; a timer that is set has not run its callback. *)
TypeOK == /\ pc \in [Proc -> PC]
          /\ timer \in Timer \cup {NoTimer}
          /\ revert \in BOOLEAN /\ kernel \in BOOLEAN /\ refused \in BOOLEAN
          /\ tunUp \in BOOLEAN
          /\ hasRoute \in BOOLEAN /\ hasULA \in BOOLEAN /\ hasHop \in BOOLEAN
          /\ timer # NoTimer => pc[timer] \in {"armed", "fired"}

(* The default routes are never up without someone to take them down: the   *)
(* node knows the way back or a goroutine is on it, whatever the order of   *)
(* installs, timers, clears and Close, unless a delete has failed.          *)
NoOrphanDefaults ==
    kernel => revert \/ refused \/ \E p \in Proc : pc[p] = "revert"

(* Nobody is in the middle of a change.                                     *)
Quiet == \A p \in Proc : pc[p] \in {"idle", "armed", "resolve", "done"}

(* Defaults a running node takes to be up are in the host's table: a        *)
(* teardown never deletes the routes of an install that came after it.      *)
UpIsInstalled == (tunUp /\ Quiet /\ revert) => kernel

(* A default route or a next hop that is lost for good takes the defaults   *)
(* down with it, so that the host is not left with a black hole: as long as *)
(* the node runs and no delete fails.                                       *)
LostPathTearsDown ==
    [](tunUp /\ ~refused) /\ (<>[]~hasRoute \/ <>[]~hasHop) => <>[]~kernel
=============================================================================
