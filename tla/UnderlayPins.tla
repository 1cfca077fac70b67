----------------------------- MODULE UnderlayPins -----------------------------
(***************************************************************************)
(* Reference-counted host routes for underlay addresses                    *)
(* (internal/node/underlay_pin.go), for one address, with the kernel's     *)
(* routing table behind tun.PinHost.  exitMu guards the map; the route is  *)
(* installed and removed outside it.  A holder is a dial in progress or a  *)
(* session; a session that is replaced is released by the one that takes   *)
(* its place, and whether its own reader releases it once more, or nobody  *)
(* does, is a matter of timing (module Sessions has that).  Module         *)
(* HostRoutes puts these actions together with the exit's default routes,  *)
(* which share the lock and the table.                                     *)
(***************************************************************************)
EXTENDS Naturals, FiniteSets

CONSTANTS
    Holder,      \* dials and sessions that retain the address and use it
    MaxSlips,    \* bound: releases too many or too few
    MaxReverts   \* bound: host routes about to be deleted at a time

VARIABLES
    at,      \* at[h]: where holder h is
    refs,    \* underlayPin.refs; 0 when the map has no entry
    nilMap,  \* n.underlayPins == nil
    pinned,  \* the host route is in the kernel's table
    reverts, \* goroutines that took out the last reference and have yet to
             \* delete the host route
    stray,   \* history: references taken by a release of a holder without one
    leaked,  \* history: references of sessions that ended without a release
    node     \* "open", "closing", "closed", or "panicked"

(* "unpinned" is a caller that goes on without a pin and does not know it,  *)
(* "replaced" a session whose pin has been released on its behalf.          *)
PC == {"idle", "pin", "installed", "undo", "holding", "unpinned", "replaced"}

Init == /\ at = [h \in Holder |-> "idle"]
        /\ refs = 0
        /\ nilMap = TRUE
        /\ pinned = FALSE
        /\ reverts = 0
        /\ stray = 0 /\ leaked = 0
        /\ node = "open"

Running == node # "panicked"
At(h, l) == Running /\ at[h] = l
Goto(h, l) == at' = [at EXCEPT ![h] = l]

-----------------------------------------------------------------------------
(* retainUnderlayPin                                                        *)

(* First critical section: share an existing entry or go and install one.   *)
Retain(h) ==
    /\ At(h, "idle")
    /\ nilMap' = FALSE
    /\ \/ refs > 0 /\ refs' = refs + 1 /\ Goto(h, "holding")
       \/ refs = 0 /\ refs' = refs /\ Goto(h, "pin")
    /\ UNCHANGED <<pinned, reverts, stray, leaked, node>>

(* tun.PinHost, outside the lock: replaces the route whether or not there   *)
(* is one already.                                                          *)
PinHost(h) ==
    /\ At(h, "pin")
    /\ pinned' = TRUE
    /\ Goto(h, "installed")
    /\ UNCHANGED <<refs, nilMap, reverts, stray, leaked, node>>

(* PinHost fails (no gateway, netlink): logged, and the caller goes on as   *)
(* if it held a pin.                                                        *)
PinFails(h) ==
    /\ At(h, "pin")
    /\ Goto(h, "unpinned")
    /\ UNCHANGED <<refs, nilMap, pinned, reverts, stray, leaked, node>>

(* Second critical section: someone else was faster (share theirs, undo     *)
(* ours) or the entry is inserted; inserting into a nil map panics.         *)
Insert(h) ==
    /\ At(h, "installed")
    /\ \/ refs > 0 /\ refs' = refs + 1 /\ Goto(h, "undo") /\ node' = node
       \/ refs = 0 /\ ~nilMap /\ refs' = 1 /\ Goto(h, "holding") /\ node' = node
       \/ refs = 0 /\ nilMap /\ node' = "panicked" /\ UNCHANGED <<refs, at>>
    /\ UNCHANGED <<nilMap, pinned, reverts, stray, leaked>>

(* The loser's revert deletes the host route.                               *)
Undo(h) ==
    /\ At(h, "undo")
    /\ pinned' = FALSE
    /\ Goto(h, "holding")
    /\ UNCHANGED <<refs, nilMap, reverts, stray, leaked, node>>

-----------------------------------------------------------------------------
(* releaseUnderlayPin                                                       *)

(* Faults of releaseUnderlayPin: a shared entry keeps its count; a shared   *)
(* entry is dropped.                                                        *)
releaseUncounted ==
    /\ reverts < MaxReverts
    /\ refs' = IF refs = 1 THEN 0 ELSE refs
    /\ reverts' = IF refs = 1 THEN reverts + 1 ELSE reverts

releaseShared ==
    /\ reverts < MaxReverts
    /\ refs' = 0
    /\ reverts' = IF refs > 0 THEN reverts + 1 ELSE reverts

(* Under the lock: nothing to do, one reference less, or the last one.      *)
releaseUnderlayPin ==
    /\ reverts < MaxReverts
    /\ refs' = IF refs = 0 THEN 0 ELSE refs - 1
    /\ reverts' = IF refs = 1 THEN reverts + 1 ELSE reverts

(* For a holder that has no reference, or no longer, it takes somebody      *)
(* else's.                                                                  *)
Taken(h) == IF at[h] = "holding" \/ refs = 0 THEN stray ELSE stray + 1

(* By a dial that failed, or by onSessionDown of a session that no newer    *)
(* one has replaced, or whose successor is gone in its turn: the last of h. *)
Release(h) ==
    /\ At(h, "holding") \/ At(h, "unpinned") \/ At(h, "replaced")
    /\ releaseUnderlayPin
    /\ stray' = Taken(h) /\ stray' + leaked <= MaxSlips
    /\ Goto(h, "idle")
    /\ UNCHANGED <<nilMap, pinned, leaked, node>>

(* By establish, of the session it replaces; onSessionDown of that one is   *)
(* to come.                                                                 *)
ReleaseReplaced(h) ==
    /\ At(h, "holding") \/ At(h, "unpinned")
    /\ releaseUnderlayPin
    /\ stray' = Taken(h) /\ stray' + leaked <= MaxSlips
    /\ Goto(h, "replaced")
    /\ UNCHANGED <<nilMap, pinned, leaked, node>>

(* onSessionDown returns early for a newer session in the map, which may    *)
(* have come after h left it and so have released nothing.                  *)
SkipRelease(h) ==
    /\ At(h, "holding") \/ At(h, "unpinned") \/ At(h, "replaced")
    /\ leaked' = IF at[h] = "holding" THEN leaked + 1 ELSE leaked
    /\ stray + leaked' <= MaxSlips
    /\ Goto(h, "idle")
    /\ UNCHANGED <<refs, nilMap, pinned, reverts, stray, node>>

(* After the last reference, outside the lock: delete the host route.       *)
Revert ==
    /\ Running /\ reverts > 0
    /\ reverts' = reverts - 1
    /\ pinned' = FALSE
    /\ UNCHANGED <<at, refs, nilMap, stray, leaked, node>>

-----------------------------------------------------------------------------
(* clearUnderlayPins, called by Node.Close                                  *)

(* Under the lock the map becomes nil ...                                   *)
Clear ==
    /\ node = "open"
    /\ refs' = 0
    /\ nilMap' = TRUE
    /\ node' = IF refs > 0 THEN "closing" ELSE "closed"
    /\ UNCHANGED <<at, pinned, reverts, stray, leaked>>

(* ... and then the entry it had is reverted.                               *)
ClearRevert ==
    /\ node = "closing"
    /\ pinned' = FALSE
    /\ node' = "closed"
    /\ UNCHANGED <<at, refs, nilMap, reverts, stray, leaked>>

-----------------------------------------------------------------------------
(* Properties                                                               *)

(* Program counters, the counts and the flags stay in range.                *)
TypeOK == /\ at \in [Holder -> PC]
          /\ refs \in Nat /\ reverts \in Nat
          /\ stray \in Nat /\ leaked \in Nat
          /\ nilMap \in BOOLEAN
          /\ pinned \in BOOLEAN
          /\ node \in {"open", "closing", "closed", "panicked"}

Holding == {h \in Holder : at[h] \in {"holding", "undo"}}

(* There are never more references than holders and sessions that ended     *)
(* without a release: no order of concurrent first retains and releases     *)
(* counts a holder twice.                                                   *)
NeverOvercounted == refs <= Cardinality(Holding) + leaked

(* Each release of a pin that was never there, or was given back before,    *)
(* takes at most one reference: while there are more holders than that, the *)
(* entry they count on stays in the map, whatever the others do.            *)
HolderKeepsPin == (node = "open" /\ Cardinality(Holding) > stray) => refs > 0

(* Nobody is between two steps of retain or release.                        *)
Quiet == /\ reverts = 0
         /\ \A h \in Holder : at[h] \in {"idle", "holding", "unpinned", "replaced"}

(* A pinned address has its host route in the kernel, so that the exit's /1 *)
(* routes do not capture the underlay.                                      *)
PinnedIsInstalled == (Quiet /\ refs > 0) => pinned
=============================================================================
