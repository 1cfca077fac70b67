------------------------------- MODULE Sessions -------------------------------
(***************************************************************************)
(* The life of a node's sessions with ONE peer (internal/node/node.go and  *)
(* route.go), at the granularity of the locks n.mu, routeMu and exitMu.    *)
(*                                                                         *)
(* Module Routing has the same critical sections for a whole mesh, with at *)
(* most one working connection per pair and without the pins; here a live  *)
(* session may be replaced, and both goroutines of every session are       *)
(* followed to their end.  The goroutine that establishes session s (dial  *)
(* or accept) registers it, closes the session it replaces, spawns         *)
(* readLoop and only then installs the direct route.  readLoop, once its   *)
(* connection fails, unregisters the session, checks under n.mu whether a  *)
(* newer one has taken its place, deletes the peer's routes under routeMu  *)
(* and gives back the underlay pin.                                        *)
(***************************************************************************)
EXTENDS Naturals

CONSTANT MaxSess    \* bound: sessions with the peer over the node's lifetime

ASSUME MaxSessAssumption == MaxSess \in Nat

Sess == 1 .. MaxSess
NoSess == 0

VARIABLES
    cur,     \* n.sessions[peer]
    alive,   \* sessions whose QUIC connection works
    est,     \* est[s]: where the establishing goroutine of s is
    old,     \* old[s]: the session that s replaced
    reader,  \* reader[s]: where readLoop(s) is
    rib,     \* which RIB entries go via the peer: its own ULA, others' ULAs
    refs,    \* reference count of the pin of the peer's underlay address
    node     \* "open", "closing" (after the session map is emptied), "closed"

vars == <<cur, alive, est, old, reader, rib, refs, node>>

EstState == {"idle", "pinned", "failed", "registered", "closed", "released",
             "spawned", "up"}
ReaderState == {"none", "reading", "unregister", "check", "delete", "release", "done"}
Routes == {"direct", "learned"}

Init == /\ cur = NoSess
        /\ alive = {}
        /\ est = [s \in Sess |-> "idle"]
        /\ old = [s \in Sess |-> NoSess]
        /\ reader = [s \in Sess |-> "none"]
        /\ rib = {}
        /\ refs = 0
        /\ node = "open"

(* Fault of Released: the address without a pin is not recognised.          *)
ReleasedAlways(r) == r - 1

(* releaseUnderlayPin: an address without a pin is ignored.                 *)
Released(r) == IF r = 0 THEN 0 ELSE r - 1

-----------------------------------------------------------------------------
(* dial / accept and establish                                              *)

(* retainUnderlayPin, by dial before it connects or by establish on an      *)
(* inbound connection.  Sessions are numbered in the order they start.      *)
Retain(s) ==
    /\ node = "open"
    /\ est[s] = "idle"
    /\ \A t \in Sess : t < s => est[t] # "idle"
    /\ est' = [est EXCEPT ![s] = "pinned"]
    /\ alive' = alive \cup {s}
    /\ refs' = refs + 1
    /\ UNCHANGED <<cur, old, reader, rib, node>>

(* The dial, the handshake or the hello exchange fails: releasePin.         *)
DialFails(s) ==
    /\ est[s] = "pinned"
    /\ est' = [est EXCEPT ![s] = "failed"]
    /\ alive' = alive \ {s}
    /\ refs' = Released(refs)
    /\ UNCHANGED <<cur, old, reader, rib, node>>

(* Under n.mu: the newest connection takes the peer's place in the map.     *)
Register(s) ==
    /\ est[s] = "pinned"
    /\ est' = [est EXCEPT ![s] = "registered"]
    /\ old' = [old EXCEPT ![s] = cur]
    /\ cur' = s
    /\ UNCHANGED <<alive, reader, rib, refs, node>>

(* The replaced session's connection is closed ...                          *)
CloseOld(s) ==
    /\ est[s] = "registered"
    /\ est' = [est EXCEPT ![s] = IF old[s] = NoSess THEN "released" ELSE "closed"]
    /\ alive' = alive \ {old[s]}
    /\ UNCHANGED <<cur, old, reader, rib, refs, node>>

(* ... and its pin is given back on its behalf.                             *)
ReleaseOld(s) ==
    /\ est[s] = "closed"
    /\ est' = [est EXCEPT ![s] = "released"]
    /\ refs' = Released(refs)
    /\ UNCHANGED <<cur, alive, old, reader, rib, node>>

(* The read loops start before onSessionUp runs.                            *)
Spawn(s) ==
    /\ est[s] = "released"
    /\ est' = [est EXCEPT ![s] = "spawned"]
    /\ reader' = [reader EXCEPT ![s] = "reading"]
    /\ UNCHANGED <<cur, alive, old, rib, refs, node>>

(* onSessionUp installs the direct route, whatever became of the session.   *)
onSessionUp(s) ==
    /\ est[s] = "spawned"
    /\ est' = [est EXCEPT ![s] = "up"]
    /\ rib' = rib \cup {"direct"}
    /\ UNCHANGED <<cur, alive, old, reader, refs, node>>

-----------------------------------------------------------------------------
(* readLoop                                                                 *)

(* handleRoutes: the direct route is (re)installed; other destinations via  *)
(* the peer appear, or go when the peer has stopped listing them.  A        *)
(* message already read is handled even if the connection fails meanwhile.  *)
handleRoutes(s) ==
    /\ reader[s] = "reading"
    /\ \E r \in {{"direct"}, {"direct", "learned"}} : rib' = r
    /\ UNCHANGED <<cur, alive, est, old, reader, refs, node>>

(* The underlay fails, the peer closes, or the idle timeout fires.          *)
ConnLost(s) ==
    /\ s \in alive
    /\ alive' = alive \ {s}
    /\ UNCHANGED <<cur, est, old, reader, rib, refs, node>>

(* proto.Read fails and the deferred clean-up starts.                       *)
ReadFails(s) ==
    /\ reader[s] = "reading"
    /\ s \notin alive
    /\ reader' = [reader EXCEPT ![s] = "unregister"]
    /\ UNCHANGED <<cur, alive, est, old, rib, refs, node>>

(* Fault of Unregister: the map entry is left to the next session.          *)
UnregisterLater(s) ==
    /\ reader[s] = "unregister"
    /\ reader' = [reader EXCEPT ![s] = "check"]
    /\ UNCHANGED <<cur, alive, est, old, rib, refs, node>>

(* Under n.mu: the session leaves the map if it is still the registered one. *)
Unregister(s) ==
    /\ reader[s] = "unregister"
    /\ reader' = [reader EXCEPT ![s] = "check"]
    /\ cur' = IF cur = s THEN NoSess ELSE cur
    /\ UNCHANGED <<alive, est, old, rib, refs, node>>

(* Fault of CheckReplaced: an empty map entry counts as a newer session.    *)
CheckReplacedOrGone(s) ==
    /\ reader[s] = "check"
    /\ reader' = [reader EXCEPT ![s] = IF cur # s THEN "done" ELSE "delete"]
    /\ UNCHANGED <<cur, alive, est, old, rib, refs, node>>

(* onSessionDown, under n.mu: replaced by a newer session; keep routes.     *)
CheckReplaced(s) ==
    /\ reader[s] = "check"
    /\ reader' = [reader EXCEPT ![s] = IF cur # NoSess /\ cur # s THEN "done"
                                                                ELSE "delete"]
    /\ UNCHANGED <<cur, alive, est, old, rib, refs, node>>

(* Fault of DeleteRoutes: only the peer's own route goes.                   *)
DeleteDirectRoute(s) ==
    /\ reader[s] = "delete"
    /\ reader' = [reader EXCEPT ![s] = "release"]
    /\ rib' = rib \ {"direct"}
    /\ UNCHANGED <<cur, alive, est, old, refs, node>>

(* onSessionDown, under routeMu: everything via the peer goes.              *)
DeleteRoutes(s) ==
    /\ reader[s] = "delete"
    /\ reader' = [reader EXCEPT ![s] = "release"]
    /\ rib' = {}
    /\ UNCHANGED <<cur, alive, est, old, refs, node>>

(* onSessionDown, last: releaseUnderlayPin.                                 *)
ReleasePin(s) ==
    /\ reader[s] = "release"
    /\ reader' = [reader EXCEPT ![s] = "done"]
    /\ refs' = Released(refs)
    /\ UNCHANGED <<cur, alive, est, old, rib, node>>

-----------------------------------------------------------------------------
(* Node.Close                                                               *)

(* The session map is emptied under n.mu and the connections are closed ... *)
Close ==
    /\ node = "open"
    /\ node' = "closing"
    /\ cur' = NoSess
    /\ alive' = alive \ {cur}
    /\ UNCHANGED <<est, old, reader, rib, refs>>

(* ... then clearUnderlayPins; stopping the transport ends what is left.    *)
ClearPins ==
    /\ node = "closing"
    /\ node' = "closed"
    /\ refs' = 0
    /\ alive' = {}
    /\ UNCHANGED <<cur, est, old, reader, rib>>

Next == \/ \E s \in Sess : \/ Retain(s) \/ DialFails(s) \/ Register(s)
                           \/ CloseOld(s) \/ ReleaseOld(s) \/ Spawn(s)
                           \/ onSessionUp(s) \/ handleRoutes(s)
                           \/ ConnLost(s) \/ ReadFails(s) \/ Unregister(s)
                           \/ CheckReplaced(s) \/ DeleteRoutes(s) \/ ReleasePin(s)
        \/ Close
        \/ ClearPins

(* Started goroutines run on; reading, dialling and failing are up to the   *)
(* environment.                                                             *)
Fairness == \A s \in Sess : WF_vars(\/ CloseOld(s) \/ ReleaseOld(s) \/ Spawn(s)
                                    \/ onSessionUp(s) \/ ReadFails(s)
                                    \/ Unregister(s) \/ CheckReplaced(s)
                                    \/ DeleteRoutes(s) \/ ReleasePin(s))

Spec == Init /\ [][Next]_vars

FairSpec == Spec /\ Fairness

-----------------------------------------------------------------------------
(* Properties                                                               *)

(* Program counters, map entry and counters stay in range.                  *)
TypeOK == /\ cur \in Sess \cup {NoSess}
          /\ alive \subseteq Sess
          /\ est \in [Sess -> EstState]
          /\ old \in [Sess -> Sess \cup {NoSess}]
          /\ reader \in [Sess -> ReaderState]
          /\ rib \subseteq Routes
          /\ refs \in Nat
          /\ node \in {"open", "closing", "closed"}

(* The map never holds a session whose readLoop has finished unregistering: *)
(* a session the node would send on always has a reader that will clean up. *)
NoZombieSession ==
    cur # NoSess => reader[cur] \in {"none", "reading", "unregister"}

(* readLoop(s) has not yet run, or has not yet got to its clean-up of the   *)
(* peer's routes.                                                           *)
WillCleanUp(s) ==
    \/ est[s] \in {"registered", "closed", "released"}
    \/ reader[s] \in {"reading", "unregister", "check", "delete"}

(* Whatever the order in which sessions replace one another and die, a      *)
(* route learned from the peer outlives no reader that skipped its clean-up *)
(* in favour of a newer session: someone is still there to delete it.       *)
LearnedRoutesOwned == "learned" \in rib => \E s \in Sess : WillCleanUp(s)

(* No goroutine of any session is between two steps.                        *)
Quiet == \A s \in Sess : \/ est[s] \in {"idle", "failed"}
                         \/ est[s] = "up" /\ reader[s] \in {"reading", "done"}

(* When the peer's connections are gone for good so are the routes learned  *)
(* from it, however its sessions replaced one another.                      *)
PeerGoneRoutesGo == <>[](alive = {}) => <>[]("learned" \notin rib)

(* Session down deletes every RIB entry whose next hop was that peer: once  *)
(* nothing is running and there is no session, no entry is left.            *)
NoPhantomRoute ==
    (Quiet /\ \A s \in Sess : reader[s] # "reading") => rib = {}

(* A session replaced by a newer one leaves the newer one's routes alone:   *)
(* once nothing is running a registered session has its direct route.       *)
ReplacedKeepsRoutes == (Quiet /\ cur # NoSess) => "direct" \in rib

(* A session owns its pin for its lifetime: once nothing is running there   *)
(* are as many references as sessions.                                      *)
PinsBalanced ==
    (Quiet /\ node = "open") => refs = (IF cur = NoSess THEN 0 ELSE 1)

(* While a session is registered its peer's address stays pinned, so the    *)
(* exit routes never capture its underlay.                                  *)
SessionKeepsPin == (cur # NoSess /\ node = "open") => refs > 0
=============================================================================
