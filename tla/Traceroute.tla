------------------------------ MODULE Traceroute ------------------------------
(***************************************************************************)
(* TraceRoute of traceroute.go: one call at Asker that sends echo requests *)
(* with Hop Limits 1, 2, ... through the packet path of Forwarding and     *)
(* takes what its packet tap receives for the answer of the last one.      *)
(*                                                                         *)
(* The 800 ms of a probe may be over at any time, an answer may arrive in  *)
(* the window of any later probe or never.  Probes do not affect each      *)
(* other on the way, so each flight is followed to its end before the next *)
(* probe; what it brings back is kept in `late` until it arrives.  Other   *)
(* calls and pings of the same host, which share the tap, are left out.    *)
(***************************************************************************)
EXTENDS Forwarding, Sequences

CONSTANTS Asker,      \* the node whose TraceRoute is called
          MaxTTL      \* maxTTL of the call

ASSUME TracerouteAssumption == Asker \in Node /\ MaxTTL \in 1 .. MaxHop

VARIABLES
    trace,      \* the call: its state, destination, hops and Reach so far
    mark,       \* of the answer in flight: sessions that the probe had
                \* crossed when it was made, and its ICMPv6 type
    late        \* answers that have come back and are not read yet

traceVars == <<vars, trace, mark, late>>

NoHop == [by |-> NoNode, depth |-> 0, reply |-> "none"]

TraceInit ==
    /\ pkt = [at |-> Asker, from |-> NoNode, kind |-> "data", src |-> Asker,
              dst |-> Asker, hop |-> 0]
    /\ phase = "done" /\ sent = 0
    /\ \E d \in Node : trace = [state |-> "ready", dst |-> d, hops |-> <<>>,
                                hop |-> NoHop, reach |-> FALSE]
    /\ mark = [depth |-> 0, reply |-> "none"]
    /\ late = {}

-----------------------------------------------------------------------------
(* The call                                                                 *)

TTL == Len(trace.hops) + 1

(* The next probe, handed to handlePacket as a local packet.                *)
SendProbe ==
    /\ trace.state = "ready" /\ ~trace.reach /\ TTL <= MaxTTL
    /\ phase = "done"
    /\ pkt' = [at |-> Asker, from |-> NoNode, kind |-> "request",
               src |-> Asker, dst |-> trace.dst, hop |-> TTL]
    /\ phase' = "flying" /\ sent' = 0
    /\ trace' = [trace EXCEPT !.state = "waiting", !.hop = NoHop]
    /\ UNCHANGED <<mark, late>>

Ends(reply) == reply \in {"time_exceeded", "echo_reply", "dest_unreach"}

(* Fault of Recorded: any answer that ends the wait ends the trace.         *)
RecordedReached(hop) ==
    [trace EXCEPT !.state = "ready", !.hops = Append(@, hop), !.reach = TRUE]

Recorded(hop) ==
    [trace EXCEPT !.state = "ready", !.hops = Append(@, hop),
                  !.reach = hop.reply = "echo_reply"]

(* A packet for us is read from the tap: of whatever type, its source is    *)
(* noted; the types a probe can cause end the wait.  Which probe caused it  *)
(* is not looked at.                                                        *)
ReadTap ==
    /\ trace.state = "waiting"
    /\ \E a \in late :
          /\ trace' = IF Ends(a.reply) THEN Recorded(a)
                      ELSE [trace EXCEPT !.hop = [a EXCEPT !.reply = "none"]]
          /\ late' = late \ {a}
    /\ UNCHANGED <<vars, mark>>

(* The deadline: a hop without a reply.                                     *)
Timeout ==
    /\ trace.state = "waiting" /\ phase = "done"
    /\ trace' = Recorded(trace.hop)
    /\ UNCHANGED <<vars, mark, late>>

-----------------------------------------------------------------------------
(* The flight of a probe and its answer                                     *)

(* The next step of handleIPv6 makes an answer of this type.                *)
Makes(reply) == mark' = IF pkt'.kind # pkt.kind
                        THEN [depth |-> sent, reply |-> reply] ELSE mark

(* tapPacket: an answer for the asker has arrived there.                    *)
Tapped == late' = IF ForMe /\ ~Local /\ pkt.at = Asker
                  THEN late \cup {[by |-> pkt.src, depth |-> mark.depth,
                                   reply |-> mark.reply]}
                  ELSE late

(* A probe that cannot leave the asker is answered there.                   *)
RefusedHere(reply) ==
    /\ Local
    /\ late' = late \cup {[by |-> Asker, depth |-> 0, reply |-> reply]}
    /\ UNCHANGED mark

Fly ==
    /\ \/ /\ Deliver /\ Makes("echo_reply") /\ Tapped
       \/ /\ TimeExceeded /\ Makes("time_exceeded") /\ UNCHANGED late
       \/ /\ Forward /\ UNCHANGED <<mark, late>>
       \/ /\ NotForwarded
          /\ \E reply \in {"dest_unreach", "too_big"} :
                \/ Makes(reply) /\ UNCHANGED late
                \/ RefusedHere(reply)
    /\ UNCHANGED trace

(* The call has returned.                                                   *)
Returned == trace.state = "ready" /\ (trace.reach \/ TTL > MaxTTL)

TraceDone == Returned /\ UNCHANGED traceVars

TraceNext == SendProbe \/ ReadTap \/ Timeout \/ Fly \/ TraceDone

TraceSpec == TraceInit /\ [][TraceNext]_traceVars

-----------------------------------------------------------------------------
(* Properties                                                               *)

(* The node named at the i-th place of the list is at most i sessions away  *)
(* on a path that a probe has taken.  Late answers move nodes down the list *)
(* (a node may appear twice, and behind a farther one), never up.           *)
HopsWithinTTL ==
    \A i \in DOMAIN trace.hops : trace.hops[i].depth <= i

(* TraceResult.Reach: the trace ends at its destination, and not before:    *)
(* the last hop is an echo reply of the node that was asked for, however    *)
(* late and whichever probe it answers.                                     *)
ReachIsReal ==
    /\ trace.reach => trace.hops[Len(trace.hops)].by = trace.dst
    /\ \A i \in DOMAIN trace.hops :
          trace.hops[i].reply = "echo_reply" => trace.reach

=============================================================================
