------------------------------- MODULE Dialing -------------------------------
(***************************************************************************)
(* Two nodes that find each other (node.go: join, dial, acceptLoop,        *)
(* establish): either may dial, both at once if they like, and the newest  *)
(* connection replaces the registered session at each end.                 *)
(*                                                                         *)
(* A QUIC connection is one record with two ends; an end that closes it    *)
(* is noticed by the other later (a close frame or the idle timeout).  The *)
(* steps that Sessions takes apart are single here, and what happens over  *)
(* a session is left out.                                                  *)
(***************************************************************************)
EXTENDS Integers, FiniteSets

CONSTANTS NodeA, NodeB,
          Nobody,
          Dialers,      \* nodes that have the other one among their peers
          Recognises,   \* nodes whose configured address of the other one is
                        \* the first the other one advertises
          MaxConn,      \* bound: connections at a time
          MaxFault      \* bound: lost connections, dial timeouts, restarts

Node == {NodeA, NodeB}
Peer(n) == IF n = NodeA THEN NodeB ELSE NodeA
Conn == 1 .. MaxConn
NoConn == 0

ASSUME DialingAssumption ==
    /\ NodeA # NodeB /\ Nobody \notin Node
    /\ Dialers \subseteq Node /\ Recognises \subseteq Node
    /\ MaxConn \in Nat /\ MaxFault \in Nat

VARIABLES
    conn,       \* conn[c]: see Connection
    reg,        \* reg[n]: n.sessions[peer]
    faults

vars == <<conn, reg, faults>>

(* dialer: who dialled it (Nobody: c is not in use); end[n]: where n is     *)
(* with it: "begun" (dial's handshake, or accepted), "hello" (establish has *)
(* written its hello), "up" (registered), "over"; lost: the nodes at which  *)
(* its context is done; greeted: those that have written a hello.           *)
Connection == [dialer : Node \cup {Nobody},
               end : [Node -> {"none", "begun", "hello", "up", "over"}],
               lost : SUBSET Node,
               greeted : SUBSET Node]

Unused == [dialer |-> Nobody, end |-> [n \in Node |-> "none"],
           lost |-> {}, greeted |-> {}]

Init == /\ conn = [c \in Conn |-> Unused]
        /\ reg = [n \in Node |-> NoConn]
        /\ faults = 0

Establishing(n, c) == conn[c].end[n] \in {"begun", "hello"}
Active(n, c) == conn[c].end[n] \in {"begun", "hello", "up"}
Dialling(n) == \E c \in Conn : conn[c].dialer = n /\ Establishing(n, c)

(* k after n is done with it.                                               *)
Left(k, n) == IF k.end[Peer(n)] = "over" THEN Unused
              ELSE [k EXCEPT !.end[n] = "over", !.lost = @ \cup {n}]

(* k after n has closed it or it has timed out at n.                        *)
Lost(k, n) == [k EXCEPT !.lost = @ \cup {n}]

-----------------------------------------------------------------------------
(* join and dial                                                            *)

(* Fault of SessionByAddr: only sessions this node dialled count.           *)
SessionByAddrDialled(n) ==
    /\ reg[n] # NoConn
    /\ conn[reg[n]].dialer = n
    /\ n \notin conn[reg[n]].lost

(* sessionByAddr(configured address): a dialled session keeps the address   *)
(* it was dialled at, an accepted one has the first advertised.             *)
SessionByAddr(n) ==
    /\ reg[n] # NoConn
    /\ conn[reg[n]].dialer = n \/ n \in Recognises
    /\ n \notin conn[reg[n]].lost

Join(n) ==
    /\ n \in Dialers /\ ~Dialling(n) /\ ~SessionByAddr(n)
    /\ \E c \in Conn :
          /\ conn[c] = Unused
          /\ \A d \in Conn : d < c => conn[d] # Unused
          /\ conn' = [conn EXCEPT ![c] =
                        [Unused EXCEPT !.dialer = n,
                                       !.end = [m \in Node |-> "begun"]]]
    /\ UNCHANGED <<reg, faults>>

-----------------------------------------------------------------------------
(* establish, at both ends of c                                             *)

(* The stream is open (the acceptor waits for the dialer to open it) and    *)
(* this end writes its hello.                                               *)
Greet(n, c) ==
    /\ conn[c].end[n] = "begun" /\ n \notin conn[c].lost
    /\ n = conn[c].dialer \/ conn[c].dialer \in conn[c].greeted
    /\ conn' = [conn EXCEPT ![c].end[n] = "hello", ![c].greeted = @ \cup {n}]
    /\ UNCHANGED <<reg, faults>>

(* Fault of Replaced: the session replaced is not closed.                   *)
ReplacedOpen(n, c) == [conn EXCEPT ![c].end[n] = "up"]

(* conn after c has taken the place of n's session, whatever that is.       *)
Replaced(n, c) ==
    [d \in Conn |-> CASE d = c      -> [conn[d] EXCEPT !.end[n] = "up"]
                      [] d = reg[n] -> Lost(conn[d], n)
                      [] OTHER      -> conn[d]]

(* The other end's hello is read and the session registered.                *)
Register(n, c) ==
    /\ conn[c].end[n] = "hello" /\ n \notin conn[c].lost
    /\ Peer(n) \in conn[c].greeted
    /\ conn' = Replaced(n, c)
    /\ reg' = [reg EXCEPT ![n] = c]
    /\ UNCHANGED faults

(* dial or establish fails on a connection that is gone.                    *)
Fail(n, c) ==
    /\ Establishing(n, c) /\ n \in conn[c].lost
    /\ conn' = [conn EXCEPT ![c] = Left(@, n)]
    /\ UNCHANGED <<reg, faults>>

(* Fault of Unregistered: the entry stays for the next session to replace.  *)
UnregisteredNever(n, c) == reg

Unregistered(n, c) == [reg EXCEPT ![n] = IF @ = c THEN NoConn ELSE @]

(* readLoop ends: the session goes from the map unless it was replaced.     *)
Down(n, c) ==
    /\ conn[c].end[n] = "up" /\ n \in conn[c].lost
    /\ conn' = [conn EXCEPT ![c] = Left(@, n)]
    /\ reg' = Unregistered(n, c)
    /\ UNCHANGED faults

-----------------------------------------------------------------------------
(* QUIC                                                                     *)

(* n learns that the other end is gone: a close frame, or the idle timeout. *)
Notice(n, c) ==
    /\ Active(n, c) /\ n \notin conn[c].lost
    /\ Peer(n) \in conn[c].lost
    /\ conn' = [conn EXCEPT ![c] = Lost(@, n)]
    /\ UNCHANGED <<reg, faults>>

(* A connection times out at n, or dial's eight seconds are over.           *)
Timeout(n, c) ==
    /\ faults < MaxFault
    /\ Active(n, c) /\ n \notin conn[c].lost
    /\ conn' = [conn EXCEPT ![c] = Lost(@, n)]
    /\ faults' = faults + 1
    /\ UNCHANGED reg

(* n stops without a word and starts again: the other end keeps connections *)
(* that look alive.                                                         *)
Restart(n) ==
    /\ faults < MaxFault
    /\ conn' = [c \in Conn |-> IF Active(n, c) THEN Left(conn[c], n) ELSE conn[c]]
    /\ reg' = [reg EXCEPT ![n] = NoConn]
    /\ faults' = faults + 1

-----------------------------------------------------------------------------

Proceed(n, c) == Greet(n, c) \/ Register(n, c) \/ Fail(n, c) \/ Down(n, c)

Next == \E n \in Node : \/ Join(n)
                        \/ Restart(n)
                        \/ \E c \in Conn : Proceed(n, c) \/ Notice(n, c) \/ Timeout(n, c)

Spec == Init /\ [][Next]_vars

(* join keeps trying, goroutines run on, and QUIC's idle timeout fires.     *)
FairSpec == /\ Spec
            /\ \A n \in Dialers : WF_vars(Join(n))
            /\ \A n \in Node : \A c \in Conn : WF_vars(Proceed(n, c)) /\ WF_vars(Notice(n, c))

-----------------------------------------------------------------------------
(* Properties                                                               *)

(* Connections are well formed, and a registered session is one whose end   *)
(* is up.                                                                   *)
TypeOK ==
    /\ conn \in [Conn -> Connection]
    /\ reg \in [Node -> Conn \cup {NoConn}]
    /\ faults \in 0 .. MaxFault
    /\ \A n \in Node : reg[n] # NoConn => conn[reg[n]].end[n] = "up"

(* No goroutine and no timeout has anything to do for c.                    *)
Resting(c) == \A n \in Node : conn[c].end[n] = "up" /\ conn[c].lost = {}

(* Once every connection is either unused or at rest, there is at most one, *)
(* and it is the session both ends use: replacing by the newest, in any     *)
(* order at the two ends, neither splits the nodes over two connections nor *)
(* leaves one open that no end uses.                                        *)
SettledAgree ==
    (\A c \in Conn : conn[c] = Unused \/ Resting(c)) =>
        \A c \in Conn : conn[c] # Unused => \A n \in Node : reg[n] = c

(* Connections dialled from both sides are being established at once.       *)
Crossing ==
    \E c, d \in Conn :
        /\ conn[c].dialer = NodeA /\ \E n \in Node : Establishing(n, c)
        /\ conn[d].dialer = NodeB /\ \E n \in Node : Establishing(n, d)

Settled == \E c \in Conn : Resting(c) /\ \A n \in Node : reg[n] = c

(* Whatever failed before, the nodes end up with one session for good,      *)
(* unless dials of both sides keep crossing: nobody redials over a session  *)
(* that works.  (Needs one dialer, or one that recognises the other.)       *)
EventuallySettled == (<>[]~Crossing) => <>[]Settled

(* Dials that cross may replace each other's connections: not guaranteed.   *)
AlwaysSettles == <>[]Settled
=============================================================================
