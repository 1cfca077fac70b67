------------------------------ MODULE HostSetup ------------------------------
(***************************************************************************)
(* hopscotch processes that come and go on one Linux host: node.Start,     *)
(* node.Close, and what either takes from the host and gives back (node.go,*)
(* control.go, startTun in packet.go, exit_nat_linux.go, stack.go,         *)
(* socks.go, http.go, and Setup and Close of package tun).                 *)
(*                                                                         *)
(* The unit is a system call that changes the host, so two processes may   *)
(* be anywhere in Start or Close at the same time.  A call may fail, and a *)
(* process may die at any point.  A descriptor dies with its process; a    *)
(* socket file, nftables rules, a firewalld zone and sysctls do not.       *)
(* The default route and the underlay pins (ExitDefaults, HostRoutes) and  *)
(* the darwin variants are left out.                                       *)
(***************************************************************************)
EXTENDS Integers, Sequences, FiniteSets

CONSTANTS Proc,       \* one command line each, started again and again
          Nobody,
          Path,       \* control sockets
          PathOf,     \* PathOf[p]: the control socket of p (by its identity)
          Uses,       \* Uses[p]: what its configuration asks for, see Wants
          MaxFault,   \* bound: failing calls of Start
          MaxSlip,    \* bound: failing calls of Close, whose errors are lost
          MaxKill     \* bound: processes killed

Wants == {"udp", "control", "tun", "exit", "stack", "socks", "http"}
Exclusive == {"udp", "tun", "socks"}
Family == {4, 6}

ASSUME HostSetupAssumption ==
    /\ Nobody \notin Proc /\ PathOf \in [Proc -> Path]
    /\ {"none", "stale"} \cap Proc = {}
    /\ Uses \in [Proc -> SUBSET Wants]
    /\ \A p \in Proc : "exit" \in Uses[p] => "tun" \in Uses[p]
    /\ MaxFault \in Nat /\ MaxSlip \in Nat /\ MaxKill \in Nat

VARIABLES
    pc,         \* pc[p]: "off", "run", or the call p makes next
    own,        \* own[p]: what the Node of p holds
    host,       \* the state of the host, see Clean
    since,      \* since[p]: the processes that already ran when p started
    alone,      \* the processes without any other since they started
    count       \* failing calls of Start and Close, processes that died

hostVars == <<pc, own, host, since, alone, count>>

(* held: who has an exclusive descriptor; sock: the socket file of a path,  *)
(* "stale" when nobody accepts on it; dns: the resolver settings of the     *)
(* TUN; zone: the TUN's name in firewalld's trusted zone; table: the        *)
(* hopscotch_exit table; rules[p]: families with p's accept rules in        *)
(* FORWARD; orphans: such rules that ended processes left; half: such rules *)
(* that a failed Start left because it could not undo them;                 *)
(* forwarding: the sysctls; hosts: a block of an old build in /etc/hosts.   *)
Clean == [held |-> [x \in Exclusive |-> Nobody],
          sock |-> [x \in Path |-> "none"],
          dns |-> FALSE, zone |-> FALSE,
          table |-> FALSE, rules |-> [p \in Proc |-> {}], orphans |-> FALSE,
          half |-> FALSE, forwarding |-> FALSE, hosts |-> FALSE]

HostInit ==
    /\ pc = [p \in Proc |-> "off"]
    /\ own = [p \in Proc |-> {}]
    /\ host = [Clean EXCEPT !.hosts = TRUE]
    /\ since = [p \in Proc |-> {}] /\ alone = {}
    /\ count = [fault |-> 0, slip |-> 0, death |-> 0]

-----------------------------------------------------------------------------
(* The order of Start and of Close                                          *)

StartOrder == <<"udp", "control", "tun", "exit", "stack", "socks", "http">>

FirstCall(want) == CASE want = "control" -> "stat"
                     [] want = "tun"     -> "open"
                     [] want = "exit"    -> "sysctl"
                     [] OTHER            -> want

(* The call of Start that follows the first i parts of it.                  *)
AfterPart(p, i) ==
    LET rest == {j \in (i + 1) .. Len(StartOrder) : StartOrder[j] \in Uses[p]}
    IN  IF rest = {} THEN "run"
        ELSE FirstCall(StartOrder[CHOOSE j \in rest : \A k \in rest : j <= k])

After(p, part) ==
    AfterPart(p, CHOOSE i \in DOMAIN StartOrder : StartOrder[i] = part)

(* The calls of Close and what the Node must hold for each to be made.      *)
CloseOrder == << <<"close socks", "socks">>, <<"zone off", "zone">>,
                 <<"dns off", "tun">>, <<"close tun", "tun">>,
                 <<"unlink", "control">>, <<"remove file", "control">>,
                 <<"rules off", "exit">>, <<"table off", "exit">>,
                 <<"close udp", "udp">> >>

CloseAfter(holds, i) ==
    LET rest == {j \in (i + 1) .. Len(CloseOrder) : CloseOrder[j][2] \in holds}
    IN  IF rest = {} THEN "exit process"
        ELSE CloseOrder[CHOOSE j \in rest : \A k \in rest : j <= k][1]

Closing == {CloseOrder[i][1] : i \in DOMAIN CloseOrder} \cup {"exit process"}
Undoing == {"undo rules", "undo table"}
Starting(p) == pc[p] \notin {"off", "run"} \cup Closing

-----------------------------------------------------------------------------
(* Steps                                                                    *)

(* p goes on at `there`, with `holds` in its Node.                          *)
Goes(p, there, holds) == /\ pc' = [pc EXCEPT ![p] = there]
                         /\ own' = [own EXCEPT ![p] = holds]
                         /\ UNCHANGED <<since, alone>>

At(p, here, there) == pc[p] = here /\ Goes(p, there, own[p])

(* Start gives up: n.Close, then its error ends the process.                *)
GivesUp(p) == Goes(p, CloseAfter(own[p], 0), own[p])

Counted(what, max) == /\ count[what] < max
                      /\ count' = [count EXCEPT ![what] = @ + 1]

Fault == Counted("fault", MaxFault)
Slip == Counted("slip", MaxSlip)

Socket(p) == host.sock[PathOf[p]]
File(p, what) == [host EXCEPT !.sock[PathOf[p]] = what]
Without(p, x) ==
    [host EXCEPT !.held[x] = IF @ = p THEN Nobody ELSE @,
                 !.dns = @ /\ ~(x = "tun" /\ host.held[x] = p)]

-----------------------------------------------------------------------------
(* Start: listeners, userspace stack, proxies                               *)

Begin(p) ==
    /\ pc[p] = "off"
    /\ pc' = [pc EXCEPT ![p] = AfterPart(p, 0)]
    /\ since' = [since EXCEPT ![p] = {q \in Proc : pc[q] = "run"}]
    /\ alone' = IF \A q \in Proc : pc[q] = "off" THEN {p} ELSE {}
    /\ UNCHANGED <<own, host, count>>

(* An address or a device that another process has: EADDRINUSE, EBUSY.      *)
Taken(p) ==
    /\ pc[p] \in {"udp", "open", "socks"}
    /\ host.held[IF pc[p] = "open" THEN "tun" ELSE pc[p]] # Nobody
    /\ GivesUp(p)
    /\ UNCHANGED <<host, count>>

Listen(p) ==
    /\ pc[p] \in {"udp", "socks"} /\ host.held[pc[p]] = Nobody
    /\ host' = [host EXCEPT !.held[pc[p]] = p]
    /\ Goes(p, After(p, pc[p]), own[p] \cup {pc[p]})
    /\ UNCHANGED count

(* startUserspace and startHTTP stay inside the process.                    *)
Inner(p) ==
    /\ pc[p] \in {"stack", "http"}
    /\ Goes(p, After(p, pc[p]), own[p])
    /\ UNCHANGED <<host, count>>

(* A call fails and leaves nothing behind.                                  *)
CallFails(p) ==
    /\ pc[p] \in {"udp", "stat", "remove", "remove live", "bind", "open",
                  "sysctl", "reset", "nft", "stack", "socks", "http"}
    /\ Fault
    /\ ~(pc[p] \in {"remove", "remove live"} /\ Socket(p) = "none")
    /\ GivesUp(p)
    /\ UNCHANGED host

-----------------------------------------------------------------------------
(* Start: the control socket                                                *)

(* ensureControlSocketFree                                                  *)
Stat(p) == /\ At(p, "stat", IF Socket(p) = "none" THEN "bind" ELSE "dial")
           /\ UNCHANGED <<host, count>>

DialStale(p) ==
    /\ At(p, "dial", "remove")
    /\ Socket(p) \in {"none", "stale"}
    /\ UNCHANGED <<host, count>>

(* Fault of DialLive: an answer is no reason to leave the file alone.       *)
DialIgnored(p) == /\ At(p, "dial", "remove") /\ Socket(p) \in Proc
                  /\ UNCHANGED <<host, count>>

DialLive(p) ==
    /\ pc[p] = "dial" /\ Socket(p) \in Proc
    /\ GivesUp(p)
    /\ UNCHANGED <<host, count>>

(* Any error of the dial takes the file for a stale one, also that of a     *)
(* live node that does not accept in time (a full backlog).                 *)
DialRefused(p) ==
    /\ At(p, "dial", "remove live") /\ Socket(p) \in Proc
    /\ Fault
    /\ UNCHANGED host

(* Fault of RemoveStale: the stale file is left where it is.                *)
KeepStale(p) == /\ At(p, "remove", "bind")
                /\ UNCHANGED <<host, count>>

RemoveStale(p) == /\ At(p, "remove", "bind") \/ At(p, "remove live", "bind")
                  /\ host' = File(p, "none")
                  /\ UNCHANGED count

Bind(p) ==
    /\ pc[p] = "bind"
    /\ \/ /\ Socket(p) = "none"
          /\ host' = File(p, p)
          /\ Goes(p, "chmod", own[p])
       \/ /\ Socket(p) # "none"
          /\ GivesUp(p)
          /\ UNCHANGED host
    /\ UNCHANGED count

Chmod(p) ==
    /\ pc[p] = "chmod" /\ Socket(p) # "none"
    /\ Goes(p, After(p, "control"), own[p] \cup {"control"})
    /\ UNCHANGED <<host, count>>

(* The listener is closed and the file removed, whosever it is by now.      *)
ChmodFails(p) ==
    /\ pc[p] = "chmod"
    /\ \/ Socket(p) = "none" /\ UNCHANGED count
       \/ Socket(p) # "none" /\ Fault
    /\ host' = File(p, "none")
    /\ GivesUp(p)

-----------------------------------------------------------------------------
(* Start: tun.Setup                                                         *)

Open(p) ==
    /\ At(p, "open", "configure") /\ host.held["tun"] = Nobody
    /\ host' = [host EXCEPT !.held["tun"] = p]
    /\ UNCHANGED count

Configure(p) == At(p, "configure", "strip") /\ UNCHANGED <<host, count>>

ConfigureFails(p) ==
    /\ pc[p] = "configure" /\ Fault
    /\ host' = Without(p, "tun")
    /\ GivesUp(p)

StripHopscotchHosts(p) == /\ At(p, "strip", "dns")
                          /\ host' = [host EXCEPT !.hosts = FALSE]
                          /\ UNCHANGED count

InstallDNS(p) == /\ At(p, "dns", "zone")
                 /\ host' = [host EXCEPT !.dns = TRUE]
                 /\ UNCHANGED count

(* gatewayNetFilter takes what it gets; then the device is attached.        *)
Zone(p) ==
    /\ pc[p] = "zone"
    /\ \/ /\ host' = [host EXCEPT !.zone = TRUE]
          /\ Goes(p, After(p, "tun"), own[p] \cup {"tun", "zone"})
       \/ /\ Goes(p, After(p, "tun"), own[p] \cup {"tun"})
          /\ UNCHANGED host
    /\ UNCHANGED count

-----------------------------------------------------------------------------
(* Start: setupExitNAT                                                      *)

(* Fault of DeleteExitNFTTable: it looks for a table of another family.     *)
WrongFamily == host

DeleteExitNFTTable == [host EXCEPT !.table = FALSE]

Sysctl(p) == /\ At(p, "sysctl", "reset")
             /\ host' = [host EXCEPT !.forwarding = TRUE]
             /\ UNCHANGED count

Reset(p) == /\ At(p, "reset", "nft")
            /\ host' = DeleteExitNFTTable
            /\ UNCHANGED count

InstallExitNFT(p) == /\ At(p, "nft", "forward4")
                     /\ host' = [host EXCEPT !.table = TRUE]
                     /\ UNCHANGED count

InsertForward4(p) == /\ At(p, "forward4", "forward6")
                     /\ host' = [host EXCEPT !.rules[p] = {4}]
                     /\ UNCHANGED count

InsertForward6(p) ==
    /\ pc[p] = "forward6"
    /\ host' = [host EXCEPT !.rules[p] = Family]
    /\ Goes(p, After(p, "exit"), own[p] \cup {"exit"})
    /\ UNCHANGED count

(* A family fails before its batch is sent, or the first one's batch fails: *)
(* the rules of the other family are deleted and so is the table, and       *)
(* errors of that are lost.                                                 *)
InsertFails(p) ==
    /\ \/ At(p, "forward4", "undo table")
       \/ At(p, "forward6", "undo rules")
    /\ Fault
    /\ UNCHANGED host

(* The second family's batch fails.  Its rules, which the kernel never got, *)
(* are in the batch that is to delete those of both: that fails as a whole, *)
(* its error is dropped, and the first family's rules stay.                 *)
InsertHalfFails(p) ==
    /\ At(p, "forward6", "undo table")
    /\ Fault
    /\ host' = [host EXCEPT !.rules[p] = {}, !.half = TRUE]

UndoRules(p) ==
    /\ At(p, "undo rules", "undo table")
    /\ \/ host' = [host EXCEPT !.rules[p] = {}] /\ UNCHANGED count
       \/ Slip /\ UNCHANGED host

(* Fault of UndoTable: the table is forgotten.                              *)
ForgetTable(p) == /\ pc[p] = "undo table" /\ GivesUp(p)
                  /\ UNCHANGED <<host, count>>

UndoTable(p) ==
    /\ pc[p] = "undo table"
    /\ \/ host' = DeleteExitNFTTable /\ UNCHANGED count
       \/ Slip /\ UNCHANGED host
    /\ GivesUp(p)

-----------------------------------------------------------------------------
(* Close                                                                    *)

(* main: a signal ends a running node.                                      *)
Stop(p) ==
    /\ pc[p] = "run"
    /\ pc' = [pc EXCEPT ![p] = CloseAfter(own[p], 0)]
    /\ since' = [q \in Proc |-> since[q] \ {p}]
    /\ UNCHANGED <<own, host, alone, count>>

(* What the host is after a call of Close.                                  *)
AfterCall(p, call) ==
    CASE call = "close socks" -> Without(p, "socks")
      [] call = "zone off"    -> [host EXCEPT !.zone = FALSE]
      [] call = "dns off"     -> [host EXCEPT !.dns = FALSE]
      [] call = "close tun"   -> Without(p, "tun")
      [] call \in {"unlink", "remove file"} -> File(p, "none")
      [] call = "rules off"   -> [host EXCEPT !.rules[p] = {}]
      [] call = "table off"   -> DeleteExitNFTTable
      [] call = "close udp"   -> Without(p, "udp")

(* A call of Close fails and nobody sees the error; the exit's revert does  *)
(* not come to the table when it fails on the rules.                        *)
CloseCall(p) ==
    \E i \in DOMAIN CloseOrder :
        /\ pc[p] = CloseOrder[i][1]
        /\ \/ /\ host' = AfterCall(p, pc[p])
              /\ Goes(p, CloseAfter(own[p], i), own[p])
              /\ UNCHANGED count
           \/ /\ Slip
              /\ Goes(p, CloseAfter(own[p] \ (IF pc[p] = "rules off"
                                              THEN {"exit"} ELSE {}), i), own[p])
              /\ UNCHANGED host

(* The host after the end of the process, orderly or not.                   *)
Ended(p) ==
    [host EXCEPT
        !.held = [x \in Exclusive |-> IF @[x] = p THEN Nobody ELSE @[x]],
        !.dns = @ /\ host.held["tun"] # p,
        !.sock = [x \in Path |-> IF @[x] = p THEN "stale" ELSE @[x]],
        !.orphans = @ \/ host.rules[p] # {},
        !.rules[p] = {}]

Ends(p) == /\ pc' = [pc EXCEPT ![p] = "off"]
           /\ own' = [own EXCEPT ![p] = {}]
           /\ since' = [q \in Proc |-> IF q = p THEN {} ELSE since[q] \ {p}]
           /\ alone' = alone \ {p}
           /\ host' = Ended(p)

Exit(p) == pc[p] = "exit process" /\ Ends(p) /\ UNCHANGED count

Kill(p) == pc[p] # "off" /\ Counted("death", MaxKill) /\ Ends(p)

(* apply: rollback() calls combineHooks(hooks)(), and without hooks, as     *)
(* both callers are, that is a call of a nil function.                      *)
RollbackPanics(p) ==
    /\ pc[p] \in {"strip", "dns"} /\ count.fault < MaxFault
    /\ count' = [count EXCEPT !.fault = @ + 1, !.death = @ + 1]
    /\ Ends(p)

-----------------------------------------------------------------------------

StartCall(p) ==
    \/ Begin(p) \/ Taken(p) \/ Listen(p) \/ Inner(p) \/ CallFails(p)
    \/ Stat(p) \/ DialStale(p) \/ DialLive(p) \/ DialRefused(p)
    \/ RemoveStale(p) \/ Bind(p) \/ Chmod(p) \/ ChmodFails(p)
    \/ Open(p) \/ Configure(p) \/ ConfigureFails(p)
    \/ StripHopscotchHosts(p) \/ InstallDNS(p) \/ RollbackPanics(p) \/ Zone(p)
    \/ Sysctl(p) \/ Reset(p) \/ InstallExitNFT(p)
    \/ InsertForward4(p) \/ InsertForward6(p)
    \/ InsertFails(p) \/ InsertHalfFails(p) \/ UndoRules(p) \/ UndoTable(p)

HostNext == \E p \in Proc :
            \/ StartCall(p)
            \/ Stop(p) \/ CloseCall(p) \/ Exit(p) \/ Kill(p)

HostSpec == HostInit /\ [][HostNext]_hostVars

-----------------------------------------------------------------------------
(* Properties                                                               *)

AllOff == \A p \in Proc : pc[p] = "off"

(* What of the host may differ from Clean: forwarding and the stripped      *)
(* block of /etc/hosts are never undone, and neither are the rules of one   *)
(* family when the batch of the other failed.                               *)
IsClean(h) ==
    [h EXCEPT !.forwarding = FALSE, !.hosts = FALSE, !.half = FALSE] = Clean

(* When every process has ended and none was killed (or panicked) and no    *)
(* call of Close or of an undo failed, nothing of them is left on the host, *)
(* whatever call of Start failed, and however Start and Close of several    *)
(* overlapped.  The one exception is the first family's FORWARD rules after *)
(* an exit whose second family failed: setupExitNAT cannot undo them.       *)
CleanExit ==
    AllOff /\ count.death = 0 /\ count.slip = 0 => IsClean(host)

(* A process that no other was beside, wherever its Start gave up, leaves   *)
(* no socket file, no zone and no hopscotch_exit table behind when its Node *)
(* held one, not even those of processes killed before it.                  *)
OrderlyExitHeals ==
    [][\A p \in Proc :
          /\ pc[p] = "exit process" /\ pc'[p] = "off"
          /\ p \in alone /\ count.slip = 0
          => /\ "control" \in own[p] => host'.sock[PathOf[p]] = "none"
             /\ "zone" \in own[p] => ~host'.zone
             /\ "exit" \in own[p] => ~host'.table
      ]_hostVars

(* What a node took in Start and still has.                                 *)
StillHas(p) ==
    {x \in Wants \cup {"dns", "zone"} :
        CASE x = "control"   -> Socket(p) = p
          [] x \in Exclusive -> host.held[x] = p
          [] x = "dns"       -> host.dns /\ host.held["tun"] = p
          [] x = "zone"      -> host.zone /\ "zone" \in own[p]
          [] x = "exit"      -> /\ host.table /\ host.held["tun"] = p
                                /\ host.rules[p] = Family
          [] OTHER           -> FALSE}

(* A process started while a node runs takes nothing from that node, with   *)
(* whatever configuration it was started and wherever it fails or is        *)
(* killed: neither the TUN, the resolver, the zone nor the NAT, and the     *)
(* control socket only when the node did not accept its dial in time.       *)
GuestsTakeNothing ==
    [][\A p, q \in Proc :
          p \in since[q] /\ pc'[q] # pc[q] =>
              StillHas(p) \ (IF pc[q] = "remove live" THEN {"control"} ELSE {})
                  \subseteq StillHas(p)']_hostVars

(* What is left of a killed process never keeps the next one from starting: *)
(* when Start gives up without a failing call, there was another process.   *)
StaleStateNeverBlocks ==
    [][\A p \in Proc :
          Starting(p) /\ (pc'[p] \in Closing) /\ pc[p] \notin Undoing
             /\ count'.fault = count.fault
          => p \notin alone]_hostVars

=============================================================================
