# A TLA+ model of hopscotch

hopscotch is an overlay mesh: nodes keep QUIC sessions with their peers over
pluggable underlays, exchange distance-vector routes, forward IPv6 packets hop
by hop, and can send a host's internet traffic out through an exit node. This
directory models its core: routing, the life cycle of sessions, host routes,
packet forwarding with the exits and traceroute on top of it, the named echo, the
datagrams underneath, what a process takes from its host and gives back, and the
certificate directory. All paths below are relative to the repository; `node/`
stands for `internal/node/`.

## The system

| part | state | operations | talks to |
|---|---|---|---|
| routing, `node/route.go` | RIB `routes` under `routeMu`: destination → next hop, metric, staleness | session up / down, `handleRoutes`, hold-down, refresh tick, advertise | sessions (look-up, writes), exit defaults (every RIB change) |
| sessions, `node/node.go` | `sessions` under `mu`, one goroutine per reader | dial, accept, `establish`, `readLoop`, `Close` | routing, underlay pins, echo |
| underlay pins, `node/underlay_pin.go` | counted host routes under `exitMu` | retain, release, clear | the kernel's routing table (`internal/tun`) |
| exit defaults, `node/exit_defaults.go` | revert function, timer, resolved ULA under `exitMu` | sync, debounced teardown, background resolve | RIB, echo (resolve by name), kernel table |
| forwarding, `node/packet.go`, `node/exit.go` | none of its own (TUN, stack, RIB) | `handleIPv6`: deliver, answer, encapsulate, forward, ICMPv6 errors | RIB, sessions, TUN, DNS |
| exit egress, `node/exit_egress.go`, `exit_nat_linux.go` | plumbing IPv4 → client ULA | egress, return traffic, nftables | forwarding, kernel |
| named echo, `node/echo.go` | `echoWait` under `mu`: who waits for which ping | call, relay, answer, error | sessions |
| traceroute, `node/traceroute.go` | one shared packet tap | probes, name resolution | forwarding, echo |
| join and dial, `node/node.go` | `dialing`, backoff | dial configured peers, retry | backends, establish |
| underlay, `internal/backend` | receive queues, session tables | mux of UDP and framed TCP sessions into one packet conn | QUIC |
| identity, `internal/identity` | key and certificate files, a directory lock | bootstrap, sign, verify | file system |
| TUN, `internal/tun` | device, hooks, routes | open, configure, pin, defaults | kernel |
| start and stop, `node.Start`, `node.Close`, `node/control.go` | sockets, the device, sysctls and netfilter rules of the host | one part after the other, each may fail | kernel, other processes |
| DNS, SOCKS, user-space stack, configuration | little | parsing and wrapping | forwarding |

What makes it hard: every session has four goroutines; the RIB, the session map
and the host routes are under three different locks that are never held
together; connections fail, are replaced and come back in any order; routes are
soft state spread by messages that were true when they were sent. What must be
right, part by part:

* routing: RIBs converge to shortest paths when connections are stable, never
  claim a path shorter than the mesh allows, keep neighbours direct, keep routes
  through a sparse advertisement, and never keep a route without a session;
* sessions: a registered session is being read, and what was learned over a
  session goes with it, whatever replaces what;
* pins and defaults: nothing is left in the host's table without an owner, and
  what the node believes to be installed is;
* forwarding: one packet causes a bounded amount of traffic whatever the RIBs say;
* echo: a ping ends, its caller is answered, and the reported path is real;
* exits: what the Internet answers reaches the client that asked;
* traceroute: what it reports was there, although answers come late or never;
* start and stop: a process leaves the host as it found it, wherever Start failed,
  heals what a killed one left, and takes nothing from a running one;
* identity: existing keys are never replaced, and a bootstrap that succeeds leaves a
  directory that nodes can be started on.

## Modules

| module | models | proofs |
|---|---|---|
| `Routing` | a whole mesh of RIBs and the advertisements between them, one update of a session map or of a RIB per step | `RoutingProof` |
| `Sessions` | all sessions of one node with one peer, one critical section per step | `LifecycleProof` |
| `UnderlayPins` | the pin of one address, one critical section per step: actions for `HostRoutes` | `ExitRoutesProof` |
| `HostRoutes` | `UnderlayPins` and the default routes, route by route, in one kernel table | `ExitRoutesProof` |
| `ExitDefaults` | the host's default routes, one critical section per step | `ExitRoutesProof` |
| `Forwarding` | one packet and what becomes of it, one `handleIPv6` per step | `ForwardingProof` |
| `ExitPath` | `Forwarding` and the exit's memory of clients, answers from the Internet, restarts of exits | `ForwardingProof` |
| `Traceroute` | `Forwarding` and one `TraceRoute` call, one flight step or read of the tap per step | `ForwardingProof` |
| `Echo` | one ping over the session graph, one control message per step | `EchoProof` |
| `Mux` | one node's underlay sessions, listeners and read loops, one channel operation or critical section per step | `MuxProof` |
| `Dialing` | two nodes that dial each other, both ends of every connection, one handshake stage per step | `JoiningProof` |
| `Framer` | a TCP session: frames in a byte stream, one write, read or frame per step | `FramerProof` |
| `Datagrams` | what a session promises: the abstract specification that `Framer` implements | `FramerProof` |
| `HostSetup` | processes that start, end and are killed on one host, one system call per step | `LifecycleProof` |
| `Bootstrap` | commands that write to one certificate directory, one file operation per step | `JoiningProof` |

`MCRouting` and `MCEcho` only give the graphs the runs use, `MCHostRoutes` a
symmetry, `MCHostSetup` the configurations of three processes, `MCBootstrap` the
command lines. `MCForwarding` puts two scenarios over the same packet path in one
run: an initial state belongs either to `ExitPath` or to `Traceroute`, and the
variables of the other one rest. The other modules need nothing but sets and are
run directly. Definitions called
"Fault of X" state a plausible mistake in X; no specification uses them. They
show what the properties would catch (see PROJECT.json).

**Routing.** `rib[n][d]` is `n.routes`; a destination is a node (its ULA) or
`DefaultRoute` (`::/0` and `0.0.0.0/0`, which the code always handles alike). `conn` is
the set of working connections, `sess[n][p]` is `n`'s entry for `p` in `n.sessions`
(dead: the connection is gone, the reader has not noticed), `chan` holds the "routes"
messages in flight per direction, in order, as on a QUIC stream; a connection that is
lost takes them along. `HandleRoutes` is `handleRoutes` with its four stages (direct
neighbour, the sender's own destinations, what it learned, implicit withdraw) and the
advertisement they trigger; a message lists the sender's own destinations first and then
its RIB, and the order matters because a later entry of the same peer replaces an
earlier one. A stale mark is `fresh`, `held` or `expired`: time is abstracted to "the
hold-down has elapsed". `Maintain` is the refresh tick. Destinations do not influence
one another except through the advertisement they trigger, so a run tracks `Dest` and
`ChangeElsewhere` stands for the rest. A crash loses everything, since nothing is
persisted. What `establish` and the end of `readLoop` do under `mu` and under `routeMu`
are steps of their own: `Register`, then `SessionUp` (or `LateSessionUp` when the
session was lost meanwhile), and `Unregister`, `SessionDownCheck`, `SessionDown`.
`late`, `ending` and `deleting` count the goroutines that are between them. Two
histories delimit the properties: `phantom` are peers whose direct route came after the
last clean-up and stays, `robbed` registered peers whose routes the reader of an earlier
session has deleted. Two nodes have at most one working connection at a time: a live
session that is replaced is a loss and a new connection, and a message that was read
before a loss and is applied after it counts as applied before.

**Sessions.** For one peer: `cur` is its entry in `n.sessions`, `est[s]` and
`reader[s]` say where the two goroutines of session `s` are, `rib` whether the
direct route and learned routes through the peer exist, `refs` counts the pin of
its address. Dialled and accepted sessions differ only in when they retain the
pin, and are numbered in the order they start. Pins of one address by other
peers are left out.

**UnderlayPins.** `refs` is the map entry's count, `nilMap` that the map is nil,
`pinned` whether the host route is there, `at[h]` where holder `h` is. `PinHost` runs
outside the lock (replace, so a second one succeeds), and `revert` deletes, which
`reverts` goroutines have yet to do. `PinHost` may fail; its caller ("unpinned") goes on
as if it held a pin. A holder's last release is `Release` (a dial that failed,
`node/node.go:665`, or `onSessionDown`, `node/route.go:78`); before it `establish` may
have released a session on its replacement (`ReleaseReplaced`, `node/node.go:807`), and
`onSessionDown` may return early and release nothing (`SkipRelease`,
`node/route.go:62`). Which of them happen to one session is left open. The histories
`stray` (releases by a holder without a reference that took somebody else's) and
`leaked` (references that nobody gave back) say by how much the count may be off, and
`MaxSlips` bounds them together. A holder goes back to "idle" and may retain again. A
write to the nil map is modelled as the panic it is.

**HostRoutes.** `Pins == INSTANCE UnderlayPins` over the same variables; what it
does under `exitMu` waits while an install holds that lock, what it does outside
does not. An installation is the list of routes of `installDefaultRoutes`: the host
routes of the configured peers, the first of which is the address the sessions pin
too, then the /1 routes. `job[w]` is how far goroutine `w` is with it; a failed
install and a teardown go through the list backwards. `Installations(i)` says who
will delete route `i`. The history variables `stuck` (a delete failed) and
`exposed` (a host route was deleted by somebody else, or skipped for want of a
gateway) delimit the properties. When the defaults are wanted is left to
ExitDefaults. The routing table of macOS is driven by other calls to the same effect.

**ExitDefaults.** A process is a goroutine that calls `syncExitHostDefaults` (readers,
the refresh tick), a timer, the background resolver, or `Close`. Path checks read the
RIB without the lock that the next step takes, so the path may change in between
(`PathChanges` stands for module Routing). Install is one step here (it happens under
`exitMu`; its routes are in HostRoutes); teardown is two, because the code reverts after
unlocking. Install and delete may fail. The device's routes that vanish when the TUN is
closed are not modelled.

**Forwarding.** One packet: where it is, from which peer (none: the local
host), its kind, source, destination and Hop Limit. Every RIB look-up answers
anything a RIB could hold, so the result is independent of Routing. `replaced`
says that the ingress session was replaced while the packet was handled. The two
transports (datagram, stream) deliver alike; loss is the packet ending anywhere,
since every action offers a drop or the packet need not move on. Contents,
checksums and MSS clamping are left out.

**ExitPath.** EXTENDS Forwarding. `exitClients[e]` is the exit's map from plumbing
address to client, `flows[e]` the connections that the NAT of its host keeps, which
outlive the process, and `carried` whose connection the packet in flight answers.
`egressExit` is `Decapsulate` at an exit with what it writes; `handleExitTUNIngress`
looks the destination up in the map and, if the exit has started anew since
(`RestartExit`), among its peers, and wraps the answer. Plumbing addresses may collide,
as 22 bits of the ULA can. `ClientPacket` starts a
further packet once the last one has come to its end.

**Traceroute.** EXTENDS Forwarding. `trace` is the call: destination, hops so far,
the hop of the current probe, `reach`. A probe is a "request" with a small Hop Limit
and flies with Forwarding's own actions; `mark` remembers how many sessions it had
crossed when somebody answered and with which ICMPv6 type, and an answer that comes
back waits in `late` until the call reads it, in the window of its own probe, of a
later one, or never: the code matches an answer to the probe it is waiting for by
time alone. `depth` is a history value: the code never sees it.

**Echo.** One ping: `wait[n]` is the `echoWait` entry, `chan` the control
streams. A relay that has answered has no entry and relays a late copy again, as
the code does.

**Mux.** `sessions` and `byAddr` are the mux's and a UDP listener's maps, `loop[s]` is
the `readLoop` of session `s`, `start[l]` and `inbound[l]` are the goroutines
`UDPListener.Start` and `attachInbound` with the session each holds, `dialing` is the
part of `node.dial` that touches the mux, `recv` and `in` count the datagrams in the
bounded queues. `Start` ends when its socket is closed or, `StartFails`, when reading it
fails while the node is open. A session accepted by a TCP listener behaves like a
dialled one. Contents and read deadlines are left out.

**Dialing.** A QUIC connection is one record with two ends: `end[n]` is how far node
`n` is with it (`dial` or accept, hello written, registered, over), `lost` the nodes
at which its context is done, `greeted` those whose hello is on its way. `reg[n]` is
`n.sessions[peer]`. `Dialers` are the nodes that have the other one configured,
`Recognises` those whose configured address is the one the other end advertises,
which is what `sessionByAddr` needs to see that an accepted session is the peer it
wants to dial. A restart forgets everything at one end; the other end keeps a
session that looks alive until it times out. The steps that Sessions takes apart
are single here. Numbers of connections that are over are used again.

**HostSetup.** Each of `Proc` is a command line that is started again and again. `pc[p]`
is the system call it makes next, in the order of `node.Start` or `node.Close`; `own[p]`
is what the `Node` value holds, which decides what Close undoes; `host` is what other
processes see: exclusive descriptors (listen address, TUN, SOCKS port), the control
socket's file, DNS settings of the device, firewalld's zone, the `hopscotch_exit` table,
FORWARD rules, forwarding sysctls, an old block in `/etc/hosts`. A call of Start fails
with `CallFails` (and its siblings where the code undoes something, among them
`InsertHalfFails`: when the second address family's batch fails, the transaction that is
to undo both families contains rules the kernel never got and fails whole, so the first
family's stay, which `half` records). `DialRefused` is a dial that a live node does not
accept in time. A call of Close fails unseen (`Slip`), a process is killed (`Kill`) or
panics in `rollback` (`RollbackPanics`). Descriptors die with the process; files, rules,
zones and sysctls do not. `since` and `alone` are history: they say which process was
there first.

**Bootstrap.** `file[f]` is absent, torn (created, not yet filled) or whole with the
key it holds or certifies; `lock` is the directory `.bootstrap.lock`. A command is at
`pc[p]` with the keys it has loaded in `work[p]`. `bootstrap` runs under
`withMkdirLock`, whose waiter removes the lock it finds after 30 seconds; `init`,
`sign` and the key that a starting node makes for itself take no lock. A write, or the
`mkdir` of the lock (`MkdirFails`), may fail. A node may be called "ca", whose
certificate then has the path of the CA's. `stolen` and
`clash` are history and delimit the properties. Key generation gives a new number,
so two keys are equal only if they are the same.

**Framer.** A byte is its position in the stream and a payload the range of
positions it occupies, so that equal ranges mean equal contents and no byte needs a
value. `read` and `taken` delimit `StreamFramer.buf`. What a header says is known
only where the sender put one; anywhere else the four bytes may say anything, so a
receiver that gets out of step reads garbage. A stream that announces a frame above
the limit is not modelled, because `EncodeFrame` writes none. `Channel == INSTANCE
Datagrams WITH Datagram <- Payload` is the refinement: a frame is a datagram, and
cutting the stream into reads is a stutter.

## What the runs check

Bounds are constants, named in the cfg: `Infinity` is 16 in the code and 5 in the
runs. `RoutingConverges` has a triangle with a stub d and tracks
d only: when d dies, the three others hold routes at 1 and 2 and can teach each other
stale ones in a circle, up to 5 and out. `MaxDials` and `MaxChurn` bound connections and
losses or crashes (one loss is what it takes for stale routes, loops and counting to
infinity), `Lossy` and `Mortal` say whom they may hit, and the runs start from meshes at
rest (`RoutingConverges` from nothing too), so that the few connections are spent where
they matter; `MaxInFlight`
stops spontaneous sends while messages are unread (triggered ones are never stopped);
`MaxSess` is 2, a session and the one that replaces it (the theorems cover any number);
two holders of one address are one that counts on the pin and one that races with it or
releases it once too often (`MaxSlips` 1; the theorems cover any number of either), and
two reverts overlap; `Hosts` and `Halves` 2 let an install fail at the first and in the
middle of either kind; two timers for one that fires late and its successor; `MaxFault`
2 for a lost session and a cancelled call in one ping; `echoTTL` 3 reaches every node
and runs out on the detours; `ReplyHop` 4 and `MaxHop` 5 stand for 64 and 255, keeping
the order between them. In `Mux` two sessions are one and the one that takes its place,
and queues of one element (32 and 64 in the code) are full at once. In `Dialing` three
connections are one of either side and a ghost of a restart. In `Framer` a header of 2
bytes can be cut, reads of 4 are longer than a header and shorter than a full frame of
5, and `MaxBytes` 12 holds up to six frames. In `Forwarding` two clients share one exit,
which gives an answer two owners to choose from, one of them with the plumbing address
of a third node, and three probes (`MaxTTL`) pass the farthest node and leave room for
an answer that is late by one or two windows. In `HostSetup` three processes compete
pairwise: two for a control socket, two for the TUN and the NAT, two for a listen
address; `MaxFault`, `MaxSlip` and `MaxKill` 1 allow one failing call of Start, one of
Close and one death, in any order, which is what it takes for a start over the leftovers
of another that failed half-way. In `Bootstrap` two processes run three commands
(`MaxRun`), at most one of them without the lock (`MaxLoose`), with two kills or failed
writes (`MaxTrouble`): a third command meets what two broken ones left. Its two names
are an ordinary one and "ca"; more only repeat the loop.

| run | instance | shows |
|---|---|---|
| `Routing` | line a–b–c with a and b at rest, c an exit that comes; c crashes or a and b lose each other, once; c's ULA and the default route | `MetricNeverUnderestimates`, `RoutesHaveSessions`, `NeighborsAreDirect`, `HolddownProtects` |
| `RoutingConverges` | triangle with a stub d, from nothing with two connections or from rest with all; d crashes | `NodeRoutesSwitchToShorter`, `EventuallyConverged` |
| `Sessions` | two sessions with one peer, Close | `NoZombieSession`, `LearnedRoutesOwned`, `PeerGoneRoutesGo` |
| `HostRoutes` | two holders of one address, one release too many or too few, two host and two /1 routes, failing installs and deletes, Close | `NeverOvercounted`, `HolderKeepsPin`, `NoOrphanRoute`, `NeverCaptured` |
| `Forwarding` | triangle with a stub; either two clients of an exit, a colliding plumbing address, answers and restarts, or a traceroute; any RIB answer | `TypeOK` (the Hop Limit never wraps), `TransmissionsBounded`, `AnswersComeHome`, `HopsWithinTTL`, `ReachIsReal` |
| `Echo` | ring with the target two hops behind it, two faults | `ReportedPathIsReal`, `PingAnswered`, `FloodDies` |
| `ExitDefaults` | one caller, two timers, resolver, Close | `TypeOK` (the timer field), `NoOrphanDefaults`, `LostPathTearsDown` |
| `Mux` | two listeners, a peer heard and a peer dialled, two sessions, Close | `TypeOK` (queues bounded), `PeersAreRead`, `CloseEndsAll` |
| `Dialing` | both dial, only one recognises the other; one lost connection, dial timeout or restart | `SettledAgree`, `EventuallySettled` |
| `Framer` | frames of 0 to 3 bytes, reads of 1 to 4, orderly close or loss | `BufferBounded`, `ImplementsDatagrams`, `EventuallyReceived` |
| `HostSetup` | three processes, one failing call of Start, one of Close or of an undo, one death | `CleanExit`, `OrderlyExitHeals`, `GuestsTakeNothing`, `StaleStateNeverBlocks` |
| `Bootstrap` | two processes, three commands, two nodes, one called "ca", two kills or failed writes | `Exclusive`, `ExistingFilesLeftAlone`, `SuccessMeansUsable`, `WaitersEnd` |

Where a module's `TypeOK` says only that variables have their types, the theorem
stands for it and no run lists it.

More properties are stated in the modules and known not to hold, without a run
of their own. The instance of the module's run reproduces them when its cfg
names them (`Routing.cfg` for `ImplicitWithdrawDrops`, `RoutingConverges.cfg` for
`NoForwardingLoop`), with these exceptions: `AdjacentExitIsOneHop` needs `Spec` with the
`Triangle`, `Dest` {`DefaultRoute`}, `Exits` {c}, `MaxDials` 3 and no loss;
`SessionKeepsPin` needs `MaxSess` 3, `PingFindsTarget` a graph where a leaf hangs on
the asker, and `EventuallySettled` fails with `Recognises` = {}.

| property | what happens |
|---|---|
| `Routing`: `ImplicitWithdrawDrops` | an omitted destination is kept for the hold-down, not dropped (`docs/routing.md:103`) |
| `Routing`: `AdjacentExitIsOneHop` | an exit advertises the default route twice, and a reflected entry overrides its own (`docs/routing.md:90`) |
| `Routing`: `NoForwardingLoop` | after a loss three nodes route in a circle until the metrics count out; the Hop Limit is more than a backstop (`docs/routing.md:134`) |
| `Sessions`: `NoPhantomRoute` | a session that dies at once: its clean-up runs before `onSessionUp`, whose direct route stays without a session (`docs/routing.md:98`, `node/node.go:822`) |
| `ExitDefaults`: `UpIsInstalled` | a teardown reverts after unlocking and deletes the routes of a later install (`node/exit_defaults.go:157`) |
| `Sessions`: `ReplacedKeepsRoutes` | check under one lock, delete under another: a new session loses its routes (`node/route.go:62`) |
| `Sessions`: `PinsBalanced`, `SessionKeepsPin` | pins of replaced sessions are released never or twice (`node/node.go:697`) |
| `HostRoutes`: `PinnedIsInstalled` | two first retains: the loser deletes the route the winner counts on (`docs/routing.md:51`) |
| `HostRoutes`: `SessionsBypass` | the same, or a teardown of the defaults, and the session's packets go into the tunnel they carry |
| `HostRoutes`: `CloseCleans` | a sync that saw the device before Close installs after it; the host routes stay |
| `Forwarding`: `NeverBackToIngress` | after the ingress session was replaced a packet goes back to the peer it came from (`node/packet.go:386`) |
| `Mux`: `ClosedOnClose` | a session attached after Close is never closed (`internal/backend/mux.go:158`) |
| `Dialing`: `AlwaysSettles` | dials of both sides cross again and again and replace each other's connections; only timing ends it |
| `Dialing`: `EventuallySettled` | with no node recognising the other, both redial for ever although they have a session |
| `Echo`: `PingFindsTarget` | a dead end's "no route" beats the target's answer (`docs/routing.md:148`) |

Other behaviour that a reader of the code should know of. The properties exclude
it, or the model reaches it and nothing promises otherwise:

* Two processes that start at one moment over a stale control socket may both find
  it stale, and the second removes the first one's live socket (`node/control.go:51`);
  Close removes whatever file is at the path. A dial that fails because a live
  node's backlog is full has the same effect (`DialRefused`); `GuestsTakeNothing`
  excepts the control socket then.
* An exit that ends deletes the one `hopscotch_exit` table even if a newer exit has
  made it since, and its revert returns before the table when deleting the FORWARD
  rules fails. FORWARD rules of killed exits stay and add up (`orphans`); the sysctls
  are never set back. When the second family's FORWARD batch fails, the undo fails with
  it and the first family's rules stay (`node/exit_nat_linux.go:187`).
* `tun.apply` calls `combineHooks(hooks)()` to roll back; without hooks so far, as in
  both callers, that is a call of a nil function.
* A certificate or key cut off by a kill counts as existing: bootstrap passes over a
  torn `.crt` and reports success, and half a CA stops every later bootstrap until
  somebody removes it. Two waiters past their deadline break each other's locks.
  `ca init`, `ca sign` and a node that makes its key race with a bootstrap. For a node
  called "ca" bootstrap finds `ca.crt`, passes over it and reports success without a
  certificate for the node (`internal/identity/bootstrap.go:50`), and `ca sign` for that
  node writes over the CA's certificate.
* A traceroute takes a late answer of an earlier probe for the answer of the current
  one; two traceroutes at once, or a ping during one, mix up their answers, so the
  model has one. The tap sees every packet that reaches the host, and any echo reply
  from the destination ends the call (`node/traceroute.go:99`); the model's tap only
  delivers answers to the call's own probes. A node without a TUN gets an in-memory
  device for the call.
* Clients of one exit whose plumbing addresses collide get each other's answers.

Deadlock checking is off where the system may come to rest: `Sessions*` and
`HostRoutes` (all sessions over, the node closed or panicked), `Mux` (closed and
everything ended), `Dialing` (settled), `Framer` (the session is over), `Echo` (an
answer is lost and the caller waits on its context) and `Bootstrap` (all commands
have run). `HostSetup` and `Forwarding` are checked for deadlock.

### Fairness

Routing: for every peer something of the session proceeds (`establish` registers it
and comes to `onSessionUp`; the reader reads, notices a dead connection and cleans up),
the ticker ticks, time passes: goroutines blocked on nothing but the scheduler.
Connections are never obliged to come up or to fail. `EventuallyConverged` is
conditional on `<>[]NoPhantoms`: a direct route without a session is never removed, and
the mesh does not converge on a destination that such a route claims.
Sessions: started goroutines run to their end; losing a connection is free.
Echo: the call is made and readers read. ExitDefaults: what has started runs on
and timers fire; the tick calls sync only as long as the node is open. Mux: every
goroutine of the package runs on when it can; datagrams need not come, QUIC need
not read and the node need not close. Dialing: `join` keeps trying, goroutines run on,
and QUIC's idle timeout fires at an end whose other end is gone; losing a connection
is free. Framer: `readLoop` calls `Recv` until it fails, and TCP delivers. Bootstrap: a
command that has begun is scheduled and 30 seconds pass; commands need not begin,
writes need not fail. Weak
fairness is enough everywhere, as each of these stays enabled until taken.

## What is proved

The proof modules hold for every value of the constants under the modules'
assumptions, which say: the peer relation is symmetric and irreflexive, special
values are distinct from ordinary ones, bounds are naturals. `HopDist` in Routing
is any function that is 0 where a destination originates and differs by at most
one across a link; true hop counts are such a function.

* `RoutingProof`: `TypeOK`, `MetricNeverUnderestimates`, `RoutesHaveSessions`,
  `NeighborsAreDirect`, and the action properties `HolddownProtects` and
  `NodeRoutesSwitchToShorter`. `RoutesHaveSessions` is proved lock by lock: the next hop
  of a route has a session in the map or a reader between its unregistering and its
  deletion (`Owned`), except for the direct routes of `phantom`; learned routes have no
  exception. `NeighborsAreDirect` excepts a session whose `onSessionUp` is to come and
  the peers in `robbed`, and `HolddownProtects` the deletion of an earlier session's
  reader. The invariant adds that no RIB and no message claims a route to its own node
  or a direct peer at more than one hop (`Sound`); without that a peer could displace
  its own direct route. The metric bound needs the triangle inequality of `HopDist` in
  `Learned` and `Originated`, and holds of messages in flight too, because
  `HandleRoutes` copies from them. The action properties follow from what each stage of
  `handleRoutes` can do to one entry (`AppliedDeletes`, `AppliedSwitches`) and from what
  the other steps can do (`StepCases`); that a neighbour coming up never lengthens a
  route needs one more invariant, `OneHopIsDirect`. The proof of `HolddownProtects`
  shows a case that the run's line cannot reach: an exit that lists the default route
  both as its own and, learned from a second exit, at the infinity limit takes a
  neighbour's route over and deletes it in the same message.
* `LifecycleProof`, of Sessions: `TypeOK`, `NoZombieSession`, `LearnedRoutesOwned`. The
  reader that skips its clean-up does so because another session is registered; the
  strengthening says that a registered session's reader is ahead of its clean-up, and
  that a session whose goroutine has not spawned a reader has none.
* `LifecycleProof`, of HostSetup: `CleanExit` and the action properties
  `GuestsTakeNothing`, `OrderlyExitHeals` and `StaleStateNeverBlocks`, for any number of
  processes, paths and configurations in which an exit has a TUN. There are two
  inductive invariants. `HostInv` is about what outlives a process: a descriptor is held
  by a process that runs (`Descriptors`), and as long as nobody was killed and no call
  of Close failed, every socket file, zone, table and FORWARD rule has a process that
  will undo it from where it is with what it holds (`Accounted`, with `WillUnlink`,
  `WillZone`, `WillRules`, `WillTable`), but for the rules that `half` stands for. It
  rests on `CloseAfterUndoes`: Close, entered after its i-th call, still comes by every
  later one that the Node has something for. `Company` is about who runs beside whom:
  what a process is about to do agrees with what it holds (`Holdings`) and has of the
  host (`Takes`); beside a node that answers on a socket or has the device a later
  process gets neither past the dial nor past the open (`Guests`); a process without any
  other finds the way to its socket free (`Alone`), and what it holds and will not undo
  any more is undone (`Healed`). Each action is summarised twice, by how it moves its
  process (`Flow`) and by what the others see of it (`Effects`), and the invariants are
  shown of the summaries.
* `ForwardingProof`: `TypeOK`, `TransmissionsBounded`. `sent + Remaining` never grows:
  the remaining work is the Hop Limit plus what the packet's kind can still turn into
  (request → reply → error → nothing). The same module proves the two compositions.
  `AnswersComeHome`: an entry of `exitClients` and a peer chosen by address have that
  plumbing address (`ExitInv`), so whoever gets an answer has the plumbing address of
  the connection's owner, and is the owner unless addresses collide, about which nothing
  is assumed; and a tunnel packet keeps its destination until it is delivered.
  `HopsWithinTTL`: a flight has crossed at most as many sessions as its probe's Hop
  Limit has lost, and every answer in flight or late belongs to a probe sent
  (`TraceInv`). `ReachIsReal`: an echo reply is made only where the probe was addressed
  to, and all probes of a call have one destination.
* `EchoProof`: `TypeOK`, `ReportedPathIsReal`. The path in a ping leads to its
  holder, and the path and the time to live add up to `echoTTL`; a reply's path
  ends at the target. Sessions are only ever lost, so they stay within `Peers`.
* `ExitRoutesProof`, of ExitDefaults: `TypeOK`, `NoOrphanDefaults`, together inductive:
  install and the way back change in one step, and what `Clear` takes out the same
  goroutine reverts.
* `ExitRoutesProof`, of HostRoutes and the pins in it: `NeverOvercounted`,
  `HolderKeepsPin`, `NoOrphanRoute`, `NeverCaptured`, for any finite set of holders, any
  goroutines and any numbers of host and /1 routes. The invariant `RoutesInv` says that
  the count of a pin is at most the number of its holders and leaked references, and at
  least the number of holders without those that stray releases have taken, while the
  node is open (`PinsCounted`), whatever pins fail and however often sessions are
  released, which needs cardinalities of sets that gain or lose one holder; that every
  route of the defaults has an owner even after Close (`TableOwned`); that an install
  goes forward from its first route and no other installation is recorded meanwhile
  (`JobsInRange`); and that a host route some installation counts on is there as long as
  nobody else deleted it (`FromTheFirst`).
* `MuxProof`: `TypeOK`, `PeersAreRead`. The strengthening follows a session from
  its listener's map through offer and Attach to its read loop: what a listener
  lists is open and its own, what is attached has its own address and a reader, and
  what is on its way to Attach has none yet.
* `JoiningProof`, of Dialing: `TypeOK`, `SettledAgree`. The strengthening is
  `OpenIsRegistered`: an end that is up and open is the registered session of its node,
  which is what replacing and closing the old session in one critical section gives; two
  ends at rest on two connections would contradict it at both nodes.
* `JoiningProof`, of Bootstrap: `Exclusive` and the action properties
  `ExistingFilesLeftAlone` and `SuccessMeansUsable`, for any finite set of processes,
  any names and any command lines, where `sign` and a starting node have one name. The
  invariant `DirInv` says that the lock is its maker's while that bootstrap works
  (`LockHeld`), that nobody else works then (`Alone`), that each command keeps to its
  own steps and what its loop has left behind has a certificate (`Commands`), and what a
  command that works alone knows of the files from its own checks, with every whole
  certificate made for the key beside it by the CA that is there (`FilesKnown`, as long
  as `ca sign` has not written over `ca.crt`). A node called "ca" is part of the model
  and excepted from `SuccessMeansUsable` only.
* `FramerProof`: `TypeOK`, `BufferBounded` and the refinement `ImplementsDatagrams`.
  The invariant says that frames follow each other without a gap (`Contiguous`), and
  that the buffer starts where the last frame returned ends (`Aligned`). Hence the
  bytes at the front are a header, it says how long the next payload is (`Front`), a
  complete frame is the next datagram, a buffer of a full frame holds a complete one,
  and at the end of the stream nothing complete is left only if nothing is.

Every invariant and every action property of the runs is proved. Only model-checked is
what speaks of liveness, which is beyond TLAPS here: `EventuallyConverged`,
`PeerGoneRoutesGo`, `PingAnswered`, `FloodDies`, `LostPathTearsDown`, `CloseEndsAll`,
`EventuallySettled`, `EventuallyReceived` and `WaitersEnd`.

## Not modelled

Cryptography, the contents of certificates, packet layouts and checksums, logging,
and the calls into the kernel, gVisor and QUIC themselves. QUIC streams are
reliable, ordered and break with their connection; flow control (a blocked
control-stream write) is not modelled. Further:

* the queue of packets that do not fit a datagram (`uniQ` in `node/packet.go`) and its
  sender goroutine; a packet that waits or is dropped there is one that is delayed or
  lost, which Forwarding allows anywhere; MSS clamping rewrites bytes;
* DNS: a pure function of one question; the peers file and the configuration:
  parsers without state; the SOCKS handshake and the copying of streams: no state of
  the node; gVisor's stack: third-party code;
* the requests over the control socket, which call Echo and TraceRoute and print;
* the variants for macOS, which reach the same effects by other commands;
* the examples, which start many nodes for demonstration.

## Plan

Done: Routing, Sessions, UnderlayPins, Forwarding, Echo, ExitDefaults, Mux, Dialing,
Framer with Datagrams, HostRoutes, ExitPath, Traceroute, HostSetup, Bootstrap, with the
proofs above. Left:

1. `Advertise`: `sendRoutesTo` taken apart (snapshot, unlock, write), and Routing's
   handlers as its abstraction; the abstract session (`up` / `down` with its
   routes) that Sessions implements once its races are excluded.
2. `PacketQueue`: `writePacket`, `uniQ`, the stream sender and its shutdown.
3. Flow control of control streams; the read deadlines of the mux's `ReadFrom`.
4. Two traceroutes on one tap, once the code says what they may expect.

Proofs to come: the refinement of item 1, and the safety half of the liveness
properties, that is the measures that their steps lower.
