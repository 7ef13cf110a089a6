# A formal model of NetEmul

NetEmul emulates an Ethernet network on one machine: an operator creates hosts, hubs and
switches, joins them by links with a bandwidth, latency, jitter and loss, and the emulator
moves packets between TAP interfaces (or raw sockets) through them. This directory holds
TLA+ models of it, TLC configurations that check them on small instances, and proofs that
TLAPS checks for every instance.

The program is one thread. Nothing in it races in the sense of two threads; what makes it
hard is that everything is reached by pointers that commands create, re-point and free in
any order, that packets and timers outlive the turn in which they were made, and that a
command may run in the middle of a loop over the very list it changes.

## The source

* `manager.c` and `ni.c` contain unresolved merge conflicts; the models follow the
  `origin/v2` side, which is the one the other files call.
* The tree does not build as it stands (duplicate declarations in `ether_switch.c` and
  `command.c`, a missing `bridge.h`, a call of `endpoint_create` with too few arguments).
  The models describe what the functions say, not those slips.
* `libumpn.a` has no source here. What the models need of it is taken from the way `src/`
  uses it and is marked external in PROJECT.json: a FIFO of size *n* holds *n* - 1 packets;
  the cache of a switch evicts an entry when it is full (the model allows it to be any); a
  turn of `event_loop` serves the busy events in the order of their registration (input, then
  `network_control`), then the timers that are due, by deadline and then by age.
* The build does not optimise (`premake5.lua`), so `execute_cmd`, which has no return
  statement after a successful command, returns the 0 of `cmd_exec`.

## Components

| Component | State | Operations | What is hard about it | What makes it correct |
|---|---|---|---|---|
| manager (`manager.c`) | `nodes` (name to composite), `components`, `fds`, `nfds`, `read_fds`, `nis` | `node_register`, `node_unregister`, `get_node`, `fd_add`, `fd_remove`, `port_attach`, `port_detach` | found by name, destroyed by pointer; `nfds` derived from the end of the list | names and nodes, scanned and allocated components, list and ports correspond |
| component, port (`component.c`, `port.c`) | `in`, `out`, `queue`, `owner`, `is_active` | `destroy`, `packet_forward` | destroyed alone or with its owner, from either side of a link | pointers come in pairs and lead to live memory |
| composite (`composite.c`) | `nodes[]`, `node_count` | `composite_inherit`, `destroy` | its parts may be gone already | nothing outlives it |
| endpoints (`endpoint.c`, `host.c`, `physical.c`) | names | `endpoint_create` | running out of names half way | a failed create changes nothing else |
| ports to the outside (`virtual_port.c`, `physical_port.c`, `ni.c`) | descriptor, `NetworkInterface` | `ni_create`, `destroy`, `packet_forward` | descriptors are re-used | a descriptor leads to the port it was opened for |
| link (`link.c`) | two cables | `link_create`, `is_available`, `set` | eight assignments undone from either side | the wiring is a patch panel |
| cable (`cable.c`) | `output_closed`, `latency`, `jitter`, `drop_rate`, `queue`, timers | `packet_forward`, `_packet_forward`, `set` | every held packet has its own timer; settings change meanwhile; costs lose their fraction, or are infinite | bandwidth is kept, order is kept, held packets land |
| hub and switches (`hub_switch.c`, `switch.c`, `ether_switch.c`) | MAC table | `hub_send`, `ether_switch_send`, `update_table` | who frees what; forgetting, evicting, re-learning | together they are a LAN |
| network loop (`network.c`) | none | `network_process`, `network_control` | one packet per turn, from the first queue that has one | nothing leaks, everything arrives, it falls silent |
| input loop (`input.c`) | a copy of `read_fds` | `input_process` | the list changes under the loop | no freed port is used, the loop does not block |
| command reader (`command.c`) | line buffer | `command_process`, `execute_cmd` | reads cut lines anywhere, and fail | each line runs once, and it returns |
| command handlers (`command.c`) | none | create, destroy, on, off, set | any sequence of them | see above |
| RPC (`rpc_manager.c`) | list of clients | the same commands | runs between two passes of the input loop | see above |
| tree, sketch (`tree.c`, `sketch.c`, `cmd_tree`) | a tree, a canvas of 28 by 28 | `check_node`, `check_link`, `tree_add`, `sketch`, `sketch_render` | a list taken apart by the recursion that walks it; names that are given again; null ends; lines found by counting | each link is shown once, and lines join what is joined |

Components call each other directly; what they share is the manager's tables, the in/out
pointers and the queues. The only callbacks are the events, triggers and timers of the event
loop.

## Modules

| Module | Models | State and actions |
|---|---|---|
| `Topology` | the control plane: manager, composite, component, link, and the create and destroy commands | `registry`, `components`, `name`, `count`, `live`, `in`, `out` are the C fields; one action per command, whole, with its failure paths; `fault` records use of freed, null or uninitialised memory |
| `Patching` | what wiring promises: jacks and two-ended cords | add and remove devices, lay and pull cords |
| `Traffic` | `Topology`'s careful operator composed with packets in flight: queues, timers and MAC tables of components that come and go | `Input` is `network_process`; `Turn` is `network_control` coming to a component, `Lose`, `Hold` or `PassOn` if it is a cable; `Fire` is `_packet_forward`; `Arrive` is the `packet_forward` of the next port; `crash` records memory misused on behalf of a packet, `hasty` which commands came too early |
| `Cable` | one cable: queue, shaper, drop, error, latency and jitter timers, a wall clock that is set back, destruction while packets are held | `packet_forward` is `Refuse` or `Forward`, which charges the packet to `closed` in whole microseconds, or sets `forever` (`Charge`), with `Divide`, `Lose`, `PassOn` or `Hold`; `_packet_forward` is `Deliver`; the event loop is `turn`; `calm` remembers that no command has disturbed the cable |
| `Forwarding` | the data plane over fixed wiring: host ports, hubs, learning switches, `network_control` | `PassOn` and `Fire` run the whole `packet_forward` of the next port |
| `Lan` | what the data plane promises: each frame at most once to each other station | `Send`, `Receive` |
| `CommandReader` | `command_process` and `execute_cmd` | `Read`, `ReadFails`, `Execute`, `TooLong`, `Move` are the parts of its loop; `stdin` and `piped` tell a script, a terminal and a pipe apart; phase "wild" is a `memmove` of a negative size |
| `PollSet` | the descriptor list, `nis`, and the pass of `input_process` with commands within it | `Select`, `Skip`, `Commands`, `Read`, `ReadError`; RPC commands in phase "idle"; `CreateFails` is a physical port whose second socket fails |
| `Tree` | the tree command over any network that is created, linked and destroyed meanwhile, and walked by name | `Create`, `CreateLink`, `DestroyLink`, `DestroyDevice`, `DestroySwitch` are the commands before it, a device being its name; `left` are the ends of links whose port outlived its switch; the calls of `check_node` and `_sketch` are steps: `Descend` and `DrawChild` call, `Ascend` and `Return` return, `Refuse` is a `tree_add` that finds the node full, `Crash` a null pointer, `RunWild` a write off the canvas; `at` is the node the running call is about, and the nodes above it are the calls that wait; `Pipe` and `Bar` are what `sketch` and `sketch_render` print |

`MCTopology`, `MCTraffic`, `MCCable`, `MCForwarding`, `MCCommandReader`, `MCPollSet` and `MCTree`
hold the instances. `TopologyProofs`, `TrafficProofs`, `CableProofs`, `PollSetProofs`,
`ForwardingProofs`, `CommandReaderProofs` and `TreeProofs` hold the proofs, `ListLemmas` what
they share about sequences: appending, removing, and which of two elements comes first. Definitions marked "Variant" are plausible mistakes, used to see that each property
notices one.

What is abstracted: a packet is its number; its size is any member of a set when it is forwarded; the
time stamp counter that decides a loss and the Gaussian noise are arbitrary members of their
ranges; an allocation is a model value that is re-used only once nothing points to it, so a
dangling pointer stays recognisable. In `Topology`, `Traffic`, `PollSet` and `Cable` a run ends at
the first misuse of memory or division by zero, since C says nothing of what follows.

How the modules compose: `Traffic` extends `Topology`, and every step of it is a step of
`Topology`'s `DSpec` or leaves the control plane alone. What `Traffic` leaves open, `Cable` and
`Forwarding` decide over wiring that stays: when a cable loses, holds or passes on, and which
entity a lookup finds. `Traffic` counts packets and lets every one of those choices happen.
`Tree` looks at a network as pairs of names of devices; that links lose an end, and that a destroyed
switch stays wired, is what `Topology` shows to happen. The names matter: the ports of a destroyed
switch `s0` are still called `s0.0`, `s0.1`, and `create switch` gives `s0` again. The walk then
shows the old links at the new switch, those of them whose port has a number below its
`node_count`, in no more rounds than it has ports. Which number a port has is decided when its switch is
destroyed, by `DestroySwitch`, for it does not matter before; `Mixed` says that such a name is in the
part of the network that is asked for.

## Runs

| Run | What it asks | Bounds |
|---|---|---|
| `topology_careful` | With whole nodes destroyed, links only between different device ports, and switches kept, while packets are queued, held by timers and learned from: do pointers, registry and component list stay exact and is no memory misused (`IInv` and its parts), is a connected port never re-pointed (`NoRepatch`), is it a patch panel (`ImplementsPanel`)? What do queues, timers and MAC tables lead to (`FlightInv`), and when does a packet meet memory that is gone (`OnlyHaste`)? | 4 boxes, 2 ports, 2 names: two devices and two parallel links, or three devices and a link; every order of create and destroy with re-use of names and memory. A packet enters when none is on its way; hosts and switches of one and two ports; queues of 1 |
| `topology_any` | What holds whatever is typed: registered names are live, counts are right, allocated parts of named nodes are scanned, a composite's parts never point at each other? | 3 boxes, one name per kind, so that names run out; hosts, hubs, switches; port counts from 0 |
| `topology_switch` | violated: does anything outlive its composite? | |
| `cable` | Whatever is set, unplugged or destroyed and however the wall clock is set back: is the bandwidth kept, but for the fraction each cost loses (`RateBound`), does anything but a bandwidth of 0 shut the cable for long (`ShutsBriefly`), does every held packet land (`Lands`)? While nobody disturbs it, is order kept (`SteadyInv`, `InOrder`)? | 3 packets, a queue of 2, a cost of 2.5 that is charged as 2, grace 1, bandwidth 0 and back, latencies 0 and 1, jitter, drop and error on and off, one packet without a body, the clock set back by 2; 2 ticks: packets that pass by the timers, share a deadline, overflow |
| `cable_unplug` | violated: does a cable survive the destruction of its far end? | |
| `forwarding_lossy` | With losses, delay of any length, a switch turned on and off and queues of 1: is every packet allocated in exactly one queue or timer (`Conservation`), is what switches learn the way to the station (`Learned`), is it a LAN (`ImplementsLan`), does it fall silent (`Drains`)? | a host on a switch, the switch on a hub with two hosts; 2 frames, 2 addresses in the table |
| `forwarding_calm` | Without losses: has every frame, broadcasts included, come to each station it is for when the network is silent (`Reaches`), and do frames of one sender that are for the same station come to it in order, some flooded and some unicast (`InSequence`), while switches learn, evict and expire? | 3 frames, queues of 3, a table of 2 for 3 addresses, age 1 |
| `command` | Is the *k*-th command executed the *k*-th line of the text, whole, for a script and for a terminal (`Prefix`); are all of them executed when the reader comes back (`AllRun`, `TerminalRuns`), as long as no read fails; and does it come back (`Returns`), unless a read fails with nothing in its buffer? | every text of up to 7 characters that ends its last line, a buffer of 3, from a script, a terminal or a pipe cut in every way; any read may fail |
| `command_tail` | violated: the same for a script whose last line has no end | |
| `poll` | Do list and ports match while commands and read errors change both within a pass; which faults and which blocking reads are possible; is everything that waits on an interface read in the end (`Served`), although a pass skips the descriptor after one whose read fails? | 2 virtual ports, a physical one, descriptors 0 to 3, up to 2 commands per read: the smallest that re-uses a descriptor within a pass, and one port that fails and comes back for ever while another waits |
| `poll_reuse` | violated: does select look at every descriptor of the list? | 3 ports |
| `tree` | Does the tree command show links of the connected part, none twice, and all of them where no name is mixed up (`TreeExact`), with a row per leaf (`RowPerLeaf`) and lines that join siblings (`BarsJoinSiblings`, `PipesByPlace`), and when does it use a null pointer (`NullByHalfLinks`)? | an Ethernet switch, of 1 or 5 ports each time it is created, and two other devices of 3 ports, up to 4 links: every multigraph of them, cycles, parallel links, links from a device to itself, each created and destroyed in every order; an end left by a destroyed switch, so that a new one has the name with fewer ports, or as many; nodes of 3 children and a canvas of 3 rows and 4 columns: full nodes and too deep a tree are reached |

Why small is enough: the hazards involve the two ends of a link, the parts of one composite, two
packets overtaking each other, one descriptor and its next owner; the bounds allow one
more of each than the smallest failure needs, and the theorems remove the bounds of all safety
properties. That matters most for `tree`: with 4 links TLC meets no drawing of more leaves than
rows, none of three siblings whose bar runs past the middle one (a node of three children is
full there), and, `MaxLeft` being 1, no destroyed switch with two ports connected; the theorems cover
all three. `MaxTime` (also of all the wall clock is set
back), `PacketCount`, `MaxFlight`, `MaxFrames`, `MaxText`, `MaxFd`, `MaxLinks` and `Boxes` only cut
off what would repeat; nothing else is capped.

`CHECK_DEADLOCK FALSE` is set where a model may stop: all packets sent and time used up, a text
read, every box in use, every link laid, a fault.

### Fairness

`main` calls `event_loop` for ever and no handler waits, `PollSet`'s blocking read and
`CommandReader`'s endless loop aside, so: `Cable` assumes weak fairness of what the loop does by
itself (`Loop`) and of the clock (`Tick`) for `Lands`; `Forwarding` of `Control` and
`Timers`, which the loop serves in every turn, for `Drains`; `PollSet` of `Loop`, what
`input_process` does of itself, for `Served`; `CommandReader` of its only action.
No fairness is assumed of the operator, of arrivals, or between the components that wait for
`network_control`, which has none.

## What is proved

Every safety property of a passing run, and every action property, is a theorem for all values of
the constants.

**Control plane.** `TopologyProofs`, from `CountsAssumption`, `KindsAssumption` and
`NilAssumption`, for any number of boxes, ports and names. Under `DSpec`, the careful operator:

* `CarefulInvariant`: `IInv`. The invariant is inductive only as a whole. That destroying is safe
  needs the pointers to be live (`PointersLive`) and paired (`WiringSymmetric`): whoever points at
  the component is found from it. That pairing survives `Connect` needs both
  ends to be free both ways, although `is_available` asks one pointer only; `BothOrNeither` derives
  it from pairing and `FullDuplex`. That a fresh box is unknown to the registry and the list needs
  `RegistryExact` and `ComponentsExact`.
* `CarefulTypes`, `CarefulWiring`, `CarefulFullDuplex`, `CarefulRegistry`, `CarefulComponents`,
  `CarefulNoFault`: its parts.
* `CarefulNoRepatch`: a step from `IInv` never re-points a connected port.
* `CarefulPanel`: `DSpec` implements `Patching`, each link being a cord, its ends
  read off `in` and `out` of its first cable.
* `CarefulOneCord`: what the panel promises, `OneCordPerJack`, of the pointers. The port at an end of
  a link leads back to the link (`WiringSymmetric`), and to its other cable at its other end
  (`FullDuplex`), so two links that share a port are one.

Under `Spec`, whatever is typed, the invariant is `AInv` (`AnyInvariant`), and `AnyTypes`,
`AnyRegistryLive`, `AnyOwnersApart`, `AnyScan` and `AnyCounts` are its parts. Here pointers dangle,
and what carries the rest is `RegistryLive`: because a name leads to the node that carries it or
nowhere, a command reaches only whole nodes or single parts of such, and `count` of those is what
is allocated of them. That `count` never falls below 0 when parts are destroyed one by one is
`CountMatchesLive`, through a bijection between the entries `nodes[]` and the allocated parts.

**Packets in flight.** `TrafficProofs`, from those and `TrafficAssumption`, for any number of
packets and size of queue:

* `TrafficIsCareful`: `TSpec` implements `DSpec`, the guards of the commands being stronger; so
  `TrafficControl`, `IInv` with packets in flight.
* `TrafficFlight`: `FlightInv`, inductive with `IInv`. Packets are queued only in cables because a
  port pushes into `out`, which leads from a device port to a cable (`PointersLive`); a MAC table
  leads to ports of its own switch because that is where a packet comes in, and the careful
  operator keeps his switches.
* `TrafficOnlyHaste`: `OnlyHaste`, from both.

**Cable.** `CableProofs`, from `CableAssumption`, for any number of packets, queue, sizes and
settings, rates below 0 included (they lose and change nothing):

* `CableTypes`, `CableRate`, `CableShuts`. The rate bound is inductive with the types:
  `Closing` adds to a debt at most `Grace` beyond the wall clock, which is never ahead of the
  clock of the loop. It is stated in bits, not in microseconds, because a cost is truncated: a packet
  of *x* bits at a bandwidth of *b* is charged *x* / *b* rounded down, so *x* is at most *b* times one
  more than that (`Quotient`, `Carries`). At the default 1 Gbps a frame of less than 125 bytes is
  charged nothing, and the bound grows by a microsecond for each. That the cable is shut briefly needs
  to know which packet closed it and when; a packet let through at a bandwidth of 0, which README
  documents, shuts it for ever, and the theorem names that case.
* `CableSteady`: `SteadyInv`; while the cable is calm, arrival order in the queue
  (`QueueInOrder`), and timers no later than one set now would be (`TimersInOrder`), which is where
  "latency only raised" enters. `CableOrder` and `CableNoFault` follow.

**Data plane.** `ForwardingProofs`, from `NetworkAssumption`, `OrderAssumption` and
`TreeAssumption`, for any tree of hosts, hubs and switches and any size of queues and tables.
`Away[m]` are the cables that lead away from station `m`; that they exist with one way to each
device is what it is to have no loop. (In a loop a hub floods for ever: nothing in the code
prevents it, and none of this is claimed there.) There are four invariants, each on top of `FInv`:

* `FInv` (`ForwardingInvariant`): a frame is only on cables that lead away from its sender, and an
  entity of a MAC table names a port whose cable leads to its station. Each needs the other: an
  entity is learned from where a frame comes in, and a frame goes where an entity says.
  `ForwardingTypes` and `ForwardingLearned` are its parts.
* `LInv`, for the refinement `NetworkIsLan`: each frame has a *trail*, the set of cables its copies
  have been on. It is connected to the sender, a copy is only at an end of it, and a station has the
  frame only if it is at an end where no copy is left. A tree has no second way to a device, so no
  copy enters a cable of the trail again and no station receives twice. The trail is not part of the
  state: the invariant says that there is one.
* `CInv` (`ForwardingConserves`): `Conservation` itself, with `FInv` for the types; the work is in
  counting what a flood into several queues adds and what the handlers free.
* `RInv` (`ForwardingReaches`): where the network is `Faultless`, a frame has come to each station
  it is for or is on a cable that leads there (`Coming`). A queue that takes `MaxFrames` never
  refuses because, by `LInv`, it holds no frame twice.
* `SInv` (`ForwardingInSequence`): there are trails such that on the way to a station that both are
  for, the later frame has been nowhere where the earlier has not, and is behind it where that one
  still is (`Paced`). Queues alone do not say it: the later frame may be unicast where the earlier
  was flooded.

**Input loop.** `PollSetProofs`, from `PollAssumption`, for any ports, descriptors and commands:
`PollInvariant`, and from it `PollTypes`, `PollListMatches`, `PollHostsSafe` and `PollBlockedByTwo`.
`PortInv` says that descriptors and ports lead to each other, except that a descriptor may lead to a
physical port that is gone. `AheadInv` is what the last theorem needs: until a second command has
run, the descriptors of the copy that are still ahead in the list have something to read. One
command may close a descriptor or open the same one again, not both.

**Command reader.** `CommandReaderProofs`, from `ReaderAssumption`, for every text, every
`MAX_LINE_SIZE` and every way in which reads cut the text: `ReaderInvariant`, and from it
`ReaderTypes`, `ReaderPrefix`, `ReaderAllRun` and `ReaderTerminalRuns`. All but the types are of
readers no read of which has failed: a failed one takes a character from the buffer, or leaves the
buffer altogether when it has none (`ReadFails`). The invariant splits the
text into what is gone, the buffer and what is unread (`Contents`); no end of a line lies between
`head` and `seek` (`Searched`); and as many lines have been executed as end before `head`. For a
script that is enough (`Script`). A terminal drops its buffer at each call, so there the buffer must
hold the last of a single line (`Dialogue`), which is where "lines fit" enters, and why nothing is
promised of a pipe, where one read may give several lines.

**Tree command.** `TreeProofs`, from `TreeAssumption`, for any network, whatever of it is destroyed and
created again under the same name, any number of ports and of children and any canvas: `TreeInvariant`, and from it `TreeTypes`, `TreeNull`, `TreeIsExact`,
`RowForEachLeaf`, `BarsAreBetween` and `PipesArePlaces`. No induction over the tree is needed, for
the calls are steps and the tree is a sequence in the order of `tree_add`:

* `Preorder`: a node comes before its children, and all that hangs below it before anything that
  hangs further up. This is what the two recursions have in common. Which calls still wait can be
  read off it (`OnPath`): a node waits if nothing up to `at` hangs further up than itself.
* The walk. Whatever names are mixed up, an edge of the tree is a link that was taken from the list
  for it (`Tally`). The rest needs the names of the part in question to be its own (`Plain`). Then a
  call returns only when no link is left at its device (`Returned`), because a node
  has a round for each of its ports and was reached by one of them (`Rounds`); only the first needs
  the argument that a full count of rounds means that no link is left. That a device has no more
  links than ports is `Owned`, which every command keeps. `Tally` counts the links gone
  from the list against the edges shown. When the walk is done, the devices shown are closed
  under the links (`WholeTree`), so they are the connected part. Siblings show different devices
  (`Apart`) because the first call for a device leaves no link at it.
* The layout. Children are drawn in the order of the sequence (`NextChild`), the row of a node is the
  number of leaves before it (`Placed`, `LeavesBefore`), and the rows the waiting calls have
  counted agree with that (`LaidTo`).
* The lines follow from the drawn tree alone: `SameRow` and `Deeper` say where a node is relative to
  those after it, hence the nearest pixel to the left is the parent (`NearestIsParent`), what is
  left to count is what is below (`LeftIsBelow`), and a bar is between siblings (`BarIsFound`,
  `BarIsBetween`).

A full node is where the code loses track: `tree_add` refuses, and a link is taken from the list for
nothing. `Tally` is claimed only while no node is full, and no picture with a full node is ever
finished, since `_sketch` reads past its children.

**Only model-checked.** Liveness (`Lands`, `Drains`, `Served`, `Returns`), since TLAPS does not
handle fairness.

## Disagreements met

Each of these four is a run:

* `topology_switch`: the tests in `ether_switch_destroy` are inverted; the ports stay (`NothingOrphaned`).
* `cable_unplug`: a cable forwards to a far end that was destroyed (`NoFault`).
* `command_tail`: a script without a final newline never lets the emulator start (`Returns`).
* `poll_reuse`: `nfds` follows the last descriptor of the list, not the largest (`AllPolled`).

The models contain these too, without a run of their own:

* `create link v0.0 v0.0` leaves a cable that nothing points to (`CreateLink` with `s = d`).
* `destroy v0.0` frees a port that stays in `manager->components` (`DestroyPart`).
* After `destroy l0.0` the port that is still connected one way is offered again, since
  `is_available` asks `in` of a composite's ports and `out` of a single one (`OpenEnd`).
* When names run out, the half-made node is destroyed under the last name tried, which
  unregisters the node that has it (`CreateDeviceNoName`, `CreateLinkNoName`).
* README gives latency in milliseconds, the timer takes microseconds (`Hold`); README calls a
  loss rate of 1 total, the code compares percent (`MayKeep`).
* A switch forwards by an entity whose deadline is over (`EtherSwitchSend` looks at no timeout);
  a port that is off still sends what its switch gives it (`Takers`), and turning a link off
  stops nothing (`PassOn` asks nothing of it).
* Two commands that a pipe gives in one read can make the loop block in a read of an interface
  (`BlockedByTwo` says only then), and the descriptor of a destroyed physical port stays in the
  list (`HostsSafe` says only of those); so does that of one whose creation fails (`CreateFails`).
* With an error rate, a packet whose IP header announces no body divides by zero (`Divide`).
* The operator who destroys a link while it holds a packet, or a device before its links while
  packets come, ends the program (`OnlyHaste` says that nobody else does).
* A packet that meets a bandwidth of 0, which README allows, shuts the cable for ever, whatever is set
  afterwards (`Charge`); at a high bandwidth short packets cost nothing (`Closing`).
* `-s` of a directory, or any other read that fails with nothing in the buffer, makes `command_process`
  move all memory (`ReadFails`). Of several lines that come from a pipe in one read, those behind a
  command that fails or behind a full buffer are lost with it, and so is a line cut by the end of the
  read (`Call`).
* After `destroy s0` and `create switch`, the tree command shows the links of the old `s0` at the new
  one (`Shown`), and may miss links for want of rounds (`TreeExact` says only then).
* The tree command ends the program when any link of the emulator has lost an end
  (`NullByHalfLinks`), and when the drawing needs more rows or columns than the canvas has, or a
  node has all its children (`RunWild`).
* A loss or error rate of 0.5 loses one packet in a hundred (`timer_frequency() % 100 <= 0.5`), a
  rate of *n* one more than *n* in a hundred (`MayLose`, `MayKeep`).

## Not modelled

* `main.c`: options and the order of initialisation.
* The bridge: its source is not in the repository.
* The list of RPC clients and its loop, only the commands it runs: what the loop does with a client
  is decided by `rpc_netemul_accept`, `_is_closed` and `_loop`, which come from elsewhere.
* The bit a cable flips at an error rate, and how its `long double`s are rounded before they are
  truncated to a microsecond. What an infinite sum is converted to is undefined; both outcomes of the
  build, 0 and a number above 2^63, shut the cable for ever. (0 does because `output_closed` minus the grace
  wraps around.)
* A `malloc` or `list_add` that fails: with it the remaining ports of a host whose `port_attach`
  failed, which are left without a `NetworkInterface`.
* `tree` with a link or a single port for its argument: `check_node` takes whatever it is given for a
  composite. Hosts, hubs and switches are what it is meant for.
  Nor `tree` after a single port or cable was destroyed: in `Tree` commands destroy whole nodes.
* The widths and texts of the tree command, and its buffer of 1024 bytes; get, list, help: they print.
* `src/sdk`: headers of OpenSSL, zlib, expat and of the PacketNgin runtime, nine tenths of the lines in
  the repository. They are third-party declarations without code of this program.

## Plan

1. Done: the models, and the theorems about every safety property of a passing run.
2. The refinement of `PollSet` by what the operating system promises: which waiting descriptors a
   pass is sure to look at, as an invariant stronger than `BlockedByTwo`.
3. That the walk of `Tree` comes to an end: each round takes a link or returns. A run can check it
   under fairness of the command; the proof is out of reach.
4. Which stations starve when `network_control` always serves the first queue.
