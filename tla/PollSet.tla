------------------------------- MODULE PollSet --------------------------------
(***************************************************************************)
(* The descriptors the emulator polls: the list manager->fds, nfds and      *)
(* read_fds that fd_add and fd_remove derive from it, the table nis from a  *)
(* descriptor to its port, and the pass of input_process over the list,     *)
(* during which a command may create and destroy what the list is about.    *)
(***************************************************************************)
EXTENDS Naturals, FiniteSets, Sequences, SequencesExt

CONSTANTS
  Virtual,      \* ports of hosts, each with a TAP interface
  Physical,     \* ports with a raw socket
  MaxFd,        \* the largest descriptor the system hands out
  MaxCommands,  \* commands in what one read of the standard input returns
  Nil

Ports == Virtual \cup Physical
Stdin == 0
Fds == 0..MaxFd

ASSUME PollAssumption ==
  /\ MaxFd \in Nat /\ MaxCommands \in Nat
  /\ Virtual \cap Physical = {} /\ Nil \notin Ports

VARIABLES
  fds, nfds, readSet,   \* manager->fds, ->nfds and ->read_fds
  port,                 \* manager->nis[fd]->port
  fdOf,                 \* of each port: its descriptor
  live,                 \* the ports that are allocated
  open,                 \* the descriptors that are open
  waiting,              \* those a read of which would not block
  phase, at, temp,      \* input_process: where it is, its index i, its copy of the set
  commands,             \* commands left of those the read has returned
  batch,                \* history: how many it has returned in this pass
  fault                 \* what memory was misused

manager == <<fds, nfds, readSet, port, fdOf, live, open>>
pass == <<phase, at, temp, commands, batch>>
vars == <<manager, waiting, pass, fault>>

TypeOK ==
  /\ fds \in Seq(Fds) /\ Cardinality(ToSet(fds)) = Len(fds)
  /\ readSet = ToSet(fds) /\ readSet \subseteq open /\ open \subseteq Fds
  /\ nfds \in 1..(MaxFd + 1)
  /\ port \in [Fds -> Ports \cup {Nil}] /\ fdOf \in [Ports -> Fds]
  /\ live \subseteq Ports /\ waiting \subseteq open
  /\ phase \in {"idle", "scan", "command", "blocked"}
  /\ at \in 1..(MaxFd + 3) /\ temp \subseteq Fds
  /\ commands \in 0..batch /\ batch \in 0..MaxCommands
  /\ fault \in {"none", "freed"}

Init ==
  /\ fds = <<Stdin>> /\ nfds = 1 /\ readSet = {Stdin}
  /\ port = [f \in Fds |-> Nil] /\ fdOf = [p \in Ports |-> Stdin]
  /\ live = {} /\ open = {Stdin} /\ waiting = {}
  /\ phase = "idle" /\ at = 1 /\ temp = {} /\ commands = 0 /\ batch = 0
  /\ fault = "none"

-----------------------------------------------------------------------------
(* The list and what is derived from it *)

\* Variant: the set keeps the descriptor that was removed.
UpdateLeft(l) ==
  /\ fds' = l
  /\ nfds' = Last(l) + 1
  /\ readSet' = ToSet(l) \cup ToSet(fds)

\* update_fd_info: nfds is one more than the last descriptor of the list.
Update(l) ==
  /\ fds' = l
  /\ nfds' = Last(l) + 1
  /\ readSet' = ToSet(l)

\* open and socket return the lowest descriptor that is not in use.
Lowest(f) == f \in Fds \ open /\ \A g \in Fds \ open : f <= g

\* port_attach
Attach(p) ==
  \E f \in Fds :
    /\ Lowest(f)
    /\ Update(Append(fds, f))
    /\ port' = [port EXCEPT ![f] = p]
    /\ fdOf' = [fdOf EXCEPT ![p] = f]
    /\ open' = open \cup {f}

\* Variant: the descriptor is closed but stays in the list.
DetachClosed(p) ==
  /\ open' = open \ {fdOf[p]} /\ waiting' = waiting \ {fdOf[p]}
  /\ UNCHANGED <<fds, nfds, readSet>>

\* fd_remove: list_remove_data takes out the first element that is f, if there is one.
FdRemove(f) ==
  IF f \in ToSet(fds)
    THEN \E n \in DOMAIN fds :
           /\ fds[n] = f /\ \A k \in 1..(n - 1) : fds[k] # f
           /\ Update(RemoveAt(fds, n))
    ELSE UNCHANGED <<fds, nfds, readSet>>

\* port_detach; nis keeps its pointer.
Detach(p) ==
  /\ FdRemove(fdOf[p])
  /\ open' = open \ {fdOf[p]}
  /\ waiting' = waiting \ {fdOf[p]}

\* destroy of a port.  The override of physical_port.c is commented out, so that the
\* descriptor of a physical port stays, and so does its entry of nis.
Free(p) ==
  /\ live' = live \ {p}
  /\ IF p \in Virtual THEN Detach(p) ELSE UNCHANGED <<fds, nfds, readSet, open, waiting>>
  /\ UNCHANGED <<port, fdOf>>

-----------------------------------------------------------------------------
(* Commands: from the terminal within the pass, over RPC between two passes     *)

MayCommand == fault = "none" /\ (phase = "idle" \/ (phase = "command" /\ commands > 0))

Spend == commands' = (IF phase = "command" THEN commands - 1 ELSE commands)

\* A port is new: no descriptor still polled goes with it.
Create(p) ==
  /\ MayCommand /\ p \notin live /\ p \notin {port[f] : f \in ToSet(fds)}
  /\ Attach(p)
  /\ live' = live \cup {p}
  /\ Spend
  /\ UNCHANGED <<waiting, phase, at, temp, batch, fault>>

\* A physical port whose second socket, the one it sends by, cannot be set up is freed
\* at once, and the descriptor it was attached with stays in the list.
CreateFails(p) ==
  /\ MayCommand /\ p \in Physical \ live /\ p \notin {port[f] : f \in ToSet(fds)}
  /\ Attach(p)
  /\ Spend
  /\ UNCHANGED <<live, waiting, phase, at, temp, batch, fault>>

Destroy(p) ==
  /\ MayCommand /\ p \in live
  /\ Free(p)
  /\ Spend
  /\ UNCHANGED <<phase, at, temp, batch, fault>>

-----------------------------------------------------------------------------
(* input_process *)

\* Variant: the set is taken as it is, before select has answered.
ReadyAll == readSet

\* What select leaves in the set: it looks no further than nfds.
Ready == {f \in readSet : f < nfds /\ f \in waiting}

Select ==
  /\ fault = "none" /\ phase = "idle" /\ Ready # {}
  /\ temp' = Ready /\ at' = 1 /\ phase' = "scan"
  /\ UNCHANGED <<manager, waiting, commands, batch, fault>>

Here == fds[at]

Skip ==
  /\ fault = "none" /\ phase = "scan" /\ at <= Len(fds)
  /\ Here \notin temp
  /\ at' = at + 1
  /\ UNCHANGED <<manager, waiting, phase, temp, commands, batch, fault>>

\* command_process; what it did not read stays for the next pass.
Commands ==
  /\ fault = "none" /\ phase = "scan" /\ at <= Len(fds)
  /\ Here = Stdin /\ Stdin \in temp
  /\ waiting' = waiting \ {Stdin}
  /\ phase' = "command" /\ batch' \in 1..MaxCommands /\ commands' = batch'
  /\ UNCHANGED <<manager, at, temp, fault>>

EndCommands ==
  /\ fault = "none" /\ phase = "command"
  /\ phase' = "scan" /\ at' = at + 1 /\ commands' = 0
  /\ UNCHANGED <<manager, waiting, temp, batch, fault>>

Reads(f) == phase \in {"scan", "blocked"} /\ at <= Len(fds) /\ f = Here /\ f \in temp \ {Stdin}

\* Variant: one packet ends the pass, as it does in network_control.
ReadOne(f) ==
  /\ fault = "none" /\ Reads(f)
  /\ f \in waiting
  /\ IF port[f] \in live
       THEN /\ waiting' = waiting \ {f} /\ at' = Len(fds) + 1 /\ phase' = "scan"
            /\ UNCHANGED fault
       ELSE fault' = "freed" /\ UNCHANGED <<waiting, at, phase>>
  /\ UNCHANGED <<manager, temp, commands, batch>>

\* read blocks while there is nothing to read; then network_process uses the port.
Read(f) ==
  /\ fault = "none" /\ Reads(f)
  /\ f \in waiting
  /\ IF port[f] \in live
       THEN /\ waiting' = waiting \ {f} /\ at' = at + 1 /\ phase' = "scan"
            /\ UNCHANGED fault
       ELSE fault' = "freed" /\ UNCHANGED <<waiting, at, phase>>
  /\ UNCHANGED <<manager, temp, commands, batch>>

Block(f) ==
  /\ fault = "none" /\ Reads(f) /\ phase = "scan"
  /\ f \notin waiting
  /\ phase' = "blocked"
  /\ UNCHANGED <<manager, waiting, at, temp, commands, batch, fault>>

\* The read fails: the port is destroyed, and the next one of the list takes its place.
ReadError(f) ==
  /\ fault = "none" /\ Reads(f)
  /\ f \in waiting
  /\ IF port[f] \in live
       THEN Free(port[f]) /\ at' = at + 1 /\ phase' = "scan" /\ UNCHANGED fault
       ELSE fault' = "freed" /\ UNCHANGED <<manager, waiting, at, phase>>
  /\ UNCHANGED <<temp, commands, batch>>

\* The pass is over, and so are its local variables.
EndPass ==
  /\ fault = "none" /\ phase = "scan" /\ at > Len(fds)
  /\ phase' = "idle" /\ at' = 1 /\ temp' = {} /\ batch' = 0
  /\ UNCHANGED <<manager, waiting, commands, fault>>

\* Descriptors that are not polled here: RPC connections, the sockets packets are
\* sent by, and those of interfaces that raw_create could not set up.
OpenOther(f) ==
  /\ fault = "none" /\ phase \in {"idle", "command"}
  /\ Lowest(f)
  /\ open' = open \cup {f}
  /\ UNCHANGED <<fds, nfds, readSet, port, fdOf, live, waiting, pass, fault>>

CloseOther(f) ==
  /\ fault = "none" /\ phase = "idle"
  /\ f \in open \ ToSet(fds)
  /\ open' = open \ {f} /\ waiting' = waiting \ {f}
  /\ UNCHANGED <<fds, nfds, readSet, port, fdOf, live, pass, fault>>

\* The outside: something to read from what is polled.
Arrive(f) ==
  /\ f \in readSet \ waiting
  /\ waiting' = waiting \cup {f}
  /\ UNCHANGED <<manager, pass, fault>>

\* What the event loop does without being asked.
Loop ==
  \/ Select \/ Skip \/ Commands \/ EndCommands \/ EndPass
  \/ \E f \in Fds : Read(f) \/ Block(f) \/ ReadError(f)

Next ==
  \/ Loop
  \/ \E p \in Ports : Create(p) \/ CreateFails(p) \/ Destroy(p)
  \/ \E f \in Fds : Arrive(f) \/ OpenOther(f) \/ CloseOther(f)

Spec == Init /\ [][Next]_vars /\ WF_vars(Loop)

-----------------------------------------------------------------------------
(* Properties *)

\* The list and the ports agree: every port that is alive is polled by a descriptor
\* that leads back to it, so that no two share one, and what else is polled was left
\* behind by physical ports.
ListMatches ==
  /\ \A p \in live : fdOf[p] \in ToSet(fds) /\ port[fdOf[p]] = p
  /\ \A f \in ToSet(fds) \ {Stdin} : port[f] \in live \cup Physical

\* input_process hands no packet to a port of a host that was freed, although its copy
\* of the set is older than the list it goes through: what it does hand to a freed port
\* comes by the descriptor a physical port left behind.
HostsSafe == fault = "freed" => port[Here] \in Physical

\* The loop waits in a read, where neither timers nor commands are served, only in a
\* pass that has executed two commands: one destroys an interface that is in the copy
\* of the set, the next one is given its descriptor.
BlockedByTwo == phase = "blocked" => batch > 1

\* No interface starves: what waits on a polled descriptor is read in some later pass,
\* or the port is gone, although a read that fails takes its port out of the list, and
\* the pass skips the descriptor that moves up.  (A command makes it skip none: STDIN is
\* the first of the list, and what a command destroys comes after it.)  The exceptions
\* are those above: a blocked loop, a freed port, and a descriptor beyond nfds.
Served ==
  \A f \in Fds \ {Stdin} :
    f \in waiting \cap ToSet(fds) ~>
      \/ f \notin waiting \cap ToSet(fds)
      \/ phase = "blocked" \/ fault # "none" \/ f >= nfds

\* Every descriptor of the list is within what select looks at.
AllPolled == \A f \in ToSet(fds) : f < nfds

=============================================================================
