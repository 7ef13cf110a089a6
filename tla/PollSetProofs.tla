---------------------------- MODULE PollSetProofs ----------------------------
(***************************************************************************)
(* The descriptors and the ports always match, and input_process misuses   *)
(* or blocks on nothing but what the code leaves behind: proofs for every  *)
(* number of ports, descriptors and commands.                              *)
(***************************************************************************)
EXTENDS PollSet, ListLemmas, FiniteSetTheorems

-----------------------------------------------------------------------------
(* The inductive invariant *)

\* The list begins with the standard input and has no descriptor twice.
ListInv ==
  /\ fds \in Seq(Fds) /\ Len(fds) > 0 /\ fds[1] = Stdin
  /\ \A j, k \in 1..Len(fds) : fds[j] = fds[k] => j = k
  /\ readSet = ToSet(fds) /\ readSet \subseteq open /\ open \subseteq Fds
  /\ nfds \in 1..(MaxFd + 1)

\* Ports and descriptors lead to each other.
PortInv ==
  /\ port \in [Fds -> Ports \cup {Nil}] /\ fdOf \in [Ports -> Fds]
  /\ live \subseteq Ports
  /\ port[Stdin] = Nil
  /\ \A p \in live : fdOf[p] \in ToSet(fds) /\ port[fdOf[p]] = p
  /\ \A f \in ToSet(fds) \ {Stdin} :
       port[f] \in live \cup Physical /\ fdOf[port[f]] = f

\* Where the pass is.  Its index is at most two places past the list, which may
\* become shorter by the one whose read failed.
PassInv ==
  /\ waiting \subseteq open /\ temp \subseteq Fds
  /\ phase \in {"idle", "scan", "command", "blocked"}
  /\ at \in 1..(Len(fds) + 2)
  /\ phase \in {"idle", "command"} => at = 1
  /\ commands \in 0..batch /\ batch \in 0..MaxCommands
  /\ phase # "command" => commands = 0
  /\ phase \in {"idle", "scan"} /\ at = 1 => batch = 0

\* Before the first command of a pass and, if it was the only one, after it, the
\* descriptors of the copy that are still ahead have something to read.
AheadInv ==
  /\ (phase = "scan" /\ at = 1) \/ (phase = "command" /\ commands = batch)
       => temp \subseteq open
  /\ phase \in {"scan", "command"} /\ batch <= 1 =>
       \A j \in at..Len(fds) : fds[j] \in temp \ {Stdin} => fds[j] \in waiting

PInv ==
  /\ ListInv /\ PortInv /\ PassInv /\ AheadInv
  /\ fault \in {"none", "freed"}
  /\ HostsSafe /\ BlockedByTwo

-----------------------------------------------------------------------------
(* What attaching and detaching do to the lists *)

\* A new list that begins with the standard input and has no descriptor twice.
LEMMA UpdateKeeps ==
  ASSUME ListInv, NEW l \in Seq(Fds), Update(l),
         Len(l) > 0, l[1] = Stdin,
         \A j, k \in 1..Len(l) : l[j] = l[k] => j = k,
         ToSet(l) \subseteq open', open' \subseteq Fds
  PROVE  ListInv'
  <1>1. fds' = l /\ nfds' = Last(l) + 1 /\ readSet' = ToSet(l)
    BY DEF Update
  <1>2. Last(l) \in Fds
    <2>1. Len(l) \in 1..Len(l)
      BY ListShape
    <2> QED BY <2>1, ListShape DEF Last
  <1>3. nfds' \in 1..(MaxFd + 1)
    BY <1>1, <1>2, PollAssumption DEF Fds
  <1> QED BY <1>1, <1>3 DEF ListInv

\* port_attach of a port that no descriptor of the list leads to.
LEMMA AttachKeeps ==
  ASSUME ListInv, PortInv, NEW p \in Ports, p \notin live,
         p \notin {port[f] : f \in ToSet(fds)},
         Attach(p), live \subseteq live', live' \subseteq live \cup {p},
         p \in live' \cup Physical
  PROVE  /\ ListInv' /\ PortInv'
         /\ \E f \in Fds \ open : fds' = Append(fds, f) /\ open' = open \cup {f}
  <1> USE DEF ListInv, PortInv
  <1>1. PICK f \in Fds :
          /\ Lowest(f)
          /\ Update(Append(fds, f))
          /\ port' = [port EXCEPT ![f] = p]
          /\ fdOf' = [fdOf EXCEPT ![p] = f]
          /\ open' = open \cup {f}
    BY DEF Attach
  <1>2. f \in Fds \ open /\ f \notin ToSet(fds)
    BY <1>1 DEF Lowest
  <1>3. f # Stdin /\ Stdin \in ToSet(fds)
    <2>1. 1 \in 1..Len(fds)
      BY ListShape
    <2> QED BY <1>2, <2>1, ListShape
  <1> DEFINE l == Append(fds, f)
  <1>4. /\ l \in Seq(Fds) /\ Len(l) = Len(fds) + 1
        /\ \A j \in 1..Len(fds) : l[j] = fds[j]
        /\ l[Len(fds) + 1] = f
        /\ ToSet(l) = ToSet(fds) \cup {f}
    BY Appended
  <1>5. Update(l) /\ fds' = l
    BY <1>1 DEF Update
  <1> HIDE DEF l
  <1>6. Len(fds) \in Nat /\ \A j \in 1..Len(fds) : fds[j] # f
    BY <1>2, ListShape
  <1>7. ListInv'
    <2>1. l[1] = Stdin /\ Len(l) > 0
      BY <1>4, <1>6
    <2>2. ASSUME NEW j \in 1..Len(l), NEW k \in 1..Len(l), l[j] = l[k]
          PROVE  j = k
      <3>1. /\ j \in 1..Len(fds) \/ j = Len(fds) + 1
            /\ k \in 1..Len(fds) \/ k = Len(fds) + 1
        BY <1>4, <1>6
      <3> QED BY <1>4, <1>6, <2>2, <3>1
    <2>3. ToSet(l) \subseteq open' /\ open' \subseteq Fds
      BY <1>1, <1>4
    <2> QED BY <1>4, <1>5, <2>1, <2>2, <2>3, UpdateKeeps
  <1>8. PortInv'
    <2>1. ToSet(fds)' = ToSet(fds) \cup {f}
      BY <1>4, <1>5 DEF ToSet
    <2>2. port' \in [Fds -> Ports \cup {Nil}] /\ fdOf' \in [Ports -> Fds] /\ live' \subseteq Ports
      BY <1>1
    <2>3. port'[Stdin] = Nil
      BY <1>1, <1>3
    <2>4. ASSUME NEW q \in live'
          PROVE  fdOf'[q] \in ToSet(fds)' /\ port'[fdOf'[q]] = q
      <3>1. CASE q = p
        BY <1>1, <2>1, <3>1
      <3>2. CASE q # p
        BY <1>1, <1>2, <2>1, <3>2
      <3> QED BY <3>1, <3>2
    <2>5. ASSUME NEW g \in ToSet(fds)' \ {Stdin}
          PROVE  port'[g] \in live' \cup Physical /\ fdOf'[port'[g]] = g
      <3>1. CASE g = f
        BY <1>1, <3>1
      <3>2. CASE g # f
        <4>1. g \in ToSet(fds) /\ port'[g] = port[g] /\ port[g] # p
          BY <1>1, <2>1, <3>2
        <4>2. port[g] \in live \cup Physical /\ fdOf[port[g]] = g
          BY <4>1, <2>5
        <4> QED BY <1>1, <4>1, <4>2
      <3> QED BY <3>1, <3>2
    <2> QED BY <2>2, <2>3, <2>4, <2>5
  <1> QED BY <1>1, <1>2, <1>7, <1>8 DEF Update

\* destroy of a port: the descriptor of a host's port leaves the list, the open
\* descriptors and what waits on them; that of a physical port leaves nothing.
LEMMA FreeKeeps ==
  ASSUME ListInv, PortInv, NEW p \in live, Free(p)
  PROVE  /\ ListInv' /\ PortInv'
         /\ \/ UNCHANGED <<fds, open, waiting>>
            \/ \E n \in 2..Len(fds) :
                 /\ fds[n] = fdOf[p]
                 /\ Len(fds') = Len(fds) - 1
                 /\ \A j \in 1..(Len(fds) - 1) :
                      fds'[j] = IF j < n THEN fds[j] ELSE fds[j + 1]
                 /\ open' = open \ {fds[n]} /\ waiting' = waiting \ {fds[n]}
  <1> USE DEF ListInv, PortInv
  <1>1. live' = live \ {p} /\ UNCHANGED <<port, fdOf>>
    BY DEF Free
  <1>2. CASE p \notin Virtual
    <2>1. UNCHANGED <<fds, nfds, readSet, open, waiting>> /\ p \in Physical
      BY <1>2 DEF Free, Ports
    <2>2. ToSet(fds)' = ToSet(fds)
      BY <2>1 DEF ToSet
    <2>3. ListInv'
      BY <2>1, <2>2
    <2>4. PortInv'
      BY <1>1, <2>1, <2>2
    <2> QED BY <2>1, <2>3, <2>4
  <1>3. CASE p \in Virtual
    <2> DEFINE f == fdOf[p]
    <2>1. p \notin Physical /\ p \in Ports
      BY <1>3, PollAssumption
    <2>2. f \in ToSet(fds) /\ port[f] = p /\ f # Stdin
      BY <2>1, PollAssumption
    <2>3. Detach(p)
      BY <1>3 DEF Free
    <2>4. PICK n \in 1..Len(fds) : fds[n] = f /\ Update(RemoveAt(fds, n))
      BY <2>2, <2>3, ListShape DEF Detach, FdRemove
    <2>5. open' = open \ {f} /\ waiting' = waiting \ {f}
      BY <2>3 DEF Detach
    <2> DEFINE l == RemoveAt(fds, n)
    <2>6. /\ l \in Seq(Fds) /\ Len(l) = Len(fds) - 1
          /\ \A j \in 1..(Len(fds) - 1) : l[j] = IF j < n THEN fds[j] ELSE fds[j + 1]
      BY Shortened
    <2>7. ToSet(l) = ToSet(fds) \ {f}
      BY <2>4, ShortenedSet
    <2>8. Update(l) /\ fds' = l
      BY <2>4 DEF Update
    <2> HIDE DEF l
    <2>9. Len(fds) \in Nat /\ n \in 2..Len(fds)
      <3>1. n # 1 /\ Len(fds) \in Nat
        BY <2>2, <2>4, ListShape
      <3> QED BY <3>1
    <2>10. ListInv'
      <3>1. Len(l) > 0 /\ l[1] = Stdin
        BY <2>6, <2>9
      <3>2. ASSUME NEW j \in 1..Len(l), NEW k \in 1..Len(l), l[j] = l[k]
            PROVE  j = k
        <4>1. /\ j \in 1..Len(fds) /\ j + 1 \in 1..Len(fds)
              /\ k \in 1..Len(fds) /\ k + 1 \in 1..Len(fds)
          BY <2>6, <2>9
        <4>2. /\ l[j] = IF j < n THEN fds[j] ELSE fds[j + 1]
              /\ l[k] = IF k < n THEN fds[k] ELSE fds[k + 1]
          BY <2>6
        <4>3. CASE j < n /\ k < n
          BY <3>2, <4>1, <4>2, <4>3
        <4>4. CASE ~ (j < n) /\ ~ (k < n)
          <5>1. fds[j + 1] = fds[k + 1]
            BY <3>2, <4>2, <4>4
          <5>2. j + 1 = k + 1
            BY <4>1, <5>1
          <5> QED BY <4>1, <5>2
        <4>5. CASE j < n /\ ~ (k < n)
          <5>1. fds[j] = fds[k + 1]
            BY <3>2, <4>2, <4>5
          <5>2. j = k + 1
            BY <4>1, <5>1
          <5> QED BY <2>9, <4>1, <4>5, <5>2
        <4>6. CASE ~ (j < n) /\ k < n
          <5>1. fds[j + 1] = fds[k]
            BY <3>2, <4>2, <4>6
          <5>2. j + 1 = k
            BY <4>1, <5>1
          <5> QED BY <2>9, <4>1, <4>6, <5>2
        <4> QED BY <4>3, <4>4, <4>5, <4>6
      <3>3. ToSet(l) \subseteq open' /\ open' \subseteq Fds
        BY <2>5, <2>7
      <3> QED BY <2>6, <2>8, <3>1, <3>2, <3>3, UpdateKeeps
    <2>11. PortInv'
      <3>1. ToSet(fds)' = ToSet(fds) \ {f}
        <4>1. ToSet(fds)' = ToSet(l)
          BY <2>8 DEF ToSet
        <4> QED BY <2>7, <4>1
      <3>2. ASSUME NEW q \in live'
            PROVE  fdOf[q] \in ToSet(fds)' /\ port[fdOf[q]] = q
        BY <1>1, <2>2, <3>1
      <3>3. ASSUME NEW g \in ToSet(fds)' \ {Stdin}
            PROVE  port[g] \in live' \cup Physical /\ fdOf[port[g]] = g
        BY <1>1, <2>1, <3>1
      <3> QED BY <1>1, <3>2, <3>3
    <2> QED BY <2>4, <2>5, <2>6, <2>8, <2>9, <2>10, <2>11
  <1> QED BY <1>2, <1>3

-----------------------------------------------------------------------------
(* Each action keeps PInv *)

\* A step that leaves the lists alone and closes nothing.
LEMMA ManagerSame ==
  ASSUME PInv, UNCHANGED <<fds, nfds, readSet, port, fdOf, live>>,
         readSet \subseteq open', open' \subseteq Fds
  PROVE  ListInv' /\ PortInv'
  <1>1. ToSet(fds)' = ToSet(fds)
    BY DEF ToSet
  <1> QED BY <1>1 DEF PInv, ListInv, PortInv

\* The place of a descriptor in the list.
LEMMA HereInList ==
  ASSUME PInv, at <= Len(fds)
  PROVE  /\ Len(fds) \in Nat /\ at \in 1..Len(fds)
         /\ Here \in Fds /\ Here \in ToSet(fds)
         /\ Here = Stdin <=> at = 1
  <1>1. Len(fds) \in Nat /\ at \in 1..Len(fds) /\ 1 \in 1..Len(fds)
    BY ListShape DEF PInv, ListInv, PassInv
  <1>2. Here \in Fds /\ Here \in ToSet(fds)
    BY <1>1, ListShape DEF PInv, ListInv, Here
  <1>3. Here = Stdin <=> at = 1
    BY <1>1 DEF PInv, ListInv, Here
  <1> QED BY <1>1, <1>2, <1>3

\* What a command may leave of the pass.
LEMMA CreateKeeps ==
  ASSUME PInv, NEW p \in Ports, Create(p) \/ CreateFails(p)
  PROVE  PInv'
  <1> USE DEF PInv
  <1>1. /\ MayCommand /\ p \notin live /\ p \notin {port[f] : f \in ToSet(fds)}
        /\ Attach(p) /\ live \subseteq live' /\ live' \subseteq live \cup {p}
        /\ p \in live' \cup Physical
        /\ Spend /\ UNCHANGED <<waiting, phase, at, temp, batch, fault>>
    BY DEF Create, CreateFails
  <1>2. /\ ListInv' /\ PortInv'
        /\ \E f \in Fds \ open : fds' = Append(fds, f) /\ open' = open \cup {f}
    BY <1>1, AttachKeeps
  <1>3. PICK f \in Fds \ open : fds' = Append(fds, f) /\ open' = open \cup {f}
    BY <1>2
  <1>4. /\ Len(fds) \in Nat /\ Len(fds') = Len(fds) + 1
        /\ \A j \in 1..Len(fds) : fds'[j] = fds[j]
        /\ fds'[Len(fds) + 1] = f
    BY <1>3, ListShape, Appended DEF ListInv
  <1>5. phase \in {"idle", "command"} /\ at = 1 /\ fault = "none"
    BY <1>1 DEF MayCommand, PassInv
  <1>6. /\ phase = "command" => commands > 0 /\ commands' = commands - 1
        /\ phase # "command" => commands' = commands
    BY <1>1, <1>5 DEF MayCommand, Spend
  <1>7. PassInv'
    BY <1>1, <1>3, <1>4, <1>5, <1>6 DEF PassInv
  <1>8. AheadInv'
    <2>1. ~ (phase' = "command" /\ commands' = batch')
      BY <1>1, <1>6 DEF PassInv
    <2>2. ASSUME phase = "command", batch <= 1, NEW j \in 1..Len(fds'),
                 fds'[j] \in temp \ {Stdin}
          PROVE  fds'[j] \in waiting
      <3>1. commands = batch
        BY <1>6, <2>2 DEF PassInv
      <3>2. temp \subseteq open
        BY <2>2, <3>1 DEF AheadInv
      <3>3. j # Len(fds) + 1
        BY <1>3, <1>4, <2>2, <3>2
      <3>4. j \in 1..Len(fds)
        BY <1>4, <3>3
      <3> QED BY <1>4, <1>5, <2>2, <3>4 DEF AheadInv
    <2> QED BY <1>1, <1>5, <2>1, <2>2 DEF AheadInv
  <1>9. HostsSafe' /\ BlockedByTwo' /\ fault' \in {"none", "freed"}
    BY <1>1, <1>5 DEF HostsSafe, BlockedByTwo
  <1> QED BY <1>2, <1>7, <1>8, <1>9

LEMMA DestroyKeeps ==
  ASSUME PInv, NEW p \in Ports, Destroy(p)
  PROVE  PInv'
  <1> USE DEF PInv
  <1>1. /\ MayCommand /\ p \in live /\ Free(p)
        /\ Spend /\ UNCHANGED <<phase, at, temp, batch, fault>>
    BY DEF Destroy
  <1>2. /\ ListInv' /\ PortInv'
        /\ \/ UNCHANGED <<fds, open, waiting>>
           \/ \E n \in 2..Len(fds) :
                /\ fds[n] = fdOf[p]
                /\ Len(fds') = Len(fds) - 1
                /\ \A j \in 1..(Len(fds) - 1) :
                     fds'[j] = IF j < n THEN fds[j] ELSE fds[j + 1]
                /\ open' = open \ {fds[n]} /\ waiting' = waiting \ {fds[n]}
    BY <1>1, FreeKeeps
  <1>3. phase \in {"idle", "command"} /\ at = 1 /\ fault = "none"
    BY <1>1 DEF MayCommand, PassInv
  <1>4. /\ phase = "command" => commands > 0 /\ commands' = commands - 1
        /\ phase # "command" => commands' = commands
    BY <1>1, <1>3 DEF MayCommand, Spend
  <1>5. Len(fds) \in Nat /\ Len(fds) > 0 /\ waiting' \subseteq open' /\ Len(fds') \in Nat
    BY <1>2, ListShape DEF ListInv, PassInv
  <1>6. PassInv'
    BY <1>1, <1>3, <1>4, <1>5 DEF PassInv
  <1>7. AheadInv'
    <2>1. ~ (phase' = "command" /\ commands' = batch')
      BY <1>1, <1>4 DEF PassInv
    <2>2. ASSUME phase = "command", batch <= 1, NEW j \in 1..Len(fds'),
                 fds'[j] \in temp \ {Stdin}
          PROVE  fds'[j] \in waiting'
      <3>1. \A k \in 1..Len(fds) : fds[k] \in temp \ {Stdin} => fds[k] \in waiting
        BY <1>3, <2>2 DEF AheadInv
      <3>2. CASE UNCHANGED <<fds, open, waiting>>
        BY <2>2, <3>1, <3>2
      <3>3. ASSUME NEW n \in 2..Len(fds), Len(fds') = Len(fds) - 1,
                   \A i \in 1..(Len(fds) - 1) :
                     fds'[i] = IF i < n THEN fds[i] ELSE fds[i + 1],
                   waiting' = waiting \ {fds[n]}
            PROVE  fds'[j] \in waiting'
        <4>1. PICK k \in 1..Len(fds) : k # n /\ fds'[j] = fds[k]
          <5>1. j \in 1..(Len(fds) - 1) /\ j \in 1..Len(fds) /\ j + 1 \in 1..Len(fds)
            BY <1>5, <3>3
          <5>2. CASE j < n
            BY <3>3, <5>1, <5>2
          <5>3. CASE ~ (j < n)
            BY <3>3, <5>1, <5>3
          <5> QED BY <5>2, <5>3
        <4>2. n \in 1..Len(fds) /\ fds[k] # fds[n]
          BY <1>5, <4>1 DEF ListInv
        <4> QED BY <2>2, <3>1, <3>3, <4>1, <4>2
      <3> QED BY <1>2, <3>2, <3>3
    <2> QED BY <1>1, <1>3, <2>1, <2>2 DEF AheadInv
  <1>8. HostsSafe' /\ BlockedByTwo' /\ fault' \in {"none", "freed"}
    BY <1>1, <1>3 DEF HostsSafe, BlockedByTwo
  <1> QED BY <1>2, <1>6, <1>7, <1>8

LEMMA SelectKeeps ==
  ASSUME PInv, Select
  PROVE  PInv'
  <1> USE DEF PInv
  <1>1. /\ temp' = Ready /\ at' = 1 /\ phase' = "scan" /\ phase = "idle"
        /\ UNCHANGED <<fds, nfds, readSet, port, fdOf, live, open>>
        /\ UNCHANGED <<waiting, commands, batch, fault>> /\ fault = "none"
    BY DEF Select, manager
  <1>2. ListInv' /\ PortInv'
    BY <1>1, ManagerSame DEF ListInv
  <1>3. Ready \subseteq waiting /\ Ready \subseteq open
    BY DEF Ready, ListInv
  <1>4. PassInv' /\ AheadInv'
    BY <1>1, <1>3, ListShape DEF PassInv, AheadInv, ListInv
  <1> QED BY <1>1, <1>2, <1>4 DEF HostsSafe, BlockedByTwo

\* The index moves on past a descriptor of which nothing is read.
LEMMA SkipKeeps ==
  ASSUME PInv, Skip \/ EndCommands
  PROVE  PInv'
  <1> USE DEF PInv
  <1>1. /\ at' = at + 1 /\ phase' = "scan" /\ fault = "none"
        /\ UNCHANGED <<fds, nfds, readSet, port, fdOf, live, open>>
        /\ UNCHANGED <<waiting, temp, batch, fault>>
        /\ phase \in {"scan", "command"} /\ commands' = 0
    BY DEF Skip, EndCommands, manager, PassInv
  <1>2. ListInv' /\ PortInv'
    BY <1>1, ManagerSame DEF ListInv
  <1>3. at <= Len(fds) /\ Len(fds) \in Nat /\ at \in Nat /\ at >= 1
    BY ListShape DEF Skip, EndCommands, PassInv, ListInv
  <1>4. batch \in Nat
    BY PollAssumption DEF PassInv
  <1>5. PassInv'
    BY <1>1, <1>3, <1>4 DEF PassInv
  <1>6. AheadInv'
    BY <1>1, <1>3 DEF AheadInv
  <1> QED BY <1>1, <1>2, <1>5, <1>6 DEF HostsSafe, BlockedByTwo

LEMMA CommandsKeeps ==
  ASSUME PInv, Commands
  PROVE  PInv'
  <1> USE DEF PInv
  <1>1. /\ at <= Len(fds) /\ Here = Stdin /\ phase = "scan" /\ fault = "none"
        /\ waiting' = waiting \ {Stdin} /\ phase' = "command"
        /\ batch' \in 1..MaxCommands /\ commands' = batch'
        /\ UNCHANGED <<fds, nfds, readSet, port, fdOf, live, open>>
        /\ UNCHANGED <<at, temp, fault>>
    BY DEF Commands, manager
  <1>2. ListInv' /\ PortInv'
    BY <1>1, ManagerSame DEF ListInv
  <1>3. at = 1 /\ temp \subseteq open
    BY <1>1, HereInList DEF AheadInv
  <1>4. PassInv'
    BY <1>1, <1>3, PollAssumption DEF PassInv
  <1>5. batch = 0
    BY <1>1, <1>3 DEF PassInv
  <1>6. AheadInv'
    BY <1>1, <1>3, <1>5 DEF AheadInv
  <1> QED BY <1>1, <1>2, <1>4, <1>6 DEF HostsSafe, BlockedByTwo

\* Read, Block and ReadError find at the index a port's descriptor.
LEMMA ReadsHere ==
  ASSUME PInv, NEW f \in Fds, Reads(f)
  PROVE  /\ phase \in {"scan", "blocked"} /\ at \in 2..Len(fds) /\ f = fds[at]
         /\ f \in temp \ {Stdin} /\ f \in ToSet(fds) \ {Stdin}
         /\ Len(fds) \in Nat
         /\ commands = 0
         /\ phase = "blocked" => batch > 1
         /\ port[f] \in live \cup Physical
  <1> USE DEF PInv
  <1>1. phase \in {"scan", "blocked"} /\ at <= Len(fds) /\ f = Here /\ f \in temp \ {Stdin}
    BY DEF Reads
  <1>2. at \in 1..Len(fds) /\ Len(fds) \in Nat /\ f \in ToSet(fds) /\ at # 1
    BY <1>1, HereInList
  <1> QED BY <1>1, <1>2 DEF Here, PassInv, BlockedByTwo, PortInv

LEMMA ReadKeeps ==
  ASSUME PInv, NEW f \in Fds, Read(f)
  PROVE  PInv'
  <1> USE DEF PInv
  <1>1. /\ fault = "none" /\ Reads(f)
        /\ UNCHANGED <<fds, nfds, readSet, port, fdOf, live, open>>
        /\ UNCHANGED <<temp, commands, batch>>
    BY DEF Read, manager
  <1>2. /\ phase \in {"scan", "blocked"} /\ at \in 2..Len(fds) /\ f = fds[at]
        /\ f \in temp \ {Stdin} /\ Len(fds) \in Nat
        /\ phase = "blocked" => batch > 1
        /\ port[f] \in live \cup Physical
    BY <1>1, ReadsHere
  <1>3. ListInv' /\ PortInv'
    BY <1>1, ManagerSame DEF ListInv
  <1>4. CASE port[f] \in live
    <2>1. waiting' = waiting \ {f} /\ at' = at + 1 /\ phase' = "scan" /\ fault' = fault
      BY <1>4 DEF Read
    <2>2. PassInv'
      BY <1>1, <1>2, <2>1 DEF PassInv
    <2>3. ASSUME batch <= 1, NEW j \in (at + 1)..Len(fds), fds[j] \in temp \ {Stdin}
          PROVE  fds[j] \in waiting \ {f}
      <3>1. phase = "scan" /\ at \in Nat
        BY <1>2, <2>3, PollAssumption DEF PassInv
      <3>2. j \in at..Len(fds) /\ j \in 1..Len(fds) /\ at \in 1..Len(fds) /\ j # at
        BY <1>2
      <3>3. fds[j] \in waiting
        BY <2>3, <3>1, <3>2 DEF AheadInv
      <3>4. fds[j] # f
        BY <1>2, <3>2 DEF ListInv
      <3> QED BY <3>3, <3>4
    <2>4. AheadInv'
      BY <1>1, <1>2, <2>1, <2>3 DEF AheadInv
    <2> QED BY <1>1, <1>3, <2>1, <2>2, <2>4 DEF HostsSafe, BlockedByTwo
  <1>5. CASE port[f] \notin live
    <2>1. fault' = "freed" /\ UNCHANGED <<waiting, at, phase>>
      BY <1>5 DEF Read
    <2>2. PassInv' /\ AheadInv'
      BY <1>1, <2>1 DEF PassInv, AheadInv
    <2>3. HostsSafe'
      BY <1>1, <1>2, <1>5, <2>1 DEF HostsSafe, Here
    <2> QED BY <1>1, <1>3, <2>1, <2>2, <2>3 DEF BlockedByTwo
  <1> QED BY <1>4, <1>5

LEMMA BlockKeeps ==
  ASSUME PInv, NEW f \in Fds, Block(f)
  PROVE  PInv'
  <1> USE DEF PInv
  <1>1. /\ fault = "none" /\ Reads(f) /\ f \notin waiting
        /\ phase = "scan" /\ phase' = "blocked"
        /\ UNCHANGED <<fds, nfds, readSet, port, fdOf, live, open>>
        /\ UNCHANGED <<waiting, at, temp, commands, batch, fault>>
    BY DEF Block, manager
  <1>2. at \in 2..Len(fds) /\ f = fds[at] /\ f \in temp \ {Stdin} /\ Len(fds) \in Nat
    BY <1>1, ReadsHere
  <1>3. ListInv' /\ PortInv'
    BY <1>1, ManagerSame DEF ListInv
  <1>4. batch > 1
    <2>1. at \in at..Len(fds) /\ batch \in Nat
      BY <1>2, PollAssumption DEF PassInv
    <2> QED BY <1>1, <1>2, <2>1 DEF AheadInv
  <1>5. PassInv' /\ AheadInv'
    BY <1>1, <1>2 DEF PassInv, AheadInv
  <1> QED BY <1>1, <1>3, <1>4, <1>5 DEF HostsSafe, BlockedByTwo

LEMMA ReadErrorKeeps ==
  ASSUME PInv, NEW f \in Fds, ReadError(f)
  PROVE  PInv'
  <1> USE DEF PInv
  <1>1. fault = "none" /\ Reads(f) /\ UNCHANGED <<temp, commands, batch>>
    BY DEF ReadError
  <1>2. /\ phase \in {"scan", "blocked"} /\ at \in 2..Len(fds) /\ f = fds[at]
        /\ f \in temp \ {Stdin} /\ Len(fds) \in Nat /\ f \in ToSet(fds) \ {Stdin}
        /\ phase = "blocked" => batch > 1
        /\ port[f] \in live \cup Physical
    BY <1>1, ReadsHere
  <1>3. CASE port[f] \in live
    <2>1. Free(port[f]) /\ at' = at + 1 /\ phase' = "scan" /\ fault' = fault
      BY <1>3 DEF ReadError
    <2>2. fdOf[port[f]] = f
      BY <1>2 DEF PortInv
    <2>3. /\ ListInv' /\ PortInv'
          /\ \/ UNCHANGED <<fds, open, waiting>>
             \/ \E n \in 2..Len(fds) :
                  /\ fds[n] = f
                  /\ Len(fds') = Len(fds) - 1
                  /\ \A j \in 1..(Len(fds) - 1) :
                       fds'[j] = IF j < n THEN fds[j] ELSE fds[j + 1]
                  /\ open' = open \ {fds[n]} /\ waiting' = waiting \ {fds[n]}
      BY <1>3, <2>1, <2>2, FreeKeeps
    <2>4. \/ UNCHANGED <<fds, open, waiting>>
          \/ /\ Len(fds') = Len(fds) - 1
             /\ \A j \in 1..(Len(fds) - 1) :
                  fds'[j] = IF j < at THEN fds[j] ELSE fds[j + 1]
             /\ open' = open \ {f} /\ waiting' = waiting \ {f}
      <3>1. \A n \in 2..Len(fds) : fds[n] = f => n = at
        <4>1. \A n \in 2..Len(fds) : n \in 1..Len(fds)
          BY <1>2
        <4> QED BY <1>2, <4>1 DEF ListInv
      <3> QED BY <1>2, <2>3, <3>1
    <2>5. PassInv'
      <3>1. waiting' \subseteq open'
        BY <2>4 DEF PassInv
      <3>2. at' \in 1..(Len(fds') + 2)
        BY <1>2, <2>1, <2>4
      <3>3. at' # 1
        BY <1>2, <2>1
      <3> QED BY <1>1, <1>2, <2>1, <3>1, <3>2, <3>3 DEF PassInv
    <2>6. ASSUME batch <= 1, NEW j \in (at + 1)..Len(fds'), fds'[j] \in temp \ {Stdin}
          PROVE  fds'[j] \in waiting'
      <3>1. phase = "scan" /\ at \in Nat
        BY <1>2, <2>6, PollAssumption DEF PassInv
      <3>2. \A k \in at..Len(fds) : fds[k] \in temp \ {Stdin} => fds[k] \in waiting
        BY <2>6, <3>1 DEF AheadInv
      <3>3. CASE UNCHANGED <<fds, open, waiting>>
        <4>1. j \in at..Len(fds)
          BY <3>1, <3>3
        <4> QED BY <2>6, <3>2, <3>3, <4>1
      <3>4. CASE ~ UNCHANGED <<fds, open, waiting>>
        <4>1. j + 1 \in at..Len(fds) /\ j \in 1..(Len(fds) - 1) /\ ~ (j < at)
          BY <1>2, <2>4, <3>1, <3>4
        <4>2. fds'[j] = fds[j + 1]
          BY <2>4, <3>4, <4>1
        <4>3. fds[j + 1] # f
          <5>1. j + 1 \in 1..Len(fds) /\ at \in 1..Len(fds) /\ j + 1 # at
            BY <1>2, <4>1
          <5> QED BY <1>2, <5>1 DEF ListInv
        <4> QED BY <2>4, <2>6, <3>2, <3>4, <4>1, <4>2, <4>3
      <3> QED BY <3>3, <3>4
    <2>7. AheadInv'
      BY <1>1, <1>2, <2>1, <2>6 DEF AheadInv
    <2> QED BY <1>1, <2>1, <2>3, <2>5, <2>7 DEF HostsSafe, BlockedByTwo
  <1>4. CASE port[f] \notin live
    <2>1. /\ fault' = "freed" /\ UNCHANGED <<waiting, at, phase>>
          /\ UNCHANGED <<fds, nfds, readSet, port, fdOf, live, open>>
      BY <1>4 DEF ReadError, manager
    <2>2. ListInv' /\ PortInv'
      BY <2>1, ManagerSame DEF ListInv
    <2>3. PassInv' /\ AheadInv'
      BY <1>1, <2>1 DEF PassInv, AheadInv
    <2>4. HostsSafe'
      BY <1>1, <1>2, <1>4, <2>1 DEF HostsSafe, Here
    <2> QED BY <2>1, <1>1, <2>2, <2>3, <2>4 DEF BlockedByTwo
  <1> QED BY <1>3, <1>4

LEMMA EndPassKeeps ==
  ASSUME PInv, EndPass
  PROVE  PInv'
  <1> USE DEF PInv
  <1>1. /\ phase = "scan" /\ phase' = "idle" /\ at' = 1 /\ temp' = {} /\ batch' = 0
        /\ fault = "none"
        /\ UNCHANGED <<fds, nfds, readSet, port, fdOf, live, open>>
        /\ UNCHANGED <<waiting, commands, fault>>
    BY DEF EndPass, manager
  <1>2. ListInv' /\ PortInv'
    BY <1>1, ManagerSame DEF ListInv
  <1>3. PassInv' /\ AheadInv'
    BY <1>1, ListShape, PollAssumption DEF PassInv, AheadInv, ListInv
  <1> QED BY <1>1, <1>2, <1>3 DEF HostsSafe, BlockedByTwo

\* What opens, closes or arrives elsewhere.
LEMMA OutsideKeeps ==
  ASSUME PInv, NEW f \in Fds, OpenOther(f) \/ CloseOther(f) \/ Arrive(f)
  PROVE  PInv'
  <1> USE DEF PInv
  <1>1. /\ UNCHANGED <<fds, nfds, readSet, port, fdOf, live, fault>>
        /\ UNCHANGED <<phase, at, temp, commands, batch>>
    BY DEF OpenOther, CloseOther, Arrive, manager, pass
  <1>2. readSet \subseteq open' /\ open' \subseteq Fds
    BY DEF OpenOther, CloseOther, Arrive, Lowest, ListInv, manager
  <1>3. ListInv' /\ PortInv'
    BY <1>1, <1>2, ManagerSame
  <1>4. /\ waiting' \subseteq open'
        /\ phase # "idle" => waiting \subseteq waiting' /\ open \subseteq open'
    BY DEF OpenOther, CloseOther, Arrive, ListInv, PassInv, manager
  <1>5. PassInv' /\ AheadInv'
    BY <1>1, <1>4 DEF PassInv, AheadInv
  <1>6. HostsSafe' /\ BlockedByTwo'
    BY <1>1 DEF HostsSafe, BlockedByTwo, Here
  <1> QED BY <1>1, <1>3, <1>5, <1>6

-----------------------------------------------------------------------------
(* The theorems *)

LEMMA InitPInv == Init => PInv
  <1> SUFFICES ASSUME Init PROVE PInv
    OBVIOUS
  <1>1. fds = <<0>> /\ 0 \in Fds /\ Len(fds) = 1 /\ fds[1] = 0
    BY PollAssumption DEF Init, Stdin, Fds
  <1>2. fds \in Seq(Fds)
    BY <1>1
  <1>3. ToSet(fds) = {Stdin}
    <2>1. \A f : f \in ToSet(fds) <=> \E j \in 1..Len(fds) : fds[j] = f
      BY <1>2, ListShape
    <2> QED BY <1>1, <2>1 DEF Stdin
  <1>4. ListInv
    BY <1>1, <1>2, <1>3, PollAssumption DEF Init, ListInv, Stdin
  <1>5. PortInv
    BY <1>1, <1>3 DEF Init, PortInv, Stdin
  <1>6. PassInv /\ AheadInv
    BY <1>1, PollAssumption DEF Init, PassInv, AheadInv
  <1> QED BY <1>4, <1>5, <1>6 DEF Init, PInv, HostsSafe, BlockedByTwo

LEMMA StepPInv == PInv /\ [Next]_vars => PInv'
  <1> SUFFICES ASSUME PInv, [Next]_vars PROVE PInv'
    OBVIOUS
  <1>1. CASE Loop
    BY <1>1, SelectKeeps, SkipKeeps, CommandsKeeps, EndPassKeeps, ReadKeeps,
       BlockKeeps, ReadErrorKeeps DEF Loop
  <1>2. CASE \E p \in Ports : Create(p) \/ CreateFails(p) \/ Destroy(p)
    BY <1>2, CreateKeeps, DestroyKeeps
  <1>3. CASE \E f \in Fds : Arrive(f) \/ OpenOther(f) \/ CloseOther(f)
    BY <1>3, OutsideKeeps
  <1>4. CASE UNCHANGED vars
    <2>1. /\ UNCHANGED <<fds, nfds, readSet, port, fdOf, live, open, waiting, fault>>
          /\ UNCHANGED <<phase, at, temp, commands, batch>>
      BY <1>4 DEF vars, manager, pass
    <2>2. ListInv' /\ PortInv'
      BY <2>1, ManagerSame DEF PInv, ListInv
    <2> QED BY <2>1, <2>2 DEF PInv, PassInv, AheadInv, HostsSafe, BlockedByTwo, Here
  <1> QED BY <1>1, <1>2, <1>3, <1>4 DEF Next

\* The lists, the pass over them and the copy it works from keep every part of PInv,
\* whatever is created, destroyed, read and opened in whatever order.
THEOREM PollInvariant == Spec => []PInv
  <1> QED BY InitPInv, StepPInv, PTL DEF Spec

\* A list without repetition has as many elements as places.
LEMMA ListCardinality ==
  ASSUME ListInv
  PROVE  Cardinality(ToSet(fds)) = Len(fds) /\ Len(fds) <= MaxFd + 1
  <1> USE DEF ListInv
  <1>1. Len(fds) \in Nat /\ DOMAIN fds = 1..Len(fds)
    BY ListShape
  <1>2. fds \in [1..Len(fds) -> ToSet(fds)]
    BY <1>1, LenProperties, ListShape
  <1>3. fds \in Bijection(1..Len(fds), ToSet(fds))
    BY <1>2, ListShape DEF Bijection, Injection, Surjection, IsInjective
  <1>4. ExistsBijection(1..Len(fds), ToSet(fds))
    BY <1>3 DEF ExistsBijection
  <1>5. IsFiniteSet(1..Len(fds)) /\ Cardinality(1..Len(fds)) = Len(fds)
    BY <1>1, FS_Interval
  <1>6. Cardinality(ToSet(fds)) = Len(fds)
    BY <1>4, <1>5, FS_Bijection
  <1>7. IsFiniteSet(Fds) /\ Cardinality(Fds) = MaxFd + 1
    BY PollAssumption, FS_Interval DEF Fds
  <1>8. Cardinality(ToSet(fds)) <= Cardinality(Fds)
    <2>1. ToSet(fds) \in SUBSET Fds
      OBVIOUS
    <2> QED BY <1>7, <2>1, FS_Subset
  <1> QED BY <1>6, <1>7, <1>8

\* The list never holds a descriptor twice, read_fds is always what the list says,
\* nothing that is closed is polled, and nfds is a number of descriptors.
THEOREM PollTypes == Spec => []TypeOK
  <1>1. PInv => TypeOK
    <2> SUFFICES ASSUME PInv PROVE TypeOK
      OBVIOUS
    <2>1. Cardinality(ToSet(fds)) = Len(fds) /\ Len(fds) <= MaxFd + 1 /\ Len(fds) \in Nat
      BY ListCardinality, ListShape DEF PInv, ListInv
    <2>2. at \in 1..(MaxFd + 3)
      BY <2>1, PollAssumption DEF PInv, PassInv
    <2> QED BY <2>1, <2>2 DEF PInv, ListInv, PortInv, PassInv, TypeOK
  <1> QED BY <1>1, PollInvariant, PTL

\* Every port that is allocated is polled by a descriptor that leads back to it.
THEOREM PollListMatches == Spec => []ListMatches
  <1>1. PInv => ListMatches
    BY DEF PInv, PortInv, ListMatches
  <1> QED BY <1>1, PollInvariant, PTL

\* No packet is handed to a port of a host that was freed.
THEOREM PollHostsSafe == Spec => []HostsSafe
  <1>1. PInv => HostsSafe
    BY DEF PInv
  <1> QED BY <1>1, PollInvariant, PTL

\* The loop blocks in a read only in a pass that executed two commands.
THEOREM PollBlockedByTwo == Spec => []BlockedByTwo
  <1>1. PInv => BlockedByTwo
    BY DEF PInv
  <1> QED BY <1>1, PollInvariant, PTL

=============================================================================
