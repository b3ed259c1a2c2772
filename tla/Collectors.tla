----------------------------- MODULE Collectors -----------------------------
(***************************************************************************)
(* One round of the network collector of a host, on Linux, macOS and       *)
(* Windows (collectPlatform and the filter), while processes end and their *)
(* PIDs are given to others.  Whose connection is it?  Linux and Windows   *)
(* ask in several steps; lsof says all at once, in lines that a parser     *)
(* with four variables has to take apart.                                  *)
(*                                                                         *)
(* Nothing is kept from one round to the next (Collector.seen is not       *)
(* used).  Addresses are reduced to what the filter asks and to their      *)
(* family; a socket has one holder.                                        *)
(***************************************************************************)
EXTENDS Naturals, Sequences, FiniteSets, SequencesExt

CONSTANTS
    Pids, Programs, \* numbers and names of processes
    None,           \* 0, and the empty name
    Socks,          \* sockets
    Proto, Remote,  \* of a socket: one of Protos; "peer", "loopback" or "none"
    MaxChanges      \* bound on the processes that end, and on the other sockets
                    \* that come or go, in the round

\* The tables of Linux.
Protos == {"tcp", "tcp6", "udp", "udp6"}
Tcp == {"tcp", "tcp6"}
Udp == {"udp", "udp6"}

ASSUME NoneAssumption == None \notin Pids \cup Programs
ASSUME SocksAssumption == IsFiniteSet(Socks)
ASSUME KindsAssumption ==
    Proto \in [Socks -> Protos] /\ Remote \in [Socks -> {"peer", "loopback", "none"}]
ASSUME MaxChangesAssumption == MaxChanges \in Nat

VARIABLES
    os,
    procs,    \* what runs under each PID
    open,     \* the open sockets
    holder,   \* the PID of the process that holds each of them
    pc,       \* what the collector asks next
    flows,    \* what it has found
    unread,   \* Linux: the sockets in what is still to come of the table being read
    next,     \* Linux: the flow whose PID or name comes next
    changes,
    \* History variables.
    program,  \* what ran under the PID of the holder when the round began
    reused,   \* PIDs given to another process since the first table was read
    spoilt    \* the ways to the connections that failed, and the tables of Linux that
              \* changed while they were read

hostVars == <<os, holder, program>>
roundVars == <<hostVars, procs, open, pc, flows, unread, next, changes, reused, spoilt>>

RoundInit ==
    /\ os \in {"linux", "darwin", "windows"}
    /\ procs \in [Pids -> Programs]
    /\ open \in SUBSET Socks
    /\ holder \in [Socks -> Pids]
    /\ program = [s \in Socks |-> procs[holder[s]]]
    /\ pc = "tcp" /\ flows = <<>> /\ unread = {} /\ next = 1
    /\ changes = 0
    /\ reused = {} /\ spoilt = {}

\* A command or a read fails; PowerShell may also return nothing.
Fails(way) == spoilt' = spoilt \cup {way} /\ UNCHANGED flows

\* On Linux, the stage in which the lines of a table get their PIDs, and the next one.
Walk == [tcp |-> "tcp pids", tcp6 |-> "tcp6 pids", udp |-> "udp pids", udp6 |-> "udp6 pids"]
Then == [tcp |-> "tcp6", tcp6 |-> "udp", udp |-> "udp6", udp6 |-> "sorted"]

Table(protos) == {s \in open : Proto[s] \in protos}

-----------------------------------------------------------------------------
(***************************************************************************)
(* The host.                                                               *)
(***************************************************************************)
\* The kernel finds its place in a table by a position that a change makes wrong:
\* lines are skipped, or come again.
Tears(proto) ==
    /\ pc = Walk[proto]
    /\ spoilt' = spoilt \cup {proto}
    /\ unread' \in SUBSET {s \in open' : Proto[s] = proto}

Exit(p) ==
    /\ procs[p] # None
    /\ changes < MaxChanges
    /\ changes' = changes + 1
    /\ procs' = [procs EXCEPT ![p] = None]
    /\ open' = {s \in open : holder[s] # p}
    /\ \/ \E proto \in Protos : (\E s \in Table({proto}) : holder[s] = p) /\ Tears(proto)
       \/ /\ \A proto \in Protos : pc = Walk[proto] => \A s \in Table({proto}) : holder[s] # p
          /\ UNCHANGED <<unread, spoilt>>
    /\ UNCHANGED <<hostVars, pc, flows, next, reused>>

\* A socket that is not among Socks.
OtherSocket(proto) ==
    /\ changes < MaxChanges
    /\ changes' = changes + 1
    /\ UNCHANGED <<hostVars, procs, open, pc, flows, next, reused>>
    /\ Tears(proto)

\* The sockets of the newcomer are for the next round.
Exec(p, g) ==
    /\ procs[p] = None
    /\ procs' = [procs EXCEPT ![p] = g]
    /\ reused' = IF pc = "tcp" THEN reused ELSE reused \cup {p}
    /\ UNCHANGED <<hostVars, open, pc, flows, unread, next, changes, spoilt>>

NoState == ""

\* The state that is reported of a socket.  For UDP, Linux tells connected sockets
\* from others, the PowerShell script says LISTEN of all, and lsof says nothing.
StateOf(s) ==
    IF Proto[s] \in Tcp THEN IF Remote[s] = "none" THEN "LISTEN" ELSE "ESTABLISHED"
    ELSE CASE os = "linux"   -> IF Remote[s] = "none" THEN "CLOSE" ELSE "ESTABLISHED"
           [] os = "windows" -> "LISTEN"
           [] os = "darwin"  -> NoState

Entry(s, remote, pid) ==
    [sock |-> s, remote |-> remote, state |-> StateOf(s), pid |-> pid, process |-> None]

Rows(socks, line) == LET t == SetToSeq(socks) IN [i \in DOMAIN t |-> line[t[i]]]

\* filterAndEnrich: one flow after the other; what has no remote end, or ends on the
\* host itself, is left out.
Filter(fs) ==
    LET kept[i \in 0..Len(fs)] ==
            IF i = 0 THEN <<>>
            ELSE IF fs[i].remote = "peer" THEN Append(kept[i - 1], fs[i])
            ELSE kept[i - 1]
    IN kept[Len(fs)]

-----------------------------------------------------------------------------
(***************************************************************************)
(* Linux                                                                   *)
(***************************************************************************)
ProcNetLine == [s \in Socks |-> Entry(s, Remote[s], None)]

\* The scanner reads as many lines as its buffer holds, and what a walk through /proc
\* later is still to come.  An error ends the table.
ReadChunk(proto) ==
    /\ os = "linux"
    /\ pc = proto \/ (pc = Walk[proto] /\ next > Len(flows) /\ unread # {})
    /\ LET rest == IF pc = proto THEN Table({proto}) ELSE unread IN
       \/ /\ \E chunk \in SUBSET rest :
                /\ flows' = flows \o Rows(chunk, ProcNetLine)
                /\ unread' = rest \ chunk
          /\ UNCHANGED spoilt
       \/ Fails(proto) /\ unread' = {}
    /\ pc' = Walk[proto]
    /\ UNCHANGED <<hostVars, procs, open, next, changes, reused>>

\* Fault variant of FindPid: what was found for the line before is still there.
FindPidCarries(proto) ==
    /\ pc = Walk[proto]
    /\ IF next > Len(flows)
       THEN unread = {} /\ pc' = Then[proto] /\ UNCHANGED <<flows, next>>
       ELSE /\ flows' = [flows EXCEPT ![next].pid =
                            IF flows[next].sock \in open THEN holder[flows[next].sock]
                            ELSE IF next = 1 THEN None ELSE flows[next - 1].pid]
            /\ next' = next + 1
            /\ UNCHANGED pc
    /\ UNCHANGED <<hostVars, procs, open, unread, changes, reused, spoilt>>

\* findPIDByInode, for one line after the other: no PID for a socket that is gone, or
\* whose holder may not be looked into.
FindPid(proto) ==
    /\ pc = Walk[proto]
    /\ IF next > Len(flows)
       THEN unread = {} /\ pc' = Then[proto] /\ UNCHANGED <<flows, next>>
       ELSE /\ \/ /\ flows[next].sock \in open
                  /\ flows' = [flows EXCEPT ![next].pid = holder[flows[next].sock]]
               \/ UNCHANGED flows
            /\ next' = next + 1
            /\ UNCHANGED pc
    /\ UNCHANGED <<hostVars, procs, open, unread, changes, reused, spoilt>>

StartNames ==
    /\ os = "linux" /\ pc = "sorted"
    /\ pc' = "names" /\ next' = 1
    /\ UNCHANGED <<hostVars, procs, open, flows, unread, changes, reused, spoilt>>

\* getProcessName for one flow after the other, then the filter.
NameNext ==
    /\ os = "linux" /\ pc = "names"
    /\ IF next > Len(flows)
       THEN pc' = "done" /\ flows' = Filter(flows) /\ UNCHANGED next
       ELSE /\ LET p == flows[next].pid IN
               flows' = [flows EXCEPT ![next].process = IF p = None THEN None ELSE procs[p]]
            /\ next' = next + 1
            /\ UNCHANGED pc
    /\ UNCHANGED <<hostVars, procs, open, unread, changes, reused, spoilt>>

-----------------------------------------------------------------------------
(***************************************************************************)
(* Windows                                                                 *)
(***************************************************************************)
PowerShellLine == [s \in Socks |-> Entry(s, Remote[s], holder[s])]

\* Get-NetTCPConnection, of both families; netstat if it fails or returns nothing.
PowerShellTcp ==
    /\ os = "windows" /\ pc = "tcp"
    /\ \/ flows' = Rows(Table(Tcp), PowerShellLine) /\ UNCHANGED spoilt
       \/ Fails("powershell")
    /\ pc' = IF flows' = <<>> THEN "netstat" ELSE "udp"
    /\ UNCHANGED <<hostVars, procs, open, unread, next, changes, reused>>

\* Fault variant of Netstat: there is no second way.
NetstatNever ==
    /\ os = "windows" /\ pc = "netstat"
    /\ pc' = "udp"
    /\ UNCHANGED <<hostVars, procs, open, flows, unread, next, changes, reused, spoilt>>

\* netstat has its own word for a listener, which mapWindowsState does not know.
NetstatLine ==
    [s \in Socks |-> [Entry(s, Remote[s], holder[s]) EXCEPT
                         !.state = IF Remote[s] = "none" THEN "LISTENING" ELSE @]]

\* With -p TCP, netstat lists what is IPv4.
Netstat ==
    /\ os = "windows" /\ pc = "netstat"
    /\ \/ flows' = Rows(Table({"tcp"}), NetstatLine) /\ UNCHANGED spoilt
       \/ Fails("netstat")
    /\ pc' = "udp"
    /\ UNCHANGED <<hostVars, procs, open, unread, next, changes, reused>>

\* An endpoint has no remote end here, connected or not.
UdpLine == [s \in Socks |-> Entry(s, "none", holder[s])]

PowerShellUdp ==
    /\ os = "windows" /\ pc = "udp"
    /\ \/ flows' = flows \o Rows(Table(Udp), UdpLine)
       \/ UNCHANGED flows
    /\ pc' = "names"
    /\ UNCHANGED <<hostVars, procs, open, unread, next, changes, reused, spoilt>>

\* resolveProcessNames, one Get-Process for all PIDs, if it succeeds; then the filter.
GetProcess ==
    /\ os = "windows" /\ pc = "names"
    /\ \/ flows' = Filter([i \in DOMAIN flows |-> [flows[i] EXCEPT !.process = procs[flows[i].pid]]])
       \/ flows' = Filter(flows)
    /\ pc' = "done"
    /\ UNCHANGED <<hostVars, procs, open, unread, next, changes, reused, spoilt>>

-----------------------------------------------------------------------------
(***************************************************************************)
(* macOS                                                                   *)
(***************************************************************************)
\* What lsof -F prints: a block for each process with its PID (p) and its command
\* (c), and in it for each socket the protocol, for TCP the state (T), and the
\* addresses (n).  The processes, and the sockets of each, come in any order.
Listings ==
    {order \in SetToSeqs(open) : \A i, j, k \in DOMAIN order :
        i < j /\ j < k /\ holder[order[i]] = holder[order[k]] => holder[order[j]] = holder[order[i]]}

Parsed(v, s) == [sock |-> s, remote |-> Remote[s], state |-> v.state, pid |-> v.pid, process |-> v.process]

\* Fault variant of ReadLine: the state is not reset with the process.
ReadLineKeepsState(v, line) ==
    CASE line.key = "p" -> [v EXCEPT !.pid = line.val, !.process = None]
      [] line.key = "c" -> [v EXCEPT !.process = line.val]
      [] line.key = "T" -> [v EXCEPT !.state = line.val]
      [] line.key = "n" /\ Remote[line.val] # "none" ->
            [v EXCEPT !.flows = Append(@, Parsed(v, line.val)), !.state = NoState]
      [] OTHER -> v

\* parseLsofFields, one line.  A name without an arrow is skipped before the state
\* is reset.  The protocol is the socket's own: every socket has a P line.
ReadLine(v, line) ==
    CASE line.key = "p" -> [v EXCEPT !.pid = line.val, !.process = None, !.state = NoState]
      [] line.key = "c" -> [v EXCEPT !.process = line.val]
      [] line.key = "T" -> [v EXCEPT !.state = line.val]
      [] line.key = "n" /\ Remote[line.val] # "none" ->
            [v EXCEPT !.flows = Append(@, Parsed(v, line.val)), !.state = NoState]
      [] OTHER -> v

ReadHead(v, p) == ReadLine(ReadLine(v, [key |-> "p", val |-> p]), [key |-> "c", val |-> procs[p]])

ReadSock(v, s) ==
    ReadLine(IF Proto[s] \in Tcp THEN ReadLine(v, [key |-> "T", val |-> StateOf(s)]) ELSE v,
             [key |-> "n", val |-> s])

ParseLsofFields(order) ==
    LET read[i \in 0..Len(order)] ==
            IF i = 0 THEN [pid |-> None, process |-> None, state |-> NoState, flows |-> <<>>]
            ELSE IF i > 1 /\ holder[order[i - 1]] = holder[order[i]]
                 THEN ReadSock(read[i - 1], order[i])
                 ELSE ReadSock(ReadHead(read[i - 1], holder[order[i]]), order[i])
    IN read[Len(order)].flows

Lsof ==
    /\ os = "darwin" /\ pc = "tcp"
    /\ \/ /\ \E order \in Listings : flows' = Filter(ParseLsofFields(order))
          /\ UNCHANGED spoilt
       \/ Fails("lsof")
    /\ pc' = "done"
    /\ UNCHANGED <<hostVars, procs, open, unread, next, changes, reused>>

-----------------------------------------------------------------------------
RoundNext ==
    \/ \E p \in Pids : Exit(p) \/ \E g \in Programs : Exec(p, g)
    \/ \E proto \in Protos : OtherSocket(proto) \/ ReadChunk(proto) \/ FindPid(proto)
    \/ StartNames \/ NameNext
    \/ PowerShellTcp \/ Netstat \/ PowerShellUdp \/ GetProcess
    \/ Lsof

RoundSpec == RoundInit /\ [][RoundNext]_roundVars

-----------------------------------------------------------------------------
(***************************************************************************)
(* Properties.                                                             *)
(***************************************************************************)
\* A connection is shown as that of the program that held it, or of none, unless its
\* PID was given to another process between the table and the name.
Attributed ==
    pc = "done" => \A i \in DOMAIN flows :
        flows[i].process \in {None, program[flows[i].sock]} \/ flows[i].pid \in reused

\* The ways to a connection: on Windows there are two only to TCP over IPv4.
Ways(s) ==
    CASE os = "linux"   -> {Proto[s]}
      [] os = "windows" -> IF Proto[s] = "tcp" THEN {"powershell", "netstat"} ELSE {"powershell"}
      [] os = "darwin"  -> {"lsof"}

\* A connection with a remote end, which no endpoint of UDP has on Windows, is found
\* if it stays open, and once, unless every way to it was spoilt: PowerShell, netstat
\* and lsof by failing, a table of /proc/net by failing or by changing while it is read
\* line by line.  Nothing else is found.
OpenConnectionsAreFound ==
    pc = "done" => \A s \in open :
        LET found == {i \in DOMAIN flows : flows[i].sock = s} IN
        IF Remote[s] # "peer" \/ (os = "windows" /\ Proto[s] \in Udp)
        THEN found = {}
        ELSE Ways(s) \subseteq spoilt \/ \E i \in found : found = {i}

\* A state that is handed on and is not the connection's own is that of a listener of
\* the same process: lsof has none for UDP, and parseLsofFields forgets the last one
\* with the process and with each flow, but not with a listener.
StatesAreOfTheirProcess ==
    pc = "done" => \A i \in DOMAIN flows :
        LET f == flows[i] IN
        \/ f.state = StateOf(f.sock)
        \/ /\ os = "darwin" /\ Proto[f.sock] \in Udp
           /\ \E s \in Socks : holder[s] = holder[f.sock] /\ Remote[s] = "none" /\ StateOf(s) = f.state
=============================================================================
