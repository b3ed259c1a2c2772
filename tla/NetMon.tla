------------------------------- MODULE NetMon -------------------------------
(***************************************************************************)
(* The network monitor: what the collectors see becomes rows of            *)
(* netmon_flows, and the server's enricher finds names for the addresses.  *)
(*                                                                         *)
(* The collector of the server writes its flows one autocommitted upsert   *)
(* at a time; an agent posts them, and the server stores a batch in one    *)
(* transaction on its only connection: one step.  An agent does not send a *)
(* batch again: the backoff of its shipper is computed and never used.     *)
(* The enricher holds nothing between its statements and lookups.          *)
(*                                                                         *)
(* The n-th collection is called n, and n stands for its second: clocks do *)
(* not go back.  A row's state is that of its last sighting: left out.     *)
(***************************************************************************)
EXTENDS Integers, Sequences, FiniteSets

CONSTANTS
    Agents, Local,  \* hosts: the agents, and the server under the name "local"
    Conns,          \* protocol, remote address and port: a flow's key with its host
    Addrs, AddrOf,  \* the remote addresses, and the one of each connection
    Names, Ptr,     \* names, and those a reverse lookup of an address may return
    Procs,          \* processes: a PID and its name
    None,           \* an empty name, an unknown process
    Batches,        \* the lists of flows a collection may return
    Limit,          \* 50 in the code
    Ttl,            \* passes for which a cache entry counts: at most 3600 s / 60 s
    MaxCollects,    \* bound on the collections
    MaxFaults       \* bound on lost requests, failed statements and restarts

Hosts == Agents \cup {Local}
Flow  == [conn : Conns, name : Names \cup {None}, proc : Procs \cup {None}]

ASSUME HostsAssumption == Local \notin Agents /\ None \notin Names \cup Procs
ASSUME AddrsAssumption == AddrOf \in [Conns -> Addrs] /\ Ptr \in [Addrs -> SUBSET Names]
ASSUME BatchesAssumption ==
    /\ Batches \subseteq Seq(Flow)
    /\ \A b \in Batches : \A i \in DOMAIN b :
          b[i].name \in Ptr[AddrOf[b[i].conn]] \cup {None}
ASSUME EnricherAssumption == Limit \in Nat \ {0} /\ Ttl \in Nat \ {0}
ASSUME NetMonBoundsAssumption == {MaxCollects, MaxFaults} \subseteq Nat

VARIABLES
    flows,      \* netmon_flows: a row for each host and connection, count 0 for none
    history,    \* netmon_hostname_history: <<host, address, name>>
    cache,      \* netmon_dns_cache: passes for which the entry still counts
    cycle,      \* the server's collector: the flows it has yet to write, and their second
    at,         \* where the enricher is
    mappings,   \* the mappings it has yet to record
    unresolved, \* the addresses it has yet to look up
    found,      \* the address it has just resolved, and the name
    collected,  \* collections so far
    waiting,    \* the number of each agent's request, 0 when it has none
    requests,   \* requests on their way to the server
    replies,    \* replies on their way back
    faults,
    \* History variable.
    sightings   \* how often each host's collector has returned a connection

passVars  == <<at, mappings, unresolved, found>>
wireVars  == <<waiting, requests, replies>>
vars == <<flows, history, cache, cycle, passVars, collected, wireVars, faults, sightings>>

Keys    == Hosts \X Conns
Mapping == Hosts \X Addrs \X Names
Row     == [count : Nat, name : Names \cup {None}, pid : Procs \cup {None},
            process : Procs \cup {None}, first : Nat, last : Nat]
Request == [agent : Agents, batch : Seq(Flow), seen : Nat \ {0}]

NoCycle == [left |-> <<>>, seen |-> 0]
NoRow   == [count |-> 0, name |-> None, pid |-> None, process |-> None, first |-> 0, last |-> 0]
Stored  == {k \in Keys : flows[k].count > 0}
Talks(h, a) == \E k \in Stored : k[1] = h /\ AddrOf[k[2]] = a

TypeOK ==
    /\ flows \in [Keys -> Row]
    /\ history \subseteq Mapping /\ mappings \subseteq Mapping
    /\ cache \in [Addrs -> 0 .. Ttl]
    /\ cycle \in [left : Seq(Flow), seen : Nat]
    /\ at \in {"idle", "mappings", "lookup", "fill", "hosts"}
    /\ unresolved \in SUBSET Addrs
    /\ at \in {"fill", "hosts"} => found[1] \in Addrs /\ found[2] \in Ptr[found[1]]
    /\ collected \in 0 .. MaxCollects
    /\ waiting \in [Agents -> 0 .. collected]
    /\ requests \subseteq Request /\ replies \subseteq 1 .. collected
    /\ faults \in 0 .. MaxFaults
    /\ sightings \in [Keys -> Nat]

Init ==
    /\ flows = [k \in Keys |-> NoRow]
    /\ history = {} /\ cache = [a \in Addrs |-> 0]
    /\ cycle = NoCycle
    /\ at = "idle" /\ mappings = {} /\ unresolved = {} /\ found = <<>>
    /\ collected = 0 /\ sightings = [k \in Keys |-> 0]
    /\ waiting = [h \in Agents |-> 0] /\ requests = {} /\ replies = {}
    /\ faults = 0

Fault == faults < MaxFaults /\ faults' = faults + 1

-----------------------------------------------------------------------------
(***************************************************************************)
(* The two upserts, for the flows I of batch b that are of one connection  *)
(***************************************************************************)
\* The last of the values of f on I that is not empty, or old.
LastKnown(f, I, old) ==
    LET known == {i \in I : f[i] # None} IN
    IF known = {} THEN old ELSE f[CHOOSE i \in known : \A j \in known : j <= i]

\* Fault variants of Merged: an empty name overwrites; hostname and process in the
\* wrong places of the VALUES list.
MergedOverwrites(row, b, seen, I) ==
    LET last == CHOOSE i \in I : \A j \in I : j <= i IN
    [count |-> row.count + Cardinality(I), name |-> b[last].name, pid |-> b[last].proc,
     process |-> b[last].proc, first |-> IF row.count = 0 THEN seen ELSE row.first, last |-> seen]

MergedSwapped(row, b, seen, I) ==
    [count   |-> row.count + Cardinality(I),
     name    |-> LastKnown([i \in I |-> b[i].proc], I, row.name),
     pid     |-> row.pid,
     process |-> LastKnown([i \in I |-> b[i].name], I, row.process),
     first   |-> IF row.count = 0 THEN seen ELSE row.first,
     last    |-> seen]

\* handleIngest: COALESCE(NULLIF(excluded.hostname, ''), hostname), and the same for the
\* process; the pid stays that of the first sighting.
Merged(row, b, seen, I) ==
    LET first == CHOOSE i \in I : \A j \in I : i <= j IN
    [count   |-> row.count + Cardinality(I),
     name    |-> LastKnown([i \in I |-> b[i].name], I, row.name),
     pid     |-> IF row.count = 0 THEN b[first].proc ELSE row.pid,
     process |-> LastKnown([i \in I |-> b[i].proc], I, row.process),
     first   |-> IF row.count = 0 THEN seen ELSE row.first,
     last    |-> seen]

\* collectAndStore: COALESCE(excluded.hostname, hostname), where what is excluded is
\* never NULL, at most empty.
Overwritten(row, f, seen) ==
    [count |-> row.count + 1, name |-> f.name, pid |-> f.proc, process |-> f.proc,
     first |-> IF row.count = 0 THEN seen ELSE row.first, last |-> seen]

Of(b, c) == {i \in DOMAIN b : b[i].conn = c}

Sighted(h, b) == [k \in Keys |-> sightings[k] + IF k[1] = h THEN Cardinality(Of(b, k[2])) ELSE 0]

-----------------------------------------------------------------------------
(***************************************************************************)
(* The server's own collector (collectAndStore)                            *)
(***************************************************************************)
Collect ==
    /\ cycle.left = <<>>
    /\ collected < MaxCollects
    /\ collected' = collected + 1
    /\ \E b \in Batches :
          /\ cycle' = [left |-> b, seen |-> collected + 1]
          /\ sightings' = Sighted(Local, b)
    /\ UNCHANGED <<flows, history, cache, passVars, wireVars, faults>>

\* A flow whose upsert fails is skipped.
Store ==
    LET f == Head(cycle.left) IN
    /\ cycle.left # <<>>
    /\ cycle' = [cycle EXCEPT !.left = Tail(@)]
    /\ \/ /\ flows' = [flows EXCEPT ![<<Local, f.conn>>] = Overwritten(@, f, cycle.seen)]
          /\ UNCHANGED faults
       \/ Fault /\ UNCHANGED flows
    /\ UNCHANGED <<history, cache, passVars, collected, wireVars, sightings>>

-----------------------------------------------------------------------------
(***************************************************************************)
(* An agent's shipper (runAgent, SendFlows)                                *)
(***************************************************************************)
Post(h, b) ==
    /\ collected' = collected + 1
    /\ waiting' = [waiting EXCEPT ![h] = collected + 1]
    /\ requests' = requests \cup {[agent |-> h, batch |-> b, seen |-> collected + 1]}
    /\ sightings' = Sighted(h, b)

\* Fault variant of Send: a goroutine of its own for each batch.
SendAtOnce(h) ==
    /\ collected < MaxCollects
    /\ \E b \in Batches : b # <<>> /\ Post(h, b)
    /\ UNCHANGED <<flows, history, cache, cycle, passVars, replies, faults>>

\* No request goes out for a collection that returns nothing.
Send(h) ==
    /\ waiting[h] = 0
    /\ collected < MaxCollects
    /\ \E b \in Batches : b # <<>> /\ Post(h, b)
    /\ UNCHANGED <<flows, history, cache, cycle, passVars, replies, faults>>

GetReply(h) ==
    /\ waiting[h] \in replies
    /\ replies' = replies \ {waiting[h]}
    /\ waiting' = [waiting EXCEPT ![h] = 0]
    /\ UNCHANGED <<flows, history, cache, cycle, passVars, collected, requests,
                   faults, sightings>>

\* Fault variant of TimeOut: the batch is posted again, as the backoff of the
\* shipper seems meant for.
TimeOutRetries(h) ==
    /\ waiting[h] # 0
    /\ Fault
    /\ collected' = collected + 1
    /\ waiting' = [waiting EXCEPT ![h] = collected + 1]
    /\ requests' = requests \cup
          {[r EXCEPT !.seen = collected + 1] : r \in {q \in requests : q.seen = waiting[h]}}
    /\ UNCHANGED <<flows, history, cache, cycle, passVars, replies, sightings>>

\* The client gives up after 30 seconds, or the agent stops and starts again: the
\* batch is gone from the agent, but the server may still be about to store it.
TimeOut(h) ==
    /\ waiting[h] # 0
    /\ Fault
    /\ waiting' = [waiting EXCEPT ![h] = 0]
    /\ UNCHANGED <<flows, history, cache, cycle, passVars, collected, requests, replies,
                   sightings>>

\* The connection breaks: the request or the reply is lost.
Break(h) ==
    /\ waiting[h] # 0
    /\ Fault
    /\ requests' = {r \in requests : r.seen # waiting[h]}
    /\ replies' = replies \ {waiting[h]}
    /\ waiting' = [waiting EXCEPT ![h] = 0]
    /\ UNCHANGED <<flows, history, cache, cycle, passVars, collected,
                   sightings>>

-----------------------------------------------------------------------------
(***************************************************************************)
(* handleIngest.  Requests that wait for the connection are served in no   *)
(* fixed order.  An INSERT that fails is skipped; a Begin or a commit that *)
(* fails stores nothing, and the agent gets an answer all the same.        *)
(***************************************************************************)
Ingest(r) ==
    /\ requests' = requests \ {r}
    /\ replies' = replies \cup {r.seen}
    /\ \E kept \in SUBSET DOMAIN r.batch :
          /\ flows' = [k \in Keys |->
                         LET I == Of(r.batch, k[2]) \cap kept IN
                         IF k[1] = r.agent /\ I # {} THEN Merged(flows[k], r.batch, r.seen, I)
                                                     ELSE flows[k]]
          /\ IF kept = DOMAIN r.batch THEN UNCHANGED faults ELSE Fault
    /\ UNCHANGED <<history, cache, cycle, passVars, collected, waiting,
                   sightings>>

-----------------------------------------------------------------------------
(***************************************************************************)
(* One pass of the enricher (enrichHostnames)                              *)
(***************************************************************************)
\* Fault variant of Mapped: only what the server itself has seen.
MappedLocally ==
    {<<k[1], AddrOf[k[2]], flows[k].name>> : k \in {j \in Stored : j[1] = Local /\ flows[j].name # None}}

Mapped == {<<k[1], AddrOf[k[2]], flows[k].name>> : k \in {j \in Stored : flows[j].name # None}}

\* The ages of cache entries are measured from the start of a pass.
BeginPass ==
    /\ at = "idle"
    /\ at' = "mappings"
    /\ mappings' = Mapped
    /\ cache' = [a \in Addrs |-> IF cache[a] = 0 THEN 0 ELSE cache[a] - 1]
    /\ UNCHANGED <<flows, history, cycle, unresolved, found, collected, wireVars, faults,
                   sightings>>

\* An upsert into netmon_hostname_history, of a mapping read before; one that
\* fails is skipped.
Record ==
    /\ \E m \in mappings :
          /\ mappings' = mappings \ {m}
          /\ \/ history' = history \cup {m} /\ UNCHANGED faults
             \/ Fault /\ UNCHANGED history
    /\ UNCHANGED <<flows, cache, cycle, at, unresolved, found, collected, wireVars,
                   sightings>>

Nameless(a) == \E k \in Stored : AddrOf[k[2]] = a /\ flows[k].name = None
Untried     == {a \in Addrs : Nameless(a) /\ cache[a] = 0}

\* SELECT ... LIMIT 50, in an order that is SQLite's.
FindUnresolved ==
    /\ at = "mappings" /\ mappings = {}
    /\ at' = "lookup"
    /\ \E A \in SUBSET Untried :
          /\ Cardinality(A) <= Limit
          /\ Cardinality(A) = Limit \/ A = Untried
          /\ unresolved' = A
    /\ UNCHANGED <<flows, history, cache, cycle, mappings, found, collected, wireVars, faults,
                   sightings>>

\* Fault variant of LookUp: a lookup that fails is not worth an entry.
LookUpCachesNames ==
    /\ at = "lookup" /\ mappings = {}
    /\ \E a \in unresolved : \E n \in Ptr[a] \cup {None} :
          /\ unresolved' = unresolved \ {a}
          /\ cache' = IF n = None THEN cache ELSE [cache EXCEPT ![a] = Ttl]
          /\ found' = IF n = None THEN <<>> ELSE <<a, n>>
          /\ at' = IF n = None THEN "lookup" ELSE "fill"
    /\ UNCHANGED <<flows, history, cycle, mappings, collected, wireVars, faults, sightings>>

\* The lookup, and the upsert of its result, found or not, into the cache.
LookUp ==
    /\ at = "lookup" /\ mappings = {}
    /\ \E a \in unresolved : \E n \in Ptr[a] \cup {None} :
          /\ unresolved' = unresolved \ {a}
          /\ \/ cache' = [cache EXCEPT ![a] = Ttl] /\ UNCHANGED faults
             \/ Fault /\ UNCHANGED cache
          /\ found' = IF n = None THEN <<>> ELSE <<a, n>>
          /\ at' = IF n = None THEN "lookup" ELSE "fill"
    /\ UNCHANGED <<flows, history, cycle, mappings, collected, wireVars, sightings>>

\* UPDATE netmon_flows SET hostname, where it is still empty.
Fill ==
    /\ at = "fill"
    /\ at' = "hosts"
    /\ \/ /\ flows' = [k \in Keys |->
                        IF k \in Stored /\ AddrOf[k[2]] = found[1] /\ flows[k].name = None
                        THEN [flows[k] EXCEPT !.name = found[2]] ELSE flows[k]]
          /\ UNCHANGED faults
       \/ Fault /\ UNCHANGED flows
    /\ UNCHANGED <<history, cache, cycle, mappings, unresolved, found, collected, wireVars,
                   sightings>>

\* Fault variant of ReadHosts: the agents of all addresses.
ReadAllHosts ==
    /\ at = "hosts"
    /\ at' = "lookup"
    /\ mappings' = {<<h, found[1], found[2]>> : h \in {k[1] : k \in Stored}}
    /\ found' = <<>>
    /\ UNCHANGED <<flows, history, cache, cycle, unresolved, collected, wireVars, faults,
                   sightings>>

\* The hosts that have talked to the address; none if the query fails.
ReadHosts ==
    /\ at = "hosts"
    /\ at' = "lookup"
    /\ \/ /\ mappings' = {<<h, found[1], found[2]>> : h \in {g \in Hosts : Talks(g, found[1])}}
          /\ UNCHANGED faults
       \/ Fault /\ UNCHANGED mappings
    /\ found' = <<>>
    /\ UNCHANGED <<flows, history, cache, cycle, unresolved, collected, wireVars,
                   sightings>>

\* After the last address, or when one of the two big queries fails.
EndPass ==
    /\ mappings = {}
    /\ \/ at = "lookup" /\ unresolved = {} /\ UNCHANGED faults
       \/ at = "mappings" /\ Fault
    /\ at' = "idle"
    /\ UNCHANGED <<flows, history, cache, cycle, mappings, unresolved, found, collected, wireVars,
                   sightings>>

-----------------------------------------------------------------------------
\* The server stops, in the middle of a cycle and a pass, and starts again with
\* what its tables hold.  The agents' connections break.
Restart ==
    /\ Fault
    /\ cycle' = NoCycle
    /\ at' = "idle" /\ mappings' = {} /\ unresolved' = {} /\ found' = <<>>
    /\ requests' = {} /\ replies' = {}
    /\ waiting' = [h \in Agents |-> 0]
    /\ UNCHANGED <<flows, history, cache, collected, sightings>>

Collector == Collect \/ Store
Shipper(h) == Send(h) \/ GetReply(h) \/ TimeOut(h) \/ Break(h)
Server == \E r \in requests : Ingest(r)
Enricher ==
    BeginPass \/ Record \/ FindUnresolved \/ LookUp \/ Fill \/ ReadHosts \/ EndPass

Next ==
    \/ Collector \/ Server \/ Enricher \/ Restart
    \/ \E h \in Agents : Shipper(h)

Spec == Init /\ [][Next]_vars

\* The enricher's ticker goes on, and each lookup ends.  Nothing makes a collector
\* see anything.
FairSpec == Spec /\ WF_vars(Enricher)

-----------------------------------------------------------------------------
(***************************************************************************)
(* Properties                                                              *)
(***************************************************************************)
\* The flows of connection c in the requests of host h that are on their way.
Waiting(h, c) ==
    UNION {{<<r, i>> : i \in Of(r.batch, c)} : r \in {q \in requests : q.agent = h}}

\* What is on its way for row k.
Pending(k) ==
    IF k[1] = Local THEN Cardinality(Of(cycle.left, k[2])) ELSE Cardinality(Waiting(k[1], k[2]))

\* The count of a row never exceeds how often its host's collector saw the
\* connection, and without faults it falls short by what is on its way
\* only: no timeout makes the server count a batch twice.
CountsAreSightings ==
    \A k \in Keys :
        /\ flows[k].count + Pending(k) <= sightings[k]
        /\ faults = 0 => flows[k].count + Pending(k) = sightings[k]

\* A row forgets its hostname or its process only where collectAndStore sees a
\* connection of the server again without them, in spite of its comment: never by a
\* batch of an agent, and never by the enricher.
RowsForgetOnlyLocally ==
    [][\A k \in Keys :
          (\/ flows[k].name # None /\ flows'[k].name = None
           \/ flows[k].process # None /\ flows'[k].process = None)
          => k[1] = Local /\ flows'[k].count > flows[k].count]_vars

\* last_seen goes back only when the server stores a batch after a later one, and
\* then the agent has given the earlier one up: some request timed out.
LastSeenAdvances ==
    [][\A k \in Keys : flows'[k].last < flows[k].last =>
          /\ faults > 0
          /\ \E r \in requests \ requests' : r.agent = k[1] /\ r.seen # waiting[k[1]]]_vars

\* More addresses lack a name than are looked up while an entry of the cache counts:
\* Limit in each of Ttl passes.
Crowded == Cardinality({a \in Addrs : Nameless(a)}) > Limit * Ttl

\* An address without a name is looked up in the end, though only Limit are in one
\* pass, unless it has got a name, the flow is seen with one, or there are too many:
\* lookups that fail are remembered, and do not crowd out the others.
EveryAddressIsTried ==
    \A a \in Addrs : Nameless(a) ~> (cache[a] > 0 \/ ~Nameless(a) \/ Crowded)
=============================================================================
