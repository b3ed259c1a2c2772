----------------------------- MODULE FlowViews -----------------------------
(***************************************************************************)
(* What the API shows of the tables of NetMon: the flow list, top hosts    *)
(* and ports, the counters, the agents, the topology graph and the         *)
(* hostname history.  Each is one query, for all hosts or for one; the     *)
(* counters of handleStats are a query each.  A list that is cut at its    *)
(* LIMIT has the largest entries, of equal ones any: it is modelled by the *)
(* set of the lists it may be.  The protocol and search filters, and the   *)
(* order of the rows of a list, are left out.                              *)
(***************************************************************************)
EXTENDS NetMon, FiniteSetsExt

CONSTANTS
    Proto, Port,           \* the protocol and the remote port of a connection
    MaxFlows,              \* the flow list: 200 in the code, or up to 1000 if asked
    MaxTop,                \* top hosts: 20, or up to 100 if asked
    TopLimit,              \* top ports: 20
    GraphLimit             \* edges of the graph: 500

ASSUME LimitsAssumption == {MaxFlows, MaxTop, TopLimit, GraphLimit} \subseteq Nat \ {0}

Sum(f) == MapThenSumSet(LAMBDA x : f[x], DOMAIN f)

\* The rows of the hosts H: of all, or of the one in the query's agent parameter.
Rows(H) == {k \in Stored : k[1] \in H}

\* SUM(count), and GROUP BY: key says of each row which group it is in.
Total(K) == Sum([k \in K |-> flows[k].count])
GroupBy(key) ==
    [g \in {key[k] : k \in DOMAIN key} |-> Total({k \in DOMAIN key : key[k] = g})]

\* ORDER BY f DESC LIMIT n: all of f, or n entries of which none is smaller than
\* one that is left out.
Largest(f, n) ==
    IF Cardinality(DOMAIN f) <= n THEN {f}
    ELSE {[g \in C |-> f[g]] :
             C \in {D \in SUBSET DOMAIN f :
                      Cardinality(D) = n /\ \A d \in D, g \in DOMAIN f \ D : f[g] <= f[d]}}

-----------------------------------------------------------------------------
ListFlows(H, limit) == Largest([k \in Rows(H) |-> flows[k].last], limit)

\* COALESCE(NULLIF(hostname, ''), remote_ip)
Target(k) == IF flows[k].name = None THEN AddrOf[k[2]] ELSE flows[k].name

\* Fault variant of TopHosts: no NULLIF, so all nameless flows are one host's.
TopHostsByName(H, limit) == Largest(GroupBy([k \in Rows(H) |-> flows[k].name]), limit)

TopHosts(H, limit) == Largest(GroupBy([k \in Rows(H) |-> Target(k)]), limit)

TopPorts(H) == Largest(GroupBy([k \in Rows(H) |-> Port[k[2]]]), TopLimit)

Stats(H) ==
    [flows  |-> Cardinality(Rows(H)),
     hosts  |-> Cardinality({Target(k) : k \in Rows(H)}),
     agents |-> IF H = Hosts THEN Cardinality({k[1] : k \in Stored}) ELSE 1]

\* handleAgents: a host's flows, and its last sighting.
AgentRows ==
    [h \in {k[1] : k \in Stored} |->
        [flows |-> Cardinality(Rows({h})), last |-> Max({flows[k].last : k \in Rows({h})})]]

-----------------------------------------------------------------------------
(***************************************************************************)
(* handleGraph: edges by (agent, target, port, proto), and nodes in the    *)
(* order in which the edges, the largest first, mention them.  Nodes are   *)
(* told apart by their id alone.  E is what is left of the edges.          *)
(***************************************************************************)
Edges(H) ==
    Largest(GroupBy([k \in Rows(H) |-> <<k[1], Target(k), Port[k[2]], Proto[k[2]]>>]), GraphLimit)

Mentions(E, id) == {e \in DOMAIN E : id \in {e[1], e[2]}}

\* What node id may say it is: the first edge that mentions it decides, and of edges
\* with one total any may come first.
NodeTypes(E, id) ==
    {IF e[1] = id THEN "agent" ELSE "host" :
        e \in {d \in Mentions(E, id) : \A c \in Mentions(E, id) : E[c] <= E[d]}}

\* An edge adds its total to its source and to its target.
NodeSize(E, id) ==
    Sum([e \in Mentions(E, id) |-> IF e[1] = id /\ e[2] = id THEN 2 * E[e] ELSE E[e]])

NodeIds(E) == UNION {{e[1], e[2]} : e \in DOMAIN E}

-----------------------------------------------------------------------------
\* handleHostnameLookup: the mappings of an address, over all hosts.
HostnameLookup(a) == {m \in history : m[2] = a}

\* Each a query of its own over the history of the hosts H.
HostnameStats(H) ==
    LET M == {m \in history : m[1] \in H} IN
    [mappings |-> Cardinality(M),
     ips      |-> Cardinality({m[2] : m \in M}),
     names    |-> Cardinality({m[3] : m \in M})]

-----------------------------------------------------------------------------
(***************************************************************************)
(* Properties                                                              *)
(***************************************************************************)
\* What the collectors of the hosts H have seen: from host id, to a target that id
\* is the address or a looked-up name of, and on a port.
Seen(H)         == {k \in H \X Conns : sightings[k] > 0}
SeenFrom(H, id) == {k \in Seen(H) : k[1] = id}
SeenTo(H, id)   == {k \in Seen(H) : id \in {AddrOf[k[2]]} \cup Ptr[AddrOf[k[2]]]}
SeenOn(H, port) == {k \in Seen(H) : Port[k[2]] = port}

Sightings(K) == Sum([k \in K |-> sightings[k]])

\* Nothing that the hosts H saw is lost or on its way.
AllStored(H) == faults = 0 /\ \A k \in Seen(H) : Pending(k) = 0

\* The flow list and the tops credit no target and no port with more than was seen
\* of it, whatever names the enricher has filled in; and where a list is shorter
\* than its limit, no sighting is missing from it.
ListsShowSightings(H) ==
    /\ \A limit \in 1 .. MaxFlows : \A L \in ListFlows(H, limit) :
          /\ DOMAIN L \subseteq Seen(H)
          /\ AllStored(H) /\ Cardinality(DOMAIN L) < limit => DOMAIN L = Seen(H)
    /\ \A limit \in 1 .. MaxTop : \A T \in TopHosts(H, limit) :
          /\ \A n \in DOMAIN T : T[n] <= Sightings(SeenTo(H, n))
          /\ AllStored(H) /\ Cardinality(DOMAIN T) < limit => Sum(T) = Sightings(Seen(H))
    /\ \A T \in TopPorts(H) :
          /\ \A n \in DOMAIN T : T[n] <= Sightings(SeenOn(H, n))
          /\ AllStored(H) /\ Cardinality(DOMAIN T) < TopLimit => Sum(T) = Sightings(Seen(H))

\* A node of the graph is no larger than what was seen from and to it, even where an
\* agent and a target share it, and it is called an agent or a host only if it is
\* one; a graph that is not cut has every sighting at both of its ends.
GraphShowsSightings(H) ==
    \A E \in Edges(H) :
        /\ \A id \in NodeIds(E) :
              /\ NodeSize(E, id) <= Sightings(SeenFrom(H, id)) + Sightings(SeenTo(H, id))
              /\ "agent" \in NodeTypes(E, id) => SeenFrom(H, id) # {}
              /\ "host" \in NodeTypes(E, id) => SeenTo(H, id) # {}
        /\ AllStored(H) /\ Cardinality(DOMAIN E) < GraphLimit =>
              Sum([id \in NodeIds(E) |-> NodeSize(E, id)]) = 2 * Sightings(Seen(H))

\* The counters count nothing that was not seen.
CountersCountSightings(H) ==
    /\ Stats(H).flows <= Cardinality(Seen(H)) /\ Stats(H).hosts <= Cardinality(Seen(H))
    /\ AllStored(H) => Stats(H).flows = Cardinality(Seen(H))
    /\ Stats(Hosts).agents <= Cardinality({k[1] : k \in Seen(Hosts)})
    /\ \A h \in DOMAIN AgentRows : AgentRows[h].flows <= Cardinality(Seen({h}))
    /\ HostnameStats(H).ips <= Cardinality({AddrOf[k[2]] : k \in Seen(H)})

\* The API shows what the hosts' collectors saw, for all of them or for one: never
\* more, and not less unless it is cut, lost or on its way.
ViewsShowSightings ==
    \A H \in {Hosts} \cup {{h} : h \in Hosts} :
        ListsShowSightings(H) /\ GraphShowsSightings(H) /\ CountersCountSightings(H)

\* The hostname history says that a host talked to an address under a name only if
\* it did, and if a lookup of that address returned that name.
HistoryIsBacked ==
    \A a \in Addrs : \A m \in HostnameLookup(a) : Talks(m[1], a) /\ m[3] \in Ptr[a]

\* A flow of the host of m has the address and the name of m.
Shown(m) ==
    \E k \in Rows({m[1]}) : AddrOf[k[2]] = m[2] /\ flows[k].name = m[3]

\* A name that a flow has is in the history in the end, for the host that talked to
\* it, or the flow has it no longer.
NamesReachHistory ==
    \A m \in {n \in Mapping : n[3] \in Ptr[n[2]]} :
        Shown(m) ~> (m \in HostnameLookup(m[2]) \/ ~Shown(m))
=============================================================================
