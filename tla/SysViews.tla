------------------------------- MODULE SysViews -----------------------------
(***************************************************************************)
(* What the pages of the system monitor and the dashboard show of the      *)
(* tables of SysMon.  Each is one query, asked with or without an agent.   *)
(***************************************************************************)
EXTENDS SysMon, SequencesExt

CONSTANT Recent   \* how long an agent counts as online: 5 minutes in the code

ASSUME RecentAssumption == Recent \in 0 .. Retention

Reporting == {s.agent : s \in snaps}
SnapsOf(a) == {s \in snaps : s.agent = a}

\* MAX(collected_at) for each agent, joined with the table.
Latest == {s \in snaps : \A o \in SnapsOf(s.agent) : o.time <= s.time}

\* ORDER BY collected_at DESC LIMIT 1
LatestOf(a) ==
    IF a \in Reporting THEN {CHOOSE s \in SnapsOf(a) : \A o \in SnapsOf(a) : o.time <= s.time} ELSE {}

\* handleHistory, oldest first.
HistoryOf(a, since) ==
    CHOOSE points \in SetToSeqs({s \in SnapsOf(a) : s.time >= since}) :
        \A i, j \in DOMAIN points : i < j => points[i].time <= points[j].time

\* handleDisks joins on the id of the snapshot, whatever agent the disk row names.
LatestDisks      == {d \in disks : \E s \in Latest : d.snap = s.id}
LatestDisksOf(a) == {d \in disks : \E s \in LatestOf(a) : d.snap = s.id}

\* handleAgents, and the two counts of the dashboard.
AgentInfos ==
    {[name |-> a, snapshots |-> Cardinality(SnapsOf(a)),
      active |-> (CHOOSE s \in Latest : s.agent = a).time] : a \in Reporting}

AgentCount   == Cardinality(Reporting)
AgentsOnline == Cardinality({s.agent : s \in {x \in snaps : x.time >= now - Recent}})

-----------------------------------------------------------------------------
\* The overview and the pages of the agents tell the same: an agent is shown once,
\* as the last point of its chart, with the disks of that snapshot; it is counted
\* as online if that snapshot is recent.  The views rely on there being one row for
\* an agent and a second.
AgentsAreShownOnce ==
    /\ \A a \in Agents :
          /\ LatestOf(a) = {s \in Latest : s.agent = a}
          /\ LET points == HistoryOf(a, now - Recent) IN
             points # <<>> => Last(points) \in Latest
    /\ LatestDisks = UNION {LatestDisksOf(a) : a \in Agents}
    /\ AgentCount = Cardinality(Latest) /\ AgentCount = Cardinality(AgentInfos)
    /\ AgentsOnline = Cardinality({i \in AgentInfos : i.active >= now - Recent})
=============================================================================
