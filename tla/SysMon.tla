------------------------------- MODULE SysMon -------------------------------
(***************************************************************************)
(* The server's side of the system monitor: snapshots that agents post,    *)
(* the disk rows that belong to them, and the hourly cleanup.              *)
(*                                                                         *)
(* An ingest is one transaction, and it holds the process's only database  *)
(* connection until it commits: one step.  The cleanup is two statements   *)
(* outside any transaction: two steps, and ingests may come in between.    *)
(* Foreign keys are declared but not enforced (SQLite's default, which     *)
(* OpenDB does not change).  An ingest that fails stores nothing: no step. *)
(*                                                                         *)
(* The n-th snapshot ingested is called n: what it measured is left out.   *)
(***************************************************************************)
EXTENDS Integers, Sequences, FiniteSets

CONSTANTS
    Agents,        \* agent names; nothing keeps two hosts from sharing one
    Mounts,        \* mount points
    DiskLists,     \* the disks a snapshot may report: sequences of mount points
    Retention,     \* 24 h in the code
    MaxTime,       \* bound on the clock
    MaxIngests,    \* bound on the snapshots ingested
    OtherIds,      \* row ids that inserts into other tables produce
    MaxFaults,     \* bound on failed statements
    MaxRestarts    \* bound on the server's restarts

ASSUME DiskListsAssumption == DiskLists \subseteq Seq(Mounts)
ASSUME OtherIdsAssumption == OtherIds \subseteq Nat
ASSUME RetentionAssumption == Retention \in Nat
ASSUME SysMonBoundsAssumption ==
    MaxTime \in Nat \ {0} /\ MaxIngests \in Nat /\ MaxFaults \in Nat /\ MaxRestarts \in Nat

VARIABLES
    now,        \* the server's clock
    snaps,      \* sysmon_snapshots
    disks,      \* sysmon_disks
    snapId,     \* the last AUTOINCREMENT id of sysmon_snapshots
    diskId,     \* the last AUTOINCREMENT id of sysmon_disks
    lastRow,    \* the connection's last_insert_rowid
    cutoff,     \* of the cleanup between its two statements, 0 outside
    faults,
    restarts,
    \* History variables.
    posts,      \* posts[n]: the disks the n-th snapshot reported
    resent,     \* a second snapshot of an agent and a second has come
    late        \* a snapshot older than the cutoff came during a cleanup

rowVars == <<snaps, disks, snapId, diskId, lastRow>>
vars == <<now, rowVars, cutoff, faults, restarts, posts, resent, late>>

Time     == 1 .. MaxTime
Snapshot == [id : Nat, agent : Agents, time : Time, n : Nat]
Disk     == [id : Nat, snap : Nat, agent : Agents, mount : Mounts, n : Nat]

TypeOK ==
    /\ now \in Time
    /\ snaps \subseteq Snapshot
    /\ disks \subseteq Disk
    /\ snapId \in Nat /\ diskId \in Nat /\ lastRow \in Nat
    /\ cutoff \in Nat
    /\ faults \in 0 .. MaxFaults
    /\ restarts \in 0 .. MaxRestarts
    /\ posts \in Seq(DiskLists)
    /\ resent \in BOOLEAN /\ late \in BOOLEAN

Init ==
    /\ now = 1
    /\ snaps = {} /\ disks = {}
    /\ snapId = 0 /\ diskId = 0 /\ lastRow = 0
    /\ cutoff = 0
    /\ faults = 0 /\ restarts = 0
    /\ posts = <<>> /\ resent = FALSE /\ late = FALSE

Fault == faults < MaxFaults /\ faults' = faults + 1

-----------------------------------------------------------------------------
(***************************************************************************)
(* handleIngest                                                            *)
(***************************************************************************)
Received(t, D) ==
    /\ Len(posts) < MaxIngests
    /\ posts' = Append(posts, D)
    /\ late' = (late \/ t < cutoff)

Clashing(a, t) == {s \in snaps : s.agent = a /\ s.time = t}

\* The disk rows, attached to the snapshot with id sid.  Inserts that fail are
\* skipped; the last one that does not sets last_insert_rowid.
AddDisks(sid, a, D) ==
    \E kept \in SUBSET DOMAIN D :
        /\ disks' = disks \cup {[id |-> diskId + i, snap |-> sid, agent |-> a,
                                 mount |-> D[i], n |-> Len(posts) + 1] : i \in kept}
        /\ diskId' = diskId + Len(D)
        /\ \/ kept = {} /\ lastRow' = sid
           \/ \E i \in kept : (\A j \in kept : j <= i) /\ lastRow' = diskId + i
        /\ \/ kept = DOMAIN D /\ UNCHANGED faults
           \/ kept # DOMAIN D /\ Fault

\* Fault variants of Insert: no UNIQUE constraint; ids are not AUTOINCREMENT,
\* so those of deleted rows come back.
InsertAnyway(a, t, D) ==
    /\ Received(t, D)
    /\ snaps' = snaps \cup {[id |-> snapId + 1, agent |-> a, time |-> t, n |-> Len(posts) + 1]}
    /\ snapId' = snapId + 1
    /\ AddDisks(snapId + 1, a, D)
    /\ UNCHANGED <<now, cutoff, restarts, resent>>

InsertReusesIds(a, t, D) ==
    LET sid == CHOOSE i \in 1 .. snapId + 1 :
                  /\ \A s \in snaps : s.id < i
                  /\ i = 1 \/ \E s \in snaps : s.id = i - 1
    IN
    /\ Received(t, D)
    /\ Clashing(a, t) = {}
    /\ snaps' = snaps \cup {[id |-> sid, agent |-> a, time |-> t, n |-> Len(posts) + 1]}
    /\ snapId' = sid
    /\ AddDisks(sid, a, D)
    /\ UNCHANGED <<now, cutoff, restarts, resent>>

\* The first snapshot of agent a at second t.
Insert(a, t, D) ==
    /\ Received(t, D)
    /\ Clashing(a, t) = {}
    /\ snaps' = snaps \cup {[id |-> snapId + 1, agent |-> a, time |-> t, n |-> Len(posts) + 1]}
    /\ snapId' = snapId + 1
    /\ AddDisks(snapId + 1, a, D)
    /\ UNCHANGED <<now, cutoff, restarts, resent>>

\* ON CONFLICT DO UPDATE: the row keeps its id.  An update does not set
\* last_insert_rowid, so LastInsertId is that of the last insert anywhere.
Update(a, t, D) ==
    /\ Received(t, D)
    /\ \E s \in Clashing(a, t) :
          snaps' = (snaps \ {s}) \cup {[s EXCEPT !.n = Len(posts) + 1]}
    /\ AddDisks(lastRow, a, D)
    /\ resent' = TRUE
    /\ UNCHANGED <<now, snapId, cutoff, restarts>>

\* collected_at is the agent's clock, right or wrong; 0 asks for the server's.
Ingest == \E a \in Agents, t \in Time, D \in DiskLists : Insert(a, t, D) \/ Update(a, t, D)

\* Some other module inserts a row on the same connection (or an ingest of this
\* module does and is rolled back).
OtherInsert ==
    /\ lastRow' \in OtherIds
    /\ UNCHANGED <<now, snaps, disks, snapId, diskId, cutoff, faults, restarts, posts, resent,
                   late>>

-----------------------------------------------------------------------------
(***************************************************************************)
(* cleanup                                                                 *)
(***************************************************************************)
OldIds(c) == {s.id : s \in {x \in snaps : x.time < c}}

\* Nothing is older than the retention before the clock has passed it.
Begin ==
    /\ cutoff = 0
    /\ now > Retention
    /\ cutoff' = now - Retention

\* Fault variants of CleanDisks: the snapshots went first, so the subselect finds
\* none; an off-by-one at the cutoff.
CleanDisksLast ==
    /\ Begin
    /\ UNCHANGED <<now, rowVars, faults, restarts, posts, resent, late>>

CleanDisksEarly ==
    /\ Begin
    /\ disks' = {d \in disks : d.snap \notin OldIds(now - Retention + 1)}
    /\ UNCHANGED <<now, snaps, snapId, diskId, lastRow, faults, restarts, posts, resent, late>>

CleanDisks ==
    /\ Begin
    /\ disks' = {d \in disks : d.snap \notin OldIds(now - Retention)}
    /\ UNCHANGED <<now, snaps, snapId, diskId, lastRow, faults, restarts, posts, resent, late>>

\* The error is ignored: the snapshots are deleted all the same.
CleanDisksFails ==
    /\ Begin
    /\ Fault
    /\ UNCHANGED <<now, rowVars, restarts, posts, resent, late>>

\* Fault variant of CleanSnaps: the cutoff is taken for an age.
CleanSnapsByAge ==
    /\ cutoff # 0
    /\ cutoff' = 0
    /\ snaps' = {s \in snaps : now - s.time >= cutoff}
    /\ UNCHANGED <<now, disks, snapId, diskId, lastRow, faults, restarts, posts, resent, late>>

CleanSnaps ==
    /\ cutoff # 0
    /\ cutoff' = 0
    /\ snaps' = {s \in snaps : s.time >= cutoff}
    /\ UNCHANGED <<now, disks, snapId, diskId, lastRow, faults, restarts, posts, resent, late>>

CleanSnapsFails ==
    /\ cutoff # 0
    /\ cutoff' = 0
    /\ Fault
    /\ UNCHANGED <<now, rowVars, restarts, posts, resent, late>>

Cleanup == CleanDisks \/ CleanDisksFails \/ CleanSnaps \/ CleanSnapsFails

-----------------------------------------------------------------------------
\* The server stops, perhaps in the middle of a cleanup, and starts again with a
\* new connection.
Restart ==
    /\ restarts < MaxRestarts
    /\ restarts' = restarts + 1
    /\ cutoff' = 0
    /\ lastRow' = 0
    /\ UNCHANGED <<now, snaps, disks, snapId, diskId, faults, posts, resent, late>>

Tick ==
    /\ now < MaxTime
    /\ now' = now + 1
    /\ UNCHANGED <<rowVars, cutoff, faults, restarts, posts, resent, late>>

Next == Ingest \/ OtherInsert \/ Cleanup \/ Restart \/ Tick

Spec == Init /\ [][Next]_vars

\* The hourly ticker goes on for as long as the server runs.
FairSpec == Spec /\ WF_vars(Cleanup)

-----------------------------------------------------------------------------
(***************************************************************************)
(* Properties                                                              *)
(***************************************************************************)
DisksOf(s) == {d \in disks : d.snap = s.id}

\* All of the disks that the snapshot in row s reported, and no others.
Whole(s) ==
    /\ \A d \in DisksOf(s) : d.n = s.n
    /\ Cardinality(DisksOf(s)) = Len(posts[s.n])

\* There is one row for an agent and a second, as "latest per agent" needs: the
\* views join on MAX(collected_at), and a second row would show an agent twice.
OneRowPerSample ==
    \A s1, s2 \in snaps : \/ s1 = s2
                          \/ s1.id # s2.id /\ (s1.agent # s2.agent \/ s1.time # s2.time)

\* As long as no snapshot comes twice, a disk row is never shown under a snapshot
\* it did not come with, not even an orphan left by a failed or a late delete: ids
\* are not used again.
DisksStayWithTheirSnapshot ==
    ~resent => \A s \in snaps : \A d \in DisksOf(s) : d.n = s.n /\ d.agent = s.agent

\* A snapshot within the retention keeps all its disks, whatever cleanups run or
\* break off.
FreshSnapshotsAreWhole ==
    ~resent /\ faults = 0 => \A s \in snaps : s.time >= now - Retention => Whole(s)

\* A disk row without its snapshot, which no cleanup will ever find, comes from a
\* failed delete, from a snapshot sent twice or from one that came too late.
OrphansHaveACause ==
    faults = 0 /\ ~resent /\ ~late => \A d \in disks : \E s \in snaps : d.snap = s.id

\* A snapshot older than the retention is deleted in the end, whatever deletes
\* failed.
OldSnapshotsGo ==
    \A n \in 1 .. MaxIngests :
        (\E s \in snaps : s.n = n /\ s.time < now - Retention) ~> (\A s \in snaps : s.n # n)

\* "inserts (or updates, on (agent_name, collected_at) collision) the snapshot row
\* plus its per-disk children" (handleIngest): with nothing failing and nothing
\* cleaned up, each snapshot has the disks that came with it.
IngestKeepsChildren == faults = 0 => \A s \in snaps : Whole(s)
=============================================================================
