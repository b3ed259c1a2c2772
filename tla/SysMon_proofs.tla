---------------------------- MODULE SysMon_proofs ---------------------------
(***************************************************************************)
(* Proofs about SysMon and SysViews: the types, one row for each sample,   *)
(* disk rows that stay with their snapshot, the causes of orphans, fresh   *)
(* snapshots that have all their disks, and views that show an agent once. *)
(*                                                                         *)
(* The invariant IInv adds what makes the first ones inductive: ids of     *)
(* snapshots never exceed the AUTOINCREMENT counter, and while a cleanup   *)
(* is between its two statements no disk row is left under a snapshot it   *)
(* is about to delete.  Whole snapshots need FreshInv, the views need one  *)
(* row for each sample in a finite table.                                  *)
(***************************************************************************)
EXTENDS SysViews, FiniteSetTheorems, WellFoundedInduction, TLAPS

\* Ids below the counter are spent: the next snapshot has one of its own.
IdInv ==
    /\ OneRowPerSample
    /\ \A s \in snaps : s.id <= snapId

\* No disk row waits for a snapshot that is still to come.
StayInv ==
    /\ DisksStayWithTheirSnapshot
    /\ ~resent => \A d \in disks : d.snap <= snapId

\* Between the statements of a cleanup, disk rows have snapshots that stay.
OrphanInv ==
    faults = 0 /\ ~resent /\ ~late =>
        \A d \in disks : \E s \in snaps : d.snap = s.id /\ s.time >= cutoff

IInv == TypeOK /\ IdInv /\ StayInv /\ OrphanInv

-----------------------------------------------------------------------------
(***************************************************************************)
(* Facts about the actions.                                                *)
(***************************************************************************)
\* What AddDisks adds: rows of the snapshot it is given.
LEMMA Added ==
    ASSUME TypeOK, NEW a \in Agents, NEW sid \in Nat, NEW D \in DiskLists,
           AddDisks(sid, a, D)
    PROVE  /\ disks' \subseteq Disk
           /\ diskId' \in Nat /\ lastRow' \in Nat /\ faults' \in 0 .. MaxFaults
           /\ faults' = 0 => faults = 0
           /\ \A d \in disks' : \/ d \in disks
                                \/ d.snap = sid /\ d.agent = a /\ d.n = Len(posts) + 1
  <1>0. /\ D \in Seq(Mounts) /\ posts \in Seq(DiskLists)
        /\ diskId \in Nat /\ disks \subseteq Disk
        /\ faults \in 0 .. MaxFaults /\ MaxFaults \in Nat
    BY DiskListsAssumption, SysMonBoundsAssumption DEF TypeOK
  <1>1. PICK kept \in SUBSET DOMAIN D :
            /\ disks' = disks \cup {[id |-> diskId + i, snap |-> sid, agent |-> a,
                                     mount |-> D[i], n |-> Len(posts) + 1] : i \in kept}
            /\ diskId' = diskId + Len(D)
            /\ \/ kept = {} /\ lastRow' = sid
               \/ \E i \in kept : (\A j \in kept : j <= i) /\ lastRow' = diskId + i
            /\ \/ kept = DOMAIN D /\ UNCHANGED faults
               \/ kept # DOMAIN D /\ Fault
    BY DEF AddDisks
  <1>2. kept \subseteq 1 .. Len(D) /\ Len(D) \in Nat /\ Len(posts) \in Nat
    BY <1>0, <1>1
  <1>3. \A i \in kept : D[i] \in Mounts /\ diskId + i \in Nat
    BY <1>0, <1>2
  <1>4. disks' \subseteq Disk
    BY <1>0, <1>1, <1>2, <1>3 DEF Disk
  <1>5. diskId' \in Nat
    BY <1>0, <1>1, <1>2
  <1>6. lastRow' \in Nat
    BY <1>1, <1>3
  <1>7. faults' \in 0 .. MaxFaults /\ (faults' = 0 => faults = 0)
    BY <1>0, <1>1 DEF Fault
  <1>8. QED
    BY <1>1, <1>4, <1>5, <1>6, <1>7

LEMMA TypeInit == Init => TypeOK
  <1> SUFFICES ASSUME Init PROVE TypeOK
    OBVIOUS
  <1>1. now \in Time /\ faults \in 0 .. MaxFaults /\ restarts \in 0 .. MaxRestarts
    BY SysMonBoundsAssumption DEF Init, Time
  <1>2. posts \in Seq(DiskLists)
    BY DEF Init
  <1>3. snaps \subseteq Snapshot /\ disks \subseteq Disk
    BY DEF Init
  <1>4. resent \in BOOLEAN /\ late \in BOOLEAN
    BY Zenon DEF Init
  <1>5. QED
    BY <1>1, <1>2, <1>3, <1>4 DEF Init, TypeOK

LEMMA TypeStep == TypeOK /\ [Next]_vars => TypeOK'
  <1> SUFFICES ASSUME TypeOK, [Next]_vars PROVE TypeOK'
    OBVIOUS
  <1>0. /\ now \in Time /\ snapId \in Nat /\ snaps \subseteq Snapshot
        /\ posts \in Seq(DiskLists) /\ late \in BOOLEAN /\ cutoff \in Nat
        /\ faults \in 0 .. MaxFaults /\ restarts \in 0 .. MaxRestarts
        /\ disks \subseteq Disk /\ lastRow \in Nat /\ diskId \in Nat /\ resent \in BOOLEAN
        /\ MaxFaults \in Nat /\ MaxRestarts \in Nat /\ MaxTime \in Nat \ {0}
        /\ Retention \in Nat
    BY SysMonBoundsAssumption, RetentionAssumption DEF TypeOK
  <1>1. ASSUME NEW t \in Time, NEW D \in DiskLists, Received(t, D)
        PROVE  posts' \in Seq(DiskLists) /\ late' \in BOOLEAN
    <2>1. posts' \in Seq(DiskLists)
      BY <1>0, <1>1 DEF Received
    <2>2. late' \in BOOLEAN
      BY <1>0, <1>1, Zenon DEF Received
    <2>3. QED
      BY <2>1, <2>2
  <1>2. ASSUME NEW a \in Agents, NEW t \in Time, NEW D \in DiskLists, Insert(a, t, D)
        PROVE  TypeOK'
    <2>1. posts' \in Seq(DiskLists) /\ late' \in BOOLEAN
      BY <1>1, <1>2 DEF Insert
    <2>2. /\ disks' \subseteq Disk
          /\ diskId' \in Nat /\ lastRow' \in Nat /\ faults' \in 0 .. MaxFaults
      BY <1>0, <1>2, Added DEF Insert
    <2>3. snaps' \subseteq Snapshot /\ snapId' \in Nat
      BY <1>0, <1>2 DEF Insert, Snapshot
    <2>4. UNCHANGED <<now, cutoff, restarts, resent>>
      BY <1>2 DEF Insert
    <2>5. QED
      BY <1>0, <2>1, <2>2, <2>3, <2>4 DEF TypeOK
  <1>3. ASSUME NEW a \in Agents, NEW t \in Time, NEW D \in DiskLists, Update(a, t, D)
        PROVE  TypeOK'
    <2>1. posts' \in Seq(DiskLists) /\ late' \in BOOLEAN
      BY <1>1, <1>3 DEF Update
    <2>2. /\ disks' \subseteq Disk
          /\ diskId' \in Nat /\ lastRow' \in Nat /\ faults' \in 0 .. MaxFaults
      BY <1>0, <1>3, Added DEF Update
    <2>3. snaps' \subseteq Snapshot
      BY <1>0, <1>3 DEF Update, Snapshot, Clashing
    <2>4. UNCHANGED <<now, snapId, cutoff, restarts>> /\ resent' \in BOOLEAN
      BY <1>3 DEF Update
    <2>5. QED
      BY <1>0, <2>1, <2>2, <2>3, <2>4 DEF TypeOK
  <1>4. CASE OtherInsert
    BY <1>0, <1>4, OtherIdsAssumption DEF OtherInsert, TypeOK
  <1>5. CASE CleanDisks \/ CleanDisksFails
    <2>1. cutoff' \in Nat
      BY <1>0, <1>5 DEF CleanDisks, CleanDisksFails, Begin, Time
    <2>2. disks' \subseteq Disk /\ faults' \in 0 .. MaxFaults
      BY <1>0, <1>5 DEF CleanDisks, CleanDisksFails, Fault, rowVars
    <2>3. QED
      BY <1>0, <1>5, <2>1, <2>2 DEF CleanDisks, CleanDisksFails, rowVars, TypeOK
  <1>6. CASE CleanSnaps \/ CleanSnapsFails
    <2>1. snaps' \subseteq Snapshot /\ faults' \in 0 .. MaxFaults
      BY <1>0, <1>6 DEF CleanSnaps, CleanSnapsFails, Fault, rowVars
    <2>2. QED
      BY <1>0, <1>6, <2>1 DEF CleanSnaps, CleanSnapsFails, rowVars, TypeOK
  <1>7. CASE Restart
    BY <1>0, <1>7 DEF Restart, TypeOK
  <1>8. CASE Tick
    BY <1>0, <1>8 DEF Tick, rowVars, Time, TypeOK
  <1>9. CASE UNCHANGED vars
    BY <1>0, <1>9 DEF vars, rowVars, TypeOK
  <1>10. QED
    BY <1>2, <1>3, <1>4, <1>5, <1>6, <1>7, <1>8, <1>9 DEF Next, Ingest, Cleanup

-----------------------------------------------------------------------------
(***************************************************************************)
(* The invariant.                                                          *)
(***************************************************************************)
LEMMA IdStep ==
    ASSUME IInv, [Next]_vars
    PROVE  IdInv'
  <1>0. /\ OneRowPerSample /\ \A s \in snaps : s.id <= snapId
        /\ snapId \in Nat /\ \A s \in snaps : s.id \in Nat
    BY DEF IInv, IdInv, TypeOK, Snapshot
  <1>1. ASSUME NEW a \in Agents, NEW t \in Time, NEW D \in DiskLists, Insert(a, t, D)
        PROVE  IdInv'
    <2> DEFINE new == [id |-> snapId + 1, agent |-> a, time |-> t, n |-> Len(posts) + 1]
    <2>1. snaps' = snaps \cup {new} /\ snapId' = snapId + 1 /\ Clashing(a, t) = {}
      BY <1>1 DEF Insert
    <2>2. new.id = snapId + 1 /\ new.agent = a /\ new.time = t
      OBVIOUS
    <2>3. \A s \in snaps : s.id # new.id /\ (s.agent # a \/ s.time # t)
      BY <1>0, <2>1, <2>2 DEF Clashing
    <2> HIDE DEF new
    <2>4. OneRowPerSample'
      BY <1>0, <2>1, <2>2, <2>3 DEF OneRowPerSample
    <2>5. \A s \in snaps' : s.id <= snapId'
      BY <1>0, <2>1, <2>2
    <2>6. QED
      BY <2>4, <2>5 DEF IdInv
  <1>2. ASSUME NEW a \in Agents, NEW t \in Time, NEW D \in DiskLists, Update(a, t, D)
        PROVE  IdInv'
    <2>1. PICK s \in snaps : /\ s.agent = a /\ s.time = t
                             /\ snaps' = (snaps \ {s}) \cup {[s EXCEPT !.n = Len(posts) + 1]}
      BY <1>2 DEF Update, Clashing
    <2> DEFINE new == [s EXCEPT !.n = Len(posts) + 1]
    <2>2. new.id = s.id /\ new.agent = s.agent /\ new.time = s.time
      BY <2>1 DEF IInv, TypeOK, Snapshot
    <2>3. snaps' = (snaps \ {s}) \cup {new} /\ snapId' = snapId
      BY <1>2, <2>1 DEF Update
    <2> HIDE DEF new
    <2>4. OneRowPerSample'
      BY <1>0, <2>1, <2>2, <2>3 DEF OneRowPerSample
    <2>5. QED
      BY <1>0, <2>1, <2>2, <2>3, <2>4 DEF IdInv
  <1>3. ASSUME snaps' \subseteq snaps, snapId' = snapId
        PROVE  IdInv'
    BY <1>0, <1>3 DEF IdInv, OneRowPerSample
  <1>4. CASE OtherInsert \/ Cleanup \/ Restart \/ Tick \/ UNCHANGED vars
    <2>1. snaps' \subseteq snaps /\ snapId' = snapId
      BY <1>4 DEF OtherInsert, Cleanup, CleanDisks, CleanDisksFails, CleanSnaps,
                  CleanSnapsFails, Restart, Tick, rowVars, vars
    <2>2. QED
      BY <1>3, <2>1
  <1>5. QED
    BY <1>1, <1>2, <1>4 DEF Next, Ingest

\* The steps that neither add a row nor touch the flag leave StayInv alone.
LEMMA StayStep ==
    ASSUME IInv, [Next]_vars
    PROVE  StayInv'
  <1>0. /\ StayInv /\ snapId \in Nat /\ posts \in Seq(DiskLists) /\ TypeOK
        /\ \A s \in snaps : s.id <= snapId /\ s.id \in Nat
        /\ \A d \in disks : d.snap \in Nat
    BY DEF IInv, IdInv, TypeOK, Snapshot, Disk
  <1>1. ASSUME NEW a \in Agents, NEW t \in Time, NEW D \in DiskLists, Insert(a, t, D)
        PROVE  StayInv'
    <2> DEFINE new == [id |-> snapId + 1, agent |-> a, time |-> t, n |-> Len(posts) + 1]
    <2>1. snaps' = snaps \cup {new} /\ snapId' = snapId + 1 /\ resent' = resent
      BY <1>1 DEF Insert
    <2>2. new.id = snapId + 1 /\ new.agent = a /\ new.n = Len(posts) + 1
      OBVIOUS
    <2>3. \A d \in disks' : \/ d \in disks
                            \/ d.snap = snapId + 1 /\ d.agent = a /\ d.n = Len(posts) + 1
      BY <1>0, <1>1, Added DEF Insert
    <2> HIDE DEF new
    <2>4. ~resent' => \A d \in disks' : d.snap <= snapId'
      BY <1>0, <2>1, <2>3 DEF StayInv
    <2>5. ASSUME ~resent', NEW s \in snaps', NEW d \in disks', d.snap = s.id
          PROVE  d.n = s.n /\ d.agent = s.agent
      <3>1. CASE s \in snaps /\ d \in disks
        BY <1>0, <2>1, <2>5, <3>1 DEF StayInv, DisksStayWithTheirSnapshot, DisksOf
      <3>2. CASE s = new /\ d \in disks
        BY <1>0, <2>1, <2>2, <2>5, <3>2 DEF StayInv
      <3>3. CASE d \notin disks
        BY <1>0, <2>1, <2>2, <2>3, <2>5, <3>3
      <3>4. QED
        BY <2>1, <2>5, <3>1, <3>2, <3>3
    <2>6. QED
      BY <2>4, <2>5 DEF StayInv, DisksStayWithTheirSnapshot, DisksOf
  <1>2. ASSUME NEW a \in Agents, NEW t \in Time, NEW D \in DiskLists, Update(a, t, D)
        PROVE  StayInv'
    BY <1>2 DEF Update, StayInv, DisksStayWithTheirSnapshot
  <1>3. CASE OtherInsert \/ Cleanup \/ Restart \/ Tick \/ UNCHANGED vars
    <2>1. /\ snaps' \subseteq snaps /\ disks' \subseteq disks
          /\ snapId' = snapId /\ resent' = resent
      BY <1>3 DEF OtherInsert, Cleanup, CleanDisks, CleanDisksFails, CleanSnaps,
                  CleanSnapsFails, Restart, Tick, rowVars, vars
    <2>2. QED
      BY <1>0, <2>1 DEF StayInv, DisksStayWithTheirSnapshot, DisksOf
  <1>4. QED
    BY <1>1, <1>2, <1>3 DEF Next, Ingest

\* A step that leaves an orphan has a cause.
LEMMA OrphanStep ==
    ASSUME IInv, [Next]_vars
    PROVE  OrphanInv'
  <1>0. /\ OrphanInv /\ TypeOK /\ cutoff \in Nat /\ snapId \in Nat /\ now \in Int
        /\ \A s \in snaps : s.time \in Int /\ s.id \in Nat
        /\ faults \in Nat /\ Retention \in Nat
        /\ \A s1, s2 \in snaps : s1.id = s2.id => s1 = s2
    BY SysMonBoundsAssumption, RetentionAssumption
       DEF IInv, IdInv, OneRowPerSample, TypeOK, Snapshot, Time
  <1>1. ASSUME NEW a \in Agents, NEW t \in Time, NEW D \in DiskLists, Insert(a, t, D)
        PROVE  OrphanInv'
    <2> DEFINE new == [id |-> snapId + 1, agent |-> a, time |-> t, n |-> Len(posts) + 1]
    <2>1. /\ snaps' = snaps \cup {new} /\ cutoff' = cutoff /\ resent' = resent
          /\ late' <=> (late \/ t < cutoff)
      BY <1>1 DEF Insert, Received
    <2>2. new.id = snapId + 1 /\ new.time = t /\ t \in Int
      BY DEF Time
    <2>3. /\ \A d \in disks' : d \in disks \/ d.snap = snapId + 1
          /\ faults' = 0 => faults = 0
      BY <1>0, <1>1, Added DEF Insert
    <2> HIDE DEF new
    <2>4. ASSUME faults' = 0, ~resent', ~late', NEW d \in disks'
          PROVE  \E s \in snaps' : d.snap = s.id /\ s.time >= cutoff'
      <3>1. CASE d \in disks
        BY <1>0, <2>1, <2>3, <2>4, <3>1 DEF OrphanInv
      <3>2. CASE d.snap = snapId + 1
        BY <1>0, <2>1, <2>2, <2>4, <3>2
      <3>3. QED
        BY <2>3, <3>1, <3>2
    <2>5. QED
      BY <2>4 DEF OrphanInv
  <1>2. ASSUME NEW a \in Agents, NEW t \in Time, NEW D \in DiskLists, Update(a, t, D)
        PROVE  OrphanInv'
    BY <1>2 DEF Update, OrphanInv
  <1>3. CASE CleanDisks
    <2>1. /\ snaps' = snaps /\ cutoff' = now - Retention
          /\ disks' = {d \in disks : d.snap \notin OldIds(now - Retention)}
          /\ UNCHANGED <<faults, resent, late>>
      BY <1>3 DEF CleanDisks, Begin
    <2>2. ASSUME faults = 0, ~resent, ~late, NEW d \in disks'
          PROVE  \E s \in snaps : d.snap = s.id /\ s.time >= now - Retention
      <3>1. PICK s \in snaps : d.snap = s.id
        BY <1>0, <2>1, <2>2 DEF OrphanInv
      <3>2. ~(s.time < now - Retention)
        BY <2>1, <3>1 DEF OldIds
      <3>3. QED
        BY <1>0, <3>1, <3>2
    <2>3. QED
      BY <2>1, <2>2 DEF OrphanInv
  <1>4. CASE CleanDisksFails \/ CleanSnapsFails
    <2>1. faults' # 0
      BY <1>0, <1>4 DEF CleanDisksFails, CleanSnapsFails, Fault
    <2>2. QED
      BY <2>1 DEF OrphanInv
  <1>5. CASE CleanSnaps
    <2>1. /\ snaps' = {s \in snaps : s.time >= cutoff} /\ cutoff' = 0
          /\ UNCHANGED <<disks, faults, resent, late>>
      BY <1>5 DEF CleanSnaps
    <2>2. \A s \in snaps' : s.time >= 0
      BY <1>0, <2>1
    <2>3. QED
      BY <1>0, <2>1, <2>2 DEF OrphanInv
  <1>6. CASE Restart
    <2>1. cutoff' = 0 /\ UNCHANGED <<snaps, disks, faults, resent, late>>
      BY <1>6 DEF Restart
    <2>2. QED
      BY <1>0, <2>1 DEF OrphanInv
  <1>7. CASE OtherInsert \/ Tick \/ UNCHANGED vars
    <2>1. UNCHANGED <<cutoff, snaps, disks, faults, resent, late>>
      BY <1>7 DEF OtherInsert, Tick, rowVars, vars
    <2>2. QED
      BY <1>0, <2>1 DEF OrphanInv
  <1>8. QED
    BY <1>1, <1>2, <1>3, <1>4, <1>5, <1>6, <1>7 DEF Next, Ingest, Cleanup

LEMMA InvInit == Init => IInv
  BY TypeInit DEF Init, IInv, IdInv, OneRowPerSample, StayInv,
                  DisksStayWithTheirSnapshot, DisksOf, OrphanInv

LEMMA InvStep == IInv /\ [Next]_vars => IInv'
  BY TypeStep, IdStep, StayStep, OrphanStep DEF IInv

LEMMA InvAlways == Spec => []IInv
  BY InvInit, InvStep, PTL DEF Spec

-----------------------------------------------------------------------------
(***************************************************************************)
(* The theorems.                                                           *)
(***************************************************************************)
\* The tables hold rows of their types, whatever is ingested and cleaned up.
THEOREM TypeCorrect == Spec => []TypeOK
  <1>1. IInv => TypeOK
    BY DEF IInv
  <1>2. QED
    BY <1>1, InvAlways, PTL

\* "Latest per agent" is one row: no agent has two snapshots of one second, and
\* no id is given twice.
THEOREM OneRow == Spec => []OneRowPerSample
  <1>1. IInv => OneRowPerSample
    BY DEF IInv, IdInv
  <1>2. QED
    BY <1>1, InvAlways, PTL

\* A disk row is never shown under another snapshot, as long as no agent reports
\* the same second twice.
THEOREM DisksStay == Spec => []DisksStayWithTheirSnapshot
  <1>1. IInv => DisksStayWithTheirSnapshot
    BY DEF IInv, StayInv
  <1>2. QED
    BY <1>1, InvAlways, PTL

\* A cleanup of two statements leaves no orphan unless one of them fails or a
\* snapshot comes late or twice, wherever the server stops in between.
THEOREM OrphanCause == Spec => []OrphansHaveACause
  <1>1. IInv => OrphansHaveACause
    BY DEF IInv, OrphanInv, OrphansHaveACause
  <1>2. QED
    BY <1>1, InvAlways, PTL

-----------------------------------------------------------------------------
(***************************************************************************)
(* Whole snapshots: what a row shows is counted.                           *)
(***************************************************************************)
\* Every row's number is that of a snapshot that came.
FreshInv ==
    /\ \A s \in snaps : s.n \in 1 .. Len(posts)
    /\ FreshSnapshotsAreWhole

\* The disk rows of one ingest in which no INSERT fails.
RowsFor(sid, a, D) ==
    {[id |-> diskId + i, snap |-> sid, agent |-> a, mount |-> D[i], n |-> Len(posts) + 1] :
        i \in DOMAIN D}

\* Without a fault an ingest adds a row for each of its disks.
LEMMA AddedAll ==
    ASSUME TypeOK, NEW a \in Agents, NEW sid \in Nat, NEW D \in DiskLists,
           AddDisks(sid, a, D), faults' = 0
    PROVE  disks' = disks \cup RowsFor(sid, a, D)
  <1>1. faults \in Nat
    BY DEF TypeOK
  <1>2. ~Fault
    BY <1>1 DEF Fault
  <1>3. QED
    BY <1>2 DEF AddDisks, RowsFor

\* There are as many as the list is long: each has an id of its own.
LEMMA RowsCounted ==
    ASSUME TypeOK, NEW a, NEW sid, NEW D \in DiskLists
    PROVE  Cardinality(RowsFor(sid, a, D)) = Len(D)
  <1> DEFINE row(i) == [id |-> diskId + i, snap |-> sid, agent |-> a, mount |-> D[i],
                        n |-> Len(posts) + 1]
             f == [i \in 1 .. Len(D) |-> row(i)]
  <1>1. DOMAIN D = 1 .. Len(D) /\ Len(D) \in Nat /\ diskId \in Nat
    BY DiskListsAssumption DEF TypeOK
  <1>2. \A i, j \in 1 .. Len(D) : f[i] = f[j] => i = j
    <2> SUFFICES ASSUME NEW i \in 1 .. Len(D), NEW j \in 1 .. Len(D), f[i] = f[j]
                 PROVE  i = j
      OBVIOUS
    <2>1. f[i].id = diskId + i /\ f[j].id = diskId + j
      OBVIOUS
    <2>2. QED
      BY <1>1, <2>1
  <1>3. f \in Bijection(1 .. Len(D), RowsFor(sid, a, D))
    <2>1. f \in [1 .. Len(D) -> RowsFor(sid, a, D)]
      BY <1>1 DEF RowsFor
    <2>2. \A r \in RowsFor(sid, a, D) : \E i \in 1 .. Len(D) : f[i] = r
      BY <1>1 DEF RowsFor
    <2> HIDE DEF f
    <2>3. QED
      BY <1>2, <2>1, <2>2 DEF Bijection, Injection, Surjection, IsInjective
  <1>4. ExistsBijection(1 .. Len(D), RowsFor(sid, a, D))
    BY <1>3 DEF ExistsBijection
  <1>5. QED
    BY <1>1, <1>4, FS_CountingElements

\* A snapshot that is no longer fresh may lose disks, a fresh one does not.
LEMMA FreshStep ==
    ASSUME IInv, FreshInv, [Next]_vars
    PROVE  FreshInv'
  <1>0. /\ TypeOK /\ posts \in Seq(DiskLists) /\ snapId \in Nat
        /\ \A s \in snaps : s.id <= snapId /\ s.id \in Nat /\ s.time \in Int /\ s.n \in Nat
        /\ \A s1, s2 \in snaps : s1.id = s2.id => s1 = s2
        /\ now \in Int /\ Retention \in Nat /\ faults \in Nat
    BY RetentionAssumption DEF IInv, IdInv, OneRowPerSample, TypeOK, Snapshot, Time
  <1>1. ASSUME NEW a \in Agents, NEW t \in Time, NEW D \in DiskLists, Insert(a, t, D)
        PROVE  FreshInv'
    <2> DEFINE new == [id |-> snapId + 1, agent |-> a, time |-> t, n |-> Len(posts) + 1]
    <2>1. /\ snaps' = snaps \cup {new} /\ posts' = Append(posts, D)
          /\ resent' = resent /\ now' = now
      BY <1>1 DEF Insert, Received
    <2>2. new.id = snapId + 1 /\ new.n = Len(posts) + 1
      OBVIOUS
    <2>3. Len(posts') = Len(posts) + 1 /\ \A n \in 1 .. Len(posts) : posts'[n] = posts[n]
      BY <1>0, <2>1
    <2>4. posts'[Len(posts) + 1] = D /\ Len(posts) \in Nat
      BY <1>0, <2>1
    <2> HIDE DEF new
    <2>5. \A s \in snaps' : s.n \in 1 .. Len(posts')
      BY <2>1, <2>2, <2>3, <2>4 DEF FreshInv
    <2>6. ASSUME ~resent', faults' = 0, NEW s \in snaps', s.time >= now' - Retention
          PROVE  Whole(s)'
      <3>1. disks' = disks \cup RowsFor(snapId + 1, a, D) /\ faults = 0
        BY <1>0, <1>1, <2>6, AddedAll, Added DEF Insert
      <3>2. \A d \in RowsFor(snapId + 1, a, D) : d.snap = snapId + 1 /\ d.n = Len(posts) + 1
        BY DEF RowsFor
      <3>3. \A d \in disks : d.snap <= snapId /\ d.snap \in Nat
        BY <2>1, <2>6 DEF IInv, StayInv, TypeOK, Disk
      <3>4. CASE s \in snaps
        <4>1. DisksOf(s)' = DisksOf(s)
          BY <1>0, <3>1, <3>2, <3>4 DEF DisksOf
        <4>2. Whole(s) /\ s.n \in 1 .. Len(posts)
          BY <2>1, <2>6, <3>1, <3>4 DEF FreshInv, FreshSnapshotsAreWhole
        <4>3. QED
          BY <2>3, <4>1, <4>2 DEF Whole
      <3>5. CASE s = new
        <4>1. DisksOf(s)' = RowsFor(snapId + 1, a, D)
          BY <1>0, <2>2, <3>1, <3>2, <3>3, <3>5 DEF DisksOf
        <4>2. QED
          BY <1>0, <2>2, <2>4, <3>2, <3>5, <4>1, RowsCounted DEF Whole
      <3>6. QED
        BY <2>1, <3>4, <3>5
    <2>7. QED
      BY <2>5, <2>6 DEF FreshInv, FreshSnapshotsAreWhole
  <1>2. ASSUME NEW a \in Agents, NEW t \in Time, NEW D \in DiskLists, Update(a, t, D)
        PROVE  FreshInv'
    <2>1. PICK s \in snaps : snaps' = (snaps \ {s}) \cup {[s EXCEPT !.n = Len(posts) + 1]}
      BY <1>2 DEF Update, Clashing
    <2> DEFINE new == [s EXCEPT !.n = Len(posts) + 1]
    <2>2. new.n = Len(posts) + 1 /\ snaps' = (snaps \ {s}) \cup {new}
      BY <2>1 DEF IInv, TypeOK, Snapshot
    <2>3. Len(posts') = Len(posts) + 1 /\ Len(posts) \in Nat
      BY <1>0, <1>2 DEF Update, Received
    <2> HIDE DEF new
    <2>4. \A q \in snaps' : q.n \in 1 .. Len(posts')
      BY <2>2, <2>3 DEF FreshInv
    <2>5. resent'
      BY <1>2 DEF Update
    <2>6. QED
      BY <2>4, <2>5 DEF FreshInv, FreshSnapshotsAreWhole
  <1>3. ASSUME snaps' \subseteq snaps, posts' = posts, resent' = resent, now' >= now, now' \in Int,
               faults' = 0 => faults = 0,
               \A s \in snaps' : faults' = 0 /\ s.time >= now' - Retention => DisksOf(s)' = DisksOf(s)
        PROVE  FreshInv'
    <2>1. ASSUME ~resent', faults' = 0, NEW s \in snaps', s.time >= now' - Retention
          PROVE  Whole(s)'
      <3>1. s \in snaps /\ s.time >= now - Retention
        BY <1>0, <1>3, <2>1
      <3>2. Whole(s)
        BY <1>3, <2>1, <3>1 DEF FreshInv, FreshSnapshotsAreWhole
      <3>3. QED
        BY <1>3, <2>1, <3>2 DEF Whole
    <2>2. QED
      BY <1>3, <2>1 DEF FreshInv, FreshSnapshotsAreWhole
  <1>4. CASE CleanDisks
    <2>1. /\ UNCHANGED <<now, snaps, posts, resent, faults>>
          /\ disks' = {d \in disks : d.snap \notin OldIds(now - Retention)}
      BY <1>4 DEF CleanDisks
    <2>2. ASSUME NEW s \in snaps, s.time >= now - Retention
          PROVE  DisksOf(s)' = DisksOf(s)
      <3>1. s.id \notin OldIds(now - Retention)
        BY <1>0, <2>2 DEF OldIds
      <3>2. QED
        BY <2>1, <3>1 DEF DisksOf
    <2>3. QED
      BY <1>0, <1>3, <2>1, <2>2
  <1>5. CASE CleanDisksFails \/ CleanSnapsFails
    <2>1. faults' # 0 /\ UNCHANGED <<snaps, posts>>
      BY <1>0, <1>5 DEF CleanDisksFails, CleanSnapsFails, Fault, rowVars
    <2>2. QED
      BY <2>1 DEF FreshInv, FreshSnapshotsAreWhole
  <1>6. CASE OtherInsert \/ CleanSnaps \/ Restart \/ Tick \/ UNCHANGED vars
    <2>1. /\ snaps' \subseteq snaps /\ UNCHANGED <<disks, posts, resent, faults>>
          /\ now' = now \/ now' = now + 1
      BY <1>6 DEF OtherInsert, CleanSnaps, Restart, Tick, rowVars, vars
    <2>2. \A s \in snaps' : DisksOf(s)' = DisksOf(s)
      BY <2>1 DEF DisksOf
    <2>3. QED
      BY <1>0, <1>3, <2>1, <2>2
  <1>7. QED
    BY <1>1, <1>2, <1>4, <1>5, <1>6 DEF Next, Ingest, Cleanup

\* As long as nothing fails and none is sent twice, a snapshot within the retention
\* keeps all its disks, whatever cleanups run or break off around it.
THEOREM FreshWhole == Spec => []FreshSnapshotsAreWhole
  <1>1. Init => FreshInv
    BY DEF Init, FreshInv, FreshSnapshotsAreWhole
  <1>2. FreshInv => FreshSnapshotsAreWhole
    BY DEF FreshInv
  <1>3. QED
    BY <1>1, <1>2, InvAlways, FreshStep, PTL DEF Spec

-----------------------------------------------------------------------------
(***************************************************************************)
(* The views: a finite set of snapshots has a newest, and can be put in    *)
(* the order of the times.                                                 *)
(***************************************************************************)
\* Among some subsets of a finite set one is minimal.
LEMMA HasMinimal ==
    ASSUME NEW S, IsFiniteSet(S), NEW B \in SUBSET SUBSET S, B # {}
    PROVE  \E T \in B : \A U \in B : ~(U \subseteq T /\ U # T)
  <1> DEFINE R == StrictSubsetOrdering(S)
             F == FiniteSubsetsOf(S)
  <1>1. IsWellFoundedOn(R, F)
    BY FS_StrictSubsetOrderingWellFounded
  <1>2. F = SUBSET S
    BY FS_FiniteSubsetsOfFinite
  <1>3. \E T \in B : \A U \in B : <<U, T>> \notin R
    <2> HIDE DEF R, F
    <2>1. QED
      BY <1>1, <1>2, WFMin
  <1>4. QED
    BY <1>3 DEF StrictSubsetOrdering

IsNewest(s, S) == s \in S /\ \A o \in S : o.time <= s.time

\* A finite set of snapshots has a newest.
LEMMA HasNewest ==
    ASSUME NEW S, IsFiniteSet(S), S # {}, \A s \in S : s.time \in Int
    PROVE  \E s \in S : IsNewest(s, S)
  <1> DEFINE newer(s) == {o \in S : o.time > s.time}
             B == {newer(s) : s \in S}
  <1>1. B \in SUBSET SUBSET S /\ B # {} /\ \A s \in S : newer(s) \in B
    OBVIOUS
  <1>2. PICK s \in S : \A U \in B : ~(U \subseteq newer(s) /\ U # newer(s))
    <2>1. \E T \in B : \A U \in B : ~(U \subseteq T /\ U # T)
      <3> HIDE DEF B, newer
      <3>1. QED
        BY <1>1, HasMinimal
    <2>2. PICK T \in B : \A U \in B : ~(U \subseteq T /\ U # T)
      BY <2>1
    <2>3. PICK s \in S : T = newer(s)
      OBVIOUS
    <2> HIDE DEF B, newer
    <2>4. QED
      BY <2>2, <2>3
  <1>3. ASSUME NEW o \in S, o.time > s.time PROVE FALSE
    <2>1. o.time \in Int /\ s.time \in Int
      OBVIOUS
    <2>2. \A x \in newer(o) : x \in newer(s)
      <3> SUFFICES ASSUME NEW x \in S, x.time > o.time PROVE x.time > s.time
        OBVIOUS
      <3>1. x.time \in Int
        OBVIOUS
      <3>2. QED
        BY <1>3, <2>1, <3>1
    <2>3. o \in newer(s) /\ o \notin newer(o)
      BY <1>3, <2>1
    <2> HIDE DEF B, newer
    <2>4. newer(o) \subseteq newer(s) /\ newer(o) # newer(s)
      BY <2>2, <2>3
    <2>5. QED
      BY <1>1, <1>2, <2>4
  <1>4. \A o \in S : o.time <= s.time
    <2> SUFFICES ASSUME NEW o \in S PROVE o.time <= s.time
      OBVIOUS
    <2>1. o.time \in Int /\ s.time \in Int
      OBVIOUS
    <2>2. QED
      BY <1>3, <2>1
  <1>5. QED
    BY <1>4 DEF IsNewest

Ordered(q) == \A i, j \in DOMAIN q : i < j => q[i].time <= q[j].time

\* A finite set of snapshots can be put in the order of its times.
LEMMA HasOrder ==
    ASSUME NEW S, IsFiniteSet(S), \A s \in S : s.time \in Int
    PROVE  \E q \in SetToSeqs(S) : Ordered(q)
  <1> DEFINE sorts(T) == \E q \in SetToSeqs(T) : Ordered(q)
             B == {T \in SUBSET S : ~sorts(T)}
  <1> SUFFICES ASSUME ~sorts(S)
               PROVE  FALSE
    OBVIOUS
  <1>1. PICK T \in B : \A U \in B : ~(U \subseteq T /\ U # T)
    <2>1. B \in SUBSET SUBSET S /\ B # {}
      OBVIOUS
    <2> HIDE DEF B
    <2>2. QED
      BY <2>1, HasMinimal
  <1>2. T \in SUBSET S /\ ~sorts(T)
    OBVIOUS
  <1>3. IsFiniteSet(T) /\ Cardinality(T) \in Nat
    BY <1>2, FS_Subset, FS_CardinalityType
  <1>4. CASE T = {}
    <2> DEFINE q == [i \in 1 .. 0 |-> i]
    <2>1. Cardinality(T) = 0
      BY <1>4, FS_EmptySet
    <2>2. q \in SetToSeqs(T) /\ Ordered(q)
      BY <1>4, <2>1 DEF SetToSeqs, Ordered
    <2>3. QED
      BY <1>2, <2>2
  <1>5. CASE T # {}
    <2>1. PICK m \in T : \A o \in T : o.time <= m.time
      BY <1>2, <1>3, <1>5, HasNewest DEF IsNewest
    <2> DEFINE U == T \ {m}
               n == Cardinality(U)
    <2>2. IsFiniteSet(U) /\ n \in Nat /\ Cardinality(T) = n + 1
      <3>1. IsFiniteSet(U) /\ n = Cardinality(T) - 1
        BY <1>3, FS_RemoveElement
      <3>2. n \in Nat
        BY <3>1, FS_CardinalityType
      <3> HIDE DEF n, U
      <3>3. QED
        BY <1>3, <3>1, <3>2
    <2>3. sorts(U)
      <3>1. U \in SUBSET S /\ U \subseteq T /\ U # T
        BY <1>2
      <3> HIDE DEF U, sorts
      <3>2. QED
        BY <1>1, <3>1
    <2>4. PICK q \in SetToSeqs(U) : Ordered(q)
      BY <2>3
    <2> HIDE DEF n
    <2>5. q \in [1 .. n -> U] /\ \A i, j \in 1 .. n : i # j => q[i] # q[j]
      BY <2>4 DEF SetToSeqs, n
    <2> DEFINE p == [i \in 1 .. n + 1 |-> IF i = n + 1 THEN m ELSE q[i]]
    <2>6. p \in [1 .. Cardinality(T) -> T] /\ DOMAIN p = 1 .. n + 1
      BY <2>2, <2>5
    <2>7. \A i \in 1 .. n : p[i] = q[i] /\ q[i] \in T /\ q[i] # m
      BY <2>2, <2>5
    <2>8. p[n + 1] = m /\ \A i \in 1 .. n + 1 : i # n + 1 => i \in 1 .. n
      BY <2>2
    <2> HIDE DEF p, U
    <2>9. \A i, j \in 1 .. n + 1 : i # j => p[i] # p[j]
      BY <2>5, <2>7, <2>8
    <2>10. Ordered(p)
      <3> SUFFICES ASSUME NEW i \in 1 .. n + 1, NEW j \in 1 .. n + 1, i < j
                   PROVE  p[i].time <= p[j].time
        BY <2>6 DEF Ordered
      <3>1. i \in 1 .. n
        BY <2>2
      <3>2. CASE j = n + 1
        BY <2>1, <2>7, <2>8, <3>1, <3>2
      <3>3. CASE j \in 1 .. n
        BY <2>4, <2>5, <2>7, <3>1, <3>3 DEF Ordered
      <3>4. QED
        BY <2>8, <3>2, <3>3
    <2>11. p \in SetToSeqs(T)
      BY <2>2, <2>6, <2>9 DEF SetToSeqs
    <2>12. QED
      BY <1>2, <2>10, <2>11
  <1>6. QED
    BY <1>4, <1>5

\* A sequence of all of a set's elements has each of them.
LEMMA SeqCovers ==
    ASSUME NEW S, IsFiniteSet(S), NEW q \in SetToSeqs(S)
    PROVE  /\ q \in [1 .. Cardinality(S) -> S] /\ Len(q) = Cardinality(S)
           /\ \A s \in S : \E i \in DOMAIN q : q[i] = s
  <1>1. Cardinality(S) \in Nat
    BY FS_CardinalityType
  <1>2. q \in [1 .. Cardinality(S) -> S] /\ \A i, j \in 1 .. Cardinality(S) : i # j => q[i] # q[j]
    BY DEF SetToSeqs
  <1>3. q \in Injection(1 .. Cardinality(S), S)
    BY <1>2 DEF Injection, IsInjective
  <1>4. Cardinality(1 .. Cardinality(S)) = Cardinality(S)
    BY <1>1, FS_Interval
  <1>5. q \in Surjection(1 .. Cardinality(S), S)
    BY <1>3, <1>4, FS_Injection
  <1>6. Len(q) = Cardinality(S)
    BY <1>1, <1>2
  <1>7. QED
    BY <1>2, <1>5, <1>6 DEF Surjection

-----------------------------------------------------------------------------
(***************************************************************************)
(* The views agree.                                                        *)
(***************************************************************************)
\* What the views need of the tables.
FiniteInv == IsFiniteSet(snaps)
ViewInv == TypeOK /\ OneRowPerSample /\ FiniteInv

\* A step inserts or updates one row, or deletes some: the table stays finite.
LEMMA SnapsStayFinite == IInv /\ FiniteInv /\ [Next]_vars => FiniteInv'
  <1> SUFFICES ASSUME IInv, FiniteInv, [Next]_vars
               PROVE  IsFiniteSet(snaps')
    BY DEF FiniteInv
  <1> USE DEF FiniteInv
  <1>1. ASSUME NEW a \in Agents, NEW t \in Time, NEW D \in DiskLists, Insert(a, t, D)
        PROVE  IsFiniteSet(snaps')
    BY <1>1, FS_AddElement DEF Insert
  <1>2. ASSUME NEW a \in Agents, NEW t \in Time, NEW D \in DiskLists, Update(a, t, D)
        PROVE  IsFiniteSet(snaps')
    <2>1. PICK s \in snaps : snaps' = (snaps \ {s}) \cup {[s EXCEPT !.n = Len(posts) + 1]}
      BY <1>2 DEF Update, Clashing
    <2>2. IsFiniteSet(snaps \ {s})
      BY FS_RemoveElement
    <2>3. QED
      BY <2>1, <2>2, FS_AddElement
  <1>3. CASE OtherInsert \/ Cleanup \/ Restart \/ Tick \/ UNCHANGED vars
    <2>1. snaps' \in SUBSET snaps
      BY <1>3 DEF OtherInsert, Cleanup, CleanDisks, CleanDisksFails, CleanSnaps,
                  CleanSnapsFails, Restart, Tick, rowVars, vars
    <2>2. QED
      BY <2>1, FS_Subset
  <1>4. QED
    BY <1>1, <1>2, <1>3 DEF Next, Ingest

\* An agent that reports has one newest snapshot.
LEMMA NewestIsOne ==
    ASSUME ViewInv, NEW a \in Reporting
    PROVE  /\ a \in Agents
           /\ \E s \in SnapsOf(a) : IsNewest(s, SnapsOf(a))
           /\ \A s, o : IsNewest(s, SnapsOf(a)) /\ IsNewest(o, SnapsOf(a)) => s = o
  <1>1. \A s \in snaps : s.time \in Int /\ s.agent \in Agents
    BY DEF ViewInv, FiniteInv, TypeOK, Snapshot, Time
  <1>2. IsFiniteSet(SnapsOf(a)) /\ SnapsOf(a) # {} /\ \A s \in SnapsOf(a) : s.time \in Int
    <2>1. SnapsOf(a) \in SUBSET snaps
      BY DEF SnapsOf
    <2>2. IsFiniteSet(SnapsOf(a))
      BY <2>1, FS_Subset DEF ViewInv, FiniteInv
    <2>3. QED
      BY <1>1, <2>2 DEF SnapsOf, Reporting
  <1>3. \E s \in SnapsOf(a) : IsNewest(s, SnapsOf(a))
    BY <1>2, HasNewest
  <1>4. ASSUME NEW s, NEW o, IsNewest(s, SnapsOf(a)), IsNewest(o, SnapsOf(a))
        PROVE  s = o
    <2>1. s \in snaps /\ o \in snaps /\ s.agent = a /\ o.agent = a
      BY <1>4 DEF IsNewest, SnapsOf
    <2>2. s.time <= o.time /\ o.time <= s.time
      BY <1>4 DEF IsNewest
    <2>3. s.time = o.time
      BY <1>1, <2>1, <2>2
    <2>4. QED
      BY <2>1, <2>3 DEF ViewInv, FiniteInv, OneRowPerSample
  <1>5. a \in Agents
    BY <1>1 DEF Reporting
  <1>6. QED
    BY <1>3, <1>4, <1>5

\* The overview has the newest snapshot of each agent.
LEMMA LatestIs ==
    ASSUME NEW s
    PROVE  s \in Latest <=> s \in snaps /\ IsNewest(s, SnapsOf(s.agent))
  BY DEF Latest, IsNewest, SnapsOf

\* The snapshot on the overview.
Top(a) == CHOOSE s \in Latest : s.agent = a

\* It is the one that the page of the agent shows.
LEMMA TopIs ==
    ASSUME ViewInv, NEW a \in Reporting
    PROVE  /\ Top(a) \in Latest /\ Top(a) \in snaps /\ Top(a).agent = a
           /\ IsNewest(Top(a), SnapsOf(a))
           /\ {s \in Latest : s.agent = a} = {Top(a)}
           /\ LatestOf(a) = {Top(a)}
  <1>1. PICK s \in SnapsOf(a) : IsNewest(s, SnapsOf(a))
    BY NewestIsOne
  <1>2. s \in snaps /\ s.agent = a
    BY DEF SnapsOf
  <1>3. s \in Latest
    BY <1>1, <1>2, LatestIs
  <1>4. Top(a) \in Latest /\ Top(a).agent = a
    BY <1>2, <1>3 DEF Top
  <1>5. Top(a) \in snaps /\ IsNewest(Top(a), SnapsOf(a))
    BY <1>4, LatestIs
  <1>6. \A o \in Latest : o.agent = a => o = Top(a)
    BY <1>5, LatestIs, NewestIsOne
  <1>7. LatestOf(a) = {Top(a)}
    <2> DEFINE x == CHOOSE o \in SnapsOf(a) : \A p \in SnapsOf(a) : p.time <= o.time
    <2>1. LatestOf(a) = {x}
      BY DEF LatestOf
    <2>2. IsNewest(x, SnapsOf(a))
      BY <1>1 DEF IsNewest
    <2> HIDE DEF x
    <2>3. QED
      BY <1>5, <2>1, <2>2, NewestIsOne
  <1>8. QED
    BY <1>4, <1>5, <1>6, <1>7

\* The last point of an agent's chart is the newest of all its snapshots.
LEMMA LastPointIsLatest ==
    ASSUME ViewInv, NEW a \in Agents, NEW since \in Int, HistoryOf(a, since) # <<>>
    PROVE  Last(HistoryOf(a, since)) \in Latest
  <1> DEFINE S == {s \in SnapsOf(a) : s.time >= since}
             q == HistoryOf(a, since)
  <1>1. S \in SUBSET snaps /\ \A s \in S : s.time \in Int /\ s.agent = a /\ s.time >= since
    BY DEF SnapsOf, ViewInv, TypeOK, Snapshot, Time
  <1>2. IsFiniteSet(S)
    BY <1>1, FS_Subset DEF ViewInv, FiniteInv
  <1>3. q \in SetToSeqs(S) /\ Ordered(q)
    <2>1. q = CHOOSE points \in SetToSeqs(S) : Ordered(points)
      BY DEF HistoryOf, Ordered
    <2>2. \E points \in SetToSeqs(S) : Ordered(points)
      BY <1>1, <1>2, HasOrder
    <2> HIDE DEF q, S
    <2>3. QED
      BY <2>1, <2>2
  <1> HIDE DEF q
  <1>4. /\ q \in [1 .. Cardinality(S) -> S] /\ Len(q) = Cardinality(S) /\ Cardinality(S) \in Nat
        /\ \A s \in S : \E i \in DOMAIN q : q[i] = s
    <2> HIDE DEF S
    <2>1. QED
      BY <1>2, <1>3, SeqCovers, FS_CardinalityType
  <1>5. Len(q) \in DOMAIN q
    <2>1. q # <<>>
      BY DEF q
    <2> HIDE DEF S
    <2>2. QED
      BY <1>4, <2>1
  <1>6. Last(q) \in S /\ \A s \in S : s.time <= Last(q).time
    <2>1. Last(q) = q[Len(q)]
      BY DEF Last
    <2>2. \A i \in DOMAIN q : i < Len(q) \/ i = Len(q)
      <3> HIDE DEF S
      <3>1. QED
        BY <1>4
    <2>3. Last(q) \in S
      <3> HIDE DEF S
      <3>1. QED
        BY <1>4, <1>5, <2>1
    <2>4. ASSUME NEW s \in S PROVE s.time <= Last(q).time
      <3>1. PICK i \in DOMAIN q : q[i] = s
        BY <1>4
      <3>2. Last(q).time \in Int /\ s.time \in Int
        BY <1>1, <2>3
      <3> HIDE DEF S
      <3>3. QED
        BY <1>3, <1>5, <2>1, <2>2, <3>1, <3>2 DEF Ordered
    <2>5. QED
      BY <2>3, <2>4
  <1>7. ASSUME NEW o \in SnapsOf(a) PROVE o.time <= Last(q).time
    <2>1. o.time \in Int
      BY DEF SnapsOf, ViewInv, TypeOK, Snapshot, Time
    <2>2. Last(q).time \in Int /\ Last(q).time >= since
      BY <1>1, <1>6
    <2>3. CASE o.time >= since
      BY <1>6, <2>3
    <2>4. CASE ~(o.time >= since)
      BY <2>1, <2>2, <2>4
    <2>5. QED
      BY <2>3, <2>4
  <1>8. Last(q) \in snaps /\ Last(q).agent = a
    BY <1>1, <1>6
  <1>9. Last(q) \in Latest
    BY <1>7, <1>8 DEF Latest
  <1>10. QED
    BY <1>9 DEF q

\* A bijection keeps the size.
LEMMA SameSize ==
    ASSUME NEW S, NEW T, IsFiniteSet(S), NEW f \in [S -> T],
           \A x, y \in S : f[x] = f[y] => x = y,
           \A y \in T : \E x \in S : f[x] = y
    PROVE  Cardinality(S) = Cardinality(T)
  <1>1. f \in Bijection(S, T)
    BY DEF Bijection, Injection, Surjection, IsInjective
  <1>2. ExistsBijection(S, T)
    BY <1>1 DEF ExistsBijection
  <1>3. QED
    BY <1>2, FS_Bijection

\* The line of an agent on the page of agents.
Info(a) == [name |-> a, snapshots |-> Cardinality(SnapsOf(a)), active |-> Top(a).time]

\* The dashboard counts the agents that the overview shows.
LEMMA CountsAgree ==
    ASSUME ViewInv
    PROVE  /\ AgentCount = Cardinality(Latest)
           /\ AgentCount = Cardinality(AgentInfos)
           /\ AgentsOnline = Cardinality({i \in AgentInfos : i.active >= now - Recent})
  <1>0. /\ AgentInfos = {Info(a) : a \in Reporting}
        /\ \A a \in Reporting : Info(a).name = a /\ Info(a).active = Top(a).time
    BY DEF AgentInfos, Info, Top
  <1>1. IsFiniteSet(Reporting)
    <2> DEFINE f == [s \in snaps |-> s.agent]
    <2>1. f \in Surjection(snaps, Reporting)
      BY DEF Reporting, Surjection
    <2> HIDE DEF f
    <2>2. QED
      BY <2>1, FS_Surjection DEF ViewInv, FiniteInv
  <1>2. Cardinality(Reporting) = Cardinality(Latest)
    <2> DEFINE f == [a \in Reporting |-> Top(a)]
    <2>1. f \in [Reporting -> Latest]
      BY TopIs
    <2>2. \A a, b \in Reporting : f[a] = f[b] => a = b
      <3>1. \A a \in Reporting : f[a].agent = a
        BY TopIs
      <3>2. QED
        BY <3>1
    <2>3. \A s \in Latest : \E a \in Reporting : f[a] = s
      <3> SUFFICES ASSUME NEW s \in Latest PROVE \E a \in Reporting : f[a] = s
        OBVIOUS
      <3>1. s.agent \in Reporting
        BY DEF Latest, Reporting
      <3>2. s \in {o \in Latest : o.agent = s.agent}
        OBVIOUS
      <3>3. s = Top(s.agent)
        BY <3>1, <3>2, TopIs
      <3>4. QED
        BY <3>1, <3>3
    <2> HIDE DEF f
    <2>4. QED
      BY <1>1, <2>1, <2>2, <2>3, SameSize
  <1>3. Cardinality(Reporting) = Cardinality(AgentInfos)
    <2> DEFINE f == [a \in Reporting |-> Info(a)]
    <2>1. f \in [Reporting -> AgentInfos] /\ \A i \in AgentInfos : \E a \in Reporting : f[a] = i
      BY <1>0
    <2>2. \A a, b \in Reporting : f[a] = f[b] => a = b
      <3>1. \A a \in Reporting : f[a].name = a
        BY <1>0
      <3>2. QED
        BY <3>1
    <2> HIDE DEF f
    <2>3. QED
      BY <1>1, <2>1, <2>2, SameSize
  <1>4. AgentsOnline = Cardinality({i \in AgentInfos : i.active >= now - Recent})
    <2> DEFINE S == {s.agent : s \in {x \in snaps : x.time >= now - Recent}}
               T == {i \in AgentInfos : i.active >= now - Recent}
               f == [a \in S |-> Info(a)]
    <2>1. S \in SUBSET Reporting
      BY DEF Reporting
    <2>2. IsFiniteSet(S)
      BY <1>1, <2>1, FS_Subset
    <2>3. now \in Int /\ Recent \in Int /\ \A s \in snaps : s.time \in Int
      BY RecentAssumption, RetentionAssumption DEF ViewInv, FiniteInv, TypeOK, Time, Snapshot
    <2>4. \A a \in Reporting : a \in S <=> Top(a).time >= now - Recent
      <3> SUFFICES ASSUME NEW a \in Reporting
                   PROVE  a \in S <=> Top(a).time >= now - Recent
        OBVIOUS
      <3>1. Top(a) \in snaps /\ Top(a).agent = a /\ \A o \in SnapsOf(a) : o.time <= Top(a).time
        BY TopIs DEF IsNewest
      <3>2. ASSUME Top(a).time >= now - Recent PROVE a \in S
        BY <3>1, <3>2
      <3>3. ASSUME a \in S PROVE Top(a).time >= now - Recent
        <4>1. PICK o \in snaps : o.agent = a /\ o.time >= now - Recent
          BY <3>3
        <4>2. o.time <= Top(a).time
          BY <3>1, <4>1 DEF SnapsOf
        <4>3. QED
          BY <2>3, <3>1, <4>1, <4>2
      <3>4. QED
        BY <3>2, <3>3
    <2> HIDE DEF S
    <2>5. f \in [S -> T]
      BY <1>0, <2>1, <2>4
    <2>6. \A a, b \in S : f[a] = f[b] => a = b
      <3>1. \A a \in S : f[a].name = a
        BY <1>0, <2>1
      <3>2. QED
        BY <3>1
    <2>7. \A i \in T : \E a \in S : f[a] = i
      <3> SUFFICES ASSUME NEW i \in T PROVE \E a \in S : f[a] = i
        OBVIOUS
      <3>1. PICK a \in Reporting : i = Info(a)
        BY <1>0
      <3>2. a \in S
        BY <1>0, <2>4, <3>1
      <3>3. QED
        BY <3>1, <3>2
    <2> HIDE DEF f, T
    <2>8. Cardinality(S) = Cardinality(T)
      BY <2>2, <2>5, <2>6, <2>7, SameSize
    <2>9. QED
      BY <2>8 DEF AgentsOnline, S, T
  <1>5. QED
    BY <1>2, <1>3, <1>4 DEF AgentCount

LEMMA ShownOnce == ViewInv => AgentsAreShownOnce
  <1> SUFFICES ASSUME ViewInv PROVE AgentsAreShownOnce
    OBVIOUS
  <1>1. \A a \in Agents : LatestOf(a) = {s \in Latest : s.agent = a}
    <2> SUFFICES ASSUME NEW a \in Agents PROVE LatestOf(a) = {s \in Latest : s.agent = a}
      OBVIOUS
    <2>1. CASE a \in Reporting
      BY <2>1, TopIs
    <2>2. CASE a \notin Reporting
      BY <2>2 DEF LatestOf, Latest, Reporting
    <2>3. QED
      BY <2>1, <2>2
  <1>2. ASSUME NEW a \in Agents, HistoryOf(a, now - Recent) # <<>>
        PROVE  Last(HistoryOf(a, now - Recent)) \in Latest
    <2>1. now - Recent \in Int
      BY RecentAssumption, RetentionAssumption DEF ViewInv, FiniteInv, TypeOK, Time
    <2>2. QED
      BY <1>2, <2>1, LastPointIsLatest
  <1>3. LatestDisks = UNION {LatestDisksOf(a) : a \in Agents}
    <2>1. \A s \in Latest : s.agent \in Agents
      BY DEF Latest, ViewInv, TypeOK, Snapshot
    <2>2. \A a \in Agents : LatestDisksOf(a) = {d \in disks : \E s \in Latest : s.agent = a /\ d.snap = s.id}
      BY <1>1 DEF LatestDisksOf
    <2>3. QED
      BY <2>1, <2>2 DEF LatestDisks
  <1>4. QED
    BY <1>1, <1>2, <1>3, CountsAgree DEF AgentsAreShownOnce

\* The overview, the pages of the agents and the dashboard show an agent once, with its
\* newest snapshot, for any agents and any clocks.
THEOREM AgentsShownOnce == Spec => []AgentsAreShownOnce
  <1>1. Init => FiniteInv
    BY FS_EmptySet DEF Init, FiniteInv
  <1>2. IInv => TypeOK /\ OneRowPerSample
    BY DEF IInv, IdInv
  <1>3. TypeOK /\ OneRowPerSample /\ FiniteInv => AgentsAreShownOnce
    BY ShownOnce DEF ViewInv
  <1>4. QED
    BY <1>1, <1>2, <1>3, InvAlways, SnapsStayFinite, PTL DEF Spec
=============================================================================
