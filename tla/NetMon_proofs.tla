---------------------------- MODULE NetMon_proofs ---------------------------
(***************************************************************************)
(* Proofs about NetMon and FlowViews: the types, counts that are           *)
(* sightings, rows that keep what they know, last_seen that goes back only *)
(* by a late batch, mappings that are backed, and views that show what was *)
(* seen.                                                                   *)
(*                                                                         *)
(* The invariant IInv adds what makes these inductive: requests have       *)
(* numbers of their own, all names on their way come from lookups of their *)
(* addresses, and what an agent waits for is no older than anything it has *)
(* stored.  The views need FiniteInv too: what was seen is finite.         *)
(***************************************************************************)
EXTENDS FlowViews, FiniteSetTheorems, WellFoundedInduction, TLAPS

\* A request has a number of its own, and no reply yet.
WireInv ==
    /\ IsFiniteSet(requests)
    /\ \A r \in requests : r.seen <= collected /\ r.seen \notin replies
    /\ \A r1, r2 \in requests : r1.seen = r2.seen => r1 = r2

\* Every name on its way, stored or to be recorded is one that a lookup of its
\* address returns.
Answers(b) == \A i \in DOMAIN b : b[i].name \in Ptr[AddrOf[b[i].conn]] \cup {None}

NameInv ==
    /\ Answers(cycle.left) /\ \A r \in requests : Answers(r.batch)
    /\ \A k \in Keys : flows[k].name \in Ptr[AddrOf[k[2]]] \cup {None}
    /\ \A m \in history \cup mappings : Talks(m[1], m[2]) /\ m[3] \in Ptr[m[2]]

\* What an agent waits for, and what the server's collector is about to store, is no
\* older than what is stored; without a fault an agent waits for all the requests it
\* has on their way.
WaitInv(h) ==
    waiting[h] # 0 =>
        /\ \A r \in requests : r.agent = h => r.seen <= waiting[h]
        /\ \A k \in Keys : k[1] = h => flows[k].last <= waiting[h]

OrderInv ==
    /\ \A k \in Keys : flows[k].last <= collected
    /\ \A h \in Agents : WaitInv(h)
    /\ cycle.seen <= collected
    /\ cycle.left # <<>> => \A k \in Keys : k[1] = Local => flows[k].last <= cycle.seen
    /\ faults = 0 => \A r \in requests : waiting[r.agent] = r.seen

IInv == TypeOK /\ WireInv /\ NameInv /\ OrderInv /\ CountsAreSightings

-----------------------------------------------------------------------------
(***************************************************************************)
(* Finite sets.                                                            *)
(***************************************************************************)
\* Among some subsets of a finite set one is minimal.
LEMMA HasMinimal ==
    ASSUME NEW S, IsFiniteSet(S), NEW B \in SUBSET SUBSET S, B # {}
    PROVE  \E T \in B : \A U \in B : ~(U \subseteq T /\ U # T)
  <1> DEFINE R == StrictSubsetOrdering(S)
             F == FiniteSubsetsOf(S)
  <1>1. IsWellFoundedOn(R, F)
    BY FS_StrictSubsetOrderingWellFounded
  <1>2. F = SUBSET S
    BY FS_FiniteSubsetsOfFinite
  <1>3. \E T \in B : \A U \in B : <<U, T>> \notin R
    <2> HIDE DEF R, F
    <2>1. QED
      BY <1>1, <1>2, WFMin
  <1>4. QED
    BY <1>3 DEF StrictSubsetOrdering

\* A finite set of integers has a greatest and a least element.
LEMMA HasExtremes ==
    ASSUME NEW S, IsFiniteSet(S), S # {}, \A i \in S : i \in Int
    PROVE  /\ \E i \in S : \A j \in S : j <= i
           /\ \E i \in S : \A j \in S : i <= j
  <1>1. \E i \in S : \A j \in S : j <= i
    <2> DEFINE above(i) == {j \in S : j > i}
               T == {above(i) : i \in S}
    <2>1. T \in SUBSET SUBSET S /\ T # {} /\ \A i \in S : above(i) \in T
      OBVIOUS
    <2>2. PICK i \in S : \A y \in T : ~(y \subseteq above(i) /\ y # above(i))
      <3>1. PICK x \in T : \A U \in T : ~(U \subseteq x /\ U # x)
        <4> HIDE DEF T, above
        <4>1. QED
          BY <2>1, HasMinimal
      <3>2. PICK i \in S : x = above(i)
        OBVIOUS
      <3> HIDE DEF T, above
      <3>3. QED
        BY <3>1, <3>2
    <2>3. ASSUME NEW j \in S, j > i PROVE FALSE
      <3>1. i \in Int /\ j \in Int
        OBVIOUS
      <3>2. above(j) \subseteq above(i)
        <4>1. \A m \in above(j) : m \in above(i)
          BY <2>3, <3>1
        <4>2. QED
          BY <4>1
      <3>3. j \in above(i) /\ j \notin above(j)
        BY <2>3, <3>1
      <3> HIDE DEF T, above
      <3>4. QED
        BY <2>1, <2>2, <3>2, <3>3
    <2>4. \A j \in S : i \in Int /\ j \in Int
      OBVIOUS
    <2> HIDE DEF T, above
    <2>5. QED
      BY <2>3, <2>4
  <1>2. \E i \in S : \A j \in S : i <= j
    <2> DEFINE below(i) == {j \in S : j < i}
               T == {below(i) : i \in S}
    <2>1. T \in SUBSET SUBSET S /\ T # {} /\ \A i \in S : below(i) \in T
      OBVIOUS
    <2>2. PICK i \in S : \A y \in T : ~(y \subseteq below(i) /\ y # below(i))
      <3>1. PICK x \in T : \A U \in T : ~(U \subseteq x /\ U # x)
        <4> HIDE DEF T, below
        <4>1. QED
          BY <2>1, HasMinimal
      <3>2. PICK i \in S : x = below(i)
        OBVIOUS
      <3> HIDE DEF T, below
      <3>3. QED
        BY <3>1, <3>2
    <2>3. ASSUME NEW j \in S, j < i PROVE FALSE
      <3>1. i \in Int /\ j \in Int
        OBVIOUS
      <3>2. below(j) \subseteq below(i)
        <4>1. \A m \in below(j) : m \in below(i)
          BY <2>3, <3>1
        <4>2. QED
          BY <4>1
      <3>3. j \in below(i) /\ j \notin below(j)
        BY <2>3, <3>1
      <3> HIDE DEF T, below
      <3>4. QED
        BY <2>1, <2>2, <3>2, <3>3
    <2>4. \A j \in S : i \in Int /\ j \in Int
      OBVIOUS
    <2> HIDE DEF T, below
    <2>5. QED
      BY <2>3, <2>4
  <1>3. QED
    BY <1>1, <1>2

-----------------------------------------------------------------------------
(***************************************************************************)
(* The upserts.                                                            *)
(***************************************************************************)
\* The positions of a batch: finitely many, and numbers.
LEMMA Positions ==
    ASSUME NEW b \in Seq(Flow), NEW I, I \subseteq DOMAIN b
    PROVE  /\ I \subseteq Int /\ IsFiniteSet(I) /\ Cardinality(I) \in Nat
           /\ I # {} => Cardinality(I) > 0
  <1>1. DOMAIN b = 1 .. Len(b) /\ Len(b) \in Nat
    OBVIOUS
  <1>2. IsFiniteSet(1 .. Len(b))
    BY <1>1, FS_Interval
  <1>3. I \in SUBSET (1 .. Len(b))
    BY <1>1
  <1>4. IsFiniteSet(I)
    BY <1>2, <1>3, FS_Subset
  <1>5. Cardinality(I) \in Nat
    BY <1>4, FS_CardinalityType
  <1>6. Cardinality(I) = 0 => I = {}
    BY <1>4, FS_EmptySet
  <1>7. QED
    BY <1>1, <1>3, <1>4, <1>5, <1>6

\* A value stays, or one that is not empty takes its place.
LEMMA LastKnownIs ==
    ASSUME NEW f, NEW I, NEW old, I \subseteq Int, IsFiniteSet(I)
    PROVE  \/ LastKnown(f, I, old) = old
           \/ \E i \in I : f[i] # None /\ LastKnown(f, I, old) = f[i]
  <1> DEFINE known == {i \in I : f[i] # None}
             last == CHOOSE i \in known : \A j \in known : j <= i
  <1>1. LastKnown(f, I, old) = IF known = {} THEN old ELSE f[last]
    BY DEF LastKnown
  <1>2. ASSUME known # {} PROVE last \in known
    <2>1. known \subseteq Int /\ known \in SUBSET I
      OBVIOUS
    <2>2. IsFiniteSet(known)
      BY <2>1, FS_Subset
    <2>3. \E i \in known : \A j \in known : j <= i
      <3> HIDE DEF known
      <3>1. QED
        BY <1>2, <2>1, <2>2, HasExtremes
    <2>4. QED
      BY <2>3
  <1>3. CASE known = {}
    BY <1>1, <1>3
  <1>4. CASE known # {}
    <2>1. last \in I /\ f[last] # None
      BY <1>2, <1>4
    <2>2. LastKnown(f, I, old) = f[last]
      BY <1>1, <1>4
    <2> HIDE DEF last, known
    <2>3. QED
      BY <2>1, <2>2
  <1>5. QED
    BY <1>3, <1>4

\* The row that an ingest leaves has counted the flows I and forgotten nothing, and its
\* name is the old one or one of theirs.
IsMerged(new, row, b, seen, I) ==
    /\ new \in Row
    /\ new.count = row.count + Cardinality(I) /\ new.count > row.count
    /\ \/ new.name = row.name
       \/ \E i \in I : b[i].name # None /\ new.name = b[i].name
    /\ row.process # None => new.process # None
    /\ new.last = seen
    /\ new.first = IF row.count = 0 THEN seen ELSE row.first

\* What the upsert of an agent's flows makes of a row.
LEMMA MergedIs ==
    ASSUME NEW row \in Row, NEW b \in Seq(Flow), NEW seen \in Nat, NEW I,
           I \subseteq DOMAIN b, I # {}
    PROVE  IsMerged(Merged(row, b, seen, I), row, b, seen, I)
  <1> DEFINE names == [i \in I |-> b[i].name]
             procs == [i \in I |-> b[i].proc]
             first == CHOOSE i \in I : \A j \in I : i <= j
             name == LastKnown(names, I, row.name)
             process == LastKnown(procs, I, row.process)
             pid == IF row.count = 0 THEN b[first].proc ELSE row.pid
             from == IF row.count = 0 THEN seen ELSE row.first
  <1>1. I \subseteq Int /\ IsFiniteSet(I) /\ Cardinality(I) \in Nat /\ Cardinality(I) > 0
    BY Positions
  <1>2. \A i \in I : b[i].name \in Names \cup {None} /\ b[i].proc \in Procs \cup {None}
    <2>1. \A i \in I : b[i] \in Flow
      OBVIOUS
    <2>2. QED
      BY <2>1 DEF Flow
  <1>3. /\ row.count \in Nat /\ row.name \in Names \cup {None} /\ row.pid \in Procs \cup {None}
        /\ row.process \in Procs \cup {None} /\ row.first \in Nat
    BY DEF Row
  <1>4. name = row.name \/ \E i \in I : b[i].name # None /\ name = b[i].name
    <2>1. name = row.name \/ \E i \in I : names[i] # None /\ name = names[i]
      <3> HIDE DEF names
      <3>1. QED
        BY <1>1, LastKnownIs
    <2>2. \A i \in I : names[i] = b[i].name
      OBVIOUS
    <2> HIDE DEF names, name
    <2>3. QED
      BY <2>1, <2>2
  <1>5. process = row.process \/ \E i \in I : b[i].proc # None /\ process = b[i].proc
    <2>1. process = row.process \/ \E i \in I : procs[i] # None /\ process = procs[i]
      <3> HIDE DEF procs
      <3>1. QED
        BY <1>1, LastKnownIs
    <2>2. \A i \in I : procs[i] = b[i].proc
      OBVIOUS
    <2> HIDE DEF procs, process
    <2>3. QED
      BY <2>1, <2>2
  <1>6. first \in I
    <2>1. \E i \in I : \A j \in I : i <= j
      BY <1>1, HasExtremes
    <2>2. QED
      BY <2>1
  <1>7. Merged(row, b, seen, I) =
            [count |-> row.count + Cardinality(I), name |-> name, pid |-> pid,
             process |-> process, first |-> from, last |-> seen]
    BY DEF Merged
  <1>8. pid \in Procs \cup {None} /\ from \in Nat
    <2> HIDE DEF first
    <2>1. QED
      BY <1>2, <1>3, <1>6
  <1> HIDE DEF name, process, pid, first, names, procs
  <1>9. name \in Names \cup {None} /\ process \in Procs \cup {None}
    BY <1>2, <1>3, <1>4, <1>5
  <1>10. Merged(row, b, seen, I) \in Row
    BY <1>1, <1>3, <1>7, <1>8, <1>9 DEF Row
  <1>11. QED
    BY <1>1, <1>3, <1>4, <1>5, <1>7, <1>10 DEF IsMerged

\* What one step may do to the row of k.
Stays(k) == flows'[k] = flows[k]

StoredIn(k) ==
    /\ Store /\ cycle.left # <<>> /\ k = <<Local, Head(cycle.left).conn>>
    /\ flows'[k] = Overwritten(flows[k], Head(cycle.left), cycle.seen)

IngestedIn(k) ==
    \E r \in requests : \E I \in SUBSET Of(r.batch, k[2]) :
        /\ Ingest(r) /\ k[1] = r.agent /\ I # {}
        /\ flows'[k] = Merged(flows[k], r.batch, r.seen, I)

FilledIn(k) ==
    /\ Fill /\ AddrOf[k[2]] = found[1] /\ flows[k].name = None
    /\ flows'[k] = [flows[k] EXCEPT !.name = found[2]]

\* A row changes by one upsert or by one UPDATE, or not at all.
LEMMA RowChanges ==
    ASSUME TypeOK, [Next]_vars
    PROVE  /\ flows' = [k \in Keys |-> flows'[k]]
           /\ \A k \in Keys : Stays(k) \/ StoredIn(k) \/ IngestedIn(k) \/ FilledIn(k)
  <1>0. flows \in [Keys -> Row]
    BY DEF TypeOK
  <1>1. CASE flows' = flows
    BY <1>0, <1>1 DEF Stays
  <1>2. CASE Store
    <2> DEFINE f == Head(cycle.left)
    <2>1. cycle.left # <<>> /\ (flows' = flows \/
             flows' = [flows EXCEPT ![<<Local, f.conn>>] = Overwritten(@, f, cycle.seen)])
      BY <1>2 DEF Store
    <2>2. CASE flows' = [flows EXCEPT ![<<Local, f.conn>>] = Overwritten(@, f, cycle.seen)]
      <3>1. ASSUME NEW k \in Keys, k # <<Local, f.conn>> PROVE Stays(k)
        BY <1>0, <2>2, <3>1 DEF Stays
      <3>2. ASSUME NEW k \in Keys, k = <<Local, f.conn>> PROVE StoredIn(k)
        BY <1>0, <1>2, <2>1, <2>2, <3>2 DEF StoredIn
      <3>3. flows' = [k \in Keys |-> flows'[k]]
        BY <1>0, <2>2
      <3>4. QED
        BY <3>1, <3>2, <3>3
    <2>3. QED
      BY <1>1, <2>1, <2>2
  <1>3. ASSUME NEW r \in requests, Ingest(r)
        PROVE  /\ flows' = [k \in Keys |-> flows'[k]]
               /\ \A k \in Keys : Stays(k) \/ IngestedIn(k)
    <2>1. PICK kept \in SUBSET DOMAIN r.batch :
              flows' = [k \in Keys |->
                          LET I == Of(r.batch, k[2]) \cap kept IN
                          IF k[1] = r.agent /\ I # {} THEN Merged(flows[k], r.batch, r.seen, I)
                                                      ELSE flows[k]]
      BY <1>3 DEF Ingest
    <2>2. ASSUME NEW k \in Keys PROVE Stays(k) \/ IngestedIn(k)
      <3> DEFINE I == Of(r.batch, k[2]) \cap kept
      <3>1. flows'[k] = IF k[1] = r.agent /\ I # {} THEN Merged(flows[k], r.batch, r.seen, I)
                                                   ELSE flows[k]
        BY <2>1
      <3>2. I \in SUBSET Of(r.batch, k[2])
        OBVIOUS
      <3> HIDE DEF I
      <3>3. CASE k[1] = r.agent /\ I # {}
        BY <1>3, <3>1, <3>2, <3>3 DEF IngestedIn
      <3>4. CASE ~(k[1] = r.agent /\ I # {})
        BY <3>1, <3>4 DEF Stays
      <3>5. QED
        BY <3>3, <3>4
    <2>3. QED
      BY <2>1, <2>2
  <1>4. CASE Fill
    <2>1. CASE flows' = [k \in Keys |->
                        IF k \in Stored /\ AddrOf[k[2]] = found[1] /\ flows[k].name = None
                        THEN [flows[k] EXCEPT !.name = found[2]] ELSE flows[k]]
      BY <1>4, <2>1 DEF Stays, FilledIn
    <2>2. QED
      BY <1>1, <1>4, <2>1 DEF Fill
  <1>5. CASE ~Store /\ ~Fill /\ ~Server
    <2>1. flows' = flows
      BY <1>5 DEF Next, Collector, Enricher, Shipper, Restart, Collect, BeginPass, Record,
                  FindUnresolved, LookUp, ReadHosts, EndPass, Send, GetReply, TimeOut, Break, vars
    <2>2. QED
      BY <1>1, <2>1
  <1>6. QED
    BY <1>2, <1>3, <1>4, <1>5 DEF Server

\* What the collector of the server makes of a row.
LEMMA StoredRow ==
    ASSUME TypeOK, NEW k \in Keys, StoredIn(k)
    PROVE  /\ Head(cycle.left) \in Flow /\ Head(cycle.left) = cycle.left[1]
           /\ k[1] = Local /\ k[2] = cycle.left[1].conn
           /\ flows'[k] \in Row
           /\ flows'[k].count = flows[k].count + 1
           /\ flows'[k].name = cycle.left[1].name
           /\ flows'[k].last = cycle.seen
           /\ flows'[k].first = IF flows[k].count = 0 THEN cycle.seen ELSE flows[k].first
  <1>1. flows[k] \in Row /\ cycle.left \in Seq(Flow) /\ cycle.seen \in Nat
    BY DEF TypeOK
  <1> DEFINE f == Head(cycle.left)
  <1>2. /\ cycle.left # <<>> /\ k = <<Local, f.conn>>
        /\ flows'[k] = Overwritten(flows[k], f, cycle.seen)
    BY DEF StoredIn
  <1>3. f \in Flow /\ f = cycle.left[1]
    BY <1>1, <1>2
  <1>4. f.name \in Names \cup {None} /\ f.proc \in Procs \cup {None}
    BY <1>3 DEF Flow
  <1> HIDE DEF f
  <1>5. flows'[k] =
            [count |-> flows[k].count + 1, name |-> f.name, pid |-> f.proc, process |-> f.proc,
             first |-> IF flows[k].count = 0 THEN cycle.seen ELSE flows[k].first,
             last |-> cycle.seen]
    BY <1>2 DEF Overwritten
  <1>6. flows[k].count \in Nat /\ flows[k].first \in Nat
    BY <1>1 DEF Row
  <1>7. flows'[k] \in Row
    BY <1>1, <1>4, <1>5, <1>6 DEF Row
  <1>8. QED
    BY <1>2, <1>3, <1>5, <1>7 DEF f

\* What the ingest of a batch makes of a row.
LEMMA IngestedRow ==
    ASSUME TypeOK, NEW k \in Keys, IngestedIn(k)
    PROVE  \E r \in requests :
              /\ r.agent \in Agents /\ k[1] = r.agent /\ Ingest(r)
              /\ flows'[k] \in Row
              /\ flows'[k].count > flows[k].count
              /\ \/ flows'[k].name = flows[k].name
                 \/ \E i \in DOMAIN r.batch : /\ r.batch[i].conn = k[2]
                                               /\ r.batch[i].name # None
                                               /\ flows'[k].name = r.batch[i].name
              /\ flows[k].process # None => flows'[k].process # None
              /\ flows'[k].last = r.seen
              /\ flows'[k].first = IF flows[k].count = 0 THEN r.seen ELSE flows[k].first
  <1>1. PICK r \in requests : \E I \in SUBSET Of(r.batch, k[2]) :
            /\ Ingest(r) /\ k[1] = r.agent /\ I # {}
            /\ flows'[k] = Merged(flows[k], r.batch, r.seen, I)
    BY DEF IngestedIn
  <1>2. PICK I \in SUBSET Of(r.batch, k[2]) :
            /\ Ingest(r) /\ k[1] = r.agent /\ I # {}
            /\ flows'[k] = Merged(flows[k], r.batch, r.seen, I)
    BY <1>1
  <1>3. /\ flows[k] \in Row /\ r.batch \in Seq(Flow) /\ r.seen \in Nat /\ r.agent \in Agents
        /\ I \subseteq DOMAIN r.batch /\ \A i \in I : r.batch[i].conn = k[2]
    BY DEF TypeOK, Request, Of
  <1>4. IsMerged(flows'[k], flows[k], r.batch, r.seen, I)
    BY <1>2, <1>3, MergedIs
  <1>5. QED
    BY <1>2, <1>3, <1>4 DEF IsMerged

\* What the enricher makes of a row: it only fills in a name.
LEMMA FilledRow ==
    ASSUME TypeOK, NEW k \in Keys, FilledIn(k)
    PROVE  /\ flows'[k] \in Row
           /\ flows[k].name = None /\ flows'[k].name \in Ptr[AddrOf[k[2]]]
           /\ flows'[k].name # None
           /\ flows'[k].count = flows[k].count /\ flows'[k].process = flows[k].process
           /\ flows'[k].first = flows[k].first /\ flows'[k].last = flows[k].last
  <1>1. /\ AddrOf[k[2]] = found[1] /\ flows[k].name = None /\ at = "fill"
        /\ flows'[k] = [flows[k] EXCEPT !.name = found[2]]
    BY DEF FilledIn, Fill
  <1>2. /\ flows[k] \in Row /\ found[1] \in Addrs /\ found[2] \in Ptr[found[1]]
    BY <1>1 DEF TypeOK
  <1>3. found[2] \in Names /\ found[2] # None
    BY <1>2, AddrsAssumption, HostsAssumption
  <1>4. QED
    BY <1>1, <1>2, <1>3 DEF Row

\* Rows are never deleted, and their counts do not fall.
LEMMA RowsGrow ==
    ASSUME TypeOK, [Next]_vars, NEW k \in Keys
    PROVE  flows'[k] \in Row /\ flows'[k].count >= flows[k].count
  <1>1. flows[k] \in Row /\ flows[k].count \in Nat
    BY DEF TypeOK, Row
  <1>2. flows'[k] \in Row /\ flows'[k].count \in Int /\ flows'[k].count >= flows[k].count
    <2>1. CASE Stays(k)
      BY <1>1, <2>1 DEF Stays
    <2>2. CASE StoredIn(k)
      BY <1>1, <2>2, StoredRow
    <2>3. CASE IngestedIn(k)
      <3>1. flows'[k] \in Row /\ flows'[k].count > flows[k].count
        BY <2>3, IngestedRow
      <3>2. flows'[k].count \in Nat
        BY <3>1 DEF Row
      <3>3. QED
        BY <1>1, <3>1, <3>2
    <2>4. CASE FilledIn(k)
      BY <1>1, <2>4, FilledRow
    <2>5. QED
      BY <2>1, <2>2, <2>3, <2>4, RowChanges
  <1>3. QED
    BY <1>2

\* What is forgotten is forgotten by collectAndStore.
LEMMA ForgetStep ==
    ASSUME TypeOK, [Next]_vars, NEW k \in Keys,
           \/ flows[k].name # None /\ flows'[k].name = None
           \/ flows[k].process # None /\ flows'[k].process = None
    PROVE  k[1] = Local /\ flows'[k].count > flows[k].count
  <1>1. CASE Stays(k)
    BY <1>1 DEF Stays
  <1>2. CASE StoredIn(k)
    <2>1. flows[k].count \in Nat
      BY DEF TypeOK, Row
    <2>2. QED
      BY <1>2, <2>1, StoredRow
  <1>3. CASE IngestedIn(k)
    BY <1>3, IngestedRow
  <1>4. CASE FilledIn(k)
    BY <1>4, FilledRow
  <1>5. QED
    BY <1>1, <1>2, <1>3, <1>4, RowChanges

-----------------------------------------------------------------------------
(***************************************************************************)
(* Types.                                                                  *)
(***************************************************************************)
LEMMA BatchesAreFlows ==
    ASSUME NEW b \in Batches
    PROVE  b \in Seq(Flow) /\ Answers(b)
  BY BatchesAssumption DEF Answers

\* A collection counts each connection as often as its batch has it.
LEMMA SightedIs ==
    ASSUME TypeOK, NEW h, NEW b \in Seq(Flow), sightings' = Sighted(h, b)
    PROVE  /\ sightings' \in [Keys -> Nat]
           /\ \A k \in Keys : sightings'[k] =
                 sightings[k] + IF k[1] = h THEN Cardinality(Of(b, k[2])) ELSE 0
  <1>1. \A k \in Keys : sightings[k] \in Nat
    BY DEF TypeOK
  <1>2. \A k \in Keys : Cardinality(Of(b, k[2])) \in Nat
    BY Positions DEF Of
  <1>3. \A k \in Keys :
            sightings[k] + (IF k[1] = h THEN Cardinality(Of(b, k[2])) ELSE 0) \in Nat
    BY <1>1, <1>2
  <1>4. QED
    BY <1>3 DEF Sighted

LEMMA TypeInit == Init => TypeOK
  <1> SUFFICES ASSUME Init PROVE TypeOK
    OBVIOUS
  <1>1. flows \in [Keys -> Row] /\ sightings \in [Keys -> Nat]
    BY DEF Init, NoRow, Row
  <1>2. cycle \in [left : Seq(Flow), seen : Nat]
    BY DEF Init, NoCycle
  <1>3. cache \in [Addrs -> 0 .. Ttl] /\ faults \in 0 .. MaxFaults /\ collected \in 0 .. MaxCollects
    BY EnricherAssumption, NetMonBoundsAssumption DEF Init
  <1>4. waiting \in [Agents -> 0 .. collected]
    BY DEF Init
  <1>5. QED
    BY <1>1, <1>2, <1>3, <1>4 DEF Init, TypeOK

LEMMA TypeStep ==
    ASSUME TypeOK, WireInv, [Next]_vars
    PROVE  TypeOK'
  <1>0. /\ history \subseteq Mapping /\ mappings \subseteq Mapping
        /\ cache \in [Addrs -> 0 .. Ttl] /\ Ttl \in Nat \ {0}
        /\ cycle \in [left : Seq(Flow), seen : Nat]
        /\ collected \in 0 .. MaxCollects /\ MaxCollects \in Nat
        /\ waiting \in [Agents -> 0 .. collected]
        /\ requests \subseteq Request /\ replies \subseteq 1 .. collected
        /\ faults \in 0 .. MaxFaults /\ MaxFaults \in Nat
    BY EnricherAssumption, NetMonBoundsAssumption DEF TypeOK
  <1>1. flows' \in [Keys -> Row]
    BY RowChanges, RowsGrow
  <1>2. Fault => faults' \in 0 .. MaxFaults
    BY <1>0 DEF Fault
  <1>3. CASE Collect
    <2>1. PICK b \in Batches : /\ cycle' = [left |-> b, seen |-> collected + 1]
                               /\ sightings' = Sighted(Local, b)
      BY <1>3 DEF Collect
    <2>2. cycle' \in [left : Seq(Flow), seen : Nat] /\ sightings' \in [Keys -> Nat]
      BY <1>0, <2>1, BatchesAreFlows, SightedIs
    <2>3. /\ collected' = collected + 1 /\ collected < MaxCollects
          /\ UNCHANGED <<history, cache, at, mappings, unresolved, found, waiting, requests,
                         replies, faults>>
      BY <1>3 DEF Collect, passVars, wireVars
    <2>4. /\ collected' \in 0 .. MaxCollects
          /\ waiting' \in [Agents -> 0 .. collected'] /\ replies' \subseteq 1 .. collected'
      BY <1>0, <2>3
    <2>5. QED
      BY <1>1, <2>2, <2>3, <2>4 DEF TypeOK
  <1>4. CASE Store
    <2>1. cycle' \in [left : Seq(Flow), seen : Nat]
      <3>1. cycle.left # <<>> /\ cycle' = [cycle EXCEPT !.left = Tail(@)]
        BY <1>4 DEF Store
      <3>2. Tail(cycle.left) \in Seq(Flow)
        BY <1>0, <3>1
      <3>3. QED
        BY <1>0, <3>1, <3>2
    <2>2. faults' \in 0 .. MaxFaults
      BY <1>0, <1>2, <1>4 DEF Store
    <2>3. UNCHANGED <<history, cache, at, mappings, unresolved, found, collected, waiting, requests,
                     replies, sightings>>
      BY <1>4 DEF Store, passVars, wireVars
    <2>4. QED
      BY <1>1, <2>1, <2>2, <2>3 DEF TypeOK
  <1>5. ASSUME NEW h \in Agents, Send(h) PROVE TypeOK'
    <2>1. PICK b \in Batches : Post(h, b)
      BY <1>5 DEF Send
    <2>2. /\ collected' = collected + 1 /\ collected < MaxCollects
          /\ waiting' = [waiting EXCEPT ![h] = collected + 1]
          /\ requests' = requests \cup {[agent |-> h, batch |-> b, seen |-> collected + 1]}
          /\ sightings' = Sighted(h, b)
          /\ UNCHANGED <<history, cache, cycle, at, mappings, unresolved, found, replies, faults>>
      BY <1>5, <2>1 DEF Send, Post, passVars
    <2>3. sightings' \in [Keys -> Nat]
      BY <2>2, BatchesAreFlows, SightedIs
    <2>4. requests' \subseteq Request
      <3>1. [agent |-> h, batch |-> b, seen |-> collected + 1] \in Request
        BY <1>0, BatchesAreFlows DEF Request
      <3>2. QED
        BY <1>0, <2>2, <3>1
    <2>5. /\ collected' \in 0 .. MaxCollects
          /\ waiting' \in [Agents -> 0 .. collected'] /\ replies' \subseteq 1 .. collected'
      BY <1>0, <2>2
    <2>6. QED
      BY <1>1, <2>2, <2>3, <2>4, <2>5 DEF TypeOK
  <1>6. ASSUME NEW h \in Agents, GetReply(h) \/ TimeOut(h) \/ Break(h) PROVE TypeOK'
    <2>1. /\ requests' \subseteq requests /\ replies' \subseteq replies
          /\ waiting' = [waiting EXCEPT ![h] = 0]
          /\ UNCHANGED <<history, cache, cycle, at, mappings, unresolved, found, collected, sightings>>
      BY <1>6 DEF GetReply, TimeOut, Break, passVars
    <2>2. faults' \in 0 .. MaxFaults
      BY <1>0, <1>2, <1>6 DEF GetReply, TimeOut, Break
    <2>3. waiting' \in [Agents -> 0 .. collected']
      BY <1>0, <2>1
    <2>4. QED
      BY <1>0, <1>1, <2>1, <2>2, <2>3 DEF TypeOK
  <1>7. ASSUME NEW r \in requests, Ingest(r) PROVE TypeOK'
    <2>1. /\ requests' \subseteq requests /\ replies' = replies \cup {r.seen}
          /\ UNCHANGED <<history, cache, cycle, at, mappings, unresolved, found, collected, waiting,
                         sightings>>
      BY <1>7 DEF Ingest, passVars
    <2>2. faults' \in 0 .. MaxFaults
      BY <1>0, <1>2, <1>7 DEF Ingest
    <2>3. r.seen \in 1 .. collected
      BY <1>0 DEF WireInv, Request
    <2>4. QED
      BY <1>0, <1>1, <2>1, <2>2, <2>3 DEF TypeOK
  <1>8. CASE BeginPass
    <2>1. /\ at' = "mappings" /\ mappings' = Mapped
          /\ cache' = [a \in Addrs |-> IF cache[a] = 0 THEN 0 ELSE cache[a] - 1]
          /\ UNCHANGED <<history, cycle, unresolved, found, collected, waiting, requests, replies,
                         faults, sightings>>
      BY <1>8 DEF BeginPass, wireVars
    <2>2. mappings' \subseteq Mapping
      BY <2>1, AddrsAssumption DEF Mapped, Stored, Mapping, Keys, TypeOK, Row
    <2>3. cache' \in [Addrs -> 0 .. Ttl]
      BY <1>0, <2>1
    <2>4. QED
      BY <1>1, <2>1, <2>2, <2>3 DEF TypeOK
  <1>9. CASE Record
    <2>1. /\ mappings' \subseteq Mapping /\ history' \subseteq Mapping
          /\ UNCHANGED <<cache, cycle, at, unresolved, found, collected, waiting, requests, replies,
                         sightings>>
      BY <1>0, <1>9 DEF Record, wireVars
    <2>2. faults' \in 0 .. MaxFaults
      BY <1>0, <1>2, <1>9 DEF Record
    <2>3. QED
      BY <1>1, <2>1, <2>2 DEF TypeOK
  <1>10. CASE FindUnresolved
    <2>1. /\ at' = "lookup" /\ unresolved' \subseteq Addrs
          /\ UNCHANGED <<history, cache, cycle, mappings, found, collected, waiting, requests, replies,
                         faults, sightings>>
      BY <1>10 DEF FindUnresolved, Untried, wireVars
    <2>2. QED
      BY <1>1, <2>1 DEF TypeOK
  <1>11. CASE LookUp
    <2>0. PICK a \in unresolved : \E n \in Ptr[a] \cup {None} :
              /\ unresolved' = unresolved \ {a}
              /\ \/ cache' = [cache EXCEPT ![a] = Ttl] /\ UNCHANGED faults
                 \/ Fault /\ UNCHANGED cache
              /\ found' = IF n = None THEN <<>> ELSE <<a, n>>
              /\ at' = IF n = None THEN "lookup" ELSE "fill"
      BY <1>11 DEF LookUp
    <2>1. PICK n \in Ptr[a] \cup {None} :
              /\ unresolved' = unresolved \ {a}
              /\ \/ cache' = [cache EXCEPT ![a] = Ttl] /\ UNCHANGED faults
                 \/ Fault /\ UNCHANGED cache
              /\ found' = IF n = None THEN <<>> ELSE <<a, n>>
              /\ at' = IF n = None THEN "lookup" ELSE "fill"
      BY <2>0
    <2>2. UNCHANGED <<history, cycle, mappings, collected, waiting, requests, replies, sightings>>
      BY <1>11 DEF LookUp, wireVars
    <2>3. unresolved' \in SUBSET Addrs /\ a \in Addrs
      BY <2>1 DEF TypeOK
    <2>4. cache' \in [Addrs -> 0 .. Ttl] /\ faults' \in 0 .. MaxFaults
      BY <1>0, <1>2, <2>1
    <2>5. at' \in {"lookup", "fill"}
      BY <2>1
    <2>6. at' \in {"fill", "hosts"} => found'[1] \in Addrs /\ found'[2] \in Ptr[found'[1]]
      BY <2>1, <2>3
    <2>7. QED
      BY <1>1, <2>2, <2>3, <2>4, <2>5, <2>6 DEF TypeOK
  <1>12. CASE Fill
    <2>1. /\ at = "fill" /\ at' = "hosts"
          /\ UNCHANGED <<history, cache, cycle, mappings, unresolved, found, collected, waiting,
                         requests, replies, sightings>>
      BY <1>12 DEF Fill, wireVars
    <2>2. faults' \in 0 .. MaxFaults
      BY <1>0, <1>2, <1>12 DEF Fill
    <2>3. QED
      BY <1>1, <2>1, <2>2 DEF TypeOK
  <1>13. CASE ReadHosts
    <2>1. /\ at = "hosts" /\ at' = "lookup"
          /\ mappings' \subseteq mappings \cup {<<h, found[1], found[2]>> : h \in Hosts}
          /\ UNCHANGED <<history, cache, cycle, unresolved, collected, waiting, requests, replies,
                         sightings>>
      BY <1>13 DEF ReadHosts, wireVars
    <2>2. found[1] \in Addrs /\ found[2] \in Names
      BY <2>1, AddrsAssumption DEF TypeOK
    <2>3. mappings' \subseteq Mapping
      BY <1>0, <2>1, <2>2 DEF Mapping
    <2>4. faults' \in 0 .. MaxFaults
      BY <1>0, <1>2, <1>13 DEF ReadHosts
    <2>5. QED
      BY <1>1, <2>1, <2>3, <2>4 DEF TypeOK
  <1>14. CASE EndPass
    <2>1. /\ at' = "idle"
          /\ UNCHANGED <<history, cache, cycle, mappings, unresolved, found, collected, waiting,
                         requests, replies, sightings>>
      BY <1>14 DEF EndPass, wireVars
    <2>2. faults' \in 0 .. MaxFaults
      BY <1>0, <1>2, <1>14 DEF EndPass
    <2>3. QED
      BY <1>1, <2>1, <2>2 DEF TypeOK
  <1>15. CASE Restart
    <2>1. /\ at' = "idle" /\ mappings' = {} /\ unresolved' = {} /\ cycle' = NoCycle
          /\ requests' = {} /\ replies' = {} /\ waiting' = [h \in Agents |-> 0]
          /\ UNCHANGED <<history, cache, collected, sightings>>
      BY <1>15 DEF Restart
    <2>2. faults' \in 0 .. MaxFaults
      BY <1>2, <1>15 DEF Restart
    <2>3. cycle' \in [left : Seq(Flow), seen : Nat] /\ waiting' \in [Agents -> 0 .. collected']
      BY <1>0, <2>1 DEF NoCycle
    <2>4. QED
      BY <1>1, <2>1, <2>2, <2>3 DEF TypeOK
  <1>16. CASE UNCHANGED vars
    BY <1>1, <1>16 DEF TypeOK, vars, passVars, wireVars
  <1>17. QED
    BY <1>3, <1>4, <1>5, <1>6, <1>7, <1>8, <1>9, <1>10, <1>11, <1>12, <1>13, <1>14, <1>15, <1>16
       DEF Next, Collector, Server, Enricher, Shipper

-----------------------------------------------------------------------------
(***************************************************************************)
(* Requests, and the names on their way.                                   *)
(***************************************************************************)
LEMMA WireStep ==
    ASSUME TypeOK, WireInv, [Next]_vars
    PROVE  WireInv'
  <1>0. /\ IsFiniteSet(requests) /\ collected \in Nat /\ replies \subseteq 1 .. collected
        /\ \A r \in requests : r.seen \in Nat \ {0} /\ r.seen <= collected /\ r.seen \notin replies
        /\ \A r1, r2 \in requests : r1.seen = r2.seen => r1 = r2
    BY DEF TypeOK, WireInv, Request
  <1>1. ASSUME requests' \subseteq requests, replies' \subseteq replies, collected' = collected
        PROVE  WireInv'
    <2>1. IsFiniteSet(requests')
      BY <1>0, <1>1, FS_Subset
    <2>2. QED
      BY <1>0, <1>1, <2>1 DEF WireInv
  <1>2. CASE Collect
    BY <1>0, <1>2 DEF Collect, wireVars, WireInv
  <1>3. ASSUME NEW h \in Agents, Send(h) PROVE WireInv'
    <2>1. PICK b \in Batches : Post(h, b)
      BY <1>3 DEF Send
    <2> DEFINE new == [agent |-> h, batch |-> b, seen |-> collected + 1]
    <2>2. requests' = requests \cup {new} /\ collected' = collected + 1 /\ replies' = replies
      BY <1>3, <2>1 DEF Send, Post
    <2>3. new.seen = collected + 1
      OBVIOUS
    <2> HIDE DEF new
    <2>4. IsFiniteSet(requests')
      BY <1>0, <2>2, FS_AddElement
    <2>5. \A r \in requests' : r.seen <= collected' /\ r.seen \notin replies'
      BY <1>0, <2>2, <2>3
    <2>6. \A r1, r2 \in requests' : r1.seen = r2.seen => r1 = r2
      BY <1>0, <2>2, <2>3
    <2>7. QED
      BY <2>4, <2>5, <2>6 DEF WireInv
  <1>4. ASSUME NEW r \in requests, Ingest(r) PROVE WireInv'
    <2>1. /\ requests' = requests \ {r} /\ replies' = replies \cup {r.seen}
          /\ collected' = collected
      BY <1>4 DEF Ingest
    <2>2. IsFiniteSet(requests')
      BY <1>0, <2>1, FS_RemoveElement
    <2>3. QED
      BY <1>0, <2>1, <2>2 DEF WireInv
  <1>5. ASSUME NEW h \in Agents, GetReply(h) \/ TimeOut(h) \/ Break(h) PROVE WireInv'
    BY <1>1, <1>5 DEF GetReply, TimeOut, Break
  <1>6. CASE Store \/ Enricher \/ Restart \/ UNCHANGED vars
    <2>1. requests' \subseteq requests /\ replies' \subseteq replies /\ collected' = collected
      BY <1>6 DEF Store, Enricher, BeginPass, Record, FindUnresolved, LookUp, Fill, ReadHosts, EndPass,
                  Restart, wireVars, vars
    <2>2. QED
      BY <1>1, <2>1
  <1>7. QED
    BY <1>2, <1>3, <1>4, <1>5, <1>6 DEF Next, Collector, Server, Shipper

\* Who talked to an address has talked to it for ever.
LEMMA TalksStays ==
    ASSUME TypeOK, [Next]_vars, NEW h, NEW a, Talks(h, a)
    PROVE  Talks(h, a)'
  <1>1. PICK k \in Keys : flows[k].count > 0 /\ k[1] = h /\ AddrOf[k[2]] = a
    BY DEF Talks, Stored
  <1>2. flows'[k].count > 0
    <2>1. flows[k].count \in Nat /\ flows'[k].count \in Nat
      BY RowsGrow DEF TypeOK, Row
    <2>2. QED
      BY <1>1, <2>1, RowsGrow
  <1>3. QED
    BY <1>1, <1>2 DEF Talks, Stored

\* The names of the rows after a step.
LEMMA RowNames ==
    ASSUME TypeOK, NameInv, [Next]_vars, NEW k \in Keys
    PROVE  flows'[k].name \in Ptr[AddrOf[k[2]]] \cup {None}
  <1>1. CASE Stays(k)
    BY <1>1 DEF Stays, NameInv
  <1>2. CASE StoredIn(k)
    <2>1. 1 \in DOMAIN cycle.left
      BY <1>2 DEF StoredIn, TypeOK
    <2>2. QED
      BY <1>2, <2>1, StoredRow DEF NameInv, Answers
  <1>3. CASE IngestedIn(k)
    BY <1>3, IngestedRow DEF NameInv, Answers
  <1>4. CASE FilledIn(k)
    BY <1>4, FilledRow
  <1>5. QED
    BY <1>1, <1>2, <1>3, <1>4, RowChanges

\* Names come from lookups, and rows whose mapping is on its way are not deleted.
LEMMA NameStep ==
    ASSUME TypeOK, NameInv, [Next]_vars
    PROVE  NameInv'
  <1>1. \A k \in Keys : flows'[k].name \in Ptr[AddrOf[k[2]]] \cup {None}
    BY RowNames
  <1>2. Answers(cycle'.left) /\ \A r \in requests' : Answers(r.batch)
    <2>1. CASE Collect
      <3>1. PICK b \in Batches : cycle' = [left |-> b, seen |-> collected + 1]
        BY <2>1 DEF Collect
      <3>2. cycle'.left = b /\ requests' = requests
        BY <2>1, <3>1 DEF Collect, wireVars
      <3>3. QED
        BY <3>2, BatchesAreFlows DEF NameInv
    <2>2. CASE Store
      <3>1. cycle.left # <<>> /\ cycle'.left = Tail(cycle.left) /\ requests' = requests
            /\ cycle.left \in Seq(Flow)
        BY <2>2 DEF Store, wireVars, TypeOK
      <3>2. \A i \in DOMAIN Tail(cycle.left) :
                i + 1 \in DOMAIN cycle.left /\ Tail(cycle.left)[i] = cycle.left[i + 1]
        BY <3>1
      <3>3. QED
        BY <3>1, <3>2 DEF NameInv, Answers
    <2>3. ASSUME NEW h \in Agents, Send(h)
          PROVE  Answers(cycle'.left) /\ \A r \in requests' : Answers(r.batch)
      <3>1. PICK b \in Batches : Post(h, b)
        BY <2>3 DEF Send
      <3> DEFINE new == [agent |-> h, batch |-> b, seen |-> collected + 1]
      <3>2. requests' = requests \cup {new} /\ cycle' = cycle
        BY <2>3, <3>1 DEF Send, Post
      <3>3. new.batch = b
        OBVIOUS
      <3> HIDE DEF new
      <3>4. QED
        BY <3>2, <3>3, BatchesAreFlows DEF NameInv
    <2>4. CASE Restart
      BY <2>4 DEF Restart, NoCycle, Answers
    <2>5. ASSUME requests' \subseteq requests, cycle' = cycle
          PROVE  Answers(cycle'.left) /\ \A r \in requests' : Answers(r.batch)
      BY <2>5 DEF NameInv
    <2>6. ASSUME NEW h \in Agents, GetReply(h) \/ TimeOut(h) \/ Break(h)
          PROVE  requests' \subseteq requests /\ cycle' = cycle
      BY <2>6 DEF GetReply, TimeOut, Break
    <2>7. ASSUME Enricher \/ Server \/ UNCHANGED vars
          PROVE  requests' \subseteq requests /\ cycle' = cycle
      BY <2>7 DEF Server, Ingest, Enricher, BeginPass, Record, FindUnresolved, LookUp, Fill, ReadHosts,
                  EndPass, wireVars, vars
    <2>8. QED
      BY <2>1, <2>2, <2>3, <2>4, <2>5, <2>6, <2>7 DEF Next, Collector, Shipper
  <1>3. \A m \in history' \cup mappings' : Talks(m[1], m[2]) /\ m[3] \in Ptr[m[2]]
    <2>1. CASE BeginPass
      <3>1. history' = history /\ mappings' = Mapped
        BY <2>1 DEF BeginPass
      <3>2. \A m \in Mapped : Talks(m[1], m[2]) /\ m[3] \in Ptr[m[2]]
        BY DEF Mapped, Talks, Stored, NameInv
      <3>3. QED
        BY <3>1, <3>2 DEF NameInv
    <2>2. CASE ReadHosts
      <3>1. /\ at = "hosts" /\ history' = history
            /\ mappings' \subseteq
                 mappings \cup {<<h, found[1], found[2]>> : h \in {g \in Hosts : Talks(g, found[1])}}
        BY <2>2 DEF ReadHosts
      <3>2. found[2] \in Ptr[found[1]]
        BY <3>1 DEF TypeOK
      <3>3. QED
        BY <3>1, <3>2 DEF NameInv
    <2>3. ASSUME history' \cup mappings' \subseteq history \cup mappings
          PROVE  \A m \in history' \cup mappings' : Talks(m[1], m[2]) /\ m[3] \in Ptr[m[2]]
      BY <2>3 DEF NameInv
    <2>4. CASE Record
      BY <2>3, <2>4 DEF Record
    <2>5. CASE FindUnresolved \/ LookUp \/ Fill \/ EndPass \/ Restart \/ UNCHANGED vars
      BY <2>3, <2>5 DEF FindUnresolved, LookUp, Fill, EndPass, Restart, vars, passVars
    <2>6. CASE Collector \/ Server \/ \E h \in Agents : Shipper(h)
      <3>1. history' = history /\ mappings' = mappings
        BY <2>6 DEF Collector, Collect, Store, Server, Ingest, Shipper, Send, GetReply, TimeOut, Break,
                    passVars
      <3>2. QED
        BY <2>3, <3>1
    <2>7. QED
      BY <2>1, <2>2, <2>4, <2>5, <2>6 DEF Next, Enricher
  <1>4. \A m \in history' \cup mappings' : Talks(m[1], m[2])'
    BY <1>3, TalksStays
  <1>5. QED
    BY <1>1, <1>2, <1>3, <1>4 DEF NameInv, Answers

-----------------------------------------------------------------------------
(***************************************************************************)
(* Order.                                                                  *)
(***************************************************************************)
LEMMA FaultsStay ==
    ASSUME TypeOK, [Next]_vars
    PROVE  /\ faults' = faults \/ Fault
           /\ faults \in Nat /\ (Fault => faults' \in Nat /\ faults' > 0)
  <1>1. faults \in Nat /\ (Fault => faults' \in Nat /\ faults' > 0)
    BY NetMonBoundsAssumption DEF TypeOK, Fault
  <1>2. CASE Collector \/ Server
    BY <1>1, <1>2 DEF Collector, Collect, Store, Server, Ingest
  <1>3. CASE Enricher
    BY <1>1, <1>3 DEF Enricher, BeginPass, Record, FindUnresolved, LookUp, Fill, ReadHosts, EndPass
  <1>4. CASE Restart \/ UNCHANGED vars
    BY <1>1, <1>4 DEF Restart, vars
  <1>5. CASE \E h \in Agents : Shipper(h)
    BY <1>1, <1>5 DEF Shipper, Send, GetReply, TimeOut, Break
  <1>6. QED
    BY <1>1, <1>2, <1>3, <1>4, <1>5 DEF Next

\* Without a fault after the step there was none before it, and the step is none.
LEMMA NoFault ==
    ASSUME TypeOK, [Next]_vars, faults' = 0
    PROVE  faults = 0 /\ ~Fault
  BY FaultsStay

\* The last sighting of a row moves to the second of the flow that is stored.
LEMMA RowOrder ==
    ASSUME IInv, [Next]_vars, NEW k \in Keys
    PROVE  /\ flows'[k].last \in Nat /\ flows'[k].last <= collected
           /\ \/ flows'[k].last = flows[k].last
              \/ /\ Store /\ cycle.left # <<>> /\ k[1] = Local
                 /\ flows'[k].last = cycle.seen /\ flows[k].last <= cycle.seen
              \/ \E r \in requests : Ingest(r) /\ k[1] = r.agent /\ flows'[k].last = r.seen
  <1>0. TypeOK /\ OrderInv /\ WireInv
    BY DEF IInv
  <1>1. /\ flows[k].last <= collected
        /\ flows[k].last \in Nat /\ collected \in Nat /\ cycle.seen \in Nat
    BY <1>0 DEF OrderInv, TypeOK, Row
  <1>2. CASE Stays(k)
    BY <1>1, <1>2 DEF Stays
  <1>3. CASE StoredIn(k)
    <2>1. cycle.left # <<>> /\ k[1] = Local /\ Store
      BY <1>0, <1>3, StoredRow DEF StoredIn
    <2>2. flows[k].last <= cycle.seen /\ cycle.seen <= collected
      BY <1>0, <2>1 DEF OrderInv
    <2>3. flows'[k].last = cycle.seen
      BY <1>0, <1>3, StoredRow
    <2>4. QED
      BY <1>1, <2>1, <2>2, <2>3
  <1>4. CASE IngestedIn(k)
    <2>1. PICK r \in requests : Ingest(r) /\ k[1] = r.agent /\ flows'[k].last = r.seen
      BY <1>0, <1>4, IngestedRow
    <2>2. r.seen <= collected /\ r.seen \in Nat
      BY <1>0, <2>1 DEF WireInv, TypeOK, Request
    <2>3. QED
      BY <1>1, <2>1, <2>2
  <1>5. CASE FilledIn(k)
    BY <1>0, <1>1, <1>5, FilledRow
  <1>6. QED
    BY <1>0, <1>2, <1>3, <1>4, <1>5, RowChanges

\* What one step does to an agent's request: it is over, or nothing is added to what
\* the agent has on its way, or a new one is sent.
LEMMA WaitChanges ==
    ASSUME TypeOK, [Next]_vars, NEW h \in Agents
    PROVE  \/ waiting'[h] = 0
           \/ waiting'[h] = waiting[h] /\ \A r \in requests' : r.agent = h => r \in requests
           \/ /\ waiting'[h] = collected + 1
              /\ \A r \in requests' : r \in requests \/ r.seen = collected + 1
  <1>0. waiting \in [Agents -> 0 .. collected]
    BY DEF TypeOK
  <1>1. CASE waiting' = waiting /\ requests' \subseteq requests
    BY <1>1
  <1>2. CASE Collector \/ Server \/ Enricher \/ UNCHANGED vars
    <2>1. requests' \subseteq requests /\ waiting' = waiting
      BY <1>2 DEF Collector, Collect, Store, Server, Ingest, Enricher, BeginPass, Record,
                  FindUnresolved, LookUp, Fill, ReadHosts, EndPass, wireVars, vars
    <2>2. QED
      BY <1>1, <2>1
  <1>3. CASE Restart
    BY <1>3 DEF Restart
  <1>4. ASSUME NEW g \in Agents, GetReply(g) \/ TimeOut(g) \/ Break(g)
        PROVE  \/ waiting'[h] = 0
               \/ waiting'[h] = waiting[h] /\ \A r \in requests' : r.agent = h => r \in requests
    <2>1. waiting' = [waiting EXCEPT ![g] = 0] /\ requests' \subseteq requests
      BY <1>4 DEF GetReply, TimeOut, Break
    <2>2. QED
      BY <1>0, <2>1
  <1>5. ASSUME NEW g \in Agents, Send(g)
        PROVE  \/ waiting'[h] = waiting[h] /\ \A r \in requests' : r.agent = h => r \in requests
               \/ /\ waiting'[h] = collected + 1
                  /\ \A r \in requests' : r \in requests \/ r.seen = collected + 1
    <2>1. PICK b \in Batches : Post(g, b)
      BY <1>5 DEF Send
    <2> DEFINE new == [agent |-> g, batch |-> b, seen |-> collected + 1]
    <2>2. requests' = requests \cup {new} /\ waiting' = [waiting EXCEPT ![g] = collected + 1]
      BY <2>1 DEF Post
    <2>3. new.agent = g /\ new.seen = collected + 1
      OBVIOUS
    <2> HIDE DEF new
    <2>4. QED
      BY <1>0, <2>2, <2>3
  <1>6. QED
    BY <1>2, <1>3, <1>4, <1>5 DEF Next, Shipper

\* The order is kept.
LEMMA OrderStep ==
    ASSUME IInv, [Next]_vars
    PROVE  OrderInv'
  <1>0. /\ TypeOK /\ WireInv /\ OrderInv
        /\ collected \in Nat /\ cycle.seen \in Nat
        /\ \A r \in requests : r.seen \in Nat \ {0} /\ r.agent \in Agents
        /\ \A k \in Keys : flows[k].last \in Nat /\ flows'[k].last \in Nat
        /\ Local \notin Agents
    <2>1. TypeOK /\ WireInv /\ OrderInv
      BY DEF IInv
    <2>2. collected \in Nat /\ cycle.seen \in Nat
      BY <2>1 DEF TypeOK
    <2>3. \A r \in requests : r.seen \in Nat \ {0} /\ r.agent \in Agents
      BY <2>1 DEF TypeOK, Request
    <2>4. \A k \in Keys : flows[k] \in Row
      BY <2>1 DEF TypeOK
    <2>5. \A k \in Keys : flows[k].last \in Nat /\ flows'[k].last \in Nat
      BY <2>4, RowOrder DEF Row
    <2>6. QED
      BY <2>1, <2>2, <2>3, <2>5, HostsAssumption
  <1>1. collected' \in Nat /\ collected <= collected'
    BY <1>0 DEF Next, Collector, Collect, Store, Server, Ingest, Enricher, BeginPass, Record,
                FindUnresolved, LookUp, Fill, ReadHosts, EndPass, Restart, Shipper, Send, Post,
                GetReply, TimeOut, Break, vars
  <1>2. \A k \in Keys : flows'[k].last <= collected /\ flows'[k].last <= collected'
    BY <1>0, <1>1, RowOrder
  <1>3. ASSUME NEW h \in Agents PROVE WaitInv(h)'
    <2> SUFFICES ASSUME waiting'[h] # 0
                 PROVE  /\ \A r \in requests' : r.agent = h => r.seen <= waiting'[h]
                        /\ \A k \in Keys : k[1] = h => flows'[k].last <= waiting'[h]
      BY DEF WaitInv
    <2>1. CASE waiting'[h] = waiting[h] /\ \A r \in requests' : r.agent = h => r \in requests
      <3>1. /\ \A r \in requests : r.agent = h => r.seen <= waiting[h]
            /\ \A k \in Keys : k[1] = h => flows[k].last <= waiting[h]
        BY <1>0, <2>1 DEF OrderInv, WaitInv
      <3>2. ASSUME NEW k \in Keys, k[1] = h PROVE flows'[k].last <= waiting[h]
        <4>1. k[1] # Local
          BY <1>0, <3>2
        <4>2. QED
          BY <3>1, <3>2, <4>1, RowOrder
      <3>3. QED
        BY <2>1, <3>1, <3>2
    <2>2. CASE /\ waiting'[h] = collected + 1
               /\ \A r \in requests' : r \in requests \/ r.seen = collected + 1
      <3>1. \A r \in requests' : r.seen <= collected + 1
        BY <1>0, <2>2 DEF WireInv
      <3>2. QED
        BY <1>0, <1>2, <2>2, <3>1
    <2>3. QED
      BY <1>0, <2>1, <2>2, WaitChanges
  <1>4. /\ cycle'.seen <= collected'
        /\ cycle'.left # <<>> => \A k \in Keys : k[1] = Local => flows'[k].last <= cycle'.seen
    <2>1. CASE Collect
      <3>1. PICK b \in Batches : cycle' = [left |-> b, seen |-> collected + 1]
        BY <2>1 DEF Collect
      <3>2. cycle'.seen = collected + 1 /\ collected' = collected + 1
        BY <2>1, <3>1 DEF Collect
      <3>3. QED
        BY <1>0, <1>2, <3>2
    <2>2. ASSUME cycle'.seen = cycle.seen, cycle'.left # <<>> => cycle.left # <<>>
          PROVE  /\ cycle'.seen <= collected'
                 /\ cycle'.left # <<>> => \A k \in Keys : k[1] = Local => flows'[k].last <= cycle'.seen
      <3>1. cycle.seen <= collected
        BY <1>0 DEF OrderInv
      <3>2. ASSUME cycle'.left # <<>>, NEW k \in Keys, k[1] = Local PROVE flows'[k].last <= cycle.seen
        <4>1. flows[k].last <= cycle.seen
          BY <1>0, <2>2, <3>2 DEF OrderInv
        <4>2. \A r \in requests : k[1] # r.agent
          BY <1>0, <3>2
        <4>3. QED
          BY <1>0, <4>1, <4>2, RowOrder
      <3>3. QED
        BY <1>0, <1>1, <2>2, <3>1, <3>2
    <2>3. CASE Store
      BY <1>0, <2>2, <2>3 DEF Store, TypeOK
    <2>4. CASE Server \/ Enricher \/ (\E h \in Agents : Shipper(h)) \/ UNCHANGED vars
      <3>1. cycle' = cycle
        BY <2>4 DEF Server, Ingest, Enricher, BeginPass, Record, FindUnresolved, LookUp, Fill, ReadHosts,
                    EndPass, Shipper, Send, GetReply, TimeOut, Break, vars
      <3>2. QED
        BY <2>2, <3>1
    <2>5. CASE Restart
      BY <1>0, <1>1, <2>5 DEF Restart, NoCycle
    <2>6. QED
      BY <2>1, <2>3, <2>4, <2>5 DEF Next, Collector
  <1>5. ASSUME faults' = 0, NEW r \in requests' PROVE waiting'[r.agent] = r.seen
    <2>0. faults = 0 /\ ~Fault
      BY <1>0, <1>5, NoFault
    <2>1. \A q \in requests : waiting[q.agent] = q.seen
      BY <1>0, <2>0 DEF OrderInv
    <2>2. waiting \in [Agents -> 0 .. collected]
      BY <1>0 DEF TypeOK
    <2>3. CASE Collector \/ Server \/ Enricher \/ UNCHANGED vars
      <3>1. requests' \subseteq requests /\ waiting' = waiting
        BY <2>3 DEF Collector, Collect, Store, Server, Ingest, Enricher, BeginPass, Record,
                    FindUnresolved, LookUp, Fill, ReadHosts, EndPass, wireVars, vars
      <3>2. QED
        BY <1>5, <2>1, <3>1
    <2>4. ASSUME NEW h \in Agents, Send(h) PROVE waiting'[r.agent] = r.seen
      <3>1. PICK b \in Batches : Post(h, b)
        BY <2>4 DEF Send
      <3> DEFINE new == [agent |-> h, batch |-> b, seen |-> collected + 1]
      <3>2. /\ requests' = requests \cup {new} /\ waiting[h] = 0
            /\ waiting' = [waiting EXCEPT ![h] = collected + 1]
        BY <2>4, <3>1 DEF Send, Post
      <3>3. new.agent = h /\ new.seen = collected + 1
        OBVIOUS
      <3> HIDE DEF new
      <3>4. CASE r = new
        BY <2>2, <3>2, <3>3, <3>4
      <3>5. CASE r \in requests
        BY <1>0, <2>1, <2>2, <3>2, <3>5
      <3>6. QED
        BY <1>5, <3>2, <3>4, <3>5
    <2>5. ASSUME NEW h \in Agents, GetReply(h) PROVE waiting'[r.agent] = r.seen
      <3>1. /\ requests' = requests /\ waiting' = [waiting EXCEPT ![h] = 0]
            /\ waiting[h] \in replies
        BY <2>5 DEF GetReply
      <3>2. waiting[r.agent] = r.seen /\ r.seen \notin replies
        BY <1>0, <1>5, <2>1, <3>1 DEF WireInv
      <3>3. QED
        BY <2>2, <3>1, <3>2
    <2>6. ~Restart /\ \A h \in Agents : ~TimeOut(h) /\ ~Break(h)
      BY <2>0 DEF Restart, TimeOut, Break
    <2>7. QED
      BY <2>3, <2>4, <2>5, <2>6 DEF Next, Shipper
  <1>6. QED
    BY <1>2, <1>3, <1>4, <1>5 DEF OrderInv

-----------------------------------------------------------------------------
(***************************************************************************)
(* Counting what is on its way.                                            *)
(***************************************************************************)
\* One flow less to write.
LEMMA TailOf ==
    ASSUME NEW b \in Seq(Flow), b # <<>>, NEW c
    PROVE  Cardinality(Of(b, c)) =
             Cardinality(Of(Tail(b), c)) + IF Head(b).conn = c THEN 1 ELSE 0
  <1> DEFINE T == Of(Tail(b), c)
             U == Of(b, c) \ {1}
             f == [i \in T |-> i + 1]
  <1>1. /\ Len(b) \in Nat \ {0} /\ DOMAIN b = 1 .. Len(b) /\ Head(b) = b[1]
        /\ Tail(b) \in Seq(Flow) /\ DOMAIN Tail(b) = 1 .. Len(b) - 1
        /\ \A i \in 1 .. Len(b) - 1 : Tail(b)[i] = b[i + 1]
    OBVIOUS
  <1>2. IsFiniteSet(T) /\ Cardinality(T) \in Nat
    BY <1>1, Positions DEF Of
  <1>3. IsFiniteSet(Of(b, c)) /\ Cardinality(Of(b, c)) \in Nat
    BY Positions DEF Of
  <1>4. ExistsBijection(T, U)
    <2>1. T \subseteq 1 .. Len(b) - 1 /\ \A i \in T : i + 1 \in U
      BY <1>1 DEF Of
    <2>2. \A u \in U : u - 1 \in T /\ u = (u - 1) + 1
      BY <1>1 DEF Of
    <2> HIDE DEF T, U
    <2>3. f \in [T -> U]
      BY <2>1
    <2>4. \A i, j \in T : f[i] = f[j] => i = j
      BY <1>1, <2>1
    <2>5. \A u \in U : \E i \in T : f[i] = u
      BY <2>2
    <2> HIDE DEF f
    <2>6. f \in Bijection(T, U)
      BY <2>3, <2>4, <2>5 DEF Bijection, Injection, Surjection, IsInjective
    <2>7. QED
      BY <2>6 DEF ExistsBijection
  <1>5. Cardinality(U) = Cardinality(T)
    <2> HIDE DEF T, U
    <2>1. QED
      BY <1>2, <1>4, FS_Bijection
  <1>6. Cardinality(U) = IF 1 \in Of(b, c) THEN Cardinality(Of(b, c)) - 1 ELSE Cardinality(Of(b, c))
    BY <1>3, FS_RemoveElement
  <1>7. 1 \in Of(b, c) <=> Head(b).conn = c
    BY <1>1 DEF Of
  <1> HIDE DEF T, U
  <1>8. QED
    BY <1>2, <1>3, <1>5, <1>6, <1>7 DEF T

\* The flows of connection c in request r, and in those of the requests R that are of
\* host h.
FlowsIn(r, c) == {<<r, i>> : i \in Of(r.batch, c)}

OnWay(R, h, c) == UNION {FlowsIn(r, c) : r \in {q \in R : q.agent = h}}

\* The flows of one request are as many as its batch has.
LEMMA FlowsInCounted ==
    ASSUME NEW r \in Request, NEW c
    PROVE  /\ IsFiniteSet(FlowsIn(r, c))
           /\ Cardinality(FlowsIn(r, c)) = Cardinality(Of(r.batch, c))
  <1> DEFINE f == [i \in Of(r.batch, c) |-> <<r, i>>]
  <1>1. IsFiniteSet(Of(r.batch, c))
    BY Positions DEF Of, Request
  <1>2. f \in Bijection(Of(r.batch, c), FlowsIn(r, c))
    BY DEF FlowsIn, Bijection, Injection, Surjection, IsInjective
  <1>3. ExistsBijection(Of(r.batch, c), FlowsIn(r, c))
    BY <1>2 DEF ExistsBijection
  <1>4. QED
    BY <1>1, <1>3, FS_Bijection

\* Finitely many requests have finitely many flows.
LEMMA OnWayIsFinite ==
    ASSUME NEW R \in SUBSET Request, IsFiniteSet(R), NEW h, NEW c
    PROVE  IsFiniteSet(OnWay(R, h, c)) /\ Cardinality(OnWay(R, h, c)) \in Nat
  <1> DEFINE Q == {q \in R : q.agent = h}
             S == {FlowsIn(r, c) : r \in Q}
             f == [r \in Q |-> FlowsIn(r, c)]
  <1>1. IsFiniteSet(Q)
    BY FS_Subset
  <1>2. f \in Surjection(Q, S)
    BY DEF Surjection
  <1>3. IsFiniteSet(S)
    <2> HIDE DEF Q, S, f
    <2>1. QED
      BY <1>1, <1>2, FS_Surjection
  <1>4. \A T \in S : IsFiniteSet(T)
    BY FlowsInCounted
  <1>5. IsFiniteSet(UNION S)
    <2> HIDE DEF S
    <2>1. QED
      BY <1>3, <1>4, FS_UNION
  <1>6. OnWay(R, h, c) = UNION S
    BY DEF OnWay
  <1>7. QED
    BY <1>5, <1>6, FS_CardinalityType

\* One request more.
LEMMA OneMore ==
    ASSUME NEW R \in SUBSET Request, IsFiniteSet(R), NEW r \in Request, r \notin R, NEW h, NEW c
    PROVE  Cardinality(OnWay(R \cup {r}, h, c)) =
             Cardinality(OnWay(R, h, c)) + IF r.agent = h THEN Cardinality(Of(r.batch, c)) ELSE 0
  <1>1. IsFiniteSet(OnWay(R, h, c)) /\ Cardinality(OnWay(R, h, c)) \in Nat
    BY OnWayIsFinite
  <1>2. CASE r.agent = h
    <2>1. OnWay(R \cup {r}, h, c) = OnWay(R, h, c) \cup FlowsIn(r, c)
      BY <1>2 DEF OnWay
    <2>2. OnWay(R, h, c) \cap FlowsIn(r, c) = {}
      BY DEF OnWay, FlowsIn
    <2>3. /\ IsFiniteSet(FlowsIn(r, c))
          /\ Cardinality(FlowsIn(r, c)) = Cardinality(Of(r.batch, c))
          /\ Cardinality(FlowsIn(r, c)) \in Nat
      BY FlowsInCounted, FS_CardinalityType
    <2>4. Cardinality(OnWay(R, h, c) \cap FlowsIn(r, c)) = 0
      BY <2>2, FS_EmptySet
    <2>5. Cardinality(OnWay(R, h, c) \cup FlowsIn(r, c)) =
              Cardinality(OnWay(R, h, c)) + Cardinality(FlowsIn(r, c))
                - Cardinality(OnWay(R, h, c) \cap FlowsIn(r, c))
      BY <1>1, <2>3, FS_Union
    <2>6. Cardinality(OnWay(R \cup {r}, h, c)) =
              Cardinality(OnWay(R, h, c)) + Cardinality(FlowsIn(r, c))
      <3> DEFINE n == Cardinality(OnWay(R, h, c))
                 m == Cardinality(FlowsIn(r, c))
      <3>1. /\ n \in Nat /\ m \in Nat
            /\ Cardinality(OnWay(R, h, c) \cup FlowsIn(r, c)) = n + m - 0
        BY <1>1, <2>3, <2>4, <2>5
      <3> HIDE DEF n, m
      <3>2. Cardinality(OnWay(R, h, c) \cup FlowsIn(r, c)) = n + m
        BY <3>1
      <3>3. QED
        BY <2>1, <3>2 DEF n, m
    <2>7. QED
      BY <1>2, <2>3, <2>6
  <1>3. CASE r.agent # h
    <2>1. OnWay(R \cup {r}, h, c) = OnWay(R, h, c)
      BY <1>3 DEF OnWay
    <2>2. QED
      BY <1>1, <1>3, <2>1
  <1>4. QED
    BY <1>2, <1>3

\* What is on its way for the row of k, by the kind of its host.
LEMMA PendingIs ==
    ASSUME NEW k
    PROVE  Pending(k) = IF k[1] = Local THEN Cardinality(Of(cycle.left, k[2]))
                                        ELSE Cardinality(OnWay(requests, k[1], k[2]))
  BY DEF Pending, Waiting, OnWay, FlowsIn

\* A step keeps the balance of row k, or something of it is lost by a fault.
Due(k) == flows[k].count + Pending(k) - sightings[k]

Balanced(k) ==
    \/ Due(k)' = Due(k)
    \/ Fault /\ Due(k)' <= Due(k)

\* What is counted is a number.
LEMMA Amounts ==
    ASSUME TypeOK, WireInv, NEW k \in Keys
    PROVE  /\ flows[k].count \in Nat /\ Pending(k) \in Nat /\ sightings[k] \in Nat
           /\ Cardinality(Of(cycle.left, k[2])) \in Nat
           /\ IsFiniteSet(requests) /\ requests \in SUBSET Request
           /\ Cardinality(OnWay(requests, k[1], k[2])) \in Nat
  <1>1. flows[k] \in Row /\ sightings[k] \in Nat /\ cycle.left \in Seq(Flow)
    BY DEF TypeOK
  <1>2. Cardinality(Of(cycle.left, k[2])) \in Nat
    BY <1>1, Positions DEF Of
  <1>3. IsFiniteSet(requests) /\ requests \in SUBSET Request
    BY DEF TypeOK, WireInv
  <1>4. Cardinality(OnWay(requests, k[1], k[2])) \in Nat
    BY <1>3, OnWayIsFinite
  <1>5. flows[k].count \in Nat
    BY <1>1 DEF Row
  <1>6. Pending(k) \in Nat
    BY <1>2, <1>4, PendingIs
  <1>7. QED
    BY <1>1, <1>2, <1>3, <1>4, <1>5, <1>6

\* What the server collects is in its cycle.
LEMMA CollectBalances ==
    ASSUME TypeOK, WireInv, Collect, NEW k \in Keys
    PROVE  Balanced(k)
  <1>1. PICK b \in Batches : cycle' = [left |-> b, seen |-> collected + 1] /\ sightings' = Sighted(Local, b)
    BY DEF Collect
  <1>2. cycle'.left = b /\ cycle.left = <<>> /\ UNCHANGED <<flows, requests>>
    BY <1>1 DEF Collect, wireVars
  <1>3. sightings'[k] = sightings[k] + IF k[1] = Local THEN Cardinality(Of(b, k[2])) ELSE 0
    BY <1>1, BatchesAreFlows, SightedIs
  <1>4. CASE k[1] = Local
    <2>1. Of(cycle.left, k[2]) = {}
      BY <1>2 DEF Of
    <2>2. Pending(k) = 0
      BY <1>4, <2>1, PendingIs, FS_EmptySet
    <2>3. Pending(k)' = Cardinality(Of(b, k[2]))
      BY <1>2, <1>4 DEF Pending
    <2>4. Cardinality(Of(b, k[2])) \in Nat
      BY BatchesAreFlows, Positions DEF Of
    <2>5. QED
      BY <1>2, <1>3, <1>4, <2>2, <2>3, <2>4, Amounts DEF Balanced, Due
  <1>5. CASE k[1] # Local
    <2>1. Pending(k)' = Pending(k)
      BY <1>2, <1>5 DEF Pending, Waiting
    <2>2. QED
      BY <1>2, <1>3, <1>5, <2>1, Amounts DEF Balanced, Due
  <1>6. QED
    BY <1>4, <1>5

\* A flow leaves the cycle for its row, or a fault loses it.
LEMMA StoreBalances ==
    ASSUME TypeOK, WireInv, Store, NEW k \in Keys
    PROVE  Balanced(k)
  <1> DEFINE f == Head(cycle.left)
             one == IF f.conn = k[2] THEN 1 ELSE 0
  <1>1. /\ cycle.left # <<>> /\ cycle'.left = Tail(cycle.left) /\ cycle.left \in Seq(Flow)
        /\ UNCHANGED <<requests, sightings>>
        /\ \/ flows' = [flows EXCEPT ![<<Local, f.conn>>] = Overwritten(@, f, cycle.seen)]
           \/ Fault /\ UNCHANGED flows
    BY DEF Store, TypeOK, wireVars
  <1>2. Cardinality(Of(cycle.left, k[2])) = Cardinality(Of(cycle'.left, k[2])) + one
    BY <1>1, TailOf
  <1>3. Cardinality(Of(cycle'.left, k[2])) \in Nat
    <2>1. Tail(cycle.left) \in Seq(Flow)
      BY <1>1
    <2>2. QED
      BY <1>1, <2>1, Positions DEF Of
  <1>4. CASE k[1] = Local
    <2>1. Pending(k) = Pending(k)' + one /\ Pending(k)' \in Nat
      BY <1>2, <1>3, <1>4 DEF Pending
    <2>2. \/ flows'[k].count = flows[k].count + one
          \/ Fault /\ flows' = flows
      <3>1. flows \in [Keys -> Row] /\ k = <<Local, k[2]>>
        BY <1>4 DEF TypeOK, Keys
      <3>2. CASE flows' = [flows EXCEPT ![<<Local, f.conn>>] = Overwritten(@, f, cycle.seen)]
        <4>1. CASE f.conn = k[2]
          <5>1. flows'[k] = Overwritten(flows[k], f, cycle.seen)
            BY <3>1, <3>2, <4>1
          <5>2. QED
            BY <4>1, <5>1 DEF Overwritten
        <4>2. CASE f.conn # k[2]
          <5>1. flows'[k] = flows[k]
            BY <3>1, <3>2, <4>2
          <5>2. QED
            BY <4>2, <5>1, Amounts
        <4>3. QED
          BY <4>1, <4>2
      <3>3. QED
        BY <1>1, <3>2
    <2>3. one \in Nat
      OBVIOUS
    <2> HIDE DEF one
    <2>4. QED
      BY <1>1, <2>1, <2>2, <2>3, Amounts DEF Balanced, Due
  <1>5. CASE k[1] # Local
    <2>1. Pending(k)' = Pending(k)
      BY <1>1, <1>5 DEF Pending, Waiting
    <2>2. flows'[k] = flows[k]
      BY <1>1, <1>5 DEF TypeOK
    <2>3. QED
      BY <1>1, <2>1, <2>2 DEF Balanced, Due
  <1>6. QED
    BY <1>4, <1>5

\* What an agent collects is in its request.
LEMMA SendBalances ==
    ASSUME TypeOK, WireInv, NEW h \in Agents, Send(h), NEW k \in Keys
    PROVE  Balanced(k)
  <1>1. PICK b \in Batches : Post(h, b)
    BY DEF Send
  <1> DEFINE new == [agent |-> h, batch |-> b, seen |-> collected + 1]
             more == IF k[1] = h THEN Cardinality(Of(b, k[2])) ELSE 0
  <1>2. /\ requests' = requests \cup {new} /\ sightings' = Sighted(h, b)
        /\ UNCHANGED <<flows, cycle>>
    BY <1>1 DEF Send, Post
  <1>3. new \in Request /\ new \notin requests
    <2>1. new \in Request
      BY BatchesAreFlows DEF TypeOK, Request
    <2>2. new.seen = collected + 1 /\ collected \in Nat
      BY DEF TypeOK
    <2>3. \A r \in requests : r.seen <= collected
      BY DEF WireInv
    <2> HIDE DEF new
    <2>4. QED
      BY <2>1, <2>2, <2>3
  <1>4. sightings'[k] = sightings[k] + more /\ more \in Nat
    <2>1. Cardinality(Of(b, k[2])) \in Nat
      BY BatchesAreFlows, Positions DEF Of
    <2>2. QED
      BY <1>2, <2>1, BatchesAreFlows, SightedIs
  <1>5. new.agent = h /\ new.batch = b
    OBVIOUS
  <1> HIDE DEF new
  <1>6. CASE k[1] = Local
    <2>1. Pending(k)' = Pending(k)
      BY <1>2, <1>6 DEF Pending
    <2>2. more = 0
      BY <1>6, HostsAssumption
    <2>3. QED
      BY <1>2, <1>4, <2>1, <2>2, Amounts DEF Balanced, Due
  <1>7. CASE k[1] # Local
    <2>1. Cardinality(OnWay(requests', k[1], k[2])) = Cardinality(OnWay(requests, k[1], k[2])) + more
      BY <1>2, <1>3, <1>5, Amounts, OneMore
    <2>2. Pending(k)' = Pending(k) + more
      BY <1>7, <2>1 DEF Pending, Waiting, OnWay, FlowsIn
    <2> HIDE DEF more
    <2>3. QED
      BY <1>2, <1>4, <2>2, Amounts DEF Balanced, Due
  <1>8. QED
    BY <1>6, <1>7

\* The flows of a request leave it for their rows, or a fault loses some.
LEMMA IngestBalances ==
    ASSUME TypeOK, WireInv, NEW r \in requests, Ingest(r), NEW k \in Keys
    PROVE  Balanced(k)
  <1>1. PICK kept \in SUBSET DOMAIN r.batch :
            /\ flows' = [j \in Keys |->
                           LET I == Of(r.batch, j[2]) \cap kept IN
                           IF j[1] = r.agent /\ I # {} THEN Merged(flows[j], r.batch, r.seen, I)
                                                       ELSE flows[j]]
            /\ IF kept = DOMAIN r.batch THEN UNCHANGED faults ELSE Fault
    BY DEF Ingest
  <1> DEFINE all == Of(r.batch, k[2])
             I == all \cap kept
  <1>2. requests' = requests \ {r} /\ UNCHANGED <<cycle, sightings>>
    BY DEF Ingest
  <1>3. r \in Request /\ r.batch \in Seq(Flow) /\ r.agent \in Agents /\ r.seen \in Nat
    BY DEF TypeOK, Request
  <1>4. /\ IsFiniteSet(all) /\ Cardinality(all) \in Nat
        /\ Cardinality(I) \in Nat /\ Cardinality(I) <= Cardinality(all)
    <2>1. all \subseteq DOMAIN r.batch /\ I \in SUBSET all
      BY DEF Of
    <2> HIDE DEF all, I
    <2>2. IsFiniteSet(all) /\ Cardinality(all) \in Nat
      BY <1>3, <2>1, Positions
    <2>3. IsFiniteSet(I) /\ Cardinality(I) <= Cardinality(all)
      BY <2>1, <2>2, FS_Subset
    <2>4. QED
      BY <2>2, <2>3, FS_CardinalityType
  <1>5. Fault \/ I = all
    BY <1>1 DEF Of
  <1>6. flows'[k] = IF k[1] = r.agent /\ I # {} THEN Merged(flows[k], r.batch, r.seen, I) ELSE flows[k]
    BY <1>1
  <1>7. CASE k[1] # r.agent
    <2>1. flows'[k] = flows[k]
      BY <1>6, <1>7
    <2>2. OnWay(requests', k[1], k[2]) = OnWay(requests, k[1], k[2])
      BY <1>2, <1>7 DEF OnWay
    <2>3. Pending(k)' = Pending(k)
      BY <1>2, <2>2 DEF Pending, Waiting, OnWay, FlowsIn
    <2>4. QED
      BY <1>2, <2>1, <2>3 DEF Balanced, Due
  <1>8. CASE k[1] = r.agent
    <2>1. k[1] # Local
      BY <1>3, <1>8, HostsAssumption
    <2>2. flows'[k].count = flows[k].count + Cardinality(I)
      <3>1. CASE I = {}
        <4>1. Cardinality(I) = 0 /\ flows'[k] = flows[k]
          BY <1>6, <3>1, FS_EmptySet
        <4> HIDE DEF I
        <4>2. QED
          BY <4>1, Amounts
      <3>2. CASE I # {}
        BY <1>6, <1>8, <3>2 DEF Merged
      <3>3. QED
        BY <3>1, <3>2
    <2>3. Pending(k) = Pending(k)' + Cardinality(all) /\ Pending(k)' \in Nat
      <3>1. requests = requests' \cup {r} /\ r \notin requests'
        BY <1>2
      <3>2. requests' \in SUBSET Request /\ IsFiniteSet(requests')
        BY <1>2, Amounts, FS_RemoveElement
      <3>3. Cardinality(OnWay(requests' \cup {r}, k[1], k[2])) =
                Cardinality(OnWay(requests', k[1], k[2])) + Cardinality(all)
        BY <1>3, <1>8, <3>1, <3>2, OneMore
      <3>4. Cardinality(OnWay(requests', k[1], k[2])) \in Nat
        BY <3>2, OnWayIsFinite
      <3>5. Pending(k)' = Cardinality(OnWay(requests', k[1], k[2]))
        BY <2>1 DEF Pending, Waiting, OnWay, FlowsIn
      <3>6. Pending(k) = Cardinality(OnWay(requests' \cup {r}, k[1], k[2]))
        BY <2>1, <3>1, PendingIs
      <3>7. QED
        BY <3>3, <3>4, <3>5, <3>6
    <2> HIDE DEF I, all
    <2>4. QED
      BY <1>2, <1>4, <1>5, <2>2, <2>3, Amounts DEF Balanced, Due
  <1>9. QED
    BY <1>7, <1>8

\* A broken connection or a restart loses some of what is on its way.
LEMMA LossBalances ==
    ASSUME TypeOK, WireInv, NEW k \in Keys,
           Fault, requests' \subseteq requests, UNCHANGED <<flows, sightings>>,
           cycle' = cycle \/ cycle' = NoCycle
    PROVE  Balanced(k)
  <1>1. cycle' = cycle \/ cycle'.left = <<>>
    BY DEF NoCycle
  <1>2. CASE k[1] = Local
    <2>1. Of(cycle'.left, k[2]) = Of(cycle.left, k[2]) \/ Of(cycle'.left, k[2]) = {}
      BY <1>1 DEF Of
    <2>2. Pending(k)' = Pending(k) \/ Pending(k)' = 0
      BY <1>2, <2>1, FS_EmptySet DEF Pending
    <2>3. QED
      BY <1>1, <2>2, Amounts DEF Balanced, Due
  <1>3. CASE k[1] # Local
    <2>1. OnWay(requests', k[1], k[2]) \in SUBSET OnWay(requests, k[1], k[2])
      BY <1>1 DEF OnWay
    <2>2. IsFiniteSet(OnWay(requests, k[1], k[2]))
      BY Amounts, OnWayIsFinite
    <2>3. /\ Cardinality(OnWay(requests', k[1], k[2])) <= Cardinality(OnWay(requests, k[1], k[2]))
          /\ Cardinality(OnWay(requests', k[1], k[2])) \in Nat
      BY <2>1, <2>2, FS_Subset, FS_CardinalityType
    <2>4. Pending(k)' <= Pending(k) /\ Pending(k)' \in Nat
      BY <1>3, <2>3 DEF Pending, Waiting, OnWay, FlowsIn
    <2>5. QED
      BY <1>1, <2>4, Amounts DEF Balanced, Due
  <1>4. QED
    BY <1>2, <1>3

\* The steps that touch neither requests nor the cycle move nothing.
LEMMA OthersBalance ==
    ASSUME TypeOK, [Next]_vars, NEW k \in Keys,
           UNCHANGED <<cycle, requests, sightings>>, flows' = flows \/ Fill
    PROVE  Balanced(k)
  <1>1. Pending(k)' = Pending(k)
    BY DEF Pending, Waiting
  <1>2. flows'[k].count = flows[k].count
    <2>1. CASE Fill
      <3>1. flows[k] \in Row
        BY DEF TypeOK
      <3>2. flows'[k] = flows[k] \/ flows'[k] = [flows[k] EXCEPT !.name = found[2]]
        BY <2>1 DEF Fill
      <3>3. QED
        BY <3>1, <3>2 DEF Row
    <2>2. QED
      BY <2>1
  <1>3. QED
    BY <1>1, <1>2 DEF Balanced, Due

\* No step adds to a row what is not due.
LEMMA StepBalances ==
    ASSUME TypeOK, WireInv, [Next]_vars, NEW k \in Keys
    PROVE  Balanced(k)
  <1>1. CASE Collector
    BY <1>1, CollectBalances, StoreBalances DEF Collector
  <1>2. CASE Server
    BY <1>2, IngestBalances DEF Server
  <1>3. CASE Restart
    <2>1. /\ Fault /\ requests' \subseteq requests /\ cycle' = NoCycle
          /\ UNCHANGED <<flows, sightings>>
      BY <1>3 DEF Restart
    <2>2. QED
      BY <2>1, LossBalances
  <1>4. ASSUME NEW h \in Agents, Shipper(h) PROVE Balanced(k)
    <2>1. CASE Send(h)
      BY <2>1, SendBalances
    <2>2. CASE Break(h)
      <3>1. /\ Fault /\ requests' \subseteq requests /\ cycle' = cycle
            /\ UNCHANGED <<flows, sightings>>
        BY <2>2 DEF Break
      <3>2. QED
        BY <3>1, LossBalances
    <2>3. CASE GetReply(h) \/ TimeOut(h)
      <3>1. UNCHANGED <<flows, cycle, requests, sightings>>
        BY <2>3 DEF GetReply, TimeOut
      <3>2. QED
        BY <3>1, OthersBalance
    <2>4. QED
      BY <1>4, <2>1, <2>2, <2>3 DEF Shipper
  <1>5. CASE Enricher \/ UNCHANGED vars
    <2>1. UNCHANGED <<cycle, requests, sightings>> /\ (flows' = flows \/ Fill)
      BY <1>5 DEF Enricher, BeginPass, Record, FindUnresolved, LookUp, Fill, ReadHosts, EndPass,
                  wireVars, vars
    <2>2. QED
      BY <2>1, OthersBalance
  <1>6. QED
    BY <1>1, <1>2, <1>3, <1>4, <1>5 DEF Next

\* So the counts stay below the sightings, and reach them without a fault.
LEMMA CountStep ==
    ASSUME IInv, [Next]_vars
    PROVE  CountsAreSightings'
  <1>0. TypeOK /\ WireInv /\ CountsAreSightings
    BY DEF IInv
  <1>1. ASSUME NEW k \in Keys
        PROVE  /\ flows'[k].count + Pending(k)' <= sightings'[k]
               /\ faults' = 0 => flows'[k].count + Pending(k)' = sightings'[k]
    <2>1. /\ flows[k].count + Pending(k) <= sightings[k]
          /\ faults = 0 => flows[k].count + Pending(k) = sightings[k]
      BY <1>0 DEF CountsAreSightings
    <2>2. flows[k].count \in Nat /\ Pending(k) \in Nat /\ sightings[k] \in Nat
      BY <1>0, Amounts
    <2>3. flows'[k].count \in Nat /\ Pending(k)' \in Nat /\ sightings'[k] \in Nat
      <3>1. TypeOK' /\ WireInv'
        BY <1>0, TypeStep, WireStep
      <3>2. /\ flows'[k] \in Row /\ sightings'[k] \in Nat /\ cycle'.left \in Seq(Flow)
            /\ requests' \in SUBSET Request /\ IsFiniteSet(requests')
        BY <3>1 DEF TypeOK, WireInv
      <3>3. flows'[k].count \in Nat
        BY <3>2 DEF Row
      <3>4. Cardinality(Of(cycle'.left, k[2])) \in Nat
        BY <3>2, Positions DEF Of
      <3>5. Cardinality(OnWay(requests', k[1], k[2])) \in Nat
        BY <3>2, OnWayIsFinite
      <3>6. Pending(k)' \in Nat
        BY <3>4, <3>5 DEF Pending, Waiting, OnWay, FlowsIn
      <3>7. QED
        BY <3>2, <3>3, <3>6
    <2>4. Balanced(k)
      BY <1>0, StepBalances
    <2>5. faults' = 0 => faults = 0 /\ ~Fault
      BY <1>0, NoFault
    <2>6. QED
      BY <2>1, <2>2, <2>3, <2>4, <2>5 DEF Balanced, Due
  <1>2. QED
    BY <1>1 DEF CountsAreSightings

LEMMA InvInit == Init => IInv
  <1> SUFFICES ASSUME Init PROVE IInv
    OBVIOUS
  <1>1. WireInv
    BY FS_EmptySet DEF Init, WireInv
  <1>2. NameInv
    BY DEF Init, NameInv, Answers, NoCycle, NoRow
  <1>3. OrderInv
    BY DEF Init, OrderInv, WaitInv, NoCycle, NoRow
  <1>4. CountsAreSightings
    <2>1. \A k \in Keys : Of(cycle.left, k[2]) = {} /\ Waiting(k[1], k[2]) = {}
      BY DEF Init, NoCycle, Of, Waiting
    <2>2. \A k \in Keys : Pending(k) = 0
      BY <2>1, FS_EmptySet DEF Pending
    <2>3. QED
      BY <2>2 DEF Init, NoRow, CountsAreSightings
  <1>5. QED
    BY TypeInit, <1>1, <1>2, <1>3, <1>4 DEF IInv

LEMMA InvStep == IInv /\ [Next]_vars => IInv'
  <1> SUFFICES ASSUME IInv, [Next]_vars PROVE IInv'
    OBVIOUS
  <1>1. TypeOK /\ WireInv /\ NameInv
    BY DEF IInv
  <1>2. QED
    BY <1>1, TypeStep, WireStep, NameStep, OrderStep, CountStep DEF IInv

LEMMA InvAlways == Spec => []IInv
  BY InvInit, InvStep, PTL DEF Spec

-----------------------------------------------------------------------------
(***************************************************************************)
(* The theorems.                                                           *)
(***************************************************************************)
\* The tables, requests and replies are of their types, whatever is lost.
THEOREM TypeCorrect == Spec => []TypeOK
  <1>1. IInv => TypeOK
    BY DEF IInv
  <1>2. QED
    BY <1>1, InvAlways, PTL

\* A row counts no sighting twice, and without a fault it misses only what is on its
\* way, for any number of agents, connections and batches.
THEOREM CountsCorrect == Spec => []CountsAreSightings
  <1>1. IInv => CountsAreSightings
    BY DEF IInv
  <1>2. QED
    BY <1>1, InvAlways, PTL

\* The history names only who has talked to an address, under names that lookups of
\* the address return.
THEOREM HistoryBacked == Spec => []HistoryIsBacked
  <1>1. IInv => HistoryIsBacked
    BY DEF IInv, NameInv, HistoryIsBacked, HostnameLookup
  <1>2. QED
    BY <1>1, InvAlways, PTL

\* Only collectAndStore forgets a hostname or a process, when it counts a sighting.
THEOREM ForgetsLocally == Spec => RowsForgetOnlyLocally
  <1>1. IInv /\ [Next]_vars =>
            [\A k \in Keys :
                (\/ flows[k].name # None /\ flows'[k].name = None
                 \/ flows[k].process # None /\ flows'[k].process = None)
                => k[1] = Local /\ flows'[k].count > flows[k].count]_vars
    BY ForgetStep DEF IInv
  <1>2. QED
    BY <1>1, InvAlways, PTL DEF Spec, RowsForgetOnlyLocally

\* last_seen goes back only by a batch that its agent no longer waits for.
THEOREM LastSeenCorrect == Spec => LastSeenAdvances
  <1>1. IInv /\ [Next]_vars =>
            [\A k \in Keys : flows'[k].last < flows[k].last =>
                /\ faults > 0
                /\ \E r \in requests \ requests' : r.agent = k[1] /\ r.seen # waiting[k[1]]]_vars
    <2> SUFFICES ASSUME IInv, [Next]_vars, NEW k \in Keys, flows'[k].last < flows[k].last
                 PROVE  /\ faults > 0
                        /\ \E r \in requests \ requests' : r.agent = k[1] /\ r.seen # waiting[k[1]]
      OBVIOUS
    <2>1. TypeOK /\ OrderInv
      BY DEF IInv
    <2>2. flows[k].last \in Nat /\ flows'[k].last \in Nat /\ cycle.seen \in Nat /\ faults \in Nat
      BY <2>1, RowOrder, NetMonBoundsAssumption DEF TypeOK, Row
    <2>3. PICK r \in requests : Ingest(r) /\ k[1] = r.agent /\ flows'[k].last = r.seen
      BY <2>2, RowOrder
    <2>4. r \notin requests' /\ r.agent \in Agents /\ r.seen \in Nat \ {0}
      BY <2>1, <2>3 DEF Ingest, TypeOK, Request
    <2>5. r.seen # waiting[k[1]]
      BY <2>1, <2>2, <2>3, <2>4 DEF OrderInv, WaitInv
    <2>6. faults > 0
      BY <2>1, <2>2, <2>3, <2>5 DEF OrderInv
    <2>7. QED
      BY <2>3, <2>4, <2>5, <2>6
  <1>2. QED
    BY <1>1, InvAlways, PTL DEF Spec, LastSeenAdvances

-----------------------------------------------------------------------------
(***************************************************************************)
(* Sums.  Sum(f) is how many units f has: <<x, 1>> .. <<x, f[x]>> for each *)
(* x.  Sums are compared by comparing sets of units, without induction     *)
(* over the recursion of Sum.                                              *)
(***************************************************************************)
Units(f) == {u \in (DOMAIN f) \X Nat : u[2] \in 1 .. f[u[1]]}
UnitsOf(f, s) == {u \in Units(f) : u[1] \in s}

Weights(f) == IsFiniteSet(DOMAIN f) /\ f \in [DOMAIN f -> Nat]

\* One element has as many units as it weighs.
LEMMA OneWeighs ==
    ASSUME NEW f, Weights(f), NEW x \in DOMAIN f
    PROVE  IsFiniteSet(UnitsOf(f, {x})) /\ Cardinality(UnitsOf(f, {x})) = f[x]
  <1>1. f[x] \in Nat
    BY DEF Weights
  <1>2. UnitsOf(f, {x}) = {x} \X (1 .. f[x])
    BY <1>1 DEF UnitsOf, Units
  <1>3. IsFiniteSet({x}) /\ Cardinality({x}) = 1
    BY FS_Singleton
  <1>4. IsFiniteSet(1 .. f[x]) /\ Cardinality(1 .. f[x]) = f[x]
    BY <1>1, FS_Interval
  <1> DEFINE A == {x}
             B == 1 .. f[x]
  <1>5. IsFiniteSet(A \X B) /\ Cardinality(A \X B) = Cardinality(A) * Cardinality(B)
    <2> HIDE DEF A, B
    <2>1. QED
      BY <1>3, <1>4, FS_Product DEF A, B
  <1>6. 1 * f[x] = f[x]
    BY <1>1
  <1>7. QED
    BY <1>2, <1>3, <1>4, <1>5, <1>6

\* Finitely many elements have finitely many units.
LEMMA UnitsAreFinite ==
    ASSUME NEW f, Weights(f), NEW s
    PROVE  IsFiniteSet(UnitsOf(f, s)) /\ IsFiniteSet(Units(f))
  <1> DEFINE p == [x \in DOMAIN f |-> UnitsOf(f, {x})]
             P == {p[x] : x \in DOMAIN f}
  <1>1. p \in Surjection(DOMAIN f, P)
    BY DEF Surjection
  <1>2. IsFiniteSet(P)
    <2> HIDE DEF p, P
    <2>1. QED
      BY <1>1, FS_Surjection DEF Weights
  <1>3. \A T \in P : IsFiniteSet(T)
    BY OneWeighs
  <1>4. IsFiniteSet(UNION P)
    <2> HIDE DEF p, P
    <2>1. QED
      BY <1>2, <1>3, FS_UNION
  <1>5. Units(f) \in SUBSET UNION P
    BY DEF Units, UnitsOf
  <1>6. IsFiniteSet(Units(f))
    <2> HIDE DEF p, P
    <2>1. QED
      BY <1>4, <1>5, FS_Subset
  <1>7. UnitsOf(f, s) \in SUBSET Units(f)
    BY DEF UnitsOf
  <1>8. QED
    BY <1>6, <1>7, FS_Subset

\* A set of elements has the units of one of them and those of the rest.
LEMMA WithoutOne ==
    ASSUME NEW f, Weights(f), NEW s \in SUBSET DOMAIN f, NEW x \in s
    PROVE  Cardinality(UnitsOf(f, s)) = f[x] + Cardinality(UnitsOf(f, s \ {x}))
  <1> DEFINE A == UnitsOf(f, {x})
             B == UnitsOf(f, s \ {x})
  <1>1. UnitsOf(f, s) = A \cup B /\ A \cap B = {}
    BY DEF UnitsOf
  <1>2. IsFiniteSet(A) /\ IsFiniteSet(B) /\ Cardinality(A) = f[x]
    BY UnitsAreFinite, OneWeighs
  <1>3. f[x] \in Nat /\ Cardinality(B) \in Nat
    BY <1>2, FS_CardinalityType DEF Weights
  <1> HIDE DEF A, B
  <1>4. Cardinality(A \cup B) = Cardinality(A) + Cardinality(B) - Cardinality(A \cap B)
    BY <1>2, FS_Union
  <1>5. Cardinality(A \cap B) = 0
    BY <1>1, FS_EmptySet
  <1>6. QED
    BY <1>1, <1>2, <1>3, <1>4, <1>5 DEF B

\* What Sum computes.
LEMMA SumIsUnits ==
    ASSUME NEW f, Weights(f)
    PROVE  Sum(f) = Cardinality(Units(f)) /\ Sum(f) \in Nat
  <1> DEFINE D == DOMAIN f
             one(s) == CHOOSE x \in s : TRUE
             g == [s \in SUBSET D |-> Cardinality(UnitsOf(f, s))]
             Iter(it) == it = [s \in SUBSET D |-> IF s = {} THEN 0 ELSE f[one(s)] + it[s \ {one(s)}]]
             iter == CHOOSE it : Iter(it)
  <1>1. Sum(f) = iter[D]
    BY DEF Sum, MapThenSumSet, MapThenFoldSet
  <1>2. \A s \in SUBSET D : g[s] = IF s = {} THEN 0 ELSE f[one(s)] + g[s \ {one(s)}]
    <2> SUFFICES ASSUME NEW s \in SUBSET D
                 PROVE  g[s] = IF s = {} THEN 0 ELSE f[one(s)] + g[s \ {one(s)}]
      OBVIOUS
    <2>1. CASE s = {}
      <3>1. UnitsOf(f, s) = {}
        BY <2>1 DEF UnitsOf
      <3>2. QED
        BY <2>1, <3>1, FS_EmptySet
    <2>2. CASE s # {}
      <3>1. one(s) \in s
        BY <2>2
      <3> HIDE DEF one
      <3>2. s \ {one(s)} \in SUBSET D
        OBVIOUS
      <3>3. Cardinality(UnitsOf(f, s)) = f[one(s)] + Cardinality(UnitsOf(f, s \ {one(s)}))
        BY <3>1, WithoutOne
      <3>4. QED
        BY <2>2, <3>2, <3>3
    <2>3. QED
      BY <2>1, <2>2
  <1>3. Iter(iter)
    <2>1. Iter(g)
      BY <1>2
    <2>2. QED
      <3> HIDE DEF g, Iter
      <3>1. QED
        BY <2>1
  <1>4. \A s \in SUBSET D : iter[s] = IF s = {} THEN 0 ELSE f[one(s)] + iter[s \ {one(s)}]
    <2> HIDE DEF iter
    <2>1. QED
      BY <1>3
  <1>5. \A s \in SUBSET D : iter[s] = g[s]
    <2> DEFINE B == {s \in SUBSET D : iter[s] # g[s]}
    <2> HIDE DEF iter, g
    <2>1. SUFFICES ASSUME B # {} PROVE FALSE
      OBVIOUS
    <2>2. B \in SUBSET SUBSET D
      OBVIOUS
    <2>3. IsFiniteSet(D)
      BY DEF Weights
    <2>4. PICK s \in B : \A U \in B : ~(U \subseteq s /\ U # s)
      <3> HIDE DEF B, D
      <3>1. QED
        BY <2>1, <2>2, <2>3, HasMinimal
    <2>5. s # {}
      BY <1>2, <1>4
    <2>6. one(s) \in s
      BY <2>5
    <2> HIDE DEF one
    <2>7. s \ {one(s)} \notin B
      BY <2>4, <2>6
    <2>8. iter[s \ {one(s)}] = g[s \ {one(s)}]
      BY <2>7
    <2>9. QED
      BY <1>2, <1>4, <2>5, <2>8
  <1>6. UnitsOf(f, D) = Units(f)
    BY DEF UnitsOf, Units
  <1>7. Sum(f) = Cardinality(Units(f))
    <2>1. g[D] = Cardinality(UnitsOf(f, D))
      OBVIOUS
    <2> HIDE DEF g, iter
    <2>2. QED
      BY <1>1, <1>5, <1>6, <2>1
  <1>8. QED
    BY <1>7, UnitsAreFinite, FS_CardinalityType

\* Sets of units with a bijection between them give equal sums.
LEMMA SameUnits ==
    ASSUME NEW f, Weights(f), NEW g, Weights(g), ExistsBijection(Units(f), Units(g))
    PROVE  Sum(f) = Sum(g)
  BY SumIsUnits, UnitsAreFinite, FS_Bijection

Sub(f, s) == [x \in s |-> f[x]]

\* The sum of a part of f is how many units that part has.
LEMMA SubWeighs ==
    ASSUME NEW f, Weights(f), NEW s \in SUBSET DOMAIN f
    PROVE  /\ Weights(Sub(f, s)) /\ Units(Sub(f, s)) = UnitsOf(f, s)
           /\ Sum(Sub(f, s)) = Cardinality(UnitsOf(f, s)) /\ Sum(Sub(f, s)) \in Nat
  <1>1. IsFiniteSet(s)
    BY FS_Subset DEF Weights
  <1>2. Weights(Sub(f, s))
    BY <1>1 DEF Weights, Sub
  <1>3. Units(Sub(f, s)) = UnitsOf(f, s)
    BY DEF Units, UnitsOf, Sub
  <1>4. QED
    BY <1>2, <1>3, SumIsUnits

Part(key, g) == {x \in DOMAIN key : key[x] = g}

\* The sums of the groups add up to the sum of all, empty groups or not.
LEMMA GroupsAddUp ==
    ASSUME NEW f, Weights(f), NEW R, IsFiniteSet(R), NEW key \in [DOMAIN f -> R]
    PROVE  /\ Weights([g \in R |-> Sum(Sub(f, Part(key, g)))])
           /\ Sum([g \in R |-> Sum(Sub(f, Part(key, g)))]) = Sum(f)
  <1> DEFINE U(g) == UnitsOf(f, Part(key, g))
             G == [g \in R |-> Sum(Sub(f, Part(key, g)))]
             b == [g \in R |-> CHOOSE m : m \in Bijection(1 .. G[g], U(g))]
             F == [v \in Units(G) |-> b[v[1]][v[2]]]
  <1>1. \A g \in R : Part(key, g) \in SUBSET DOMAIN f
    BY DEF Part
  <1>2. \A g \in R : G[g] = Cardinality(U(g)) /\ G[g] \in Nat
    BY <1>1, SubWeighs
  <1>3. \A g \in R : b[g] \in Bijection(1 .. G[g], U(g))
    <2> SUFFICES ASSUME NEW g \in R PROVE b[g] \in Bijection(1 .. G[g], U(g))
      OBVIOUS
    <2>1. ExistsBijection(1 .. Cardinality(U(g)), U(g))
      BY UnitsAreFinite, FS_CardinalityType
    <2>2. \E m : m \in Bijection(1 .. G[g], U(g))
      <3>1. G[g] = Cardinality(U(g))
        BY <1>2
      <3> HIDE DEF G, U
      <3>2. QED
        BY <2>1, <3>1 DEF ExistsBijection
    <2>3. b[g] = CHOOSE m : m \in Bijection(1 .. G[g], U(g))
      OBVIOUS
    <2> HIDE DEF G, U, b
    <2>4. QED
      BY <2>2, <2>3
  <1>4. Weights(G)
    BY <1>2 DEF Weights
  <1>5. DOMAIN G = R
    OBVIOUS
  <1>6. \A v \in Units(G) : v[1] \in R /\ v[2] \in 1 .. G[v[1]] /\ v = <<v[1], v[2]>>
    BY <1>5 DEF Units
  <1>7. \A g \in R : \A i \in 1 .. G[g] : <<g, i>> \in Units(G)
    BY <1>2, <1>5 DEF Units
  <1>8. \A g \in R : \A u \in U(g) : u \in Units(f) /\ key[u[1]] = g
    BY DEF UnitsOf, Part
  <1>9. \A u \in Units(f) : key[u[1]] \in R /\ u \in U(key[u[1]])
    BY DEF UnitsOf, Units, Part
  <1> HIDE DEF G, U, b
  <1>10. \A v \in Units(G) : F[v] \in U(v[1])
    BY <1>3, <1>6 DEF Bijection, Injection, IsInjective
  <1>11. F \in [Units(G) -> Units(f)]
    BY <1>6, <1>8, <1>10
  <1>12. ASSUME NEW v \in Units(G), NEW w \in Units(G), F[v] = F[w] PROVE v = w
    <2>1. v[1] = w[1]
      BY <1>6, <1>8, <1>10, <1>12
    <2>2. b[v[1]][v[2]] = b[v[1]][w[2]]
      BY <1>12, <2>1
    <2>3. v[2] = w[2]
      BY <1>3, <1>6, <2>1, <2>2 DEF Bijection, Injection, IsInjective
    <2>4. QED
      BY <1>6, <2>1, <2>3
  <1>13. ASSUME NEW u \in Units(f) PROVE \E v \in Units(G) : F[v] = u
    <2> DEFINE g == key[u[1]]
    <2>1. g \in R /\ u \in U(g)
      BY <1>9
    <2> HIDE DEF g
    <2>2. PICK i \in 1 .. G[g] : b[g][i] = u
      BY <1>3, <2>1 DEF Bijection, Surjection
    <2>3. <<g, i>> \in Units(G)
      BY <1>7, <2>1
    <2>4. F[<<g, i>>] = u
      BY <2>2, <2>3
    <2>5. QED
      BY <2>3, <2>4
  <1>14. F \in Bijection(Units(G), Units(f))
    <2> HIDE DEF F
    <2>1. QED
      BY <1>11, <1>12, <1>13 DEF Bijection, Injection, IsInjective, Surjection
  <1>15. Sum(G) = Sum(f)
    <2> HIDE DEF F
    <2>1. QED
      BY <1>4, <1>14, SameUnits DEF ExistsBijection
  <1>16. QED
    BY <1>4, <1>15 DEF G

\* Sums of sums.
LEMMA SumsAdd ==
    ASSUME NEW D, NEW f, NEW g, Weights(f), Weights(g), DOMAIN f = D, DOMAIN g = D
    PROVE  Sum([x \in D |-> f[x] + g[x]]) = Sum(f) + Sum(g)
  <1> DEFINE h == [x \in D |-> f[x] + g[x]]
             rest == {u \in Units(h) : u[2] > f[u[1]]}
             F == [u \in Units(g) |-> <<u[1], u[2] + f[u[1]]>>]
  <1>1. \A x \in D : f[x] \in Nat /\ g[x] \in Nat /\ h[x] = f[x] + g[x]
    BY DEF Weights
  <1>2. DOMAIN h = D
    OBVIOUS
  <1>3. Weights(h)
    BY <1>1 DEF Weights
  <1> HIDE DEF h
  <1>4. Units(h) = Units(f) \cup rest /\ Units(f) \cap rest = {}
    BY <1>1, <1>2 DEF Units
  <1>5. \A u \in Units(g) : u[1] \in D /\ u[2] \in Nat /\ u[2] >= 1 /\ u[2] <= g[u[1]] /\ u = <<u[1], u[2]>>
    BY <1>1 DEF Units
  <1>6. \A u \in rest : u[1] \in D /\ u[2] \in Nat /\ u[2] > f[u[1]] /\ u[2] <= h[u[1]] /\ u = <<u[1], u[2]>>
    BY <1>1, <1>2 DEF Units
  <1>7. ASSUME NEW u \in Units(g) PROVE F[u] \in rest
    <2> DEFINE x == u[1]
               i == u[2]
    <2>1. x \in D /\ i \in Nat /\ i >= 1 /\ i <= g[x] /\ f[x] \in Nat /\ g[x] \in Nat /\ h[x] = f[x] + g[x]
      BY <1>1, <1>5
    <2> HIDE DEF x, i
    <2>2. i + f[x] \in 1 .. h[x] /\ i + f[x] > f[x] /\ i + f[x] \in Nat
      BY <2>1
    <2>3. <<x, i + f[x]>> \in rest
      BY <1>2, <2>1, <2>2 DEF Units
    <2>4. QED
      BY <2>3 DEF x, i
  <1>8. ASSUME NEW u \in Units(g), NEW v \in Units(g), F[u] = F[v] PROVE u = v
    <2>1. u[1] = v[1] /\ u[2] + f[u[1]] = v[2] + f[v[1]]
      BY <1>8
    <2>2. u[1] \in D /\ u[2] \in Nat /\ v[2] \in Nat /\ f[u[1]] \in Nat
      BY <1>1, <1>5
    <2>3. u[2] = v[2]
      BY <2>1, <2>2
    <2>4. QED
      BY <1>5, <2>1, <2>3
  <1>9. ASSUME NEW v \in rest PROVE \E u \in Units(g) : F[u] = v
    <2> DEFINE x == v[1]
               i == v[2]
    <2>1. x \in D /\ i \in Nat /\ i > f[x] /\ i <= f[x] + g[x] /\ f[x] \in Nat /\ g[x] \in Nat /\ v = <<x, i>>
      BY <1>1, <1>6
    <2> HIDE DEF x, i
    <2>2. i - f[x] \in 1 .. g[x] /\ i - f[x] \in Nat /\ (i - f[x]) + f[x] = i
      BY <2>1
    <2>3. <<x, i - f[x]>> \in Units(g)
      BY <2>1, <2>2 DEF Units
    <2>4. F[<<x, i - f[x]>>] = v
      BY <2>1, <2>2, <2>3
    <2>5. QED
      BY <2>3, <2>4
  <1> HIDE DEF rest
  <1>10. F \in Bijection(Units(g), rest)
    <2>1. F \in [Units(g) -> rest]
      BY <1>7
    <2> HIDE DEF F
    <2>2. QED
      BY <1>8, <1>9, <2>1 DEF Bijection, Injection, IsInjective, Surjection
  <1> HIDE DEF F
  <1>11. IsFiniteSet(rest) /\ Cardinality(rest) = Cardinality(Units(g))
    BY <1>10, UnitsAreFinite, FS_Bijection DEF ExistsBijection
  <1>12. Cardinality(Units(f) \cup rest) = Cardinality(Units(f)) + Cardinality(rest) - Cardinality(Units(f) \cap rest)
    BY <1>11, UnitsAreFinite, FS_Union
  <1>13. Cardinality(Units(f) \cap rest) = 0
    BY <1>4, FS_EmptySet
  <1>14. Sum(h) = Cardinality(Units(h)) /\ Sum(f) = Cardinality(Units(f)) /\ Sum(g) = Cardinality(Units(g))
         /\ Sum(f) \in Nat /\ Sum(g) \in Nat
    BY <1>3, SumIsUnits
  <1>15. Sum(h) = Sum(f) + Sum(g)
    BY <1>4, <1>11, <1>12, <1>13, <1>14
  <1>16. QED
    BY <1>15 DEF h

\* Elements that weigh nothing do not count.
LEMMA SumWithout ==
    ASSUME NEW f, Weights(f), NEW s \in SUBSET DOMAIN f, \A x \in DOMAIN f \ s : f[x] = 0
    PROVE  Sum(f) = Sum(Sub(f, s))
  <1>1. Units(f) = UnitsOf(f, s)
    BY DEF Units, UnitsOf
  <1>2. QED
    BY <1>1, SumIsUnits, SubWeighs

-----------------------------------------------------------------------------
(***************************************************************************)
(* The views.  What was seen is finite: a step adds the flows of one       *)
(* batch.  What is stored was seen.                                        *)
(***************************************************************************)
Saw == {k \in Keys : sightings[k] > 0}

FiniteInv == IsFiniteSet(Saw)

\* An image is finite, and no larger.
LEMMA ImageIsFinite ==
    ASSUME NEW S, IsFiniteSet(S), NEW f, DOMAIN f = S
    PROVE  /\ IsFiniteSet({f[x] : x \in S})
           /\ Cardinality({f[x] : x \in S}) <= Cardinality(S)
  <1> DEFINE T == {f[x] : x \in S}
             g == [x \in S |-> f[x]]
  <1>1. g \in Surjection(S, T)
    BY DEF Surjection
  <1> HIDE DEF T, g
  <1>2. IsFiniteSet(T) /\ Cardinality(T) <= Cardinality(S)
    BY <1>1, FS_Surjection
  <1>3. QED
    BY <1>2 DEF T

\* A step adds the flows of one batch at most.
LEMMA NewSightings ==
    ASSUME TypeOK, [Next]_vars
    PROVE  \E N : IsFiniteSet(N) /\ Saw' \subseteq Saw \cup N
  <1>1. CASE sightings' = sightings
    BY <1>1, FS_EmptySet DEF Saw
  <1>2. ASSUME NEW h, NEW b \in Batches, sightings' = Sighted(h, b)
        PROVE  \E N : IsFiniteSet(N) /\ Saw' \subseteq Saw \cup N
    <2> DEFINE row == [i \in DOMAIN b |-> <<h, b[i].conn>>]
               N == {row[i] : i \in DOMAIN b}
    <2>1. b \in Seq(Flow)
      BY BatchesAreFlows
    <2>2. IsFiniteSet(N)
      <3>1. IsFiniteSet(DOMAIN b)
        BY <2>1, Positions
      <3>2. QED
        BY <3>1, ImageIsFinite
    <2>3. ASSUME NEW k \in Keys, k \notin N PROVE sightings'[k] = sightings[k]
      <3>1. k = <<k[1], k[2]>>
        BY DEF Keys
      <3>2. k[1] = h => Of(b, k[2]) = {}
        BY <2>3, <3>1 DEF Of
      <3>3. sightings[k] \in Nat
        BY DEF TypeOK
      <3>4. sightings'[k] = sightings[k] + IF k[1] = h THEN Cardinality(Of(b, k[2])) ELSE 0
        BY <1>2, <2>1, SightedIs
      <3>5. QED
        BY <3>2, <3>3, <3>4, FS_EmptySet
    <2>4. Saw' \subseteq Saw \cup N
      <3> HIDE DEF N
      <3>1. QED
        BY <2>3 DEF Saw
    <2> HIDE DEF N
    <2>5. QED
      BY <2>2, <2>4
  <1>3. CASE Collect
    BY <1>2, <1>3 DEF Collect
  <1>4. ASSUME NEW h \in Agents, Send(h) PROVE \E N : IsFiniteSet(N) /\ Saw' \subseteq Saw \cup N
    BY <1>2, <1>4 DEF Send, Post
  <1>5. CASE Store \/ Server \/ Enricher \/ Restart \/ UNCHANGED vars
    BY <1>1, <1>5 DEF Store, Server, Ingest, Enricher, BeginPass, Record, FindUnresolved, LookUp, Fill,
                      ReadHosts, EndPass, Restart, vars
  <1>6. ASSUME NEW h \in Agents, GetReply(h) \/ TimeOut(h) \/ Break(h)
        PROVE  \E N : IsFiniteSet(N) /\ Saw' \subseteq Saw \cup N
    BY <1>1, <1>6 DEF GetReply, TimeOut, Break
  <1>7. QED
    BY <1>3, <1>4, <1>5, <1>6 DEF Next, Collector, Shipper

LEMMA FiniteStep == IInv /\ FiniteInv /\ [Next]_vars => FiniteInv'
  <1> SUFFICES ASSUME IInv, FiniteInv, [Next]_vars PROVE FiniteInv'
    OBVIOUS
  <1>1. PICK N : IsFiniteSet(N) /\ Saw' \subseteq Saw \cup N
    BY NewSightings DEF IInv
  <1>2. IsFiniteSet(Saw \cup N)
    BY <1>1, FS_Union DEF FiniteInv
  <1>3. QED
    BY <1>1, <1>2, FS_Subset DEF FiniteInv

LEMMA FiniteInit == Init => FiniteInv
  <1> SUFFICES ASSUME Init PROVE FiniteInv
    OBVIOUS
  <1>1. Saw = {}
    BY DEF Init, Saw
  <1>2. QED
    BY <1>1, FS_EmptySet DEF FiniteInv

\* What counts was seen as often.
LEMMA CountsAreSeen ==
    ASSUME IInv, NEW k \in Keys
    PROVE  /\ flows[k].count \in Nat /\ sightings[k] \in Nat
           /\ flows[k].count <= sightings[k]
           /\ faults = 0 /\ Pending(k) = 0 => flows[k].count = sightings[k]
  <1>1. flows[k].count \in Nat /\ sightings[k] \in Nat /\ Pending(k) \in Nat
    BY Amounts DEF IInv
  <1>2. QED
    BY <1>1 DEF IInv, CountsAreSightings

\* What is stored was seen.
LEMMA StoredWasSeen ==
    ASSUME IInv, FiniteInv
    PROVE  IsFiniteSet(Stored) /\ Stored \subseteq Saw
  <1>1. \A k \in Stored : k \in Saw
    <2> SUFFICES ASSUME NEW k \in Stored PROVE k \in Saw
      OBVIOUS
    <2>1. k \in Keys /\ flows[k].count > 0
      BY DEF Stored
    <2>2. flows[k].count \in Nat /\ sightings[k] \in Nat /\ flows[k].count <= sightings[k]
      BY <2>1, CountsAreSeen
    <2>3. QED
      BY <2>1, <2>2 DEF Saw
  <1>2. QED
    BY <1>1, FS_Subset DEF FiniteInv

\* The rows of some hosts, and what these hosts have seen.
LEMMA RowsWereSeen ==
    ASSUME IInv, FiniteInv, NEW H \in SUBSET Hosts
    PROVE  /\ Rows(H) \in SUBSET Stored /\ Rows(H) \in SUBSET Seen(H)
           /\ Seen(H) \in SUBSET Saw /\ IsFiniteSet(Rows(H)) /\ IsFiniteSet(Seen(H))
           /\ AllStored(H) =>
                 Rows(H) = Seen(H) /\ \A k \in Seen(H) : flows[k].count = sightings[k]
  <1>1. Seen(H) = {k \in Saw : k[1] \in H}
    BY DEF Seen, Saw, Keys
  <1>2. Rows(H) \subseteq Seen(H) /\ Rows(H) \in SUBSET Stored /\ Seen(H) \in SUBSET Saw
    BY <1>1, StoredWasSeen DEF Rows
  <1>3. IsFiniteSet(Rows(H)) /\ IsFiniteSet(Seen(H))
    BY <1>2, StoredWasSeen, FS_Subset DEF FiniteInv
  <1>4. ASSUME AllStored(H)
        PROVE  Rows(H) = Seen(H) /\ \A k \in Seen(H) : flows[k].count = sightings[k]
    <2>1. \A k \in Seen(H) : k \in Keys /\ sightings[k] > 0 /\ k[1] \in H
      BY <1>1 DEF Saw
    <2>2. \A k \in Seen(H) : flows[k].count = sightings[k]
      BY <1>4, <2>1, CountsAreSeen DEF AllStored
    <2>3. QED
      BY <1>2, <2>1, <2>2 DEF Rows, Stored
  <1>5. QED
    BY <1>2, <1>3, <1>4

\* A sum of some of the numbers, or of smaller ones, is no larger.
LEMMA SumAtMost ==
    ASSUME NEW f, Weights(f), NEW g, Weights(g), DOMAIN f \subseteq DOMAIN g,
           \A x \in DOMAIN f : f[x] <= g[x]
    PROVE  Sum(f) <= Sum(g)
  <1>1. \A x \in DOMAIN f : f[x] \in Nat /\ g[x] \in Nat /\ 1 .. f[x] \subseteq 1 .. g[x]
    BY DEF Weights
  <1>2. Units(f) \in SUBSET Units(g)
    BY <1>1 DEF Units
  <1>3. Cardinality(Units(f)) <= Cardinality(Units(g))
    BY <1>2, UnitsAreFinite, FS_Subset
  <1>4. QED
    BY <1>3, SumIsUnits

\* The counts of the rows K, and groups of them.
Counts(K) == [k \in K |-> flows[k].count]

\* Counts can be summed.
LEMMA CountsWeigh ==
    ASSUME IInv, FiniteInv, NEW K \in SUBSET Stored
    PROVE  /\ IsFiniteSet(K) /\ Weights(Counts(K)) /\ DOMAIN Counts(K) = K
           /\ Total(K) = Sum(Counts(K)) /\ Total(K) \in Nat
           /\ \A J \in SUBSET K : Sub(Counts(K), J) = Counts(J)
  <1>1. IsFiniteSet(K)
    BY StoredWasSeen, FS_Subset
  <1>2. \A k \in K : flows[k].count \in Nat
    BY CountsAreSeen DEF Stored
  <1>3. Weights(Counts(K)) /\ DOMAIN Counts(K) = K
    BY <1>1, <1>2 DEF Weights, Counts
  <1>4. Total(K) = Sum(Counts(K))
    BY DEF Total, Counts
  <1>5. Sum(Counts(K)) \in Nat
    BY <1>3, SumIsUnits
  <1>6. \A J \in SUBSET K : Sub(Counts(K), J) = Counts(J)
    BY DEF Sub, Counts
  <1>7. QED
    BY <1>1, <1>3, <1>4, <1>5, <1>6

Within(key, s) == {k \in DOMAIN key : key[k] \in s}

\* Any groups of rows add up to the rows that are in these groups.
LEMMA GroupsAre ==
    ASSUME IInv, FiniteInv, NEW K \in SUBSET Stored, NEW key, DOMAIN key = K
    PROVE  /\ DOMAIN GroupBy(key) = {key[k] : k \in K}
           /\ Weights(GroupBy(key))
           /\ \A g \in DOMAIN GroupBy(key) : GroupBy(key)[g] = Total(Part(key, g))
           /\ \A s \in SUBSET DOMAIN GroupBy(key) :
                 Sum(Sub(GroupBy(key), s)) = Total(Within(key, s))
  <1> DEFINE R == {key[k] : k \in K}
             B == GroupBy(key)
  <1>1. DOMAIN B = R /\ B = [g \in R |-> Total(Part(key, g))]
    BY DEF GroupBy, Part
  <1>2. IsFiniteSet(K) /\ IsFiniteSet(R)
    <2>1. IsFiniteSet(K)
      BY CountsWeigh
    <2>2. QED
      BY <2>1, ImageIsFinite
  <1>3. \A g : Part(key, g) \in SUBSET K
    BY DEF Part
  <1>4. \A g : Total(Part(key, g)) \in Nat
    BY <1>3, CountsWeigh
  <1> HIDE DEF R, B
  <1>5. Weights(B)
    BY <1>1, <1>2, <1>4 DEF Weights
  <1>6. ASSUME NEW s \in SUBSET R
        PROVE  Sum(Sub(B, s)) = Total(Within(key, s))
    <2> DEFINE J == Within(key, s)
               c == Counts(J)
               q == [k \in J |-> key[k]]
    <2>1. J \in SUBSET K /\ J \in SUBSET Stored
      BY DEF Within
    <2>2. q \in [J -> s] /\ DOMAIN q = J
      BY DEF Within
    <2>3. \A g \in s : Part(q, g) = Part(key, g) /\ Part(q, g) \in SUBSET J
      BY DEF Part, Within
    <2> HIDE DEF J, q
    <2>4. Weights(c) /\ DOMAIN c = J /\ Total(J) = Sum(c) /\ \A I \in SUBSET J : Sub(c, I) = Counts(I)
      BY <2>1, CountsWeigh
    <2>5. IsFiniteSet(s)
      BY <1>2, FS_Subset
    <2>6. Sum([g \in s |-> Sum(Sub(c, Part(q, g)))]) = Sum(c)
      <3> HIDE DEF c
      <3>1. QED
        BY <2>2, <2>4, <2>5, GroupsAddUp
    <2>7. \A g \in s : B[g] = Sum(Sub(c, Part(q, g)))
      <3> SUFFICES ASSUME NEW g \in s PROVE B[g] = Sum(Sub(c, Part(q, g)))
        OBVIOUS
      <3>1. B[g] = Total(Part(key, g))
        BY <1>1
      <3>2. Sub(c, Part(q, g)) = Counts(Part(key, g))
        BY <2>3, <2>4
      <3>3. Total(Part(key, g)) = Sum(Counts(Part(key, g)))
        BY DEF Total, Counts
      <3>4. QED
        BY <3>1, <3>2, <3>3
    <2>8. Sub(B, s) = [g \in s |-> Sum(Sub(c, Part(q, g)))]
      <3> HIDE DEF c
      <3>1. QED
        BY <2>7 DEF Sub
    <2>9. QED
      BY <2>4, <2>6, <2>8 DEF J
  <1>7. QED
    BY <1>1, <1>5, <1>6 DEF R, B

\* All groups add up to all rows.
LEMMA AllGroups ==
    ASSUME IInv, FiniteInv, NEW K \in SUBSET Stored, NEW key, DOMAIN key = K
    PROVE  Sum(GroupBy(key)) = Total(K)
  <1> DEFINE B == GroupBy(key)
             s == DOMAIN B
  <1>1. B = Sub(B, s)
    BY DEF Sub, GroupBy
  <1>2. s = {key[k] : k \in K}
    BY GroupsAre
  <1>3. \A r \in SUBSET s : Sum(Sub(B, r)) = Total(Within(key, r))
    BY GroupsAre
  <1> HIDE DEF B, s
  <1>4. Within(key, s) = K
    BY <1>2 DEF Within
  <1>5. Sum(Sub(B, s)) = Total(K)
    BY <1>3, <1>4
  <1>6. QED
    BY <1>1, <1>5 DEF B

\* A node is the edges from it and the edges to it.
LEMMA NodeIsEdges ==
    ASSUME NEW E, Weights(E), NEW id
    PROVE  NodeSize(E, id) = Sum(Sub(E, {e \in DOMAIN E : e[1] = id}))
                               + Sum(Sub(E, {e \in DOMAIN E : e[2] = id}))
  <1> DEFINE M == Mentions(E, id)
             A(i) == {e \in DOMAIN E : e[i] = id}
             f(i) == [e \in M |-> IF e[i] = id THEN E[e] ELSE 0]
  <1>1. M \in SUBSET DOMAIN E /\ A(1) \in SUBSET M /\ A(2) \in SUBSET M
    BY DEF Mentions
  <1>2. \A e \in M : E[e] \in Nat /\ (e[1] = id \/ e[2] = id)
    BY DEF Mentions, Weights
  <1>3. IsFiniteSet(M)
    BY <1>1, FS_Subset DEF Weights
  <1>4. \A i \in {1, 2} : /\ Weights(f(i)) /\ DOMAIN f(i) = M /\ A(i) \in SUBSET M
                          /\ \A x \in M \ A(i) : f(i)[x] = 0
                          /\ Sub(f(i), A(i)) = Sub(E, A(i))
    <2> SUFFICES ASSUME NEW i \in {1, 2}
                 PROVE  /\ Weights(f(i)) /\ DOMAIN f(i) = M /\ A(i) \in SUBSET M
                        /\ \A x \in M \ A(i) : f(i)[x] = 0
                        /\ Sub(f(i), A(i)) = Sub(E, A(i))
      OBVIOUS
    <2> HIDE DEF M
    <2>1. Weights(f(i)) /\ DOMAIN f(i) = M
      BY <1>2, <1>3 DEF Weights
    <2>2. A(i) \in SUBSET M
      BY <1>1
    <2>3. \A x \in M \ A(i) : f(i)[x] = 0
      BY <1>1
    <2>4. Sub(f(i), A(i)) = Sub(E, A(i))
      BY <2>2 DEF Sub
    <2>5. QED
      BY <2>1, <2>2, <2>3, <2>4
  <1>5. \A i \in {1, 2} : Sum(f(i)) = Sum(Sub(E, A(i)))
    <2> HIDE DEF M, A, f
    <2>1. QED
      BY <1>4, SumWithout
  <1>6. NodeSize(E, id) = Sum([e \in M |-> f(1)[e] + f(2)[e]])
    <2>1. \A e \in M : (IF e[1] = id /\ e[2] = id THEN 2 * E[e] ELSE E[e]) = f(1)[e] + f(2)[e]
      <3> HIDE DEF M
      <3>1. QED
        BY <1>2
    <2>2. [e \in M |-> IF e[1] = id /\ e[2] = id THEN 2 * E[e] ELSE E[e]] = [e \in M |-> f(1)[e] + f(2)[e]]
      <3> HIDE DEF M, f
      <3>1. QED
        BY <2>1
    <2>3. QED
      BY <2>2 DEF NodeSize
  <1>7. Sum([e \in M |-> f(1)[e] + f(2)[e]]) = Sum(f(1)) + Sum(f(2))
    <2> HIDE DEF M, f, A
    <2>1. QED
      BY <1>4, SumsAdd
  <1>8. QED
    BY <1>5, <1>6, <1>7

\* Each edge is in the sizes of its two ends.
LEMMA NodesAddUp ==
    ASSUME NEW E, Weights(E)
    PROVE  Sum([id \in NodeIds(E) |-> NodeSize(E, id)]) = 2 * Sum(E)
  <1> DEFINE D == DOMAIN E
             R == NodeIds(E)
             key(i) == [e \in D |-> e[i]]
             G(i) == [g \in R |-> Sum(Sub(E, Part(key(i), g)))]
  <1>1. \A i \in {1, 2} : DOMAIN key(i) = D /\ key(i) \in [D -> R]
    BY DEF NodeIds
  <1>2. IsFiniteSet(R)
    <2> DEFINE I(i) == {key(i)[e] : e \in D}
    <2>1. R = I(1) \cup I(2)
      BY DEF NodeIds
    <2>2. \A i \in {1, 2} : IsFiniteSet(I(i))
      <3> HIDE DEF key
      <3>1. QED
        BY <1>1, ImageIsFinite DEF Weights
    <2> HIDE DEF I, R
    <2>3. QED
      BY <2>1, <2>2, FS_Union
  <1>3. \A i \in {1, 2} : \A g : Part(key(i), g) = {e \in D : e[i] = g}
    BY DEF Part
  <1>4. \A i \in {1, 2} : Weights(G(i)) /\ Sum(G(i)) = Sum(E)
    <2> HIDE DEF key, R
    <2>1. QED
      BY <1>1, <1>2, GroupsAddUp
  <1>5. \A g \in R : NodeSize(E, g) = G(1)[g] + G(2)[g]
    <2> SUFFICES ASSUME NEW g \in R PROVE NodeSize(E, g) = G(1)[g] + G(2)[g]
      OBVIOUS
    <2>1. G(1)[g] = Sum(Sub(E, {e \in D : e[1] = g})) /\ G(2)[g] = Sum(Sub(E, {e \in D : e[2] = g}))
      <3> HIDE DEF key, R
      <3>1. QED
        BY <1>3
    <2> HIDE DEF G, key, R
    <2>2. QED
      BY <2>1, NodeIsEdges
  <1>6. DOMAIN G(1) = R /\ DOMAIN G(2) = R
    OBVIOUS
  <1> HIDE DEF G, key, R
  <1>7. [id \in R |-> NodeSize(E, id)] = [id \in R |-> G(1)[id] + G(2)[id]]
    BY <1>5
  <1>8. Sum([id \in R |-> G(1)[id] + G(2)[id]]) = Sum(G(1)) + Sum(G(2))
    BY <1>4, <1>6, SumsAdd
  <1>9. Sum(E) \in Nat
    BY SumIsUnits
  <1>10. Sum([id \in R |-> NodeSize(E, id)]) = 2 * Sum(E)
    BY <1>4, <1>7, <1>8, <1>9
  <1>11. QED
    BY <1>10 DEF R

\* The rows K count no more than was seen of a set of connections that has them.
LEMMA TotalIsSeen ==
    ASSUME IInv, FiniteInv, NEW K \in SUBSET Stored, NEW S \in SUBSET Saw, K \subseteq S
    PROVE  /\ Total(K) \in Nat /\ Sightings(S) \in Nat /\ Total(K) <= Sightings(S)
           /\ K = S /\ (\A k \in S : flows[k].count = sightings[k]) => Total(K) = Sightings(S)
  <1> DEFINE f == Counts(K)
             g == [k \in S |-> sightings[k]]
  <1>1. Weights(f) /\ DOMAIN f = K /\ Total(K) = Sum(f) /\ Total(K) \in Nat
    BY CountsWeigh
  <1>2. IsFiniteSet(S)
    BY FS_Subset DEF FiniteInv
  <1>3. \A k \in S : /\ flows[k].count \in Nat /\ sightings[k] \in Nat
                     /\ flows[k].count <= sightings[k]
    BY CountsAreSeen DEF Saw
  <1>4. Weights(g) /\ DOMAIN g = S
    BY <1>2, <1>3 DEF Weights
  <1>5. Sightings(S) = Sum(g)
    BY DEF Sightings
  <1>6. \A k \in K : f[k] = flows[k].count /\ g[k] = sightings[k]
    BY DEF Counts
  <1>7. ASSUME K = S, \A k \in S : flows[k].count = sightings[k] PROVE f = g
    BY <1>7 DEF Counts
  <1> HIDE DEF f, g
  <1>8. Sum(f) <= Sum(g) /\ Sum(g) \in Nat
    BY <1>1, <1>3, <1>4, <1>6, SumAtMost, SumIsUnits
  <1>9. QED
    BY <1>1, <1>5, <1>7, <1>8

\* A list that is cut is a part of the whole one, and one below its limit is not cut.
LEMMA LargestIs ==
    ASSUME NEW f, f = [x \in DOMAIN f |-> f[x]], NEW n \in Nat, NEW G \in Largest(f, n)
    PROVE  /\ DOMAIN G \in SUBSET DOMAIN f /\ G = Sub(f, DOMAIN G)
           /\ Cardinality(DOMAIN G) < n => G = f
  <1>1. CASE G = f
    BY <1>1 DEF Sub
  <1>2. ASSUME NEW C \in SUBSET DOMAIN f, Cardinality(C) = n, G = [g \in C |-> f[g]]
        PROVE  /\ DOMAIN G \in SUBSET DOMAIN f /\ G = Sub(f, DOMAIN G)
               /\ Cardinality(DOMAIN G) < n => G = f
    BY <1>2 DEF Sub
  <1>3. G = f \/ \E C \in SUBSET DOMAIN f : Cardinality(C) = n /\ G = [g \in C |-> f[g]]
    BY DEF Largest
  <1>4. QED
    BY <1>1, <1>2, <1>3

\* A list of groups of the rows of some hosts: its totals are those of the rows, and
\* if it is below its limit it has everything that was seen and stored.
LEMMA ListsAre ==
    ASSUME IInv, FiniteInv, NEW H \in SUBSET Hosts, NEW key, DOMAIN key = Rows(H),
           NEW n \in Nat, NEW G \in Largest(GroupBy(key), n)
    PROVE  /\ Weights(G) /\ DOMAIN G \subseteq {key[k] : k \in Rows(H)}
           /\ \A g \in DOMAIN G : G[g] = Total(Part(key, g))
           /\ \A s \in SUBSET DOMAIN G : Sum(Sub(G, s)) = Total(Within(key, s))
           /\ AllStored(H) /\ Cardinality(DOMAIN G) < n => Sum(G) = Sightings(Seen(H))
  <1> DEFINE B == GroupBy(key)
             K == Rows(H)
  <1>1. /\ K \in SUBSET Stored /\ K \in SUBSET Seen(H) /\ Seen(H) \in SUBSET Saw
        /\ AllStored(H) => K = Seen(H) /\ \A k \in Seen(H) : flows[k].count = sightings[k]
    BY RowsWereSeen
  <1>2. DOMAIN key = K
    OBVIOUS
  <1> HIDE DEF K
  <1>3. /\ DOMAIN B = {key[k] : k \in K} /\ Weights(B)
        /\ \A g \in DOMAIN B : B[g] = Total(Part(key, g))
        /\ \A s \in SUBSET DOMAIN B : Sum(Sub(B, s)) = Total(Within(key, s))
    <2>1. /\ DOMAIN GroupBy(key) = {key[k] : k \in K} /\ Weights(GroupBy(key))
          /\ \A g \in DOMAIN GroupBy(key) : GroupBy(key)[g] = Total(Part(key, g))
      BY <1>1, <1>2, GroupsAre
    <2>2. \A s \in SUBSET DOMAIN GroupBy(key) :
              Sum(Sub(GroupBy(key), s)) = Total(Within(key, s))
      BY <1>1, <1>2, GroupsAre
    <2>3. QED
      BY <2>1, <2>2
  <1>4. Sum(B) = Total(K)
    BY <1>1, <1>2, AllGroups
  <1>5. B = [g \in DOMAIN B |-> B[g]]
    BY DEF GroupBy
  <1>6. G \in Largest(B, n)
    OBVIOUS
  <1> HIDE DEF B
  <1>7. /\ DOMAIN G \in SUBSET DOMAIN B /\ G = Sub(B, DOMAIN G)
        /\ Cardinality(DOMAIN G) < n => G = B
    BY <1>5, <1>6, LargestIs
  <1>8. Weights(G)
    BY <1>3, <1>7, SubWeighs
  <1>9. \A g \in DOMAIN G : G[g] = Total(Part(key, g))
    <2>1. \A g \in DOMAIN G : G[g] = B[g]
      BY <1>7 DEF Sub
    <2>2. QED
      BY <1>3, <1>7, <2>1
  <1>10. ASSUME NEW s \in SUBSET DOMAIN G PROVE Sum(Sub(G, s)) = Total(Within(key, s))
    <2>1. Sub(G, s) = Sub(B, s)
      BY <1>7 DEF Sub
    <2>2. QED
      BY <1>3, <1>7, <2>1
  <1>11. ASSUME AllStored(H), Cardinality(DOMAIN G) < n PROVE Sum(G) = Sightings(Seen(H))
    BY <1>1, <1>4, <1>7, <1>11, TotalIsSeen
  <1>12. QED
    BY <1>3, <1>7, <1>8, <1>9, <1>10, <1>11 DEF K

\* The keys by which the flows are grouped into edges, targets and ports.
EdgeKey(H) == [k \in Rows(H) |-> <<k[1], Target(k), Port[k[2]], Proto[k[2]]>>]
HostKey(H) == [k \in Rows(H) |-> Target(k)]
PortKey(H) == [k \in Rows(H) |-> Port[k[2]]]

\* A row is one of what was seen from its host, to its target and on its port.
LEMMA RowsAreOf ==
    ASSUME IInv, FiniteInv, NEW H \in SUBSET Hosts, NEW k \in Rows(H)
    PROVE  k \in SeenFrom(H, k[1]) /\ k \in SeenTo(H, Target(k)) /\ k \in SeenOn(H, Port[k[2]])
  <1>1. k \in Seen(H) /\ k \in Keys
    BY RowsWereSeen DEF Rows, Stored
  <1>2. flows[k].name \in Ptr[AddrOf[k[2]]] \cup {None}
    BY <1>1 DEF IInv, NameInv
  <1>3. Target(k) \in {AddrOf[k[2]]} \cup Ptr[AddrOf[k[2]]]
    BY <1>2 DEF Target
  <1>4. QED
    BY <1>1, <1>3 DEF SeenFrom, SeenTo, SeenOn

\* Such sets are of what was seen, and their sightings are a number.
LEMMA SeenSets ==
    ASSUME IInv, FiniteInv, NEW H \in SUBSET Hosts, NEW id
    PROVE  /\ SeenFrom(H, id) \in SUBSET Saw /\ SeenTo(H, id) \in SUBSET Saw
           /\ SeenOn(H, id) \in SUBSET Saw
  BY RowsWereSeen DEF SeenFrom, SeenTo, SeenOn

\* The flow list and the tops, for one host or for all.
LEMMA ListsHold ==
    ASSUME IInv, FiniteInv, NEW H \in SUBSET Hosts
    PROVE  ListsShowSightings(H)
  <1>0. MaxFlows \in Nat /\ MaxTop \in Nat /\ TopLimit \in Nat
    BY LimitsAssumption
  <1>1. ASSUME NEW limit \in 1 .. MaxFlows, NEW L \in ListFlows(H, limit)
        PROVE  /\ DOMAIN L \subseteq Seen(H)
               /\ AllStored(H) /\ Cardinality(DOMAIN L) < limit => DOMAIN L = Seen(H)
    <2> DEFINE f == [k \in Rows(H) |-> flows[k].last]
    <2>1. f = [x \in DOMAIN f |-> f[x]] /\ DOMAIN f = Rows(H)
      OBVIOUS
    <2>2. limit \in Nat /\ L \in Largest(f, limit)
      BY <1>0 DEF ListFlows
    <2> HIDE DEF f
    <2>3. DOMAIN L \in SUBSET DOMAIN f /\ (Cardinality(DOMAIN L) < limit => L = f)
      BY <2>1, <2>2, LargestIs
    <2>4. QED
      BY <2>1, <2>3, RowsWereSeen
  <1>2. ASSUME NEW limit \in 1 .. MaxTop, NEW T \in TopHosts(H, limit)
        PROVE  /\ \A n \in DOMAIN T : T[n] <= Sightings(SeenTo(H, n))
               /\ AllStored(H) /\ Cardinality(DOMAIN T) < limit => Sum(T) = Sightings(Seen(H))
    <2>1. DOMAIN HostKey(H) = Rows(H) /\ limit \in Nat /\ T \in Largest(GroupBy(HostKey(H)), limit)
      BY <1>0 DEF TopHosts, HostKey
    <2>2. /\ \A n \in DOMAIN T : T[n] = Total(Part(HostKey(H), n))
          /\ AllStored(H) /\ Cardinality(DOMAIN T) < limit => Sum(T) = Sightings(Seen(H))
      BY <2>1, ListsAre
    <2>3. ASSUME NEW n PROVE Total(Part(HostKey(H), n)) <= Sightings(SeenTo(H, n))
      <3>1. Part(HostKey(H), n) \in SUBSET Stored /\ Part(HostKey(H), n) \subseteq SeenTo(H, n)
        BY RowsWereSeen, RowsAreOf DEF Part, HostKey
      <3>2. QED
        BY <3>1, SeenSets, TotalIsSeen
    <2>4. QED
      BY <2>2, <2>3
  <1>3. ASSUME NEW T \in TopPorts(H)
        PROVE  /\ \A n \in DOMAIN T : T[n] <= Sightings(SeenOn(H, n))
               /\ AllStored(H) /\ Cardinality(DOMAIN T) < TopLimit => Sum(T) = Sightings(Seen(H))
    <2>1. DOMAIN PortKey(H) = Rows(H) /\ T \in Largest(GroupBy(PortKey(H)), TopLimit)
      BY DEF TopPorts, PortKey
    <2>2. /\ \A n \in DOMAIN T : T[n] = Total(Part(PortKey(H), n))
          /\ AllStored(H) /\ Cardinality(DOMAIN T) < TopLimit => Sum(T) = Sightings(Seen(H))
      BY <1>0, <2>1, ListsAre
    <2>3. ASSUME NEW n PROVE Total(Part(PortKey(H), n)) <= Sightings(SeenOn(H, n))
      <3>1. Part(PortKey(H), n) \in SUBSET Stored /\ Part(PortKey(H), n) \subseteq SeenOn(H, n)
        BY RowsWereSeen, RowsAreOf DEF Part, PortKey
      <3>2. QED
        BY <3>1, SeenSets, TotalIsSeen
    <2>4. QED
      BY <2>2, <2>3
  <1>4. QED
    BY <1>1, <1>2, <1>3 DEF ListsShowSightings

\* The graph, for one host or for all.
LEMMA GraphHolds ==
    ASSUME IInv, FiniteInv, NEW H \in SUBSET Hosts
    PROVE  GraphShowsSightings(H)
  <1> SUFFICES ASSUME NEW E \in Edges(H)
               PROVE  /\ \A id \in NodeIds(E) :
                            /\ NodeSize(E, id) <= Sightings(SeenFrom(H, id)) + Sightings(SeenTo(H, id))
                            /\ "agent" \in NodeTypes(E, id) => SeenFrom(H, id) # {}
                            /\ "host" \in NodeTypes(E, id) => SeenTo(H, id) # {}
                      /\ AllStored(H) /\ Cardinality(DOMAIN E) < GraphLimit =>
                            Sum([id \in NodeIds(E) |-> NodeSize(E, id)]) = 2 * Sightings(Seen(H))
    BY DEF GraphShowsSightings
  <1> DEFINE key == EdgeKey(H)
             A(i, id) == {e \in DOMAIN E : e[i] = id}
  <1>0. GraphLimit \in Nat /\ DOMAIN key = Rows(H) /\ E \in Largest(GroupBy(key), GraphLimit)
    BY LimitsAssumption DEF Edges, EdgeKey
  <1>1. \A k \in Rows(H) : key[k][1] = k[1] /\ key[k][2] = Target(k)
    BY DEF EdgeKey
  <1> HIDE DEF key
  <1>2. /\ Weights(E) /\ DOMAIN E \subseteq {key[k] : k \in Rows(H)}
        /\ AllStored(H) /\ Cardinality(DOMAIN E) < GraphLimit => Sum(E) = Sightings(Seen(H))
    BY <1>0, ListsAre
  <1>3. \A s \in SUBSET DOMAIN E : Sum(Sub(E, s)) = Total(Within(key, s))
    BY <1>0, ListsAre
  <1>4. ASSUME NEW id
        PROVE  NodeSize(E, id) <= Sightings(SeenFrom(H, id)) + Sightings(SeenTo(H, id))
    <2>1. NodeSize(E, id) = Sum(Sub(E, A(1, id))) + Sum(Sub(E, A(2, id)))
      BY <1>2, NodeIsEdges
    <2>2. Sum(Sub(E, A(1, id))) = Total(Within(key, A(1, id)))
          /\ Sum(Sub(E, A(2, id))) = Total(Within(key, A(2, id)))
      BY <1>3
    <2>3. /\ Within(key, A(1, id)) \in SUBSET Stored
          /\ Within(key, A(1, id)) \subseteq SeenFrom(H, id)
      BY <1>0, <1>1, RowsWereSeen, RowsAreOf DEF Within
    <2>4. /\ Within(key, A(2, id)) \in SUBSET Stored
          /\ Within(key, A(2, id)) \subseteq SeenTo(H, id)
      BY <1>0, <1>1, RowsWereSeen, RowsAreOf DEF Within
    <2> HIDE DEF A
    <2>5. /\ Total(Within(key, A(1, id))) \in Nat /\ Sightings(SeenFrom(H, id)) \in Nat
          /\ Total(Within(key, A(1, id))) <= Sightings(SeenFrom(H, id))
      BY <2>3, SeenSets, TotalIsSeen
    <2>6. /\ Total(Within(key, A(2, id))) \in Nat /\ Sightings(SeenTo(H, id)) \in Nat
          /\ Total(Within(key, A(2, id))) <= Sightings(SeenTo(H, id))
      BY <2>4, SeenSets, TotalIsSeen
    <2>7. QED
      BY <2>1, <2>2, <2>5, <2>6
  <1>5. ASSUME NEW id
        PROVE  /\ "agent" \in NodeTypes(E, id) => SeenFrom(H, id) # {}
               /\ "host" \in NodeTypes(E, id) => SeenTo(H, id) # {}
    <2>1. \A e \in DOMAIN E : SeenFrom(H, e[1]) # {} /\ SeenTo(H, e[2]) # {}
      BY <1>1, <1>2, RowsAreOf
    <2>2. "agent" \in NodeTypes(E, id) => \E e \in DOMAIN E : e[1] = id
      BY DEF NodeTypes, Mentions
    <2>3. "host" \in NodeTypes(E, id) => \E e \in DOMAIN E : e[2] = id
      BY DEF NodeTypes, Mentions
    <2>4. QED
      BY <2>1, <2>2, <2>3
  <1>6. ASSUME AllStored(H), Cardinality(DOMAIN E) < GraphLimit
        PROVE  Sum([id \in NodeIds(E) |-> NodeSize(E, id)]) = 2 * Sightings(Seen(H))
    BY <1>2, <1>6, NodesAddUp
  <1>7. QED
    BY <1>4, <1>5, <1>6

\* The counters, for one host or for all.
LEMMA CountersHold ==
    ASSUME IInv, FiniteInv, NEW H \in SUBSET Hosts
    PROVE  CountersCountSightings(H)
  <1>1. \A G \in SUBSET Hosts : /\ Rows(G) \in SUBSET Seen(G) /\ IsFiniteSet(Seen(G))
                               /\ IsFiniteSet(Rows(G))
                               /\ Cardinality(Rows(G)) <= Cardinality(Seen(G))
    BY RowsWereSeen, FS_Subset
  <1>2. Stats(H).flows <= Cardinality(Seen(H))
    BY <1>1 DEF Stats
  <1>3. Stats(H).hosts <= Cardinality(Seen(H))
    <2> DEFINE t == [k \in Rows(H) |-> Target(k)]
    <2>1. DOMAIN t = Rows(H) /\ Stats(H).hosts = Cardinality({t[k] : k \in Rows(H)})
      BY DEF Stats
    <2> HIDE DEF t
    <2>2. IsFiniteSet({t[k] : k \in Rows(H)}) /\ Stats(H).hosts <= Cardinality(Rows(H))
      BY <1>1, <2>1, ImageIsFinite
    <2>3. Stats(H).hosts \in Nat /\ Cardinality(Rows(H)) \in Nat /\ Cardinality(Seen(H)) \in Nat
      BY <1>1, <2>1, <2>2, FS_CardinalityType
    <2>4. QED
      BY <1>1, <2>2, <2>3
  <1>4. AllStored(H) => Stats(H).flows = Cardinality(Seen(H))
    BY RowsWereSeen DEF Stats
  <1>5. Stats(Hosts).agents <= Cardinality({k[1] : k \in Seen(Hosts)})
    <2> DEFINE p == [k \in Seen(Hosts) |-> k[1]]
    <2>1. DOMAIN p = Seen(Hosts)
      OBVIOUS
    <2>2. {p[k] : k \in Seen(Hosts)} = {k[1] : k \in Seen(Hosts)}
      OBVIOUS
    <2> HIDE DEF p
    <2>3. IsFiniteSet({k[1] : k \in Seen(Hosts)})
      BY <1>1, <2>1, <2>2, ImageIsFinite
    <2>4. Stored \subseteq Rows(Hosts)
      BY DEF Rows, Stored, Keys
    <2>5. {k[1] : k \in Stored} \in SUBSET {k[1] : k \in Seen(Hosts)}
      BY <1>1, <2>4
    <2>6. Stats(Hosts).agents = Cardinality({k[1] : k \in Stored})
      BY DEF Stats
    <2>7. QED
      BY <2>3, <2>5, <2>6, FS_Subset
  <1>6. \A h \in DOMAIN AgentRows : AgentRows[h].flows <= Cardinality(Seen({h}))
    <2>1. \A h \in DOMAIN AgentRows : {h} \in SUBSET Hosts
      BY DEF AgentRows, Stored, Keys
    <2>2. \A h \in DOMAIN AgentRows : AgentRows[h].flows = Cardinality(Rows({h}))
      BY DEF AgentRows
    <2>3. QED
      BY <1>1, <2>1, <2>2
  <1>7. HostnameStats(H).ips <= Cardinality({AddrOf[k[2]] : k \in Seen(H)})
    <2> DEFINE p == [k \in Seen(H) |-> AddrOf[k[2]]]
               M == {m \in history : m[1] \in H}
    <2>1. DOMAIN p = Seen(H) /\ {p[k] : k \in Seen(H)} = {AddrOf[k[2]] : k \in Seen(H)}
      OBVIOUS
    <2> HIDE DEF p
    <2>2. IsFiniteSet({AddrOf[k[2]] : k \in Seen(H)})
      BY <1>1, <2>1, ImageIsFinite
    <2>3. \A m \in M : \E k \in Rows(H) : AddrOf[k[2]] = m[2]
      BY DEF IInv, NameInv, Talks, Rows
    <2>4. {m[2] : m \in M} \in SUBSET {AddrOf[k[2]] : k \in Seen(H)}
      BY <1>1, <2>3
    <2>5. HostnameStats(H).ips = Cardinality({m[2] : m \in M})
      BY DEF HostnameStats
    <2>6. QED
      BY <2>2, <2>4, <2>5, FS_Subset
  <1>8. QED
    BY <1>2, <1>3, <1>4, <1>5, <1>6, <1>7 DEF CountersCountSightings

\* The API never shows more than the collectors saw, and an uncut view shows all of it
\* that is neither lost nor on its way, for any hosts, names and limits.
THEOREM ViewsCorrect == Spec => []ViewsShowSightings
  <1>1. IInv /\ FiniteInv => ViewsShowSightings
    BY ListsHold, GraphHolds, CountersHold DEF ViewsShowSightings
  <1>2. QED
    BY <1>1, InvAlways, FiniteInit, FiniteStep, PTL DEF Spec
=============================================================================
