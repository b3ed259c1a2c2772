----------------------------- MODULE Host_proofs ----------------------------
(***************************************************************************)
(* What a host makes of what it is asked and of what it sees: the answers  *)
(* of IsBlocked (DomainMatch), and a round of the network collector        *)
(* (Collectors).  For any names, lists, rules and handlers; for any        *)
(* processes, finitely many sockets, and any number of changes.            *)
(*                                                                         *)
(* A flow of the collector is right from the moment it is made: RoundInv   *)
(* says what right is while it waits for its PID and its name, and what    *)
(* stages have been passed.  IInv says where a walk of IsBlocked has been. *)
(***************************************************************************)
EXTENDS DomainMatch, Collectors,
        FiniteSetTheorems, WellFoundedInduction, SequenceTheorems, TLAPS

\* A flow of the collector.
Flow == [sock : Socks, remote : {"peer", "loopback", "none"},
         state : {"LISTEN", "LISTENING", "ESTABLISHED", "CLOSE", NoState},
         pid : Pids \cup {None}, process : Programs \cup {None}]

-----------------------------------------------------------------------------
(***************************************************************************)
(* Loops.  Collectors has two: the filter, and the parser of what lsof     *)
(* prints.                                                                 *)
(***************************************************************************)
\* Of the numbers of which something does not hold, the least is one whose
\* predecessor it holds of.
LEMMA UpTo ==
    ASSUME NEW n \in Nat, NEW T, 0 \in T, \A i \in 1..n : i - 1 \in T => i \in T
    PROVE  \A i \in 0..n : i \in T
  <1> SUFFICES ASSUME NEW b \in 0..n, b \notin T
               PROVE  FALSE
    OBVIOUS
  <1> DEFINE Bad == {i \in 0..n : i \notin T}
  <1>1. PICK m \in Bad : \A k \in Bad : m <= k
    <2>1. PICK m \in Bad : \A k \in Bad : <<k, m>> \notin OpToRel(<, Nat)
      <3> HIDE DEF Bad
      <3>1. Bad \subseteq Nat /\ Bad # {}
        BY DEF Bad
      <3>2. QED
        BY <3>1, NatLessThanWellFounded, WFMin
    <2>2. \A k \in Bad : <<k, m>> \in Nat \X Nat /\ <<k, m>>[1] = k /\ <<k, m>>[2] = m
      OBVIOUS
    <2>3. \A k \in Bad : ~(k < m)
      <3> HIDE DEF Bad
      <3>1. QED
        BY <2>1, <2>2, Zenon DEF OpToRel
    <2>4. QED
      BY <2>3
  <1>2. m # 0 /\ m - 1 \in 0..n /\ m \in 1..n
    BY <1>1
  <1>3. m - 1 \in T
    BY <1>1, <1>2
  <1>4. QED
    BY <1>1, <1>2, <1>3

\* The loops of n rounds over values of V, and their values round by round.
Loops(n, V) == [1..n -> [V -> V]]
Values(n, V, start, step) ==
    {f \in [0..n -> V] : f[0] = start /\ \A i \in 1..n : f[i] = step[i][f[i - 1]]}

\* Whatever a round makes of a value, there is the function that goes from round to
\* round: a recursive function on 0..n is not a CHOOSE of nothing.
LEMMA LoopExists ==
    ASSUME NEW V, NEW n \in Nat, NEW start \in V, NEW step \in Loops(n, V)
    PROVE  Values(n, V, start, step) # {}
  <1> USE DEF Loops
  <1> DEFINE Runs(k, f) == f[0] = start /\ \A i \in 1..k : f[i] = step[i][f[i - 1]]
             T == {k \in 0..n : \E f \in [0..k -> V] : Runs(k, f)}
  <1>1. 0 \in T
    <2>1. [i \in 0..0 |-> start] \in [0..0 -> V] /\ Runs(0, [i \in 0..0 |-> start])
      OBVIOUS
    <2> HIDE DEF Runs
    <2>2. QED
      BY <2>1
  <1>2. ASSUME NEW k \in 1..n, k - 1 \in T
        PROVE  k \in T
    <2>1. PICK f \in [0..(k - 1) -> V] : Runs(k - 1, f)
      BY <1>2
    <2> DEFINE g == [i \in 0..k |-> IF i = k THEN step[k][f[k - 1]] ELSE f[i]]
    <2>2. f[k - 1] \in V /\ step[k][f[k - 1]] \in V
      BY <2>1
    <2>3. g \in [0..k -> V]
      BY <2>1, <2>2
    <2>4. Runs(k, g)
      BY <2>1, <2>2
    <2> HIDE DEF Runs, g
    <2>5. QED
      BY <2>3, <2>4
  <1> HIDE DEF T
  <1>3. n \in T
    <2>1. \A k \in 0..n : k \in T
      BY <1>1, <1>2, UpTo
    <2>2. QED
      BY <2>1
  <1>4. QED
    BY <1>3 DEF T, Values

\* The loop of filterAndEnrich, round by round.
LEMMA FilterSteps ==
    ASSUME NEW fs \in Seq(Flow)
    PROVE  \E kept \in [0..Len(fs) -> Seq(Flow)] :
              /\ Filter(fs) = kept[Len(fs)]
              /\ kept[0] = <<>>
              /\ \A i \in 1..Len(fs) :
                    kept[i] = IF fs[i].remote = "peer" THEN Append(kept[i - 1], fs[i]) ELSE kept[i - 1]
  <1> DEFINE n == Len(fs)
             step == [i \in 1..n |-> [v \in Seq(Flow) |->
                        IF fs[i].remote = "peer" THEN Append(v, fs[i]) ELSE v]]
             K(f) == [i \in 0..n |->
                        IF i = 0 THEN <<>>
                        ELSE IF fs[i].remote = "peer" THEN Append(f[i - 1], fs[i])
                        ELSE f[i - 1]]
  <1>1. n \in Nat /\ \A i \in 1..n : fs[i] \in Flow
    OBVIOUS
  <1>2. step \in [1..n -> [Seq(Flow) -> Seq(Flow)]]
    <2>1. ASSUME NEW i \in 1..n, NEW v \in Seq(Flow)
          PROVE  Append(v, fs[i]) \in Seq(Flow)
      BY <1>1
    <2>2. QED
      BY <2>1
  <1>3. <<>> \in Seq(Flow)
    OBVIOUS
  <1> HIDE DEF n, step
  <1>4. PICK f \in [0..n -> Seq(Flow)] : f[0] = <<>> /\ \A i \in 1..n : f[i] = step[i][f[i - 1]]
    <2> DEFINE V == Seq(Flow)
               start == <<>>
    <2>1. start \in V /\ step \in Loops(n, V) /\ n \in Nat
      BY <1>1, <1>2 DEF Loops
    <2> HIDE DEF V, start, K
    <2>2. Values(n, V, start, step) # {}
      BY <2>1, LoopExists
    <2>3. QED
      BY <2>2 DEF V, start, Values
  <1>5. ASSUME NEW i \in 1..n
        PROVE  f[i] = IF fs[i].remote = "peer" THEN Append(f[i - 1], fs[i]) ELSE f[i - 1]
    <2>1. i - 1 \in 0..n /\ f[i - 1] \in Seq(Flow)
      BY <1>1, <1>4
    <2>2. step[i][f[i - 1]] = IF fs[i].remote = "peer" THEN Append(f[i - 1], fs[i]) ELSE f[i - 1]
      BY <2>1 DEF step
    <2>3. QED
      BY <2>2, <1>4
  <1>6. f = K(f)
    <2>1. ASSUME NEW i \in 0..n
          PROVE  f[i] = K(f)[i]
      <3>1. CASE i = 0
        BY <3>1, <1>1, <1>4
      <3>2. CASE i # 0
        <4>1. i \in 1..n
          BY <3>2, <1>1
        <4>2. K(f)[i] = IF fs[i].remote = "peer" THEN Append(f[i - 1], fs[i]) ELSE f[i - 1]
          BY <3>2
        <4>3. QED
          BY <4>1, <4>2, <1>5
      <3>3. QED
        BY <3>1, <3>2
    <2>2. f = [i \in 0..n |-> f[i]] /\ K(f) = [i \in 0..n |-> K(f)[i]]
      BY <1>4
    <2> HIDE DEF K
    <2>3. QED
      BY <2>1, <2>2
  <1> DEFINE kept == CHOOSE g : g = K(g)
  <1>7. kept = K(kept)
    BY <1>6
  <1>8. Filter(fs) = kept[n]
    BY DEF Filter, n
  <1> HIDE DEF kept
  <1>9. /\ kept[0] = <<>>
        /\ \A i \in 1..n :
              kept[i] = IF fs[i].remote = "peer" THEN Append(kept[i - 1], fs[i]) ELSE kept[i - 1]
    <2>1. 0 \in 0..n /\ \A i \in 1..n : i \in 0..n /\ i # 0
      BY <1>1
    <2>2. \A i \in 0..n : K(kept)[i] = IF i = 0 THEN <<>>
                        ELSE IF fs[i].remote = "peer" THEN Append(kept[i - 1], fs[i])
                        ELSE kept[i - 1]
      OBVIOUS
    <2> HIDE DEF K
    <2>3. \A i \in 0..n : kept[i] = K(kept)[i]
      BY <1>7
    <2>4. QED
      BY <2>1, <2>2, <2>3
  <1>10. \A i \in 0..n : kept[i] \in Seq(Flow)
    <2> DEFINE T == {i \in 0..n : kept[i] \in Seq(Flow)}
    <2>1. 0 \in T
      <3>1. kept[0] \in Seq(Flow)
        BY <1>9, <1>3
      <3>2. QED
        BY <3>1, <1>1
    <2>2. ASSUME NEW i \in 1..n, i - 1 \in T
          PROVE  i \in T
      <3>1. kept[i - 1] \in Seq(Flow) /\ i \in 0..n /\ fs[i] \in Flow
        BY <2>2, <1>1
      <3>2. Append(kept[i - 1], fs[i]) \in Seq(Flow)
        BY <3>1
      <3>3. kept[i] \in Seq(Flow)
        BY <3>1, <3>2, <1>9
      <3>4. QED
        BY <3>1, <3>3
    <2> HIDE DEF T
    <2>3. \A i \in 0..n : i \in T
      BY <2>1, <2>2, <1>1, UpTo
    <2>4. QED
      BY <2>3 DEF T
  <1>11. kept = [i \in 0..n |-> kept[i]]
    BY <1>7
  <1>12. kept \in [0..n -> Seq(Flow)]
    BY <1>10, <1>11
  <1>13. QED
    BY <1>8, <1>9, <1>12 DEF n

\* A table that changed while it was read, or was not read, is to blame.
Torn(s) == os = "linux" /\ Proto[s] \in spoilt

\* A socket is in no two flows, unless its table changed.
Once(fs) == \A i, j \in DOMAIN fs : fs[i].sock = fs[j].sock => i = j \/ Torn(fs[i].sock)

\* The filter keeps each flow with a remote end, adds none and repeats none.
LEMMA FilterFacts ==
    ASSUME NEW fs \in Seq(Flow)
    PROVE  /\ Filter(fs) \in Seq(Flow)
           /\ \A k \in DOMAIN Filter(fs) : \E i \in DOMAIN fs :
                 fs[i].remote = "peer" /\ Filter(fs)[k] = fs[i]
           /\ \A i \in DOMAIN fs : fs[i].remote = "peer" =>
                 \E k \in DOMAIN Filter(fs) : Filter(fs)[k] = fs[i]
           /\ Once(fs) => Once(Filter(fs))
  <1> DEFINE n == Len(fs)
  <1>1. n \in Nat /\ n \in 0..n /\ DOMAIN fs = 1..n /\ \A i \in 1..n : fs[i] \in Flow
    OBVIOUS
  <1>2. PICK kept \in [0..n -> Seq(Flow)] :
              /\ Filter(fs) = kept[n]
              /\ kept[0] = <<>>
              /\ \A i \in 1..n :
                    kept[i] = IF fs[i].remote = "peer" THEN Append(kept[i - 1], fs[i]) ELSE kept[i - 1]
    BY FilterSteps
  <1> HIDE DEF n
  <1> DEFINE FromBefore(i) == \A k \in DOMAIN kept[i] : \E j \in 1..i :
                 fs[j].remote = "peer" /\ kept[i][k] = fs[j]
             NoneLost(i) == \A j \in 1..i : fs[j].remote = "peer" =>
                 \E k \in DOMAIN kept[i] : kept[i][k] = fs[j]
             T == {i \in 0..n : FromBefore(i) /\ NoneLost(i) /\ (Once(fs) => Once(kept[i]))}
  <1>3. 0 \in T
    <2>1. DOMAIN kept[0] = {} /\ 1..0 = {} /\ 0 \in 0..n
      BY <1>1, <1>2
    <2>2. QED
      BY <2>1 DEF Once
  <1>4. ASSUME NEW i \in 1..n, i - 1 \in T
        PROVE  i \in T
    <2>1. /\ i \in 0..n /\ i - 1 \in 0..n /\ kept[i - 1] \in Seq(Flow) /\ fs[i] \in Flow
          /\ \A j \in 1..(i - 1) : j \in 1..i /\ j # i /\ j \in 1..n
          /\ \A j \in 1..i : j = i \/ j \in 1..(i - 1)
          /\ i \in 1..i
      <3>1. i \in 0..n /\ i - 1 \in 0..n /\ i \in 1..i
        BY <1>1
      <3>2. \A j \in 1..(i - 1) : j \in 1..i /\ j # i /\ j \in 1..n
        BY <1>1
      <3>3. \A j \in 1..i : j = i \/ j \in 1..(i - 1)
        BY <1>1
      <3>4. kept[i - 1] \in Seq(Flow) /\ fs[i] \in Flow
        BY <1>1, <1>2, <3>1
      <3>5. QED
        BY <3>1, <3>2, <3>3, <3>4
    <2>2. FromBefore(i - 1) /\ NoneLost(i - 1) /\ (Once(fs) => Once(kept[i - 1]))
      BY <1>4
    <2>3. CASE fs[i].remote # "peer"
      <3>1. kept[i] = kept[i - 1]
        BY <1>2, <2>3
      <3>2. FromBefore(i) /\ (Once(fs) => Once(kept[i]))
        BY <2>1, <2>2, <3>1
      <3>3. NoneLost(i)
        BY <2>1, <2>2, <2>3, <3>1
      <3>4. QED
        BY <2>1, <3>2, <3>3
    <2>4. CASE fs[i].remote = "peer"
      <3> DEFINE s == kept[i - 1]
                 m == Len(s)
      <3>1. kept[i] = Append(s, fs[i])
        BY <1>2, <2>4
      <3>2. /\ m \in Nat /\ DOMAIN s = 1..m
            /\ DOMAIN kept[i] = 1..(m + 1)
            /\ \A k \in 1..m : k \in 1..(m + 1) /\ k # m + 1 /\ kept[i][k] = s[k]
            /\ \A k \in 1..(m + 1) : k = m + 1 \/ k \in 1..m
            /\ m + 1 \in 1..(m + 1) /\ kept[i][m + 1] = fs[i]
        BY <2>1, <3>1
      <3> HIDE DEF s, m
      <3>3. FromBefore(i)
        <4>1. \A k \in 1..m : \E j \in 1..i : fs[j].remote = "peer" /\ kept[i][k] = fs[j]
          <5> TAKE k \in 1..m
          <5>1. PICK j \in 1..(i - 1) : fs[j].remote = "peer" /\ s[k] = fs[j]
            BY <2>2, <3>2 DEF s
          <5>2. QED
            BY <5>1, <2>1, <3>2
        <4>2. QED
          BY <4>1, <2>1, <2>4, <3>2
      <3>4. NoneLost(i)
        <4>1. ASSUME NEW j \in 1..(i - 1), fs[j].remote = "peer"
              PROVE  \E k \in DOMAIN kept[i] : kept[i][k] = fs[j]
          <5>1. PICK k \in 1..m : s[k] = fs[j]
            BY <2>2, <3>2, <4>1 DEF s
          <5>2. QED
            BY <5>1, <3>2
        <4>2. QED
          BY <4>1, <2>1, <3>2
      <3>5. ASSUME Once(fs)
            PROVE  Once(kept[i])
        <4>1. \A k, l \in 1..m : s[k].sock = s[l].sock => k = l \/ Torn(s[k].sock)
          BY <2>2, <3>2, <3>5 DEF Once, s
        <4>2. \A k \in 1..m : s[k].sock # fs[i].sock \/ Torn(fs[i].sock)
          <5>1. \A k \in 1..m : \E j \in 1..(i - 1) : s[k] = fs[j]
            BY <2>2, <3>2 DEF s
          <5>2. \A j \in 1..(i - 1) : fs[j].sock # fs[i].sock \/ Torn(fs[i].sock)
            BY <2>1, <1>1, <3>5 DEF Once
          <5>3. QED
            BY <5>1, <5>2
        <4>3. QED
          BY <3>2, <4>1, <4>2 DEF Once
      <3>6. QED
        BY <2>1, <3>3, <3>4, <3>5
    <2>5. QED
      BY <2>3, <2>4
  <1>5. n \in T
    <2> HIDE DEF T
    <2>1. \A i \in 0..n : i \in T
      BY <1>1, <1>3, <1>4, UpTo
    <2>2. QED
      BY <2>1, <1>1
  <1>6. FromBefore(n) /\ NoneLost(n) /\ (Once(fs) => Once(kept[n])) /\ kept[n] \in Seq(Flow)
    BY <1>1, <1>2, <1>5
  <1> HIDE DEF T, FromBefore, NoneLost
  <1> DEFINE ks == Filter(fs)
  <1>7. ks = kept[n]
    BY <1>2
  <1> HIDE DEF ks
  <1>8. /\ ks \in Seq(Flow)
        /\ \A k \in DOMAIN ks : \E i \in DOMAIN fs : fs[i].remote = "peer" /\ ks[k] = fs[i]
        /\ \A i \in DOMAIN fs : fs[i].remote = "peer" => \E k \in DOMAIN ks : ks[k] = fs[i]
        /\ Once(fs) => Once(ks)
    BY <1>1, <1>6, <1>7 DEF FromBefore, NoneLost
  <1>9. QED
    BY <1>8 DEF ks

-----------------------------------------------------------------------------
(***************************************************************************)
(* What parseLsofFields returns.                                           *)
(***************************************************************************)
\* The four variables of parseLsofFields.
Reading == [pid : Pids \cup {None}, process : Programs \cup {None},
            state : {"LISTEN", "ESTABLISHED", "CLOSE", NoState}, flows : Seq(Flow)]

\* What is made of a socket's lines.
Told(v, s) == IF Proto[s] \in Tcp THEN StateOf(s) ELSE v.state

\* What two lines make of the variables: the head of a process's block.
LEMMA HeadIsRead ==
    ASSUME NEW v \in Reading, NEW p \in Pids, procs \in [Pids -> Programs \cup {None}]
    PROVE  ReadHead(v, p) = [pid |-> p, process |-> procs[p], state |-> NoState, flows |-> v.flows]
  BY DEF ReadHead, ReadLine, Reading

\* What the lines of one socket make of them.
LEMMA SockIsRead ==
    ASSUME NEW v \in Reading, NEW s \in Socks
    PROVE  ReadSock(v, s) =
              [pid |-> v.pid, process |-> v.process,
               state |-> IF Remote[s] = "none" THEN Told(v, s) ELSE NoState,
               flows |-> IF Remote[s] = "none" THEN v.flows
                         ELSE Append(v.flows, [sock |-> s, remote |-> Remote[s],
                                 state |-> Told(v, s), pid |-> v.pid, process |-> v.process])]
  BY DEF ReadSock, ReadLine, Parsed, Reading, Told

LEMMA StatesAreKnown ==
    ASSUME NEW s \in Socks, os \in {"linux", "darwin", "windows"}
    PROVE  StateOf(s) \in {"LISTEN", "ESTABLISHED", "CLOSE", NoState}
  BY KindsAssumption DEF StateOf, Protos, Tcp

LEMMA ReadType ==
    ASSUME NEW v \in Reading, NEW s \in Socks, NEW p \in Pids,
           procs \in [Pids -> Programs \cup {None}], os \in {"linux", "darwin", "windows"}
    PROVE  ReadSock(v, s) \in Reading /\ ReadSock(ReadHead(v, p), s) \in Reading
  <1>1. \A w \in Reading : Told(w, s) \in {"LISTEN", "ESTABLISHED", "CLOSE", NoState}
    BY StatesAreKnown DEF Told, Reading
  <1>2. \A w \in Reading : ReadSock(w, s) \in Reading
    <2> TAKE w \in Reading
    <2> DEFINE a == [sock |-> s, remote |-> Remote[s], state |-> Told(w, s), pid |-> w.pid, process |-> w.process]
               st == IF Remote[s] = "none" THEN Told(w, s) ELSE NoState
               more == IF Remote[s] = "none" THEN w.flows ELSE Append(w.flows, a)
    <2>1. a \in Flow
      BY <1>1, KindsAssumption DEF Flow, Reading
    <2>2. w.pid \in Pids \cup {None} /\ w.process \in Programs \cup {None} /\ w.flows \in Seq(Flow)
      BY DEF Reading
    <2>3. st \in {"LISTEN", "ESTABLISHED", "CLOSE", NoState} /\ more \in Seq(Flow)
      <3> HIDE DEF a
      <3>1. Append(w.flows, a) \in Seq(Flow)
        BY <2>1, <2>2
      <3>2. QED
        BY <1>1, <2>2, <3>1
    <2>4. ReadSock(w, s) = [pid |-> w.pid, process |-> w.process, state |-> st, flows |-> more]
      BY SockIsRead
    <2> HIDE DEF st, more
    <2>5. QED
      BY <2>2, <2>3, <2>4 DEF Reading
  <1>3. ReadHead(v, p) \in Reading
    <2>1. procs[p] \in Programs \cup {None} /\ v.flows \in Seq(Flow)
      BY DEF Reading
    <2>2. ReadHead(v, p) = [pid |-> p, process |-> procs[p], state |-> NoState, flows |-> v.flows]
      BY HeadIsRead
    <2>3. QED
      BY <2>1, <2>2 DEF Reading
  <1>4. QED
    BY <1>2, <1>3

\* A set written as a sequence.
LEMMA SetAsSequence ==
    ASSUME NEW S, IsFiniteSet(S)
    PROVE  /\ SetToSeq(S) \in SetToSeqs(S)
           /\ \A t \in SetToSeqs(S) :
                 /\ t \in Seq(S)
                 /\ \A i, j \in DOMAIN t : t[i] = t[j] => i = j
                 /\ \A s \in S : \E i \in DOMAIN t : t[i] = s
  <1> DEFINE n == Cardinality(S)
             D == 1..n
  <1>1. n \in Nat /\ ExistsBijection(D, S)
    BY FS_CardinalityType
  <1>2. IsFiniteSet(D) /\ Cardinality(D) = n
    <2>1. IF 1 > n THEN Cardinality(D) = 0 ELSE Cardinality(D) = n
      BY <1>1, FS_Interval
    <2>2. IsFiniteSet(D)
      BY <1>1, FS_Interval
    <2>3. QED
      BY <1>1, <2>1, <2>2
  <1>3. SetToSeqs(S) = Injection(D, S)
    <2>1. \A f \in [D -> S] : (\A i, j \in D : i # j => f[i] # f[j]) <=> IsInjective(f)
      BY DEF IsInjective
    <2>2. QED
      BY <2>1 DEF SetToSeqs, Injection
  <1>4. SetToSeq(S) \in Injection(D, S)
    <2>1. PICK f \in Bijection(D, S) : TRUE
      BY <1>1 DEF ExistsBijection
    <2>2. f \in [D -> S] /\ IsInjective(f)
      BY <2>1 DEF Bijection, Injection, Surjection, IsInjective
    <2>3. SetToSeq(S) \in [D -> S] /\ IsInjective(SetToSeq(S))
      BY <2>2 DEF SetToSeq
    <2>4. QED
      BY <2>3 DEF IsInjective, Injection
  <1>5. ASSUME NEW t \in Injection(D, S)
        PROVE  /\ t \in Seq(S)
               /\ \A i, j \in DOMAIN t : t[i] = t[j] => i = j
               /\ \A s \in S : \E i \in DOMAIN t : t[i] = s
    <2>1. t \in Surjection(D, S)
      <3> HIDE DEF D, n
      <3>1. QED
        BY <1>2, <1>5, FS_Injection DEF n
    <2>2. t \in [D -> S] /\ \A i, j \in D : t[i] = t[j] => i = j
      BY <1>5 DEF Injection, IsInjective
    <2>3. \A s \in S : \E i \in D : t[i] = s
      BY <2>1 DEF Surjection
    <2>4. t \in Seq(S)
      BY <2>2, <1>1
    <2>5. QED
      BY <2>2, <2>3, <2>4
  <1>6. QED
    BY <1>3, <1>4, <1>5

\* The socket before is in the same block.
Alike(order, i) == i > 1 /\ holder[order[i - 1]] = holder[order[i]]
ReadNext(v, order, i) ==
    IF Alike(order, i) THEN ReadSock(v, order[i]) ELSE ReadSock(ReadHead(v, holder[order[i]]), order[i])
Unread == [pid |-> None, process |-> None, state |-> NoState, flows |-> <<>>]

\* The loop of parseLsofFields, socket by socket.
LEMMA ReadSteps ==
    ASSUME NEW order \in Seq(Socks), holder \in [Socks -> Pids],
           procs \in [Pids -> Programs \cup {None}], os \in {"linux", "darwin", "windows"}
    PROVE  \E read \in [0..Len(order) -> Reading] :
              /\ ParseLsofFields(order) = read[Len(order)].flows
              /\ read[0] = Unread
              /\ \A i \in 1..Len(order) : read[i] = ReadNext(read[i - 1], order, i)
  <1> DEFINE n == Len(order)
             step == [i \in 1..n |-> [v \in Reading |-> ReadNext(v, order, i)]]
             K(f) == [i \in 0..n |-> IF i = 0 THEN Unread ELSE ReadNext(f[i - 1], order, i)]
  <1>1. n \in Nat /\ n \in 0..n /\ \A i \in 1..n : order[i] \in Socks /\ holder[order[i]] \in Pids
    OBVIOUS
  <1>2. \A i \in 1..n : \A v \in Reading : ReadNext(v, order, i) \in Reading
    <2> HIDE DEF n
    <2> TAKE i \in 1..n
    <2> TAKE v \in Reading
    <2>1. ReadSock(v, order[i]) \in Reading /\ ReadSock(ReadHead(v, holder[order[i]]), order[i]) \in Reading
      BY <1>1, ReadType
    <2>2. QED
      BY <2>1 DEF ReadNext
  <1>3. Unread \in Reading
    BY DEF Unread, Reading
  <1> HIDE DEF n
  <1>4. PICK f \in [0..n -> Reading] : f[0] = Unread /\ \A i \in 1..n : f[i] = ReadNext(f[i - 1], order, i)
    <2>1. step \in Loops(n, Reading)
      BY <1>2 DEF Loops
    <2> HIDE DEF step
    <2>2. Values(n, Reading, Unread, step) # {}
      BY <1>1, <1>3, <2>1, LoopExists
    <2>3. PICK f \in [0..n -> Reading] : f[0] = Unread /\ \A i \in 1..n : f[i] = step[i][f[i - 1]]
      BY <2>2 DEF Values
    <2>4. \A i \in 1..n : f[i - 1] \in Reading
      BY <1>1, <2>3
    <2>5. QED
      BY <2>3, <2>4 DEF step
  <1>5. f = K(f)
    <2>1. \A i \in 0..n : i = 0 \/ i \in 1..n
      BY <1>1
    <2>2. \A i \in 0..n : K(f)[i] = IF i = 0 THEN Unread ELSE ReadNext(f[i - 1], order, i)
      OBVIOUS
    <2>3. f = [i \in 0..n |-> f[i]] /\ K(f) = [i \in 0..n |-> K(f)[i]]
      BY <1>4
    <2> HIDE DEF K
    <2>4. \A i \in 0..n : f[i] = K(f)[i]
      BY <1>4, <2>1, <2>2
    <2>5. QED
      BY <2>3, <2>4
  <1> DEFINE read == CHOOSE g : g = K(g)
  <1>6. read = K(read)
    BY <1>5
  <1>7. ParseLsofFields(order) = read[n].flows
    BY DEF ParseLsofFields, n, ReadNext, Alike, Unread
  <1> HIDE DEF read
  <1>8. /\ read[0] = Unread
        /\ \A i \in 1..n : read[i] = ReadNext(read[i - 1], order, i)
    <2>1. 0 \in 0..n /\ \A i \in 1..n : i \in 0..n /\ i # 0
      BY <1>1
    <2>2. \A i \in 0..n : K(read)[i] = IF i = 0 THEN Unread ELSE ReadNext(read[i - 1], order, i)
      OBVIOUS
    <2> HIDE DEF K
    <2>3. \A i \in 0..n : read[i] = K(read)[i]
      BY <1>6
    <2>4. QED
      BY <2>1, <2>2, <2>3
  <1>9. \A i \in 0..n : read[i] \in Reading
    <2> DEFINE T == {i \in 0..n : read[i] \in Reading}
    <2>1. 0 \in T
      BY <1>8, <1>3, <1>1
    <2>2. ASSUME NEW i \in 1..n, i - 1 \in T
          PROVE  i \in T
      <3>1. read[i - 1] \in Reading /\ i \in 0..n
        BY <2>2, <1>1
      <3>2. QED
        BY <3>1, <1>2, <1>8
    <2> HIDE DEF T
    <2>3. \A i \in 0..n : i \in T
      BY <2>1, <2>2, <1>1, UpTo
    <2>4. QED
      BY <2>3 DEF T
  <1>10. read \in [0..n -> Reading]
    <2>1. read = [i \in 0..n |-> read[i]]
      BY <1>6
    <2>2. QED
      BY <2>1, <1>9
  <1>11. QED
    BY <1>7, <1>8, <1>10 DEF n

LEMMA Appended ==
    ASSUME NEW V, NEW s \in Seq(V), NEW e \in V
    PROVE  /\ Append(s, e) \in Seq(V)
           /\ \A k \in DOMAIN s : k \in DOMAIN Append(s, e) /\ Append(s, e)[k] = s[k] /\ k # Len(s) + 1
           /\ Len(s) + 1 \in DOMAIN Append(s, e) /\ Append(s, e)[Len(s) + 1] = e
           /\ \A k \in DOMAIN Append(s, e) : k \in DOMAIN s \/ k = Len(s) + 1
  OBVIOUS

\* What a flow may tell of the state of its socket.
ItsState(f) ==
    \/ f.state = StateOf(f.sock)
    \/ f.remote = "none" /\ f.state = "LISTENING"
    \/ /\ os = "darwin" /\ Proto[f.sock] \in Udp
       /\ \E s \in Socks : holder[s] = holder[f.sock] /\ Remote[s] = "none" /\ StateOf(s) = f.state

\* What lsof says of a socket.
FromLsof(f, s) ==
    /\ f.sock = s
    /\ f.remote = Remote[s] /\ Remote[s] # "none"
    /\ f.pid = holder[s] /\ f.process = procs[holder[s]]
    /\ ItsState(f)

\* A state that was not forgotten is that of a listener of the same process.
Lingers(st, p) ==
    st = NoState \/ \E s \in Socks : holder[s] = p /\ Remote[s] = "none" /\ StateOf(s) = st

\* The variables of the parser within the block of a process.
InBlock(v, p) == v.pid = p /\ v.process = procs[p] /\ Lingers(v.state, p)

\* A socket's lines leave the variables in the block, and make one flow of it, or
\* none without a remote end.
LEMMA SockInBlock ==
    ASSUME NEW v \in Reading, NEW s \in Socks, InBlock(v, holder[s]), os = "darwin"
    PROVE  /\ InBlock(ReadSock(v, s), holder[s])
           /\ Remote[s] = "none" => ReadSock(v, s).flows = v.flows
           /\ Remote[s] # "none" =>
                 \E f : /\ ReadSock(v, s).flows = Append(v.flows, f)
                        /\ FromLsof(f, s)
  <1> DEFINE f == [sock |-> s, remote |-> Remote[s], state |-> Told(v, s), pid |-> v.pid, process |-> v.process]
             w == ReadSock(v, s)
  <1>1. /\ w.pid = v.pid /\ w.process = v.process
        /\ w.state = IF Remote[s] = "none" THEN Told(v, s) ELSE NoState
        /\ w.flows = IF Remote[s] = "none" THEN v.flows ELSE Append(v.flows, f)
    <2> DEFINE st == IF Remote[s] = "none" THEN Told(v, s) ELSE NoState
               fs == IF Remote[s] = "none" THEN v.flows ELSE Append(v.flows, f)
    <2>1. w = [pid |-> v.pid, process |-> v.process, state |-> st, flows |-> fs]
      BY SockIsRead
    <2> HIDE DEF st, fs, w
    <2>2. w.pid = v.pid /\ w.process = v.process /\ w.state = st /\ w.flows = fs
      BY <2>1
    <2>3. QED
      BY <2>2 DEF st, fs
  <1>2. (Proto[s] \in Tcp \/ Proto[s] \in Udp) /\ ~(Proto[s] \in Tcp /\ Proto[s] \in Udp)
    BY KindsAssumption DEF Protos, Tcp, Udp
  <1>3. Proto[s] \in Udp => StateOf(s) = NoState
    BY <1>2 DEF StateOf
  <1> HIDE DEF w
  <1>4. InBlock(w, holder[s])
    <2>1. Remote[s] = "none" => Lingers(Told(v, s), holder[s])
      BY <1>2 DEF Told, Lingers, InBlock
    <2>2. Lingers(NoState, holder[s])
      BY DEF Lingers
    <2>3. QED
      BY <1>1, <2>1, <2>2 DEF InBlock
  <1>5. Remote[s] # "none" => FromLsof(f, s)
    <2>1. f.sock = s /\ f.remote = Remote[s] /\ f.pid = v.pid /\ f.process = v.process /\ f.state = Told(v, s)
      OBVIOUS
    <2> HIDE DEF f
    <2>2. CASE Proto[s] \in Tcp
      BY <2>1, <2>2 DEF FromLsof, InBlock, ItsState, Told
    <2>3. CASE Proto[s] \in Udp
      BY <1>2, <1>3, <2>1, <2>3 DEF FromLsof, InBlock, ItsState, Told, Lingers
    <2>4. QED
      BY <1>2, <2>2, <2>3
  <1>6. QED
    BY <1>1, <1>4, <1>5 DEF w

\* What parseLsofFields returns: a flow for each socket with a remote end, and each
\* with the process of its own block.
LEMMA ListingFacts ==
    ASSUME NEW order \in Listings, holder \in [Socks -> Pids], open \in SUBSET Socks,
           procs \in [Pids -> Programs \cup {None}], os = "darwin"
    PROVE  LET fs == ParseLsofFields(order) IN
           /\ fs \in Seq(Flow)
           /\ \A k \in DOMAIN fs : \E s \in open : FromLsof(fs[k], s)
           /\ \A s \in open : Remote[s] # "none" => \E k \in DOMAIN fs : fs[k].sock = s
           /\ Once(fs)
  <1> DEFINE n == Len(order)
  <1>1. order \in SetToSeqs(open) /\ IsFiniteSet(open)
    BY SocksAssumption, FS_Subset DEF Listings
  <1>2. /\ order \in Seq(open)
        /\ \A i, j \in DOMAIN order : order[i] = order[j] => i = j
        /\ \A s \in open : \E i \in DOMAIN order : order[i] = s
    BY <1>1, SetAsSequence
  <1>3. /\ n \in Nat /\ n \in 0..n /\ DOMAIN order = 1..n /\ order \in Seq(Socks)
        /\ \A i \in 1..n : order[i] \in open /\ order[i] \in Socks /\ holder[order[i]] \in Pids
    BY <1>2
  <1>4. PICK read \in [0..n -> Reading] :
              /\ ParseLsofFields(order) = read[n].flows
              /\ read[0] = Unread
              /\ \A i \in 1..n : read[i] = ReadNext(read[i - 1], order, i)
    BY <1>3, ReadSteps
  <1> HIDE DEF n
  <1> DEFINE Here(i) == i >= 1 => InBlock(read[i], holder[order[i]])
             FromBefore(i) == \A k \in DOMAIN read[i].flows : \E j \in 1..i :
                 FromLsof(read[i].flows[k], order[j])
             NoneLost(i) == \A j \in 1..i : Remote[order[j]] # "none" =>
                 \E k \in DOMAIN read[i].flows : read[i].flows[k].sock = order[j]
             T == {i \in 0..n : Here(i) /\ FromBefore(i) /\ NoneLost(i) /\ Once(read[i].flows)}
  <1>5. 0 \in T
    <2>1. read[0].flows = <<>> /\ 1..0 = {} /\ 0 \in 0..n
      BY <1>3, <1>4 DEF Unread
    <2>2. DOMAIN read[0].flows = {}
      BY <2>1
    <2>3. QED
      BY <2>1, <2>2 DEF Once
  <1>6. ASSUME NEW i \in 1..n, i - 1 \in T
        PROVE  i \in T
    <2> DEFINE v == read[i - 1]
               s == order[i]
               w == IF Alike(order, i) THEN v ELSE ReadHead(v, holder[s])
    <2>1. /\ i \in 0..n /\ i - 1 \in 0..n /\ i \in 1..i /\ i >= 1
          /\ \A j \in 1..(i - 1) : j \in 1..i /\ j # i /\ j \in 1..n
          /\ \A j \in 1..i : j = i \/ j \in 1..(i - 1)
          /\ v \in Reading /\ s \in Socks /\ holder[s] \in Pids
      BY <1>3, <1>4
    <2>2. Here(i - 1) /\ FromBefore(i - 1) /\ NoneLost(i - 1) /\ Once(v.flows)
      BY <1>6
    <2>3. w \in Reading /\ InBlock(w, holder[s]) /\ w.flows = v.flows
      <3>1. CASE Alike(order, i)
        <4>1. i - 1 >= 1 /\ holder[order[i - 1]] = holder[s]
          BY <3>1, <2>1 DEF Alike
        <4>2. QED
          BY <2>1, <2>2, <3>1, <4>1
      <3>2. CASE ~Alike(order, i)
        <4> DEFINE h == [pid |-> holder[s], process |-> procs[holder[s]], state |-> NoState, flows |-> v.flows]
        <4> HIDE DEF v, s
        <4>1. w = h
          BY <2>1, <3>2, HeadIsRead
        <4>2. h.flows = v.flows /\ InBlock(h, holder[s])
          BY DEF InBlock, Lingers
        <4>3. h \in Reading
          BY <2>1 DEF Reading
        <4>4. QED
          BY <4>1, <4>2, <4>3
      <3>3. QED
        BY <3>1, <3>2
    <2>4. read[i] = ReadSock(w, s)
      BY <1>4 DEF ReadNext
    <2> HIDE DEF w
    <2>5. /\ InBlock(read[i], holder[s])
          /\ Remote[s] = "none" => read[i].flows = v.flows
          /\ Remote[s] # "none" => \E f : read[i].flows = Append(v.flows, f) /\ FromLsof(f, s)
      <3> HIDE DEF v, s
      <3>1. /\ InBlock(ReadSock(w, s), holder[s])
            /\ Remote[s] = "none" => ReadSock(w, s).flows = w.flows
            /\ Remote[s] # "none" => \E f : ReadSock(w, s).flows = Append(w.flows, f) /\ FromLsof(f, s)
        BY <2>1, <2>3, SockInBlock
      <3>2. QED
        BY <2>3, <2>4, <3>1
    <2>6. Here(i)
      BY <2>5
    <2>7. CASE Remote[s] = "none"
      BY <2>1, <2>2, <2>5, <2>6, <2>7
    <2>8. CASE Remote[s] # "none"
      <3>1. PICK f : read[i].flows = Append(v.flows, f) /\ FromLsof(f, s)
        BY <2>5, <2>8
      <3>2. f.sock = s
        BY <3>1 DEF FromLsof
      <3> DEFINE old == v.flows
                 new == read[i].flows
                 m == Len(old)
      <3>3. /\ \A k \in DOMAIN old : k \in DOMAIN new /\ new[k] = old[k] /\ k # m + 1
            /\ m + 1 \in DOMAIN new /\ new[m + 1] = f
            /\ \A k \in DOMAIN new : k \in DOMAIN old \/ k = m + 1
        <4> DEFINE V == Flow \cup {f}
        <4>1. old \in Seq(Flow)
          BY <2>1 DEF Reading
        <4> HIDE DEF old
        <4>2. old \in Seq(V)
          BY <4>1
        <4>3. f \in V
          OBVIOUS
        <4> HIDE DEF V, new
        <4>4. new = Append(old, f)
          BY <3>1 DEF old, new
        <4>5. QED
          BY <4>2, <4>3, <4>4, Appended
      <3> HIDE DEF old, new, m
      <3>4. FromBefore(i)
        <4>1. \A k \in DOMAIN old : \E j \in 1..i : FromLsof(new[k], order[j])
          <5> TAKE k \in DOMAIN old
          <5>1. PICK j \in 1..(i - 1) : FromLsof(old[k], order[j])
            BY <2>2 DEF old
          <5>2. QED
            BY <5>1, <2>1, <3>3
        <4>2. QED
          BY <4>1, <2>1, <3>1, <3>3 DEF new
      <3>5. NoneLost(i)
        <4>1. ASSUME NEW j \in 1..(i - 1), Remote[order[j]] # "none"
              PROVE  \E k \in DOMAIN new : new[k].sock = order[j]
          <5>1. PICK k \in DOMAIN old : old[k].sock = order[j]
            BY <2>2, <4>1 DEF old
          <5>2. QED
            BY <5>1, <3>3
        <4>2. QED
          BY <4>1, <2>1, <3>2, <3>3 DEF new
      <3>6. Once(new)
        <4>1. \A k, l \in DOMAIN old : old[k].sock = old[l].sock => k = l \/ Torn(old[k].sock)
          BY <2>2 DEF Once, old
        <4>2. \A k \in DOMAIN old : old[k].sock # s
          <5> TAKE k \in DOMAIN old
          <5>1. PICK j \in 1..(i - 1) : FromLsof(old[k], order[j])
            BY <2>2 DEF old
          <5>2. old[k].sock = order[j] /\ j # i /\ j \in 1..n
            BY <5>1, <2>1 DEF FromLsof
          <5>3. QED
            BY <5>2, <1>2, <1>3
        <4>3. QED
          BY <3>2, <3>3, <4>1, <4>2 DEF Once
      <3>7. QED
        BY <2>1, <2>6, <3>4, <3>5, <3>6 DEF new
    <2>9. QED
      BY <2>7, <2>8
  <1>7. n \in T
    <2> HIDE DEF T
    <2>1. \A i \in 0..n : i \in T
      BY <1>3, <1>5, <1>6, UpTo
    <2>2. QED
      BY <2>1, <1>3
  <1> DEFINE fs == ParseLsofFields(order)
  <1>8. fs = read[n].flows /\ read[n] \in Reading
    BY <1>3, <1>4
  <1>9. FromBefore(n) /\ NoneLost(n) /\ Once(read[n].flows)
    BY <1>7
  <1>10. fs \in Seq(Flow)
    BY <1>8 DEF Reading
  <1> HIDE DEF fs, FromBefore, NoneLost, T, Here
  <1>11. \A k \in DOMAIN fs : \E s \in open : FromLsof(fs[k], s)
    BY <1>3, <1>8, <1>9 DEF FromBefore
  <1>12. \A s \in open : Remote[s] # "none" => \E k \in DOMAIN fs : fs[k].sock = s
    BY <1>2, <1>3, <1>8, <1>9 DEF NoneLost
  <1>13. QED
    BY <1>8, <1>9, <1>10, <1>11, <1>12 DEF fs

-----------------------------------------------------------------------------
(***************************************************************************)
(* The inductive invariant.                                                *)
(***************************************************************************)
LinuxStages == {"tcp", "tcp pids", "tcp6", "tcp6 pids", "udp", "udp pids", "udp6", "udp6 pids",
                "sorted", "names", "done"}
WindowsStages == {"tcp", "netstat", "udp", "names", "done"}

\* No platform is at a stage of another.
RoundTypeOK ==
    /\ os \in {"linux", "darwin", "windows"}
    /\ procs \in [Pids -> Programs \cup {None}]
    /\ open \in SUBSET Socks
    /\ holder \in [Socks -> Pids]
    /\ program \in [Socks -> Programs]
    /\ \/ os = "linux" /\ pc \in LinuxStages
       \/ os = "windows" /\ pc \in WindowsStages
       \/ os = "darwin" /\ pc \in {"tcp", "done"}
    /\ flows \in Seq(Flow)
    /\ next \in Nat \ {0}
    /\ changes \in Nat
    /\ reused \in SUBSET Pids

\* The holder of an open socket still runs what it ran.
HoldersRun == \A s \in open : procs[holder[s]] = program[s]

\* Get-NetUDPEndpoint says of no socket where its remote end is.
Hidden(s) == os = "windows" /\ Proto[s] \in Udp

\* The flows that tell of a socket what is so.
OwnFlows ==
    {f \in Flow :
        /\ f.pid = holder[f.sock] \/ (os = "linux" /\ f.pid = None)
        /\ f.process \in {None, program[f.sock]} \/ f.pid \in reused
        /\ procs[holder[f.sock]] \in {None, program[f.sock]} \/ holder[f.sock] \in reused
        /\ f.remote = IF Hidden(f.sock) THEN "none" ELSE Remote[f.sock]
        /\ ItsState(f)}

\* The stages in which the table of a protocol is still to be read.
Before(proto) ==
    {"tcp", "netstat"}
    \cup (IF proto = "tcp" THEN {} ELSE {"tcp pids", "tcp6"})
    \cup (IF proto \in Tcp THEN {} ELSE {"tcp6 pids", "udp"})
    \cup (IF proto = "udp6" THEN {"udp pids", "udp6"} ELSE {})

\* What the stages of the round know of the flows.
OfItsStage(f) ==
    /\ pc \notin Before(Proto[f.sock])
    /\ pc \notin {"names", "done"} => f.process = None
    /\ pc = "done" => f.remote = "peer"

FlowsInv == \A i \in DOMAIN flows : flows[i] \in OwnFlows /\ OfItsStage(flows[i])

Shown(fs, s) == \E i \in DOMAIN fs : fs[i].sock = s

OnceInv == Once(flows)

\* What is still to come of a table is open and in no flow.
UnreadInv ==
    /\ unread \subseteq open
    /\ \A s \in unread : pc = Walk[Proto[s]]
    /\ \A s \in unread : Shown(flows, s) => Torn(s)

\* A connection is found, or the code is not to blame.
Found(s) ==
    \/ Ways(s) \subseteq spoilt
    \/ Hidden(s)
    \/ pc = "done" /\ Remote[s] # "peer"
    \/ Shown(flows, s)

\* A table that has been read shows the sockets that are still open; netstat is asked
\* only after a fault, or when there is nothing to find.
FoundInv ==
    /\ pc = "netstat" => "powershell" \in spoilt \/ \A s \in open : Proto[s] \notin Tcp
    /\ \A s \in open : pc \notin Before(Proto[s]) /\ s \notin unread => Found(s)

RoundInv == RoundTypeOK /\ HoldersRun /\ FlowsInv /\ OnceInv /\ UnreadInv /\ FoundInv

\* The rows of a set of sockets.
RowsOf(S, rows) ==
    /\ rows \in Seq(Flow)
    /\ \A i, j \in DOMAIN rows : rows[i].sock = rows[j].sock => i = j
    /\ \A i \in DOMAIN rows : rows[i] \in OwnFlows /\ rows[i].process = None /\ rows[i].sock \in S
    /\ \A s \in S : Shown(rows, s)

-----------------------------------------------------------------------------
(***************************************************************************)
(* Stages and tables.                                                      *)
(***************************************************************************)
\* The tables of Linux are read one after the other.
LEMMA Stages ==
    ASSUME NEW p \in Protos
    PROVE  /\ Walk[p] \in LinuxStages /\ Then[p] \in LinuxStages /\ p \in LinuxStages
           /\ Walk[p] \notin {"tcp", "tcp6", "udp", "udp6", "sorted", "names", "done", "netstat"}
           /\ Then[p] \notin {"names", "done", "netstat"}
           /\ p \notin {"names", "done", "netstat"}
           /\ p \in Before(p) /\ Walk[p] \notin Before(p) /\ Then[p] \notin Before(p)
           /\ \A q \in Protos :
                 /\ Walk[p] = Walk[q] => p = q
                 /\ Walk[p] # q /\ Then[p] # Walk[q]
                 /\ p # q => (Walk[p] \in Before(q) <=> p \in Before(q))
                 /\ Walk[p] \in Before(q) <=> Then[p] \in Before(q)
  <1>1. CASE p = "tcp"
    BY <1>1 DEF Walk, Then, Before, LinuxStages, Protos, Tcp
  <1>2. CASE p = "tcp6"
    BY <1>2 DEF Walk, Then, Before, LinuxStages, Protos, Tcp
  <1>3. CASE p = "udp"
    BY <1>3 DEF Walk, Then, Before, LinuxStages, Protos, Tcp
  <1>4. CASE p = "udp6"
    BY <1>4 DEF Walk, Then, Before, LinuxStages, Protos, Tcp
  <1>5. QED
    BY <1>1, <1>2, <1>3, <1>4 DEF Protos

\* The entries that tables have for a socket.
IsEntry(e, s) ==
    \E pid \in {holder[s]} \cup (IF os = "linux" THEN {None} ELSE {}) :
        LET f == Entry(s, IF Hidden(s) THEN "none" ELSE Remote[s], pid) IN
        e = f \/ (f.remote = "none" /\ e = [f EXCEPT !.state = "LISTENING"])

\* The entry of an open socket tells what is so.
LEMMA EntryFacts ==
    ASSUME RoundTypeOK, HoldersRun, NEW s \in open, NEW e, IsEntry(e, s)
    PROVE  e \in OwnFlows /\ e.sock = s /\ e.process = None
  <1> DEFINE remote == IF Hidden(s) THEN "none" ELSE Remote[s]
  <1>1. PICK pid \in {holder[s]} \cup (IF os = "linux" THEN {None} ELSE {}) :
          \/ e = Entry(s, remote, pid)
          \/ Entry(s, remote, pid).remote = "none" /\ e = [Entry(s, remote, pid) EXCEPT !.state = "LISTENING"]
    BY DEF IsEntry
  <1>2. /\ s \in Socks /\ holder[s] \in Pids /\ pid \in Pids \cup {None}
        /\ remote \in {"peer", "loopback", "none"}
        /\ pid = holder[s] \/ (os = "linux" /\ pid = None)
    BY <1>1, KindsAssumption DEF RoundTypeOK
  <1>3. StateOf(s) \in {"LISTEN", "ESTABLISHED", "CLOSE", NoState}
    BY <1>2, StatesAreKnown DEF RoundTypeOK
  <1> HIDE DEF remote
  <1>4. /\ e.sock = s /\ e.remote = remote /\ e.pid = pid /\ e.process = None
        /\ e.state = StateOf(s) \/ (e.remote = "none" /\ e.state = "LISTENING")
        /\ e \in Flow
    BY <1>1, <1>2, <1>3 DEF Entry, Flow
  <1>5. procs[holder[s]] = program[s]
    BY DEF HoldersRun
  <1>6. e \in OwnFlows
    BY <1>2, <1>4, <1>5 DEF OwnFlows, ItsState, remote
  <1>7. QED
    BY <1>4, <1>6

\* A table shows its sockets, each once.
LEMMA RowsFacts ==
    ASSUME RoundTypeOK, HoldersRun, NEW S \in SUBSET open, NEW line, \A s \in S : IsEntry(line[s], s)
    PROVE  RowsOf(S, Rows(S, line))
  <1> DEFINE t == SetToSeq(S)
             rows == [i \in DOMAIN t |-> line[t[i]]]
             n == Len(t)
  <1>1. IsFiniteSet(S)
    BY SocksAssumption, FS_Subset DEF RoundTypeOK
  <1>2. /\ t \in Seq(S)
        /\ \A i, j \in DOMAIN t : t[i] = t[j] => i = j
        /\ \A s \in S : \E i \in DOMAIN t : t[i] = s
    <2>1. t \in SetToSeqs(S)
      BY <1>1, SetAsSequence
    <2> HIDE DEF t
    <2>2. QED
      BY <2>1, <1>1, SetAsSequence
  <1>3. Rows(S, line) = rows
    BY DEF Rows
  <1> HIDE DEF t, n
  <1>4. n \in Nat /\ DOMAIN t = 1..n /\ \A i \in 1..n : t[i] \in S
    BY <1>2 DEF n
  <1>5. DOMAIN rows = 1..n /\ \A i \in 1..n : rows[i] = line[t[i]]
    BY <1>4
  <1>6. \A i \in 1..n : rows[i] \in OwnFlows /\ rows[i].sock = t[i] /\ rows[i].process = None
    BY <1>4, <1>5, EntryFacts
  <1>7. rows \in Seq(Flow)
    <2>1. rows \in [1..n -> Flow]
      <3>1. \A i \in 1..n : line[t[i]] \in Flow
        BY <1>5, <1>6 DEF OwnFlows
      <3>2. QED
        BY <1>4, <3>1
    <2>2. QED
      BY <2>1, <1>4
  <1> HIDE DEF rows
  <1>8. QED
    BY <1>2, <1>3, <1>4, <1>5, <1>6, <1>7 DEF RowsOf, Shown

LEMMA RowsAdded ==
    ASSUME NEW fs \in Seq(Flow), NEW rows \in Seq(Flow)
    PROVE  /\ fs \o rows \in Seq(Flow)
           /\ \A k \in DOMAIN fs : k \in DOMAIN (fs \o rows) /\ (fs \o rows)[k] = fs[k]
           /\ \A k \in DOMAIN rows : Len(fs) + k \in DOMAIN (fs \o rows) /\ (fs \o rows)[Len(fs) + k] = rows[k]
           /\ \A k \in DOMAIN (fs \o rows) :
                 k \in DOMAIN fs \/ (k - Len(fs) \in DOMAIN rows /\ k = Len(fs) + (k - Len(fs)))
  OBVIOUS

\* Rows of other sockets are added to the flows, or of sockets of a table that changed.
LEMMA AddedFacts ==
    ASSUME RoundTypeOK, OnceInv, NEW S, NEW rows, RowsOf(S, rows),
           \A s \in S : Shown(flows, s) => Torn(s)
    PROVE  LET fs == flows \o rows IN
           /\ fs \in Seq(Flow) /\ Once(fs)
           /\ \A k \in DOMAIN fs :
                 \/ \E i \in DOMAIN flows : fs[k] = flows[i]
                 \/ \E i \in DOMAIN rows : fs[k] = rows[i]
           /\ \A s : Shown(fs, s) <=> Shown(flows, s) \/ Shown(rows, s)
  <1> DEFINE fs == flows \o rows
             m == Len(flows)
  <1>1. flows \in Seq(Flow) /\ rows \in Seq(Flow)
    BY DEF RoundTypeOK, RowsOf
  <1>2. /\ fs \in Seq(Flow)
        /\ \A k \in DOMAIN flows : k \in DOMAIN fs /\ fs[k] = flows[k]
        /\ \A k \in DOMAIN rows : m + k \in DOMAIN fs /\ fs[m + k] = rows[k]
        /\ \A k \in DOMAIN fs : k \in DOMAIN flows \/ (k - m \in DOMAIN rows /\ k = m + (k - m))
    BY <1>1, RowsAdded
  <1> HIDE DEF fs, m
  <1>3. \A k \in DOMAIN fs : \/ \E i \in DOMAIN flows : k = i /\ fs[k] = flows[i]
                             \/ \E i \in DOMAIN rows : k = m + i /\ fs[k] = rows[i]
    <2> TAKE k \in DOMAIN fs
    <2>1. CASE k \in DOMAIN flows
      BY <2>1, <1>2
    <2>2. CASE k - m \in DOMAIN rows /\ k = m + (k - m)
      BY <2>2, <1>2
    <2>3. QED
      BY <1>2, <2>1, <2>2
  <1>4. \A i \in DOMAIN flows : \A j \in DOMAIN rows : flows[i].sock = rows[j].sock => Torn(flows[i].sock)
    BY DEF RowsOf, Shown
  <1>5. Once(fs)
    <2>1. Once(flows) /\ Once(rows)
      BY DEF OnceInv, RowsOf, Once
    <2>2. QED
      BY <1>3, <1>4, <2>1 DEF Once
  <1>6. \A s : Shown(fs, s) <=> Shown(flows, s) \/ Shown(rows, s)
    BY <1>2, <1>3 DEF Shown
  <1>7. QED
    BY <1>2, <1>3, <1>5, <1>6 DEF fs

\* Flows that are edited are of the sockets they were of.
LEMMA EditedFacts ==
    ASSUME NEW fs, NEW gs, DOMAIN gs = DOMAIN fs, \A i \in DOMAIN fs : gs[i].sock = fs[i].sock
    PROVE  /\ Once(fs) => Once(gs)
           /\ \A s : Shown(fs, s) <=> Shown(gs, s)
  BY DEF Once, Shown

\* What the filter leaves of flows that tell what is so.
LEMMA FilteredFacts ==
    ASSUME NEW fs \in Seq(Flow), \A i \in DOMAIN fs : fs[i] \in OwnFlows, Once(fs)
    PROVE  /\ Filter(fs) \in Seq(Flow) /\ Once(Filter(fs))
           /\ \A k \in DOMAIN Filter(fs) :
                 /\ Filter(fs)[k] \in OwnFlows /\ Filter(fs)[k].remote = "peer"
                 /\ \E i \in DOMAIN fs : Filter(fs)[k] = fs[i]
           /\ \A s \in Socks : Shown(fs, s) => Remote[s] # "peer" \/ Hidden(s) \/ Shown(Filter(fs), s)
  <1> DEFINE ks == Filter(fs)
  <1>1. /\ ks \in Seq(Flow) /\ Once(ks)
        /\ \A k \in DOMAIN ks : \E i \in DOMAIN fs : fs[i].remote = "peer" /\ ks[k] = fs[i]
        /\ \A i \in DOMAIN fs : fs[i].remote = "peer" => \E k \in DOMAIN ks : ks[k] = fs[i]
    BY FilterFacts
  <1> HIDE DEF ks
  <1>2. \A k \in DOMAIN ks : /\ ks[k] \in OwnFlows /\ ks[k].remote = "peer"
                             /\ \E i \in DOMAIN fs : ks[k] = fs[i]
    BY <1>1
  <1>3. ASSUME NEW s \in Socks, Shown(fs, s), Remote[s] = "peer", ~Hidden(s)
        PROVE  Shown(ks, s)
    <2>1. PICK i \in DOMAIN fs : fs[i].sock = s
      BY <1>3 DEF Shown
    <2>2. fs[i].remote = "peer"
      BY <2>1, <1>3 DEF OwnFlows
    <2>3. PICK k \in DOMAIN ks : ks[k] = fs[i]
      BY <1>1, <2>2
    <2>4. QED
      BY <2>1, <2>3 DEF Shown
  <1>4. QED
    BY <1>1, <1>2, <1>3 DEF ks

-----------------------------------------------------------------------------
(***************************************************************************)
(* The steps.                                                              *)
(***************************************************************************)
\* What the steps of the collector leave alone, and what they only add to.
HostStays == UNCHANGED <<hostVars, procs, open, changes, reused>> /\ spoilt \subseteq spoilt'

LEMMA OwnFlowsStay ==
    ASSUME HostStays
    PROVE  OwnFlows' = OwnFlows
  BY DEF HostStays, hostVars, OwnFlows, ItsState, StateOf, Hidden

\* What each step of the collector has to show.
LEMMA CollectorStep ==
    ASSUME RoundInv, HostStays, flows' \in Seq(Flow), next' \in Nat \ {0},
           \/ os = "linux" /\ pc' \in LinuxStages
           \/ os = "windows" /\ pc' \in WindowsStages
           \/ os = "darwin" /\ pc' \in {"done"},
           \A i \in DOMAIN flows' : flows'[i] \in OwnFlows, (\A i \in DOMAIN flows : OfItsStage(flows[i]))',
           Once(flows'), UnreadInv', FoundInv'
    PROVE  RoundInv'
  <1> USE DEF HostStays, hostVars
  <1>1. RoundTypeOK'
    BY DEF RoundInv, RoundTypeOK
  <1>2. HoldersRun'
    BY DEF RoundInv, HoldersRun
  <1>3. FlowsInv'
    BY OwnFlowsStay DEF FlowsInv
  <1>4. OnceInv'
    BY DEF OnceInv, Once, Torn
  <1>5. QED
    BY <1>1, <1>2, <1>3, <1>4 DEF RoundInv

\* Only a table that is being read has something still to come.
LEMMA NothingUnread ==
    ASSUME RoundInv, \A p \in Protos : pc # Walk[p]
    PROVE  unread = {}
  <1>1. \A s \in unread : Proto[s] \in Protos /\ pc = Walk[Proto[s]]
    BY KindsAssumption DEF RoundInv, RoundTypeOK, UnreadInv
  <1>2. QED
    BY <1>1

LEMMA WalkNames == \A p \in Protos : Walk[p] \in {"tcp pids", "tcp6 pids", "udp pids", "udp6 pids"}
  <1>1. /\ Walk["tcp"] = "tcp pids" /\ Walk["tcp6"] = "tcp6 pids"
        /\ Walk["udp"] = "udp pids" /\ Walk["udp6"] = "udp6 pids"
    BY DEF Walk
  <1>2. QED
    BY <1>1 DEF Protos

\* What was found stays so.
LEMMA FoundStays ==
    ASSUME HostStays, NEW s, Found(s), pc # "done" \/ pc' = "done", Shown(flows, s) => Shown(flows', s)
    PROVE  Found(s)'
  <1>1. os' = os /\ spoilt \subseteq spoilt' /\ Ways(s)' = Ways(s)
    BY DEF HostStays, hostVars, Ways
  <1>2. Hidden(s)' = Hidden(s) /\ Shown(flows, s)' = Shown(flows', s)
    BY <1>1 DEF Hidden, Shown
  <1>3. QED
    BY <1>1, <1>2 DEF Found

\* Linux.
LEMMA ReadChunkStep ==
    ASSUME RoundInv, NEW proto \in Protos, ReadChunk(proto)
    PROVE  RoundInv'
  <1> DEFINE table == Table({proto})
             rest == IF pc = proto THEN table ELSE unread
             walk == Walk[proto]
  <1>1. RoundTypeOK /\ HoldersRun /\ FlowsInv /\ OnceInv /\ UnreadInv /\ FoundInv
    BY DEF RoundInv
  <1>2. /\ os = "linux" /\ pc \in {proto, walk} /\ pc' = walk /\ HostStays /\ next' = next
        /\ os' = os /\ open' = open
    BY DEF ReadChunk, HostStays, hostVars, Fails
  <1>3. /\ next \in Nat \ {0} /\ flows \in Seq(Flow) /\ open \in SUBSET Socks
        /\ \A s \in Socks : Proto[s] \in Protos
    BY <1>1, KindsAssumption DEF RoundTypeOK
  <1>4. /\ walk \in LinuxStages /\ walk \notin {"names", "done", "netstat"}
        /\ pc \notin {"names", "done", "netstat"}
        /\ walk \notin Before(proto) /\ proto \in Before(proto)
        /\ \A q \in Protos : /\ walk = Walk[q] => q = proto
                             /\ proto # Walk[q]
                             /\ q # proto => (walk \in Before(q) <=> pc \in Before(q))
    BY <1>2, Stages
  <1>5. \A i \in DOMAIN flows : flows[i] \in OwnFlows /\ flows[i].process = None /\ walk \notin Before(Proto[flows[i].sock])
    <2> TAKE i \in DOMAIN flows
    <2>1. flows[i] \in OwnFlows /\ flows[i].process = None /\ pc \notin Before(Proto[flows[i].sock])
      BY <1>1, <1>4 DEF FlowsInv, OfItsStage
    <2>2. Proto[flows[i].sock] \in Protos
      BY <1>3, <2>1 DEF OwnFlows, Flow
    <2>3. QED
      BY <1>4, <2>1, <2>2
  <1>6. \A s \in rest : s \in open /\ Proto[s] = proto /\ (Shown(flows, s) => Torn(s))
    <2>1. CASE pc = proto
      <3>1. \A s \in rest : s \in open /\ Proto[s] = proto
        BY <2>1 DEF Table
      <3>2. \A s \in rest : ~Shown(flows, s)
        BY <1>1, <1>4, <2>1, <3>1 DEF Shown, FlowsInv, OfItsStage
      <3>3. QED
        BY <3>1, <3>2
    <2>2. CASE pc # proto
      BY <1>1, <1>2, <1>3, <1>4, <2>2 DEF UnreadInv
    <2>3. QED
      BY <2>1, <2>2
  <1>7. \A s \in open : Proto[s] # proto => s \notin unread
    BY <1>1, <1>2, <1>3, <1>4 DEF UnreadInv
  <1>8. \A s \in open : Proto[s] = proto /\ s \notin rest => Found(s)
    <2>1. CASE pc = proto
      BY <2>1 DEF Table
    <2>2. CASE pc # proto
      BY <1>1, <1>2, <1>4, <2>2 DEF FoundInv
    <2>3. QED
      BY <2>1, <2>2
  <1> HIDE DEF rest, walk
  <1>9. ASSUME flows' \in Seq(Flow), Once(flows'),
               \A i \in DOMAIN flows' : /\ flows'[i] \in OwnFlows /\ flows'[i].process = None
                                        /\ walk \notin Before(Proto[flows'[i].sock]),
               \A s : Shown(flows, s) => Shown(flows', s),
               unread' \subseteq rest, \A s \in unread' : Shown(flows', s) => Torn(s),
               \A s \in rest \ unread' : Found(s)'
        PROVE  RoundInv'
    <2>1. (\A i \in DOMAIN flows : OfItsStage(flows[i]))'
      BY <1>2, <1>4, <1>9 DEF OfItsStage
    <2>2. UnreadInv'
      <3>1. \A s \in unread' : s \in open' /\ pc' = Walk[Proto[s]]
        BY <1>2, <1>6, <1>9 DEF walk
      <3>2. \A s : Shown(flows, s)' = Shown(flows', s) /\ (Torn(s) => Torn(s)')
        BY <1>2 DEF Shown, Torn, HostStays
      <3>3. QED
        BY <1>9, <3>1, <3>2 DEF UnreadInv
    <2>3. ASSUME NEW s \in open, walk \notin Before(Proto[s]), s \notin unread'
          PROVE  Found(s)'
      <3>1. CASE s \in rest
        BY <1>9, <2>3, <3>1
      <3>2. CASE s \notin rest
        <4>1. Found(s)
          <5>1. CASE Proto[s] = proto
            BY <1>8, <3>2, <5>1
          <5>2. CASE Proto[s] # proto
            <6>1. pc \notin Before(Proto[s]) /\ s \notin unread
              BY <1>3, <1>4, <1>7, <2>3, <5>2
            <6>2. QED
              BY <1>1, <6>1 DEF FoundInv
          <5>3. QED
            BY <5>1, <5>2
        <4>2. QED
          BY <1>2, <1>4, <1>9, <4>1, FoundStays
      <3>3. QED
        BY <3>1, <3>2
    <2>4. FoundInv'
      BY <1>2, <1>4, <2>3 DEF FoundInv
    <2>5. QED
      BY <1>2, <1>3, <1>4, <1>9, <2>1, <2>2, <2>4, CollectorStep
  <1>10. CASE Fails(proto) /\ unread' = {}
    <2>1. flows' = flows /\ proto \in spoilt'
      BY <1>10 DEF Fails
    <2>2. \A s \in rest : Found(s)'
      <3>1. \A s \in rest : Ways(s)' = {proto}
        BY <1>2, <1>6 DEF Ways
      <3>2. QED
        BY <2>1, <3>1 DEF Found
    <2>3. QED
      BY <1>1, <1>3, <1>5, <1>9, <1>10, <2>1, <2>2 DEF OnceInv
  <1>11. ASSUME NEW chunk \in SUBSET rest, flows' = flows \o Rows(chunk, ProcNetLine), unread' = rest \ chunk
         PROVE  RoundInv'
    <2> DEFINE rows == Rows(chunk, ProcNetLine)
               fs == flows \o rows
    <2>1. chunk \in SUBSET open
      BY <1>6
    <2>2. RowsOf(chunk, rows)
      <3>1. \A s \in chunk : IsEntry(ProcNetLine[s], s)
        <4> TAKE s \in chunk
        <4>1. ProcNetLine[s] = Entry(s, Remote[s], None) /\ ~Hidden(s)
          BY <1>2, <1>3, <2>1 DEF ProcNetLine, Hidden
        <4>2. QED
          BY <1>2, <4>1 DEF IsEntry
      <3>2. QED
        BY <1>1, <2>1, <3>1, RowsFacts
    <2> HIDE DEF rows
    <2>3. /\ fs \in Seq(Flow) /\ Once(fs)
          /\ \A k \in DOMAIN fs :
                \/ \E i \in DOMAIN flows : fs[k] = flows[i]
                \/ \E i \in DOMAIN rows : fs[k] = rows[i]
          /\ \A s : Shown(fs, s) <=> Shown(flows, s) \/ Shown(rows, s)
      BY <1>1, <1>6, <2>2, AddedFacts
    <2>4. flows' = fs
      BY <1>11 DEF rows
    <2> HIDE DEF fs
    <2>5. \A i \in DOMAIN rows : rows[i] \in OwnFlows /\ rows[i].process = None /\ Proto[rows[i].sock] = proto
      BY <1>6, <2>2 DEF RowsOf
    <2>6. \A k \in DOMAIN flows' : /\ flows'[k] \in OwnFlows /\ flows'[k].process = None
                                   /\ walk \notin Before(Proto[flows'[k].sock])
      <3> TAKE k \in DOMAIN flows'
      <3>1. CASE \E i \in DOMAIN flows : flows'[k] = flows[i]
        BY <1>5, <3>1
      <3>2. CASE \E i \in DOMAIN rows : flows'[k] = rows[i]
        BY <1>4, <2>5, <3>2
      <3>3. QED
        BY <2>3, <2>4, <3>1, <3>2
    <2>7. \A s \in unread' : Shown(flows', s) => Torn(s)
      <3>1. \A s : Shown(rows, s) => s \in chunk
        BY <2>2 DEF RowsOf, Shown
      <3>2. QED
        BY <1>6, <1>11, <2>3, <2>4, <3>1
    <2>8. \A s \in rest \ unread' : Found(s)'
      <3>1. \A s \in rest \ unread' : Shown(flows', s)
        BY <1>11, <2>2, <2>3, <2>4 DEF RowsOf
      <3>2. QED
        BY <3>1 DEF Found, Shown
    <2>9. QED
      BY <1>9, <1>11, <2>3, <2>4, <2>6, <2>7, <2>8
  <1>12. QED
    BY <1>10, <1>11 DEF ReadChunk, rest

\* The PID of one flow, or the name of its process, is filled in.
LEMMA FlowEdited ==
    ASSUME RoundInv, HostStays, NEW g \in OwnFlows, next \in DOMAIN flows, g.sock = flows[next].sock,
           flows' = [flows EXCEPT ![next] = g]
    PROVE  /\ flows' \in Seq(Flow) /\ Once(flows')
           /\ \A i \in DOMAIN flows' : flows'[i] \in OwnFlows
           /\ DOMAIN flows' = DOMAIN flows
           /\ \A i \in DOMAIN flows : flows'[i] = IF i = next THEN g ELSE flows[i]
           /\ \A s : Shown(flows, s) <=> Shown(flows', s)
  <1>1. flows \in Seq(Flow) /\ g \in Flow /\ Once(flows) /\ \A i \in DOMAIN flows : flows[i] \in OwnFlows
    BY DEF RoundInv, RoundTypeOK, OwnFlows, OnceInv, FlowsInv
  <1>2. /\ DOMAIN flows' = DOMAIN flows
        /\ \A i \in DOMAIN flows : flows'[i] = IF i = next THEN g ELSE flows[i]
    OBVIOUS
  <1>3. flows' \in Seq(Flow)
    BY <1>1
  <1>4. \A i \in DOMAIN flows : flows'[i].sock = flows[i].sock
    BY <1>2
  <1>5. Once(flows') /\ \A s : Shown(flows, s) <=> Shown(flows', s)
    BY <1>1, <1>2, <1>4, EditedFacts
  <1>6. QED
    BY <1>1, <1>2, <1>3, <1>5

LEMMA FindPidStep ==
    ASSUME RoundInv, NEW proto \in Protos, FindPid(proto)
    PROVE  RoundInv'
  <1> DEFINE walk == Walk[proto]
             after == Then[proto]
  <1>1. RoundTypeOK /\ HoldersRun /\ FlowsInv /\ OnceInv /\ UnreadInv /\ FoundInv
    BY DEF RoundInv
  <1>2. pc = walk /\ HostStays /\ os' = os /\ open' = open /\ unread' = unread /\ spoilt' = spoilt
    BY DEF FindPid, HostStays, hostVars
  <1>3. /\ walk \in LinuxStages /\ after \in LinuxStages
        /\ walk \notin {"tcp", "udp", "names", "done", "netstat"} /\ after \notin {"names", "done", "netstat"}
        /\ \A q \in Protos : walk \in Before(q) <=> after \in Before(q)
    BY Stages
  <1>4. os = "linux"
    BY <1>1, <1>2, <1>3 DEF RoundTypeOK, WindowsStages
  <1>5. next \in Nat \ {0} /\ flows \in Seq(Flow) /\ \A s \in Socks : Proto[s] \in Protos
    BY <1>1, KindsAssumption DEF RoundTypeOK
  <1>6. \A i \in DOMAIN flows : /\ flows[i] \in OwnFlows /\ flows[i].process = None
                                /\ flows[i].sock \in Socks /\ walk \notin Before(Proto[flows[i].sock])
    BY <1>1, <1>2, <1>3 DEF FlowsInv, OfItsStage, OwnFlows, Flow
  <1> HIDE DEF walk, after
  <1>7. ASSUME pc' = walk \/ (pc' = after /\ unread = {}), next' \in Nat \ {0},
               flows' \in Seq(Flow), Once(flows'),
               \A i \in DOMAIN flows' : flows'[i] \in OwnFlows /\ flows'[i].process = None,
               \A s : Shown(flows, s) <=> Shown(flows', s)
        PROVE  RoundInv'
    <2>1. (\A i \in DOMAIN flows : OfItsStage(flows[i]))'
      <3>1. ASSUME NEW i \in DOMAIN flows'
            PROVE  pc' \notin Before(Proto[flows'[i].sock])
        <4>1. flows'[i].sock \in Socks /\ Shown(flows', flows'[i].sock)
          BY <1>7 DEF OwnFlows, Flow, Shown
        <4>2. walk \notin Before(Proto[flows'[i].sock])
          BY <1>6, <1>7, <4>1 DEF Shown
        <4>3. QED
          BY <1>3, <1>5, <1>7, <4>1, <4>2
      <3>2. pc' \notin {"names", "done"}
        BY <1>3, <1>7
      <3>3. QED
        BY <1>7, <3>1, <3>2 DEF OfItsStage
    <2>2. UnreadInv'
      <3>1. \A s \in unread' : s \in open' /\ pc' = Walk[Proto[s]] /\ (Shown(flows', s) => Torn(s))
        BY <1>1, <1>2, <1>7 DEF UnreadInv
      <3>2. QED
        BY <1>2, <3>1 DEF UnreadInv, Shown, Torn
    <2>3. ASSUME NEW s \in open, pc' \notin Before(Proto[s]), s \notin unread
          PROVE  Found(s)'
      <3>1. Proto[s] \in Protos
        BY <1>1, <1>5 DEF RoundTypeOK
      <3>2. pc \notin Before(Proto[s])
        BY <1>2, <1>3, <1>7, <2>3, <3>1
      <3>3. Found(s) /\ pc # "done"
        BY <1>1, <1>2, <1>3, <2>3, <3>2 DEF FoundInv
      <3>4. QED
        BY <1>2, <1>7, <3>3, FoundStays
    <2>4. FoundInv'
      <3>1. pc' # "netstat"
        BY <1>3, <1>7
      <3>2. QED
        BY <1>2, <2>3, <3>1 DEF FoundInv
    <2>5. pc' \in LinuxStages
      BY <1>3, <1>7
    <2>6. QED
      BY <1>2, <1>4, <1>7, <2>1, <2>2, <2>4, <2>5, CollectorStep
  <1>8. CASE next > Len(flows)
    <2>1. pc' = after /\ unread = {} /\ flows' = flows /\ next' = next
      BY <1>8 DEF FindPid, after
    <2>2. QED
      BY <1>1, <1>5, <1>6, <1>7, <2>1 DEF OnceInv
  <1>9. CASE ~(next > Len(flows))
    <2>1. next' = next + 1 /\ pc' = walk
      BY <1>2, <1>9 DEF FindPid
    <2>2. next \in DOMAIN flows /\ next' \in Nat \ {0}
      BY ONLY <1>5, <1>9, <2>1
    <2>3. CASE UNCHANGED flows
      BY <1>1, <1>5, <1>6, <1>7, <2>1, <2>2, <2>3 DEF OnceInv
    <2>4. CASE /\ flows[next].sock \in open
               /\ flows' = [flows EXCEPT ![next].pid = holder[flows[next].sock]]
      <3> DEFINE f == flows[next]
                 g == [f EXCEPT !.pid = holder[f.sock]]
      <3>1. f \in OwnFlows /\ f \in Flow /\ f.process = None
        BY <1>6, <2>2 DEF OwnFlows
      <3>2. g.sock = f.sock /\ g.process = None /\ g.pid = holder[f.sock] /\ g.remote = f.remote
            /\ g.state = f.state /\ g \in Flow
        BY <1>1, <3>1 DEF Flow, RoundTypeOK
      <3>3. flows' = [flows EXCEPT ![next] = g]
        BY <2>4
      <3> HIDE DEF f, g
      <3>4. g \in OwnFlows
        BY <3>1, <3>2 DEF OwnFlows, ItsState
      <3>5. /\ flows' \in Seq(Flow) /\ Once(flows')
            /\ \A i \in DOMAIN flows' : flows'[i] \in OwnFlows
            /\ DOMAIN flows' = DOMAIN flows
            /\ \A i \in DOMAIN flows : flows'[i] = IF i = next THEN g ELSE flows[i]
            /\ \A s : Shown(flows, s) <=> Shown(flows', s)
        <4>1. g.sock = flows[next].sock
          BY <3>2 DEF f
        <4>2. QED
          BY <1>2, <2>2, <3>3, <3>4, <4>1, FlowEdited
      <3>6. \A i \in DOMAIN flows' : flows'[i] \in OwnFlows /\ flows'[i].process = None
        BY <1>6, <3>2, <3>5
      <3>7. QED
        BY <1>7, <2>1, <2>2, <3>5, <3>6
    <2>5. QED
      BY <1>9, <2>3, <2>4 DEF FindPid
  <1>10. QED
    BY <1>8, <1>9

\* The stages with no table to read.
LEMMA LaterStep ==
    ASSUME RoundInv, HostStays, unread' = unread, unread = {}, flows' \in Seq(Flow), next' \in Nat \ {0},
           \/ os = "linux" /\ pc' \in LinuxStages
           \/ os = "windows" /\ pc' \in WindowsStages
           \/ os = "darwin" /\ pc' \in {"done"},
           \A i \in DOMAIN flows' : flows'[i] \in OwnFlows, (\A i \in DOMAIN flows : OfItsStage(flows[i]))',
           Once(flows'),
           pc' = "netstat" => "powershell" \in spoilt' \/ \A s \in open : Proto[s] \notin Tcp,
           \A s \in open : pc' \notin Before(Proto[s]) => Found(s)'
    PROVE  RoundInv'
  <1>1. UnreadInv'
    BY DEF UnreadInv
  <1>2. FoundInv'
    BY DEF FoundInv, HostStays, hostVars
  <1>3. QED
    BY <1>1, <1>2, CollectorStep

LEMMA StartNamesStep ==
    ASSUME RoundInv, StartNames
    PROVE  RoundInv'
  <1>1. RoundTypeOK /\ FlowsInv /\ OnceInv /\ FoundInv
    BY DEF RoundInv
  <1>2. /\ os = "linux" /\ pc = "sorted" /\ pc' = "names" /\ next' = 1
        /\ flows' = flows /\ unread' = unread /\ os' = os /\ open' = open /\ HostStays
    BY DEF StartNames, HostStays, hostVars
  <1>3. unread = {}
    BY <1>2, NothingUnread, WalkNames
  <1>4. \A q \in Protos : "sorted" \notin Before(q) /\ "names" \notin Before(q)
    BY DEF Before
  <1>5. flows' \in Seq(Flow) /\ Once(flows') /\ \A i \in DOMAIN flows' : flows'[i] \in OwnFlows
    BY <1>1, <1>2 DEF RoundTypeOK, OnceInv, FlowsInv
  <1>6. (\A i \in DOMAIN flows : OfItsStage(flows[i]))'
    BY <1>2, <1>4 DEF OfItsStage, Before
  <1>7. \A s \in open : Found(s)'
    <2>1. \A s \in open : Found(s)
      BY <1>1, <1>2, <1>3 DEF FoundInv, Before
    <2>2. QED
      BY <1>2, <2>1, FoundStays
  <1>8. pc' \in LinuxStages /\ pc' # "netstat"
    BY <1>2 DEF LinuxStages
  <1>9. QED
    BY <1>2, <1>3, <1>5, <1>6, <1>7, <1>8, LaterStep

\* The collector is done, and its flows go through the filter.
LEMMA FilteredStep ==
    ASSUME RoundInv, HostStays, NEW fs, fs \in Seq(Flow), \A i \in DOMAIN fs : fs[i] \in OwnFlows, Once(fs),
           flows' = Filter(fs), pc' = "done", next' = next, unread' = unread, unread = {},
           \A s \in open : Ways(s) \subseteq spoilt' \/ Hidden(s) \/ Remote[s] # "peer" \/ Shown(fs, s)
    PROVE  RoundInv'
  <1> DEFINE ks == Filter(fs)
  <1>1. /\ ks \in Seq(Flow) /\ Once(ks)
        /\ \A k \in DOMAIN ks : ks[k] \in OwnFlows /\ ks[k].remote = "peer"
        /\ \A s \in Socks : Shown(fs, s) => Remote[s] # "peer" \/ Hidden(s) \/ Shown(ks, s)
    BY FilteredFacts
  <1> HIDE DEF ks
  <1>2. flows' = ks
    BY DEF ks
  <1>3. open \in SUBSET Socks /\ next \in Nat \ {0}
    BY DEF RoundInv, RoundTypeOK
  <1>4. \/ os = "linux" /\ pc' \in LinuxStages
        \/ os = "windows" /\ pc' \in WindowsStages
        \/ os = "darwin" /\ pc' \in {"done"}
    BY DEF RoundInv, RoundTypeOK, LinuxStages, WindowsStages
  <1>5. (\A i \in DOMAIN flows : OfItsStage(flows[i]))'
    BY <1>1, <1>2 DEF OfItsStage, Before
  <1>6. \A s \in open : Found(s)'
    <2>1. os' = os
      BY DEF HostStays, hostVars
    <2>2. \A s : Ways(s)' = Ways(s) /\ Hidden(s)' = Hidden(s)
      BY <2>1 DEF Ways, Hidden
    <2>3. QED
      BY <1>1, <1>2, <1>3, <2>2 DEF Found, Shown
  <1>7. flows' \in Seq(Flow) /\ Once(flows') /\ next' \in Nat \ {0} /\ \A i \in DOMAIN flows' : flows'[i] \in OwnFlows
    BY <1>1, <1>2, <1>3
  <1>8. QED
    BY <1>4, <1>5, <1>6, <1>7, LaterStep

LEMMA NameNextStep ==
    ASSUME RoundInv, NameNext
    PROVE  RoundInv'
  <1>1. RoundTypeOK /\ FlowsInv /\ OnceInv /\ FoundInv
    BY DEF RoundInv
  <1>2. /\ os = "linux" /\ pc = "names" /\ HostStays /\ spoilt' = spoilt /\ os' = os /\ open' = open
        /\ unread' = unread
    BY DEF NameNext, HostStays, hostVars
  <1>3. next \in Nat \ {0} /\ flows \in Seq(Flow)
    BY <1>1 DEF RoundTypeOK
  <1>4. \A i \in DOMAIN flows : flows[i] \in OwnFlows
    BY <1>1 DEF FlowsInv
  <1>5. unread = {}
    BY <1>2, NothingUnread, WalkNames
  <1>6. \A s \in open : Found(s)
    BY <1>1, <1>2, <1>5 DEF FoundInv, Before
  <1>7. CASE next > Len(flows)
    <2>1. pc' = "done" /\ flows' = Filter(flows) /\ next' = next
      BY <1>7 DEF NameNext
    <2>2. Once(flows)
      BY <1>1 DEF OnceInv
    <2>3. \A s \in open : Ways(s) \subseteq spoilt' \/ Hidden(s) \/ Remote[s] # "peer" \/ Shown(flows, s)
      BY <1>2, <1>6 DEF Found
    <2>4. QED
      BY <1>2, <1>3, <1>4, <1>5, <2>1, <2>2, <2>3, FilteredStep
  <1>8. CASE ~(next > Len(flows))
    <2> DEFINE f == flows[next]
               g == [f EXCEPT !.process = IF f.pid = None THEN None ELSE procs[f.pid]]
    <2>1. next \in DOMAIN flows /\ next + 1 \in Nat \ {0}
      BY <1>3, <1>8
    <2>2. flows' = [flows EXCEPT ![next] = g] /\ next' = next + 1 /\ pc' = pc
      BY <1>8 DEF NameNext
    <2>3. f \in OwnFlows /\ f \in Flow
      BY <1>4, <2>1 DEF OwnFlows
    <2>4. f.pid = None \/ f.pid \in Pids
      BY <2>3 DEF Flow
    <2>5. /\ g.sock = f.sock /\ g.pid = f.pid /\ g.remote = f.remote /\ g.state = f.state /\ g \in Flow
          /\ g.process = IF f.pid = None THEN None ELSE procs[f.pid]
      BY <1>1, <2>3, <2>4 DEF Flow, RoundTypeOK
    <2> HIDE DEF f, g
    <2>6. g \in OwnFlows
      <3>1. f.pid = None \/ f.pid = holder[f.sock]
        BY <2>3 DEF OwnFlows
      <3>2. procs[holder[f.sock]] \in {None, program[f.sock]} \/ holder[f.sock] \in reused
        BY <2>3 DEF OwnFlows
      <3>3. g.process \in {None, program[g.sock]} \/ g.pid \in reused
        BY <2>5, <3>1, <3>2
      <3>4. QED
        BY <2>3, <2>5, <3>3 DEF OwnFlows, ItsState
    <2>7. (\A i \in DOMAIN flows : OfItsStage(flows[i]))'
      BY <1>2, <2>2 DEF OfItsStage, Before
    <2>8. /\ flows' \in Seq(Flow) /\ Once(flows')
          /\ \A i \in DOMAIN flows' : flows'[i] \in OwnFlows
          /\ \A s : Shown(flows, s) <=> Shown(flows', s)
      <3>1. g.sock = flows[next].sock
        BY <2>5 DEF f
      <3>2. QED
        BY <1>2, <2>1, <2>2, <2>6, <3>1, FlowEdited
    <2>9. \A s \in open : Found(s)'
      BY <1>2, <1>6, <2>8, FoundStays
    <2>10. next' \in Nat \ {0} /\ pc' \in LinuxStages /\ pc' # "netstat"
      BY <1>2, <2>1, <2>2 DEF LinuxStages
    <2>11. QED
      BY <1>2, <1>5, <2>7, <2>8, <2>9, <2>10, LaterStep
  <1>9. QED
    BY <1>7, <1>8

\* Windows has read TCP connections, in one way or the other: those of S, and every way
\* to the others has failed.
LEMMA TcpRowsRead ==
    ASSUME RoundInv, HostStays, os = "windows", NEW S \in SUBSET Table(Tcp), RowsOf(S, flows'),
           pc' = "udp", next' = next, unread' = unread, unread = {},
           \A s \in Table(Tcp) : s \in S \/ Ways(s) \subseteq spoilt'
    PROVE  RoundInv'
  <1>1. /\ flows' \in Seq(Flow) /\ Once(flows')
        /\ \A i \in DOMAIN flows' : /\ flows'[i] \in OwnFlows /\ flows'[i].process = None
                                    /\ Proto[flows'[i].sock] \in Tcp
        /\ \A s \in S : Shown(flows', s)
    BY DEF RowsOf, Table, Once
  <1>2. \A q \in Tcp : "udp" \notin Before(q)
    BY DEF Before, Tcp
  <1>3. (\A i \in DOMAIN flows : OfItsStage(flows[i]))'
    BY <1>1, <1>2 DEF OfItsStage
  <1>4. ASSUME NEW s \in open, "udp" \notin Before(Proto[s])
        PROVE  Found(s)'
    <2>1. Proto[s] \in Tcp
      BY <1>4, KindsAssumption DEF Before, RoundInv, RoundTypeOK
    <2>2. s \in S \/ Ways(s) \subseteq spoilt'
      BY <2>1 DEF Table
    <2>3. Ways(s)' = Ways(s)
      BY DEF Ways, HostStays, hostVars
    <2>4. QED
      BY <1>1, <2>2, <2>3 DEF Found, Shown
  <1>5. next' \in Nat \ {0} /\ pc' \in WindowsStages /\ pc' # "netstat"
    BY DEF RoundInv, RoundTypeOK, WindowsStages
  <1>6. QED
    BY <1>1, <1>3, <1>4, <1>5, LaterStep

LEMMA NothingYet ==
    ASSUME RoundInv, pc \in {"tcp", "netstat"}
    PROVE  flows = <<>> /\ DOMAIN flows = {} /\ unread = {}
  <1>1. \A i \in DOMAIN flows : FALSE
    BY DEF RoundInv, FlowsInv, OfItsStage, Before
  <1>2. flows \in Seq(Flow)
    BY DEF RoundInv, RoundTypeOK
  <1>3. Len(flows) \in Nat /\ DOMAIN flows = 1..Len(flows)
    BY <1>2
  <1>4. Len(flows) = 0
    BY <1>1, <1>3
  <1>5. unread = {}
    BY NothingUnread, WalkNames
  <1>6. QED
    BY <1>1, <1>2, <1>4, <1>5, EmptySeq

\* Without rows PowerShell failed or there are no connections: both go on to netstat.
LEMMA PowerShellTcpStep ==
    ASSUME RoundInv, PowerShellTcp
    PROVE  RoundInv'
  <1> DEFINE rows == Rows(Table(Tcp), PowerShellLine)
  <1>1. RoundTypeOK /\ HoldersRun
    BY DEF RoundInv
  <1>2. /\ os = "windows" /\ pc = "tcp" /\ HostStays /\ next' = next /\ os' = os /\ open' = open
        /\ unread' = unread
        /\ pc' = IF flows' = <<>> THEN "netstat" ELSE "udp"
    BY DEF PowerShellTcp, HostStays, hostVars, Fails
  <1>3. flows = <<>> /\ unread = {}
    BY <1>2, NothingYet
  <1>4. ASSUME flows' = <<>>, "powershell" \in spoilt' \/ Table(Tcp) = {}
        PROVE  RoundInv'
    <2>1. pc' = "netstat" /\ flows' \in Seq(Flow) /\ Once(flows') /\ DOMAIN flows' = {}
      BY <1>2, <1>4 DEF Once
    <2>2. (\A i \in DOMAIN flows : OfItsStage(flows[i]))' /\ \A i \in DOMAIN flows' : flows'[i] \in OwnFlows
      BY <2>1
    <2>3. pc' \in WindowsStages /\ next' \in Nat \ {0}
      BY <1>1, <1>2, <2>1 DEF WindowsStages, RoundTypeOK
    <2>4. "powershell" \in spoilt' \/ \A s \in open : Proto[s] \notin Tcp
      BY <1>4 DEF Table
    <2>5. \A s \in open : pc' \in Before(Proto[s])
      BY <2>1 DEF Before
    <2>6. QED
      BY <1>2, <1>3, <2>1, <2>2, <2>3, <2>4, <2>5, LaterStep
  <1>5. CASE Fails("powershell")
    BY <1>3, <1>4, <1>5 DEF Fails
  <1>6. CASE flows' = rows /\ UNCHANGED spoilt
    <2>1. RowsOf(Table(Tcp), rows)
      <3>1. Table(Tcp) \in SUBSET open
        BY DEF Table
      <3>2. \A s \in Table(Tcp) : IsEntry(PowerShellLine[s], s)
        <4> TAKE s \in Table(Tcp)
        <4>1. ~(Proto[s] \in Tcp /\ Proto[s] \in Udp)
          BY DEF Tcp, Udp
        <4>2. PowerShellLine[s] = Entry(s, Remote[s], holder[s]) /\ ~Hidden(s)
          BY <1>1, <3>1, <4>1 DEF PowerShellLine, Hidden, Table, RoundTypeOK
        <4>3. QED
          BY <4>2 DEF IsEntry
      <3>3. QED
        BY <1>1, <3>1, <3>2, RowsFacts
    <2> HIDE DEF rows
    <2>2. CASE flows' = <<>>
      <3>1. Table(Tcp) = {}
        BY <1>6, <2>1, <2>2 DEF RowsOf, Shown
      <3>2. QED
        BY <1>4, <2>2, <3>1
    <2>3. CASE flows' # <<>>
      BY <1>2, <1>3, <1>6, <2>1, <2>3, TcpRowsRead
    <2>4. QED
      BY <2>2, <2>3
  <1>7. QED
    BY <1>5, <1>6 DEF PowerShellTcp

LEMMA NetstatStep ==
    ASSUME RoundInv, Netstat
    PROVE  RoundInv'
  <1> DEFINE S == Table({"tcp"})
             rows == Rows(S, NetstatLine)
  <1>1. RoundTypeOK /\ HoldersRun /\ FoundInv
    BY DEF RoundInv
  <1>2. /\ os = "windows" /\ pc = "netstat" /\ pc' = "udp" /\ HostStays /\ next' = next /\ unread' = unread
    BY DEF Netstat, HostStays, hostVars, Fails
  <1>3. flows = <<>> /\ DOMAIN flows = {} /\ unread = {}
    BY <1>2, NothingYet
  <1>4. S \in SUBSET Table(Tcp) /\ S \in SUBSET open
    BY DEF Table, Tcp
  <1>5. "powershell" \in spoilt' \/ Table(Tcp) = {}
    BY <1>1, <1>2 DEF FoundInv, Table, HostStays
  <1>6. CASE Fails("netstat")
    <2>1. RowsOf({}, flows')
      <3>1. flows' = <<>> /\ DOMAIN flows' = {} /\ flows' \in Seq(Flow)
        BY <1>3, <1>6 DEF Fails
      <3>2. QED
        BY <3>1 DEF RowsOf
    <2>2. \A s \in Table(Tcp) : Ways(s) \subseteq spoilt'
      <3>1. "netstat" \in spoilt'
        BY <1>6 DEF Fails
      <3>2. QED
        BY <1>2, <1>5, <3>1 DEF Ways
    <2>3. {} \in SUBSET Table(Tcp)
      OBVIOUS
    <2>4. QED
      BY <1>2, <1>3, <2>1, <2>2, <2>3, TcpRowsRead
  <1>7. CASE flows' = rows /\ UNCHANGED spoilt
    <2>1. RowsOf(S, rows)
      <3>1. \A s \in S : IsEntry(NetstatLine[s], s)
        <4> TAKE s \in S
        <4> DEFINE e == Entry(s, Remote[s], holder[s])
        <4>1. s \in Socks /\ Proto[s] = "tcp" /\ ~Hidden(s)
          BY <1>1 DEF Table, RoundTypeOK, Hidden, Udp
        <4>2. NetstatLine[s] = [e EXCEPT !.state = IF Remote[s] = "none" THEN "LISTENING" ELSE @]
          BY <4>1 DEF NetstatLine
        <4>3. e.remote = Remote[s] /\ (Remote[s] # "none" => NetstatLine[s] = e)
          BY <4>2 DEF Entry
        <4>4. QED
          BY <4>1, <4>2, <4>3 DEF IsEntry
      <3>2. QED
        BY <1>1, <1>4, <3>1, RowsFacts
    <2> HIDE DEF rows
    <2>2. \A s \in Table(Tcp) : s \in S \/ Ways(s) \subseteq spoilt'
      <3> TAKE s \in Table(Tcp)
      <3>1. CASE Proto[s] = "tcp"
        BY <3>1 DEF Table
      <3>2. CASE Proto[s] # "tcp"
        BY <1>2, <1>5, <3>2 DEF Ways
      <3>3. QED
        BY <3>1, <3>2
    <2> HIDE DEF S
    <2>3. QED
      BY <1>2, <1>3, <1>4, <1>7, <2>1, <2>2, TcpRowsRead
  <1>8. QED
    BY <1>6, <1>7 DEF Netstat

LEMMA PowerShellUdpStep ==
    ASSUME RoundInv, PowerShellUdp
    PROVE  RoundInv'
  <1>1. RoundTypeOK /\ HoldersRun /\ FlowsInv /\ OnceInv /\ FoundInv
    BY DEF RoundInv
  <1>2. /\ os = "windows" /\ pc = "udp" /\ pc' = "names" /\ HostStays /\ next' = next /\ os' = os /\ open' = open
        /\ unread' = unread
    BY DEF PowerShellUdp, HostStays, hostVars
  <1>3. next \in Nat \ {0} /\ flows \in Seq(Flow)
    BY <1>1 DEF RoundTypeOK
  <1>4. unread = {}
    BY <1>2, NothingUnread, WalkNames
  <1>5. \A i \in DOMAIN flows : flows[i] \in OwnFlows /\ Proto[flows[i].sock] \notin Udp
    BY <1>1, <1>2 DEF FlowsInv, OfItsStage, Before, Tcp, Udp
  <1>6. ASSUME flows' \in Seq(Flow), Once(flows'), \A i \in DOMAIN flows' : flows'[i] \in OwnFlows,
               \A s : Shown(flows, s) => Shown(flows', s)
        PROVE  RoundInv'
    <2>1. (\A i \in DOMAIN flows : OfItsStage(flows[i]))'
      BY <1>2 DEF OfItsStage, Before
    <2>2. ASSUME NEW s \in open
          PROVE  Found(s)'
      <3>1. Hidden(s) \/ (pc \notin Before(Proto[s]) /\ s \notin unread)
        BY <1>1, <1>2, <1>4, KindsAssumption DEF RoundTypeOK, Before, Hidden, Protos, Tcp, Udp
      <3>2. Found(s)
        BY <1>1, <3>1 DEF FoundInv, Found
      <3>3. QED
        BY <1>2, <1>6, <3>2, FoundStays
    <2>3. pc' \in WindowsStages /\ pc' # "netstat" /\ next' \in Nat \ {0}
      BY <1>2, <1>3 DEF WindowsStages
    <2>4. QED
      BY <1>2, <1>4, <1>6, <2>1, <2>2, <2>3, LaterStep
  <1>7. CASE UNCHANGED flows
    BY <1>1, <1>3, <1>5, <1>6, <1>7 DEF OnceInv
  <1>8. CASE flows' = flows \o Rows(Table(Udp), UdpLine)
    <2> DEFINE S == Table(Udp)
               rows == Rows(S, UdpLine)
               fs == flows \o rows
    <2>1. S \in SUBSET open /\ \A s \in S : Proto[s] \in Udp
      BY DEF Table
    <2>2. RowsOf(S, rows)
      <3>1. \A s \in S : IsEntry(UdpLine[s], s)
        <4> TAKE s \in S
        <4>1. UdpLine[s] = Entry(s, "none", holder[s]) /\ Hidden(s)
          BY <1>1, <1>2, <2>1 DEF UdpLine, Hidden, RoundTypeOK
        <4>2. QED
          BY <4>1 DEF IsEntry
      <3>2. QED
        BY <1>1, <2>1, <3>1, RowsFacts
    <2> HIDE DEF rows, S
    <2>3. \A s \in S : Shown(flows, s) => Torn(s)
      BY <1>5, <2>1 DEF Shown
    <2>4. /\ fs \in Seq(Flow) /\ Once(fs)
          /\ \A k \in DOMAIN fs :
                \/ \E i \in DOMAIN flows : fs[k] = flows[i]
                \/ \E i \in DOMAIN rows : fs[k] = rows[i]
          /\ \A s : Shown(fs, s) <=> Shown(flows, s) \/ Shown(rows, s)
      BY <1>1, <2>2, <2>3, AddedFacts
    <2>5. flows' = fs
      BY <1>8 DEF rows, S
    <2> HIDE DEF fs
    <2>6. \A i \in DOMAIN rows : rows[i] \in OwnFlows
      BY <2>2 DEF RowsOf
    <2>7. \A k \in DOMAIN fs : fs[k] \in OwnFlows
      BY <1>5, <2>4, <2>6
    <2>8. QED
      BY <1>6, <2>4, <2>5, <2>7
  <1>9. QED
    BY <1>7, <1>8 DEF PowerShellUdp

LEMMA GetProcessStep ==
    ASSUME RoundInv, GetProcess
    PROVE  RoundInv'
  <1>1. RoundTypeOK /\ FlowsInv /\ OnceInv /\ FoundInv
    BY DEF RoundInv
  <1>2. /\ os = "windows" /\ pc = "names" /\ pc' = "done" /\ HostStays /\ next' = next
        /\ unread' = unread /\ spoilt' = spoilt
    BY DEF GetProcess, HostStays
  <1>3. flows \in Seq(Flow) /\ Once(flows) /\ \A i \in DOMAIN flows : flows[i] \in OwnFlows
    BY <1>1 DEF RoundTypeOK, OnceInv, FlowsInv
  <1>4. unread = {}
    BY <1>2, NothingUnread, WalkNames
  <1>5. \A s \in open : Ways(s) \subseteq spoilt' \/ Hidden(s) \/ Remote[s] # "peer" \/ Shown(flows, s)
    BY <1>1, <1>2, <1>4 DEF FoundInv, Before, Found
  <1>6. CASE flows' = Filter(flows)
    BY <1>2, <1>3, <1>4, <1>5, <1>6, FilteredStep
  <1> DEFINE fs == [i \in DOMAIN flows |-> [flows[i] EXCEPT !.process = procs[flows[i].pid]]]
  <1>7. CASE flows' = Filter(fs)
    <2>1. ASSUME NEW i \in DOMAIN flows
          PROVE  fs[i] \in OwnFlows /\ fs[i] \in Flow /\ fs[i].sock = flows[i].sock
      <3> DEFINE f == flows[i]
                 g == [f EXCEPT !.process = procs[f.pid]]
      <3>1. f \in OwnFlows /\ f \in Flow
        BY <1>3 DEF OwnFlows
      <3>2. f.sock \in Socks /\ holder[f.sock] \in Pids
        BY <1>1, <3>1 DEF Flow, RoundTypeOK
      <3>3. f.pid = holder[f.sock]
        BY <1>2, <3>1 DEF OwnFlows
      <3>4. fs[i] = g
        OBVIOUS
      <3>5. /\ g.sock = f.sock /\ g.pid = f.pid /\ g.remote = f.remote /\ g.state = f.state /\ g \in Flow
            /\ g.process = procs[f.pid]
        BY <1>1, <3>1, <3>2, <3>3 DEF Flow, RoundTypeOK
      <3> HIDE DEF f, g, fs
      <3>6. g.process \in {None, program[g.sock]} \/ g.pid \in reused
        BY <3>1, <3>3, <3>5 DEF OwnFlows
      <3>7. g \in OwnFlows
        BY <3>1, <3>5, <3>6 DEF OwnFlows, ItsState
      <3>8. QED
        BY <3>4, <3>5, <3>7 DEF f
    <2>2. DOMAIN fs = DOMAIN flows /\ fs = [i \in DOMAIN flows |-> fs[i]]
      OBVIOUS
    <2> HIDE DEF fs
    <2>3. fs \in Seq(Flow)
      <3>1. Len(flows) \in Nat /\ DOMAIN flows = 1..Len(flows)
        BY <1>3
      <3>2. fs \in [1..Len(flows) -> Flow]
        BY <2>1, <2>2, <3>1
      <3>3. QED
        BY <3>1, <3>2
    <2>4. Once(fs) /\ \A s : Shown(flows, s) <=> Shown(fs, s)
      BY <1>3, <2>1, <2>2, EditedFacts
    <2>5. \A s \in open : Ways(s) \subseteq spoilt' \/ Hidden(s) \/ Remote[s] # "peer" \/ Shown(fs, s)
      BY <1>5, <2>4
    <2>6. \A i \in DOMAIN fs : fs[i] \in OwnFlows
      BY <2>1, <2>2
    <2>7. QED
      BY <1>2, <1>4, <1>7, <2>3, <2>4, <2>5, <2>6, FilteredStep
  <1>8. QED
    BY <1>6, <1>7 DEF GetProcess

\* macOS: everything at once.
LEMMA LsofStep ==
    ASSUME RoundInv, Lsof
    PROVE  RoundInv'
  <1>1. RoundTypeOK /\ HoldersRun /\ OnceInv
    BY DEF RoundInv
  <1>2. /\ os = "darwin" /\ pc = "tcp" /\ pc' = "done" /\ HostStays /\ next' = next /\ os' = os /\ open' = open
        /\ unread' = unread
    BY DEF Lsof, HostStays, hostVars, Fails
  <1>3. next \in Nat \ {0} /\ flows \in Seq(Flow) /\ Once(flows)
    BY <1>1 DEF RoundTypeOK, OnceInv
  <1>4. DOMAIN flows = {} /\ unread = {}
    BY <1>2, NothingYet
  <1>5. CASE Fails("lsof")
    <2>1. "lsof" \in spoilt' /\ flows' = flows
      BY <1>5 DEF Fails
    <2>2. \A s \in open : Found(s)'
      <3>1. \A s : Ways(s)' = {"lsof"}
        BY <1>2 DEF Ways
      <3>2. QED
        BY <2>1, <3>1 DEF Found
    <2>3. /\ flows' \in Seq(Flow) /\ Once(flows') /\ \A i \in DOMAIN flows' : flows'[i] \in OwnFlows
      BY <1>3, <1>4, <2>1
    <2>4. (\A i \in DOMAIN flows : OfItsStage(flows[i]))'
      BY <1>4, <2>1
    <2>5. next' \in Nat \ {0} /\ pc' \in {"done"} /\ pc' # "netstat"
      BY <1>2, <1>3
    <2>6. QED
      BY <1>2, <1>4, <2>2, <2>3, <2>4, <2>5, LaterStep
  <1>6. ASSUME NEW order \in Listings, flows' = Filter(ParseLsofFields(order)), UNCHANGED spoilt
        PROVE  RoundInv'
    <2> DEFINE fs == ParseLsofFields(order)
    <2>1. /\ fs \in Seq(Flow)
          /\ \A k \in DOMAIN fs : \E s \in open : FromLsof(fs[k], s)
          /\ \A s \in open : Remote[s] # "none" => \E k \in DOMAIN fs : fs[k].sock = s
          /\ Once(fs)
      <3>1. holder \in [Socks -> Pids] /\ open \in SUBSET Socks /\ procs \in [Pids -> Programs \cup {None}]
        BY <1>1 DEF RoundTypeOK
      <3>2. QED
        BY <1>2, <3>1, ListingFacts
    <2>2. flows' = Filter(fs)
      BY <1>6
    <2> HIDE DEF fs
    <2>3. \A k \in DOMAIN fs : fs[k] \in OwnFlows
      <3> TAKE k \in DOMAIN fs
      <3>1. fs[k] \in Flow
        BY <2>1
      <3>2. PICK s \in open : FromLsof(fs[k], s)
        BY <2>1
      <3>3. procs[holder[s]] = program[s]
        BY <1>1 DEF HoldersRun
      <3>4. QED
        BY <1>2, <3>1, <3>2, <3>3 DEF OwnFlows, FromLsof, Hidden
    <2>4. \A s \in open : Ways(s) \subseteq spoilt' \/ Hidden(s) \/ Remote[s] # "peer" \/ Shown(fs, s)
      BY <2>1 DEF Shown
    <2>5. QED
      BY <1>2, <1>4, <2>1, <2>2, <2>3, <2>4, FilteredStep
  <1>7. QED
    BY <1>5, <1>6 DEF Lsof

\* What is so of a flow stays so while no process but a newcomer's changes its program.
LEMMA OwnFlowsKept ==
    ASSUME RoundTypeOK, os' = os, holder' = holder, program' = program, reused \subseteq reused',
           \A q \in Pids : procs'[q] \in {None, procs[q]} \/ q \in reused'
    PROVE  \A f \in OwnFlows : f \in OwnFlows'
  <1> TAKE f \in OwnFlows
  <1>1. f \in Flow /\ holder[f.sock] \in Pids
    BY DEF OwnFlows, Flow, RoundTypeOK
  <1>2. /\ f.pid = holder[f.sock] \/ (os = "linux" /\ f.pid = None)
        /\ f.process \in {None, program[f.sock]} \/ f.pid \in reused
        /\ procs[holder[f.sock]] \in {None, program[f.sock]} \/ holder[f.sock] \in reused
        /\ f.remote = IF Hidden(f.sock) THEN "none" ELSE Remote[f.sock]
        /\ ItsState(f)
    BY DEF OwnFlows
  <1>3. f.process \in {None, program'[f.sock]} \/ f.pid \in reused'
    BY <1>2
  <1>4. procs'[holder'[f.sock]] \in {None, program'[f.sock]} \/ holder'[f.sock] \in reused'
    BY <1>1, <1>2
  <1>5. ItsState(f)' /\ Hidden(f.sock)' = Hidden(f.sock)
    <2>1. \A s : StateOf(s)' = StateOf(s)
      BY DEF StateOf
    <2>2. QED
      BY <1>2, <2>1 DEF ItsState, Hidden
  <1>6. QED
    BY <1>1, <1>2, <1>3, <1>4, <1>5 DEF OwnFlows

\* A change of a table that is being read, or of sockets that are not in it, spoils
\* nothing else.
LEMMA TornStep ==
    ASSUME RoundInv, os' = os, pc' = pc, flows' = flows, open' \subseteq open,
           \/ \E proto \in Protos : Tears(proto)
           \/ unread' = unread /\ spoilt' = spoilt /\ unread \subseteq open'
    PROVE  OnceInv' /\ UnreadInv' /\ FoundInv'
  <1>1. RoundTypeOK /\ OnceInv /\ UnreadInv /\ FoundInv
    BY DEF RoundInv
  <1>2. open \in SUBSET Socks /\ \A s \in Socks : Proto[s] \in Protos
    BY <1>1, KindsAssumption DEF RoundTypeOK
  <1>3. \A s : /\ Ways(s)' = Ways(s) /\ Hidden(s)' = Hidden(s)
               /\ Shown(flows, s)' = Shown(flows, s)
    BY DEF Ways, Hidden, Shown
  <1>4. CASE unread' = unread /\ spoilt' = spoilt /\ unread \subseteq open'
    <2>1. OnceInv'
      BY <1>1, <1>4 DEF OnceInv, Once, Torn
    <2>2. UnreadInv'
      BY <1>1, <1>3, <1>4 DEF UnreadInv, Torn
    <2>3. \A s : Found(s)' = Found(s)
      BY <1>3, <1>4 DEF Found
    <2>4. FoundInv'
      BY <1>1, <1>4, <2>3 DEF FoundInv
    <2>5. QED
      BY <2>1, <2>2, <2>4
  <1>5. ASSUME NEW proto \in Protos, Tears(proto)
        PROVE  OnceInv' /\ UnreadInv' /\ FoundInv'
    <2>1. /\ pc = Walk[proto] /\ spoilt' = spoilt \cup {proto}
          /\ unread' \subseteq open' /\ \A s \in unread' : Proto[s] = proto
      BY <1>5 DEF Tears
    <2>2. \A q \in Protos : pc = Walk[q] => q = proto
      BY <2>1, Stages
    <2>3. os = "linux" /\ pc # "netstat"
      <3>1. pc \notin {"tcp", "udp", "names", "done", "netstat"}
        BY <2>1, Stages
      <3>2. QED
        BY <1>1, <3>1 DEF RoundTypeOK, WindowsStages
    <2>4. OnceInv'
      BY <1>1, <2>1 DEF OnceInv, Once, Torn
    <2>5. UnreadInv'
      BY <2>1, <2>3 DEF UnreadInv, Torn
    <2>6. ASSUME NEW s \in open', pc \notin Before(Proto[s]), s \notin unread'
          PROVE  Found(s)'
      <3>1. CASE Proto[s] = proto
        BY <1>3, <2>1, <2>3, <3>1 DEF Found, Ways
      <3>2. CASE Proto[s] # proto
        <4>1. s \in open /\ s \notin unread
          BY <1>1, <1>2, <2>2, <3>2 DEF UnreadInv
        <4>2. Found(s)
          BY <1>1, <2>6, <4>1 DEF FoundInv
        <4>3. QED
          BY <1>3, <2>1, <4>2 DEF Found
      <3>3. QED
        BY <3>1, <3>2
    <2>7. FoundInv'
      BY <2>3, <2>6 DEF FoundInv
    <2>8. QED
      BY <2>4, <2>5, <2>7
  <1>6. QED
    BY <1>4, <1>5

\* What ends takes its sockets with it, and who comes after it has other flows' PIDs
\* only if it is counted as reused.
LEMMA ExitStep ==
    ASSUME RoundInv, NEW p \in Pids, Exit(p)
    PROVE  RoundInv'
  <1>1. RoundTypeOK /\ HoldersRun /\ FlowsInv /\ UnreadInv
    BY DEF RoundInv
  <1>2. /\ UNCHANGED <<os, holder, program, pc, flows, next, reused>>
        /\ procs' = [procs EXCEPT ![p] = None] /\ changes' = changes + 1
        /\ open' = {s \in open : holder[s] # p}
    BY DEF Exit, hostVars
  <1>3. RoundTypeOK'
    <2>1. procs' \in [Pids -> Programs \cup {None}]
      BY <1>1, <1>2 DEF RoundTypeOK
    <2>2. open' \in SUBSET Socks /\ changes' \in Nat
      <3>1. open' \subseteq open /\ open \in SUBSET Socks
        BY <1>1, <1>2 DEF RoundTypeOK
      <3>2. changes \in Nat /\ changes' = changes + 1
        BY <1>1, <1>2 DEF RoundTypeOK
      <3>3. QED
        BY <3>1, <3>2
    <2>3. /\ os' = os /\ holder' = holder /\ program' = program /\ pc' = pc /\ flows' = flows
          /\ next' = next /\ reused' = reused
      BY <1>2
    <2>4. QED
      BY <1>1, <2>1, <2>2, <2>3 DEF RoundTypeOK
  <1>4. HoldersRun'
    BY <1>1, <1>2 DEF HoldersRun, RoundTypeOK
  <1>5. \A f \in OwnFlows : f \in OwnFlows'
    <2>1. \A q \in Pids : procs'[q] \in {None, procs[q]}
      BY <1>1, <1>2 DEF RoundTypeOK
    <2>2. QED
      BY <1>1, <1>2, <2>1, OwnFlowsKept
  <1>6. FlowsInv'
    BY <1>1, <1>2, <1>5 DEF FlowsInv, OfItsStage
  <1>7. OnceInv' /\ UnreadInv' /\ FoundInv'
    <2>1. CASE \E proto \in Protos : Tears(proto)
      BY <1>2, <2>1, TornStep
    <2>2. CASE /\ \A proto \in Protos : pc = Walk[proto] => \A s \in Table({proto}) : holder[s] # p
               /\ UNCHANGED <<unread, spoilt>>
      <3>1. ASSUME NEW s \in unread
            PROVE  s \in open'
        <4>1. s \in open /\ Proto[s] \in Protos /\ pc = Walk[Proto[s]]
          BY <1>1, KindsAssumption DEF UnreadInv, RoundTypeOK
        <4>2. s \in Table({Proto[s]})
          BY <4>1 DEF Table
        <4>3. QED
          BY <1>2, <2>2, <4>1, <4>2
      <3>2. QED
        BY <1>2, <2>2, <3>1, TornStep
    <2>3. QED
      BY <2>1, <2>2 DEF Exit
  <1>8. QED
    BY <1>3, <1>4, <1>6, <1>7 DEF RoundInv

LEMMA OtherSocketStep ==
    ASSUME RoundInv, NEW proto \in Protos, OtherSocket(proto)
    PROVE  RoundInv'
  <1>1. RoundTypeOK /\ HoldersRun /\ FlowsInv
    BY DEF RoundInv
  <1>2. /\ os' = os /\ holder' = holder /\ program' = program /\ procs' = procs /\ open' = open
        /\ pc' = pc /\ flows' = flows /\ next' = next /\ reused' = reused
        /\ changes' = changes + 1 /\ Tears(proto)
    BY DEF OtherSocket, hostVars
  <1>3. RoundTypeOK'
    <2>1. changes' \in Nat
      BY <1>1, <1>2 DEF RoundTypeOK
    <2>2. QED
      BY <1>1, <1>2, <2>1 DEF RoundTypeOK
  <1>4. HoldersRun'
    BY <1>1, <1>2 DEF HoldersRun
  <1>5. \A f \in OwnFlows : f \in OwnFlows'
    BY <1>1, <1>2, OwnFlowsKept
  <1>6. FlowsInv'
    BY <1>1, <1>2, <1>5 DEF FlowsInv, OfItsStage
  <1>7. OnceInv' /\ UnreadInv' /\ FoundInv'
    BY <1>2, TornStep
  <1>8. QED
    BY <1>3, <1>4, <1>6, <1>7 DEF RoundInv

LEMMA ExecStep ==
    ASSUME RoundInv, NEW p \in Pids, NEW g \in Programs, Exec(p, g)
    PROVE  RoundInv'
  <1>1. RoundTypeOK /\ HoldersRun /\ FlowsInv /\ UnreadInv
    BY DEF RoundInv
  <1>2. /\ UNCHANGED <<os, holder, program, open, pc, flows, unread, next, changes, spoilt>>
        /\ procs[p] = None /\ procs' = [procs EXCEPT ![p] = g]
        /\ reused' = IF pc = "tcp" THEN reused ELSE reused \cup {p}
    BY DEF Exec, hostVars
  <1>3. RoundTypeOK'
    BY <1>1, <1>2 DEF RoundTypeOK
  <1>4. HoldersRun'
    <2>1. \A s \in open : program[s] \in Programs
      BY <1>1 DEF RoundTypeOK
    <2>2. \A s \in open : holder[s] # p
      BY <1>1, <1>2, <2>1, NoneAssumption DEF HoldersRun
    <2>3. QED
      BY <1>1, <1>2, <2>2 DEF HoldersRun, RoundTypeOK
  <1>5. OnceInv' /\ UnreadInv' /\ FoundInv'
    <2>1. unread \subseteq open' /\ open' \subseteq open
      BY <1>1, <1>2 DEF UnreadInv
    <2>2. QED
      BY <1>2, <2>1, TornStep
  <1>6. FlowsInv'
    <2>1. CASE pc = "tcp"
      <3>1. DOMAIN flows = {}
        BY <2>1, NothingYet
      <3>2. QED
        BY <1>2, <3>1 DEF FlowsInv
    <2>2. CASE pc # "tcp"
      <3>1. \A q \in Pids : procs'[q] \in {None, procs[q]} \/ q \in reused'
        BY <1>1, <1>2, <2>2 DEF RoundTypeOK
      <3>2. reused \subseteq reused'
        BY <1>2
      <3>3. \A f \in OwnFlows : f \in OwnFlows'
        BY <1>1, <1>2, <3>1, <3>2, OwnFlowsKept
      <3>4. QED
        BY <1>1, <1>2, <3>3 DEF FlowsInv, OfItsStage
    <2>3. QED
      BY <2>1, <2>2
  <1>7. QED
    BY <1>3, <1>4, <1>5, <1>6 DEF RoundInv

-----------------------------------------------------------------------------
(***************************************************************************)
(* A round of the collector.                                               *)
(***************************************************************************)
LEMMA RoundInitially == RoundInit => RoundInv
  <1> SUFFICES ASSUME RoundInit
               PROVE  RoundInv
    OBVIOUS
  <1>1. RoundTypeOK
    <2>1. \A s \in Socks : holder[s] \in Pids /\ procs[holder[s]] \in Programs
      BY DEF RoundInit
    <2>2. program \in [Socks -> Programs]
      BY <2>1 DEF RoundInit
    <2>3. flows \in Seq(Flow) /\ next \in Nat \ {0} /\ changes \in Nat
      BY DEF RoundInit
    <2>4. \/ os = "linux" /\ pc \in LinuxStages
          \/ os = "windows" /\ pc \in WindowsStages
          \/ os = "darwin" /\ pc \in {"tcp", "done"}
      BY DEF RoundInit, LinuxStages, WindowsStages
    <2>5. QED
      BY <2>2, <2>3, <2>4 DEF RoundInit, RoundTypeOK
  <1>2. HoldersRun
    BY DEF RoundInit, HoldersRun
  <1>3. FlowsInv /\ OnceInv
    <2>1. flows = <<>>
      BY DEF RoundInit
    <2>2. DOMAIN flows = {}
      BY <2>1
    <2>3. QED
      BY <2>2 DEF FlowsInv, OnceInv, Once
  <1>4. UnreadInv /\ FoundInv
    BY DEF RoundInit, UnreadInv, FoundInv, Before
  <1>5. QED
    BY <1>1, <1>2, <1>3, <1>4 DEF RoundInv

LEMMA RoundStutters ==
    ASSUME RoundInv, UNCHANGED roundVars
    PROVE  RoundInv'
  <1>1. /\ os' = os /\ holder' = holder /\ program' = program /\ procs' = procs /\ open' = open /\ pc' = pc
        /\ flows' = flows /\ unread' = unread /\ next' = next /\ changes' = changes /\ reused' = reused
        /\ spoilt' = spoilt
    BY DEF roundVars, hostVars
  <1>2. OwnFlows' = OwnFlows
    BY <1>1, OwnFlowsStay DEF HostStays, hostVars
  <1>3. RoundTypeOK' /\ HoldersRun'
    BY <1>1 DEF RoundInv, RoundTypeOK, HoldersRun
  <1>4. FlowsInv'
    BY <1>1, <1>2 DEF RoundInv, FlowsInv, OfItsStage
  <1>5. OnceInv' /\ UnreadInv' /\ FoundInv'
    <2>1. unread \subseteq open' /\ open' \subseteq open
      BY <1>1 DEF RoundInv, UnreadInv
    <2>2. QED
      BY <1>1, <2>1, TornStep
  <1>6. QED
    BY <1>3, <1>4, <1>5 DEF RoundInv

\* The invariant holds throughout the round, on each platform, with any number of
\* processes, sockets and changes.
THEOREM RoundInvAlways == RoundSpec => []RoundInv
  <1>1. RoundInit => RoundInv
    BY RoundInitially
  <1>2. RoundInv /\ [RoundNext]_roundVars => RoundInv'
    <2> SUFFICES ASSUME RoundInv, [RoundNext]_roundVars
                 PROVE  RoundInv'
      OBVIOUS
    <2>1. CASE \E p \in Pids : Exit(p)
      BY <2>1, ExitStep
    <2>2. CASE \E p \in Pids, g \in Programs : Exec(p, g)
      BY <2>2, ExecStep
    <2>3. CASE \E proto \in Protos : OtherSocket(proto) \/ ReadChunk(proto) \/ FindPid(proto)
      BY <2>3, OtherSocketStep, ReadChunkStep, FindPidStep
    <2>4. CASE StartNames \/ NameNext
      BY <2>4, StartNamesStep, NameNextStep
    <2>5. CASE PowerShellTcp \/ Netstat \/ PowerShellUdp \/ GetProcess
      BY <2>5, PowerShellTcpStep, NetstatStep, PowerShellUdpStep, GetProcessStep
    <2>6. CASE Lsof
      BY <2>6, LsofStep
    <2>7. CASE UNCHANGED roundVars
      BY <2>7, RoundStutters
    <2>8. QED
      BY <2>1, <2>2, <2>3, <2>4, <2>5, <2>6, <2>7 DEF RoundNext
  <1>3. QED
    BY <1>1, <1>2, PTL DEF RoundSpec

\* No connection is shown as that of a program that never held it, unless its PID
\* was given away between the table and the name.
THEOREM RoundAttributed == RoundSpec => []Attributed
  <1>1. RoundInv => Attributed
    BY DEF RoundInv, FlowsInv, OwnFlows, Attributed
  <1>2. QED
    BY <1>1, RoundInvAlways, PTL

\* No step, and neither the filter nor the parser of lsof, loses a connection that
\* stays open or shows it twice, unless each way to it failed or its table changed
\* while the collector was walking through /proc between two reads of it.
THEOREM RoundFindsOpenConnections == RoundSpec => []OpenConnectionsAreFound
  <1>1. RoundInv => OpenConnectionsAreFound
    <2> SUFFICES ASSUME RoundInv, pc = "done", NEW s \in open
                 PROVE  LET found == {i \in DOMAIN flows : flows[i].sock = s} IN
                        IF Remote[s] # "peer" \/ (os = "windows" /\ Proto[s] \in Udp)
                        THEN found = {}
                        ELSE Ways(s) \subseteq spoilt \/ \E i \in found : found = {i}
      BY DEF OpenConnectionsAreFound
    <2> DEFINE found == {i \in DOMAIN flows : flows[i].sock = s}
    <2>1. FlowsInv /\ OnceInv /\ FoundInv
      BY DEF RoundInv
    <2>2. \A i \in found : Remote[s] = "peer" /\ ~Hidden(s)
      <3>1. \A i \in DOMAIN flows : flows[i] \in OwnFlows /\ flows[i].remote = "peer"
        BY <2>1 DEF FlowsInv, OfItsStage
      <3>2. QED
        BY <3>1 DEF OwnFlows
    <2>3. CASE Remote[s] # "peer" \/ Hidden(s)
      BY <2>2, <2>3 DEF Hidden
    <2>4. CASE Remote[s] = "peer" /\ ~Hidden(s) /\ ~(Ways(s) \subseteq spoilt)
      <3>1. unread = {}
        BY NothingUnread, WalkNames
      <3>2. Shown(flows, s)
        BY <2>1, <2>4, <3>1 DEF FoundInv, Before, Found
      <3>3. PICK i \in found : TRUE
        BY <3>2 DEF Shown
      <3>4. \A j \in found : j = i
        <4>1. ~Torn(s)
          BY <2>4 DEF Ways, Torn
        <4>2. QED
          BY <2>1, <4>1 DEF OnceInv, Once
      <3>5. found = {i}
        BY <3>3, <3>4
      <3>6. QED
        BY <2>4, <3>5 DEF Hidden
    <2>5. QED
      BY <2>3, <2>4 DEF Hidden
  <1>2. QED
    BY <1>1, RoundInvAlways, PTL

\* However lsof orders processes and sockets, no flow has the state of another
\* process's socket.
THEOREM RoundStatesAreOfTheirProcess == RoundSpec => []StatesAreOfTheirProcess
  <1>1. RoundInv => StatesAreOfTheirProcess
    BY DEF RoundInv, FlowsInv, OfItsStage, OwnFlows, ItsState, StatesAreOfTheirProcess
  <1>2. QED
    BY <1>1, RoundInvAlways, PTL

-----------------------------------------------------------------------------
(***************************************************************************)
(* IsBlocked: the answer of a walk is what the maps in force say.          *)
(***************************************************************************)
USE NamesAssumption, RulesAssumption

\* A walk stands at one of its stops, and has found nothing at those behind it.
WalkInv ==
    \A h \in Handlers : at[h] > 0 =>
        /\ at[h] \in Stops(name[h])
        /\ \A j \in Stops(name[h]) :
              j < at[h] => Suffix(name[h], j) \notin blocked \cup allowed

\* What is blocked and not ruled on comes from a list: no bare name, and no
\* name of the host itself.
ListInv ==
    \A n \in blocked \ ruled : Len(n) >= 2 /\ n[1] \notin LocalLabels

IInv == TypeOK /\ WalkInv /\ ListInv

-----------------------------------------------------------------------------
LEMMA TypeStep ==
    ASSUME TypeOK, [Next]_vars
    PROVE  TypeOK'
  <1> USE DEF TypeOK, maps
  <1>1. ASSUME NEW file \in Files, NEW B \in SUBSET BlockRules,
               NEW A \in SUBSET AllowRules, Load(file, B, A)
        PROVE  TypeOK'
    <2>1. Parse(file) \subseteq Names
      BY DEF Parse, NamedBy
    <2>2. QED
      BY <1>1, <2>1 DEF Load
  <1>2. ASSUME NEW h \in Handlers, NEW n \in Names, Ask(h, n)
        PROVE  TypeOK'
    BY <1>2 DEF Ask
  <1>3. ASSUME NEW h \in Handlers, Look(h)
        PROVE  TypeOK'
    <2>1. \A v \in {"sinkhole", "forward"} : Decide(h, v) => TypeOK'
      BY DEF Decide
    <2>2. CASE at' = [at EXCEPT ![h] = @ + 1] /\ UNCHANGED <<maps, name, answer>>
      BY <2>2
    <2>3. QED
      BY <1>3, <2>1, <2>2 DEF Look
  <1>4. CASE UNCHANGED vars
    BY <1>4 DEF vars
  <1>5. QED
    BY <1>1, <1>2, <1>3, <1>4 DEF Next

\* Handlers do not disturb each other's walks, and no load happens during one.
LEMMA WalkStep ==
    ASSUME TypeOK, WalkInv, [Next]_vars
    PROVE  WalkInv'
  <1> USE DEF TypeOK, WalkInv, maps
  <1>1. ASSUME NEW file \in Files, NEW B \in SUBSET BlockRules,
               NEW A \in SUBSET AllowRules, Load(file, B, A)
        PROVE  WalkInv'
    BY <1>1 DEF Load
  <1>2. ASSUME NEW h \in Handlers, NEW n \in Names, Ask(h, n)
        PROVE  WalkInv'
    <2>1. /\ at'[h] = 1 /\ UNCHANGED maps
          /\ \A g \in Handlers \ {h} : at'[g] = at[g] /\ name'[g] = name[g]
      BY <1>2 DEF Ask
    <2>2. \A m : \A j \in Stops(m) : ~(j < 1)
      BY DEF Stops
    <2>3. \A m : 1 \in Stops(m)
      BY DEF Stops
    <2>4. QED
      BY <2>1, <2>2, <2>3
  <1>3. ASSUME NEW h \in Handlers, Look(h)
        PROVE  WalkInv'
    <2>1. /\ UNCHANGED <<maps, name>>
          /\ \A g \in Handlers \ {h} : at'[g] = at[g]
      BY <1>3 DEF Look, Decide
    <2>2. CASE at'[h] = 0
      BY <2>1, <2>2
    <2>3. CASE at'[h] # 0
      <3>1. /\ at[h] > 0 /\ Suffix(name[h], at[h]) \notin blocked \cup allowed
            /\ at[h] + 1 < Len(name[h]) /\ at'[h] = at[h] + 1
        BY <1>3, <2>3 DEF Look, Decide
      <3>2. name[h] \in Names /\ Len(name[h]) \in Nat /\ at[h] \in Nat
        OBVIOUS
      <3>3. at'[h] \in Stops(name[h])
        BY <3>1, <3>2 DEF Stops
      <3>4. \A j \in Stops(name[h]) : j \in Nat /\ (j < at'[h] => j < at[h] \/ j = at[h])
        BY <3>1, <3>2 DEF Stops
      <3>5. QED
        BY <2>1, <3>1, <3>3, <3>4
    <2>4. QED
      BY <2>2, <2>3
  <1>4. CASE UNCHANGED vars
    BY <1>4 DEF vars
  <1>5. QED
    BY <1>1, <1>2, <1>3, <1>4 DEF Next

LEMMA ListStep ==
    ASSUME ListInv, [Next]_vars
    PROVE  ListInv'
  <1> USE DEF ListInv, maps
  <1>1. ASSUME NEW file \in Files, NEW B \in SUBSET BlockRules,
               NEW A \in SUBSET AllowRules, Load(file, B, A)
        PROVE  ListInv'
    BY <1>1 DEF Load, Parse
  <1>2. ASSUME UNCHANGED maps
        PROVE  ListInv'
    BY <1>2
  <1>3. QED
    BY <1>1, <1>2 DEF Next, Ask, Look, Decide, vars

LEMMA InvAlways == Spec => []IInv
  <1>1. Init => IInv
    BY DEF Init, IInv, TypeOK, WalkInv, ListInv
  <1>2. IInv /\ [Next]_vars => IInv'
    BY TypeStep, WalkStep, ListStep DEF IInv
  <1>3. QED
    BY <1>1, <1>2, PTL DEF Spec

-----------------------------------------------------------------------------
(***************************************************************************)
(* The answer of a walk is the policy's.                                   *)
(***************************************************************************)

\* A name that is looked at and found in neither map decides nothing, and the
\* last stop without a find means forward.
LEMMA WalkAnswers ==
    ASSUME IInv, NEW h \in Handlers, Look(h), at'[h] = 0
    PROVE  answer'[h] = "sinkhole" <=> Blocks(name[h], blocked, allowed)
  <1> DEFINE n == name[h]
             i == at[h]
  <1>1. /\ i \in Stops(n) /\ i \in Nat /\ n \in Names /\ Len(n) \in Nat
        /\ \A j \in Stops(n) : j < i => Suffix(n, j) \notin blocked \cup allowed
    BY DEF IInv, TypeOK, WalkInv, Look
  <1>2. \A j \in Stops(n) : j \in Nat
    BY <1>1 DEF Stops
  <1> HIDE DEF n, i
  <1>4. CASE Suffix(n, i) \in allowed
    <2>1. answer'[h] = "forward"
      BY <1>4 DEF Look, Decide, IInv, TypeOK, n, i
    <2>2. ASSUME NEW k \in Stops(n), Suffix(n, k) \in blocked,
                 \A j \in Stops(n) : j <= k => Suffix(n, j) \notin allowed
          PROVE  FALSE
      BY <1>1, <1>2, <1>4, <2>2
    <2>3. ~Blocks(n, blocked, allowed)
      BY <2>2 DEF Blocks
    <2>4. QED
      BY <2>1, <2>3 DEF n
  <1>5. CASE Suffix(n, i) \in blocked \ allowed
    <2>1. answer'[h] = "sinkhole"
      BY <1>5 DEF Look, Decide, IInv, TypeOK, n, i
    <2>2. \A j \in Stops(n) : j <= i => Suffix(n, j) \notin allowed
      BY <1>1, <1>2, <1>5
    <2>3. Blocks(n, blocked, allowed)
      BY <1>1, <1>5, <2>2 DEF Blocks
    <2>4. QED
      BY <2>1, <2>3 DEF n
  <1>6. CASE Suffix(n, i) \notin blocked \cup allowed
    <2>1. answer'[h] = "forward" /\ i + 1 >= Len(n)
      BY <1>6 DEF Look, Decide, IInv, TypeOK, n, i
    <2>2. \A j \in Stops(n) : j <= i
      BY <1>1, <2>1 DEF Stops
    <2>3. \A j \in Stops(n) : Suffix(n, j) \notin blocked
      BY <1>1, <1>2, <1>6, <2>2
    <2>4. ~Blocks(n, blocked, allowed)
      BY <2>3 DEF Blocks
    <2>5. QED
      BY <2>1, <2>4 DEF n
  <1>7. QED
    BY <1>4, <1>5, <1>6

-----------------------------------------------------------------------------
(***************************************************************************)
(* The theorems.                                                           *)
(***************************************************************************)

\* The maps hold names, and each walk has a place to be at.
THEOREM TypeCorrect == Spec => []TypeOK
  <1>1. IInv => TypeOK
    BY DEF IInv
  <1>2. QED
    BY <1>1, InvAlways, PTL

LEMMA OnlyLookAnswers ==
    ASSUME IInv, [Next]_vars, NEW h \in Handlers, Answers(h)
    PROVE  Look(h)
  <1> USE DEF Answers, IInv, TypeOK
  <1>1. ASSUME NEW file \in Files, NEW B \in SUBSET BlockRules,
               NEW A \in SUBSET AllowRules, Load(file, B, A)
        PROVE  FALSE
    BY <1>1 DEF Load
  <1>2. ASSUME NEW g \in Handlers, NEW n \in Names, Ask(g, n)
        PROVE  FALSE
    BY <1>2 DEF Ask
  <1>3. ASSUME NEW g \in Handlers, Look(g), g # h
        PROVE  FALSE
    BY <1>3 DEF Look, Decide
  <1>4. CASE UNCHANGED vars
    BY <1>4 DEF vars
  <1>5. QED
    BY <1>1, <1>2, <1>3, <1>4 DEF Next

\* The loop of IsBlocked computes the policy of the maps in force, for names of
\* any length.
THEOREM WalkIsPolicy == Spec => AnswerIsPolicy
  <1>1. IInv /\ [Next]_vars =>
           [\A h \in Handlers : Answers(h) =>
               (answer'[h] = "sinkhole" <=> Blocks(name[h], blocked, allowed))]_vars
    BY OnlyLookAnswers, WalkAnswers DEF Answers
  <1>2. QED
    BY <1>1, InvAlways, PTL DEF Spec, AnswerIsPolicy

\* No list blocks a bare name or the host's own.
THEOREM HostStaysReachable == Spec => LocalNamesNeedARule
  <1>1. ASSUME IInv, [Next]_vars, NEW h \in Handlers,
               Answers(h), answer'[h] = "sinkhole",
               \/ Len(name[h]) = 1
               \/ Len(name[h]) = 2 /\ name[h][1] \in LocalLabels
        PROVE  name[h] \in ruled
    <2>1. PICK i \in Stops(name[h]) : Suffix(name[h], i) \in blocked
      BY <1>1, OnlyLookAnswers, WalkAnswers DEF Answers, Blocks
    <2>2. name[h] \in Seq(Labels) /\ Len(name[h]) >= 1
      BY <1>1 DEF IInv, TypeOK
    <2>3. i = 1
      <3>1. ASSUME NEW k \in 2 .. (Len(name[h]) - 1)
            PROVE  FALSE
        <4>1. CASE Len(name[h]) = 1
          BY <3>1, <4>1
        <4>2. CASE Len(name[h]) = 2
          BY <3>1, <4>2
        <4>3. QED
          BY <1>1, <4>1, <4>2
      <3>2. QED
        BY <2>1, <3>1 DEF Stops
    <2>4. Suffix(name[h], 1) = name[h]
      BY <2>2 DEF Suffix
    <2>7. name[h] \in blocked
      BY <2>1, <2>3, <2>4
    <2>8. ~(Len(name[h]) >= 2 /\ name[h][1] \notin LocalLabels)
      <3>1. CASE Len(name[h]) = 1
        BY <3>1
      <3>2. CASE name[h][1] \in LocalLabels
        BY <3>2
      <3>3. QED
        BY <1>1, <3>1, <3>2
    <2>5. QED
      BY <1>1, <2>7, <2>8, Zenon DEF IInv, ListInv
  <1>2. IInv /\ [Next]_vars =>
           [\A h \in Handlers :
               /\ Answers(h) /\ answer'[h] = "sinkhole"
               /\ \/ Len(name[h]) = 1
                  \/ Len(name[h]) = 2 /\ name[h][1] \in LocalLabels
               => name[h] \in ruled]_vars
    BY <1>1
  <1>3. QED
    BY <1>2, InvAlways, PTL DEF Spec, LocalNamesNeedARule

\* Adding an allow rule never blocks a name, and adding a block rule or a list
\* never unblocks one.
THEOREM PolicyIsMonotone ==
    ASSUME NEW n, NEW B1, NEW B2, NEW A1, NEW A2, B1 \subseteq B2, A2 \subseteq A1
    PROVE  Blocks(n, B1, A1) => Blocks(n, B2, A2)
  BY DEF Blocks

\* An allow rule for a name always wins over any block of the name or a parent.
THEOREM AllowAlwaysWins ==
    ASSUME NEW n \in Names, NEW B, NEW A, n \in A
    PROVE  ~Blocks(n, B, A)
  <1>1. Suffix(n, 1) = n
    BY DEF Suffix
  <1>2. 1 \in Stops(n) /\ \A i \in Stops(n) : 1 <= i
    BY DEF Stops
  <1>3. QED
    BY <1>1, <1>2 DEF Blocks
=============================================================================
