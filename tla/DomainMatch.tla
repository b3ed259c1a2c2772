----------------------------- MODULE DomainMatch ----------------------------
(***************************************************************************)
(* What BlocklistManager makes of the names it is asked about: how         *)
(* parseHostsFile reads a list, and how IsBlocked walks from a name to its *)
(* parents while LoadFromDB may want to replace the maps.                  *)
(*                                                                         *)
(* A name is the sequence of its labels, lower case and without the        *)
(* trailing dot (normalizeDomain).                                         *)
(***************************************************************************)
EXTENDS Naturals, Sequences

CONSTANTS
    Labels,        \* the labels of domain names
    Names,         \* the names asked about, listed or ruled on
    LocalLabels,   \* labels that begin with "localhost"
    Sink,          \* the first field "0.0.0.0" or "127.0.0.1" of a line
    Files,         \* hosts files: sets of lines, a line is a sequence of fields
    BlockRules,    \* names that custom rules may block
    AllowRules,    \* names that custom rules may allow
    Handlers       \* goroutines in which miekg/dns runs handleQuery

ASSUME NamesAssumption == \A n \in Names : n \in Seq(Labels) /\ Len(n) >= 1
ASSUME RulesAssumption == BlockRules \subseteq Names /\ AllowRules \subseteq Names

VARIABLES
    blocked, allowed,   \* the maps
    ruled,              \* the names in blocked that a custom rule put there
    name,               \* the name a handler asked about last
    at,                 \* the label its walk has come to, 0 outside IsBlocked
    answer              \* its answer

maps == <<blocked, allowed, ruled>>
vars == <<maps, name, at, answer>>

TypeOK ==
    /\ blocked \in SUBSET Names
    /\ allowed \in SUBSET AllowRules
    /\ ruled \in SUBSET BlockRules
    /\ name \in [Handlers -> Names]
    /\ at \in [Handlers -> Nat]
    /\ answer \in [Handlers -> {"none", "sinkhole", "forward"}]

\* The name without its first i - 1 labels.
Suffix(n, i) == SubSeq(n, i, Len(n))

-----------------------------------------------------------------------------
(***************************************************************************)
(* Lists.  Comments and blank lines name nothing.                          *)
(***************************************************************************)
NamedBy(line) ==
    {n \in Names : \/ Len(line) >= 2 /\ line[1] = Sink /\ line[2] = n
                   \/ Len(line) = 1 /\ line[1] = n}

\* Fault variant of Parse: no check for a dot.
ParseBare(file) ==
    {n \in UNION {NamedBy(line) : line \in file} : n[1] \notin LocalLabels}

Parse(file) ==
    {n \in UNION {NamedBy(line) : line \in file} : Len(n) >= 2 /\ n[1] \notin LocalLabels}

-----------------------------------------------------------------------------
Init ==
    /\ blocked = {} /\ allowed = {} /\ ruled = {}
    /\ name \in [Handlers -> Names]
    /\ at = [h \in Handlers |-> 0]
    /\ answer = [h \in Handlers |-> "none"]

\* Fault variant of Load: the maps are replaced without the write lock.
LoadUnlocked(file, B, A) ==
    /\ blocked' = Parse(file) \cup B
    /\ allowed' = A
    /\ ruled' = B
    /\ UNCHANGED <<name, at, answer>>

\* LoadFromDB has built new maps, and swaps them in under the write lock.
Load(file, B, A) ==
    /\ \A h \in Handlers : at[h] = 0
    /\ blocked' = Parse(file) \cup B
    /\ allowed' = A
    /\ ruled' = B
    /\ UNCHANGED <<name, at, answer>>

\* A query arrives, and IsBlocked takes the read lock.
Ask(h, n) ==
    /\ at[h] = 0
    /\ name' = [name EXCEPT ![h] = n]
    /\ at' = [at EXCEPT ![h] = 1]
    /\ UNCHANGED <<maps, answer>>

Decide(h, verdict) ==
    /\ answer' = [answer EXCEPT ![h] = verdict]
    /\ at' = [at EXCEPT ![h] = 0]
    /\ UNCHANGED <<maps, name>>

\* Fault variant of Look: a block on a name wins over an allow on it.
LookBlockFirst(h) ==
    LET s == Suffix(name[h], at[h]) IN
    /\ at[h] > 0
    /\ \/ s \in blocked /\ Decide(h, "sinkhole")
       \/ s \in allowed \ blocked /\ Decide(h, "forward")
       \/ /\ s \notin blocked \cup allowed
          /\ at[h] + 1 >= Len(name[h])
          /\ Decide(h, "forward")
       \/ /\ s \notin blocked \cup allowed
          /\ at[h] + 1 < Len(name[h])
          /\ at' = [at EXCEPT ![h] = @ + 1]
          /\ UNCHANGED <<maps, name, answer>>

\* One turn of the walk: the name itself, then its parents, but not the last
\* label alone.
Look(h) ==
    LET s == Suffix(name[h], at[h]) IN
    /\ at[h] > 0
    /\ \/ s \in allowed /\ Decide(h, "forward")
       \/ s \in blocked \ allowed /\ Decide(h, "sinkhole")
       \/ /\ s \notin blocked \cup allowed
          /\ at[h] + 1 >= Len(name[h])
          /\ Decide(h, "forward")
       \/ /\ s \notin blocked \cup allowed
          /\ at[h] + 1 < Len(name[h])
          /\ at' = [at EXCEPT ![h] = @ + 1]
          /\ UNCHANGED <<maps, name, answer>>

Next ==
    \/ \E file \in Files, B \in SUBSET BlockRules, A \in SUBSET AllowRules : Load(file, B, A)
    \/ \E h \in Handlers : Look(h) \/ \E n \in Names : Ask(h, n)

Spec == Init /\ [][Next]_vars

-----------------------------------------------------------------------------
(***************************************************************************)
(* Properties                                                              *)
(***************************************************************************)
\* The labels at which a walk stops: the name, and its parents of two labels or
\* more.
Stops(n) == {1} \cup 2 .. (Len(n) - 1)

\* The policy in one formula: some stop is blocked, and neither it nor one
\* before it is allowed.
Blocks(n, B, A) ==
    \E i \in Stops(n) : /\ Suffix(n, i) \in B
                        /\ \A j \in Stops(n) : j <= i => Suffix(n, j) \notin A

Answers(h) == at[h] > 0 /\ at'[h] = 0

\* Every answer is the one that the maps in force, all of them and no others,
\* give: a reload during the walk is not seen half way.
AnswerIsPolicy ==
    [][\A h \in Handlers : Answers(h) =>
          (answer'[h] = "sinkhole" <=> Blocks(name[h], blocked, allowed))]_vars

\* A name without a dot, or localhost with one domain, is blocked by a custom
\* rule for this very name only: no list on the network cuts off the host itself.
LocalNamesNeedARule ==
    [][\A h \in Handlers :
          /\ Answers(h) /\ answer'[h] = "sinkhole"
          /\ \/ Len(name[h]) = 1
             \/ Len(name[h]) = 2 /\ name[h][1] \in LocalLabels
          => name[h] \in ruled]_vars
=============================================================================
