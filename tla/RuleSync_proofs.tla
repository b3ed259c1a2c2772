--------------------------- MODULE RuleSync_proofs --------------------------
(***************************************************************************)
(* The safety properties of RuleSync, for any domains, lists and bounds.   *)
(***************************************************************************)
EXTENDS RuleSync, TLAPS

USE ContentAssumption, RuleDomainsAssumption, FirstRulesAssumption,
    DefaultListAssumption, BoundsAssumption

(***************************************************************************)
(* The inductive invariant.                                                *)
(***************************************************************************)

\* The server's table is the last state of its history.
HistInv == Len(hist) >= 1 /\ srvRules = hist[Len(hist)]

\* The ticker goroutine leaves idle only when the startup goroutine has synced,
\* and a stopped agent runs neither.
SerialSync ==
    /\ pc["ticker"] # "idle" => pc["startup"] \notin SyncPhase
    /\ ~up => \A w \in Worker : pc[w] = "idle"

\* A goroutine between its fetch and its last insert holds exactly what is
\* missing from the table, or less once an insert has failed.
ReplaceInv ==
    \A w \in Worker :
        /\ pc[w] = "delete" => /\ todoRules[w] = hist[snapVer[w]]
                               /\ rulesVer <= snapVer[w]
        /\ pc[w] = "insert" /\ ~mixed =>
              /\ rules \cup todoRules[w] \subseteq hist[rulesVer]
              /\ torn \/ rules \cup todoRules[w] = hist[rulesVer]

\* Nothing was read from a later state of the table than its present one, and
\* the ticker's draft from no earlier one.
VersionInv ==
    /\ memVer <= rulesVer
    /\ \A w \in Worker : draftVer[w] <= rulesVer
    /\ pc["ticker"] = "swap" => draftVer["ticker"] = rulesVer

\* p is compiled from some of the rules S and from some lists.
CompiledFrom(p, S) == \E L \in SUBSET Lists : \E R \in SUBSET S : p = Compile(R, L)

\* What a draft holds on the way from its reset to the swap, and memory after it.
DraftInv ==
    /\ ~mixed => CompiledFrom(mem, hist[memVer])
    /\ \A w \in Worker :
        /\ pc[w] \in {"download", "queryRules"} => CompiledFrom(draft[w], {})
        /\ pc[w] = "swap" /\ ~mixed => CompiledFrom(draft[w], hist[draftVer[w]])

IInv ==
    /\ TypeOK
    /\ HistInv /\ SerialSync /\ ReplaceInv /\ TableFollowsSnapshot
    /\ VersionInv /\ DraftInv

-----------------------------------------------------------------------------
(***************************************************************************)
(* Lemmas on policies.                                                     *)
(***************************************************************************)
LEMMA RuleParts ==
    ASSUME NEW R \in SUBSET Rule
    PROVE  BlockedBy(R) \in SUBSET Domains /\ AllowedBy(R) \in SUBSET Domains
  BY DEF BlockedBy, AllowedBy, Rule

LEMMA ListedType ==
    ASSUME NEW L \in SUBSET Lists
    PROVE  ListedIn(L) \in SUBSET Domains
  BY DEF ListedIn

LEMMA NoPolicyIsCompiled == NoPolicy = Compile({}, {})
  BY DEF NoPolicy, Compile, ListedIn, BlockedBy, AllowedBy

\* What lists alone ask for.
LEMMA ListsOnly ==
    ASSUME NEW L
    PROVE  Compile({}, L) = [blocked |-> ListedIn(L), allowed |-> {}]
  <1>1. BlockedBy({}) = {} /\ AllowedBy({}) = {}
    BY DEF BlockedBy, AllowedBy
  <1>2. ListedIn(L) \cup {} = ListedIn(L)
    OBVIOUS
  <1>3. QED
    BY <1>1, <1>2 DEF Compile

\* A download adds one list to what the draft was compiled from.
LEMMA DownloadCompiles ==
    ASSUME NEW L \in SUBSET Lists, NEW l \in Lists
    PROVE  WithList(Compile({}, L), Content[l]) = Compile({}, L \cup {l})
  <1>1. ListedIn(L \cup {l}) = ListedIn(L) \cup Content[l]
    BY DEF ListedIn
  <1> DEFINE D == ListedIn(L \cup {l})
  <1>2. Compile({}, L \cup {l}) = [blocked |-> D, allowed |-> {}]
    BY ListsOnly
  <1>3. Compile({}, L).blocked = ListedIn(L) /\ Compile({}, L).allowed = {}
    BY ListsOnly
  <1>4. QED
    BY <1>1, <1>2, <1>3, Zenon DEF WithList

\* Reading the rules makes a policy of the rules out of one of the lists alone.
LEMMA QueryCompiles ==
    ASSUME NEW L \in SUBSET Lists, NEW R
    PROVE  WithRules(Compile({}, L), R) = Compile(R, L)
  <1>1. {} \cup AllowedBy(R) = AllowedBy(R)
    OBVIOUS
  <1>2. QED
    BY <1>1, ListsOnly DEF WithRules, Compile

-----------------------------------------------------------------------------
(***************************************************************************)
(* TypeOK is an invariant by itself.                                       *)
(***************************************************************************)
LEMMA HistoryGrows ==
    ASSUME NEW R \in SUBSET Rule, hist \in Seq(SUBSET Rule), hist' = Append(hist, R)
    PROVE  /\ hist' \in Seq(SUBSET Rule)
           /\ Len(hist') = Len(hist) + 1
           /\ hist'[Len(hist')] = R
           /\ \A v \in 1 .. Len(hist) : v \in 1 .. Len(hist') /\ hist'[v] = hist[v]
  OBVIOUS

LEMMA TypeInit == Init => TypeOK
  <1> SUFFICES ASSUME Init PROVE TypeOK
    OBVIOUS
  <1>1. NoPolicy \in Policy
    BY DEF NoPolicy, Policy
  <1>2. <<FirstRules>> \in Seq(SUBSET Rule) /\ Len(<<FirstRules>>) = 1
    OBVIOUS
  <1>3. /\ hist \in Seq(SUBSET Rule) /\ Len(hist) = 1
        /\ srvRules \in SUBSET Rule /\ mem \in Policy
        /\ srvLists \in SUBSET Lists /\ mixed \in BOOLEAN
    BY <1>1, <1>2 DEF Init, MirrorInit
  <1>4. MaxEdits \in Nat /\ MaxFaults \in Nat /\ MaxCrashes \in Nat
    OBVIOUS
  <1>5. /\ edits \in 0 .. MaxEdits /\ faults \in 0 .. MaxFaults
        /\ crashes \in 0 .. MaxCrashes /\ 1 \in 1 .. Len(hist)
    BY <1>3, <1>4 DEF Init
  <1>6. /\ pc \in [Worker -> Phase]
        /\ todoRules \in [Worker -> SUBSET Rule]
        /\ todoLists \in [Worker -> SUBSET Lists]
        /\ draft \in [Worker -> Policy]
        /\ snapVer \in [Worker -> 1 .. Len(hist)]
        /\ draftVer \in [Worker -> 1 .. Len(hist)]
    BY <1>1, <1>5 DEF Init, Phase
  <1>7. QED
    BY <1>3, <1>5, <1>6 DEF Init, TypeOK

LEMMA TypeStep ==
    ASSUME TypeOK, [Next]_vars
    PROVE  TypeOK'
  <1> USE DEF TypeOK, srvVars, runVars, tblVars, memVars, workVars, Phase, SyncPhase, LoadPhase, Worker
  <1>0. Len(hist) \in Nat /\ Len(hist) >= 1
    <2>1. Len(hist) \in Nat
      OBVIOUS
    <2>2. rulesVer \in 1 .. Len(hist)
      OBVIOUS
    <2>3. QED
      BY <2>1, <2>2
  <1>1. ASSUME NEW R \in SUBSET Rule, SetServerRules(R)
        PROVE  TypeOK'
    <2>1. /\ hist' \in Seq(SUBSET Rule)
          /\ 1 .. Len(hist) \subseteq 1 .. Len(hist')
      BY <1>1, HistoryGrows DEF SetServerRules
    <2>2. edits' \in 0 .. MaxEdits
      BY <1>1 DEF SetServerRules
    <2>3. QED
      BY <1>1, <2>1, <2>2 DEF SetServerRules
  <1>2. ASSUME NEW L \in SUBSET Lists, SetServerLists(L)
        PROVE  TypeOK'
    BY <1>2 DEF SetServerLists
  <1>3. CASE Boot
    BY <1>3 DEF Boot
  <1>4. CASE Crash
    <2>1. NoPolicy \in Policy
      BY DEF NoPolicy, Policy
    <2>2. torn' \in BOOLEAN
      BY <1>4, Zenon DEF Crash, Replacing
    <2>3. 1 \in 1 .. Len(hist)
      BY <1>0
    <2>4. /\ pc' \in [Worker -> Phase]
          /\ todoRules' \in [Worker -> SUBSET Rule]
          /\ todoLists' \in [Worker -> SUBSET Lists]
      BY <1>4 DEF Crash
    <2>5. draft' \in [Worker -> Policy] /\ mem' \in Policy
      BY <1>4, <2>1 DEF Crash
    <2>6. /\ hist' = hist /\ rulesVer' = rulesVer /\ memVer' = 1
          /\ snapVer' = [w \in Worker |-> 1] /\ draftVer' = [w \in Worker |-> 1]
      BY <1>4 DEF Crash
    <2>7. snapVer' \in [Worker -> 1 .. Len(hist')] /\ draftVer' \in [Worker -> 1 .. Len(hist')]
      BY <2>3, <2>6
    <2>8. crashes' \in 0 .. MaxCrashes
      BY <1>4 DEF Crash
    <2>9. QED
      BY <1>4, <2>2, <2>3, <2>4, <2>5, <2>6, <2>7, <2>8 DEF Crash
  <1>5. CASE RuleTick \/ ListTick
    BY <1>5 DEF RuleTick, ListTick, Goto
  <1>6. ASSUME NEW w \in Worker, SyncStep(w)
        PROVE  TypeOK'
    <2>1. CASE FetchRules(w)
      BY <2>1, <1>0 DEF FetchRules, Goto
    <2>8. CASE FetchRulesFails(w)
      BY <2>8 DEF FetchRulesFails, Goto, Fault
    <2>2. CASE DeleteRules(w)
      BY <2>2 DEF DeleteRules, Goto
    <2>3. CASE InsertRule(w)
      BY <2>3 DEF InsertRule, InsertNext, Goto
    <2>9. CASE DeleteRulesFails(w)
      BY <2>9 DEF DeleteRulesFails, Goto, Fault
    <2>10. CASE InsertRuleFails(w)
      BY <2>10 DEF InsertRuleFails, InsertNext, Goto, Fault
    <2>11. CASE AddListFails(w)
      BY <2>11 DEF AddListFails, Goto, Fault
    <2>4. CASE FetchLists(w)
      BY <2>4 DEF FetchLists, Goto
    <2>5. CASE FetchListsFails(w)
      BY <2>5 DEF FetchListsFails, Goto, Fault
    <2>6. CASE AddList(w)
      BY <2>6 DEF AddList, Goto
    <2>7. QED
      BY <1>6, <2>1, <2>2, <2>3, <2>4, <2>5, <2>6, <2>8, <2>9, <2>10, <2>11 DEF SyncStep
  <1>7. ASSUME NEW w \in Worker, LoadStep(w)
        PROVE  TypeOK'
    <2>1. CASE QueryLists(w)
      <3>1. NoPolicy \in Policy
        BY DEF NoPolicy, Policy
      <3>2. QED
        BY <1>7, <2>1, <3>1 DEF QueryLists, Goto
    <2>2. CASE Download(w)
      <3>1. \A l \in Lists : WithList(draft[w], Content[l]) \in Policy
        BY DEF Policy, WithList
      <3>2. draft' \in [Worker -> Policy]
        BY <2>2, <3>1 DEF Download
      <3>3. QED
        BY <2>2, <3>2 DEF Download, DoneWithList, Goto
    <2>6. CASE DownloadFails(w)
      BY <2>6 DEF DownloadFails, DoneWithList, Goto, Fault
    <2>3. CASE QueryRules(w)
      <3>1. WithRules(draft[w], rules) \in Policy
        BY RuleParts DEF Policy, WithRules
      <3>2. QED
        BY <1>7, <2>3, <3>1 DEF QueryRules, Goto
    <2>4. CASE LoadFails(w) \/ Swap(w)
      BY <1>7, <2>4 DEF LoadFails, Swap, Goto, Fault
    <2>5. QED
      BY <1>7, <2>1, <2>2, <2>3, <2>4, <2>6 DEF LoadStep
  <1>8. CASE UNCHANGED vars
    BY <1>8 DEF vars
  <1>9. QED
    BY <1>1, <1>2, <1>3, <1>4, <1>5, <1>6, <1>7, <1>8
       DEF Next, Server, AddRule, DeleteRule, AddBlocklist, DeleteBlocklist,
           ServerRestart, Work

-----------------------------------------------------------------------------
(***************************************************************************)
(* The rest of the inductive invariant, a lemma for each part.             *)
(***************************************************************************)

\* What a step is.
LEMMA Steps ==
    ASSUME TypeOK, [Next]_vars
    PROVE  \/ \E R \in SUBSET Rule : SetServerRules(R)
           \/ \E L \in SUBSET Lists : SetServerLists(L)
           \/ Boot \/ Crash \/ RuleTick \/ ListTick
           \/ \E w \in Worker : SyncStep(w)
           \/ \E w \in Worker : LoadStep(w)
           \/ UNCHANGED vars
  <1>1. CASE Server
    BY <1>1 DEF TypeOK, Server, AddRule, DeleteRule, AddBlocklist, DeleteBlocklist,
                ServerRestart
  <1>2. QED
    BY <1>1 DEF Next, Work

\* A goroutine moves itself only, and leaves the server alone.
LEMMA SyncMoves ==
    ASSUME TypeOK, NEW w \in Worker, SyncStep(w)
    PROVE  /\ pc[w] \in SyncPhase
           /\ \A v \in Worker \ {w} : pc'[v] = pc[v]
           /\ UNCHANGED <<srvVars, runVars, memVars>>
  <1> USE DEF TypeOK, Goto, SyncPhase, srvVars, runVars, memVars
  <1>1. CASE FetchRules(w) \/ FetchRulesFails(w) \/ DeleteRules(w) \/ DeleteRulesFails(w)
    BY <1>1 DEF FetchRules, FetchRulesFails, DeleteRules, DeleteRulesFails
  <1>2. CASE InsertRule(w) \/ InsertRuleFails(w)
    BY <1>2 DEF InsertRule, InsertRuleFails, InsertNext
  <1>3. CASE FetchLists(w) \/ FetchListsFails(w) \/ AddList(w) \/ AddListFails(w)
    BY <1>3 DEF FetchLists, FetchListsFails, AddList, AddListFails
  <1>4. QED
    BY <1>1, <1>2, <1>3 DEF SyncStep

LEMMA LoadMoves ==
    ASSUME TypeOK, NEW w \in Worker, LoadStep(w)
    PROVE  /\ pc[w] \in LoadPhase
           /\ pc'[w] \in LoadPhase \cup {"idle"}
           /\ \A v \in Worker \ {w} : pc'[v] = pc[v]
           /\ UNCHANGED <<srvVars, runVars, tblVars, todoRules, snapVer>>
  <1> USE DEF TypeOK, Goto, LoadPhase, srvVars, runVars, tblVars
  <1>1. CASE QueryLists(w) \/ QueryRules(w)
    BY <1>1 DEF QueryLists, QueryRules
  <1>2. CASE Download(w) \/ DownloadFails(w)
    BY <1>2 DEF Download, DownloadFails, DoneWithList
  <1>3. CASE LoadFails(w) \/ Swap(w)
    BY <1>3 DEF LoadFails, Swap, workVars
  <1>4. QED
    BY <1>1, <1>2, <1>3 DEF LoadStep

\* Only a DELETE that fails mixes, and nothing undoes it.
LEMMA MixedStep ==
    ASSUME TypeOK, [Next]_vars
    PROVE  mixed' = mixed \/ (mixed' = TRUE /\ \E w \in Worker : DeleteRulesFails(w))
  <1>1. CASE UNCHANGED mixed
    BY <1>1
  <1>2. ASSUME NEW w \in Worker, SyncStep(w)
        PROVE  mixed' = mixed \/ DeleteRulesFails(w)
    BY <1>2 DEF SyncStep, FetchRules, FetchRulesFails, DeleteRules, InsertRule, InsertRuleFails,
                InsertNext, FetchLists, FetchListsFails, AddList, AddListFails, tblVars
  <1>3. ASSUME NEW w \in Worker, DeleteRulesFails(w)
        PROVE  mixed' = TRUE
    BY <1>3 DEF DeleteRulesFails
  <1>4. ASSUME NEW w \in Worker, LoadStep(w)
        PROVE  UNCHANGED mixed
    BY <1>4, LoadMoves DEF tblVars
  <1>5. CASE (\E R \in SUBSET Rule : SetServerRules(R)) \/ (\E L \in SUBSET Lists : SetServerLists(L))
    BY <1>1, <1>5 DEF SetServerRules, SetServerLists, tblVars
  <1>6. CASE Boot \/ Crash \/ RuleTick \/ ListTick \/ UNCHANGED vars
    BY <1>1, <1>6 DEF Boot, Crash, RuleTick, ListTick, tblVars, vars
  <1>7. QED
    BY <1>1, <1>2, <1>3, <1>4, <1>5, <1>6, Steps

LEMMA HistStep ==
    ASSUME TypeOK, HistInv, [Next]_vars
    PROVE  /\ HistInv'
           /\ Len(hist') >= Len(hist)
           /\ \A v \in 1 .. Len(hist) : hist'[v] = hist[v]
  <1>1. CASE \E R \in SUBSET Rule : SetServerRules(R)
    BY <1>1, HistoryGrows DEF TypeOK, HistInv, SetServerRules
  <1>2. CASE UNCHANGED <<hist, srvRules>>
    BY <1>2 DEF TypeOK, HistInv
  <1>3. QED
    BY <1>1, <1>2, Steps, SyncMoves, LoadMoves
       DEF SetServerLists, Boot, Crash, RuleTick, ListTick, srvVars, vars

LEMMA SerialStep ==
    ASSUME TypeOK, SerialSync, [Next]_vars
    PROVE  SerialSync'
  <1> USE DEF SerialSync, Worker, SyncPhase, LoadPhase, runVars
  <1>1. CASE UNCHANGED <<pc, up>>
    BY <1>1
  <1>2. CASE Boot
    BY <1>2 DEF Boot, TypeOK
  <1>3. CASE Crash
    BY <1>3 DEF Crash
  <1>4. CASE RuleTick \/ ListTick
    BY <1>4 DEF RuleTick, ListTick, Goto, TypeOK
  <1>5. ASSUME NEW w \in Worker, SyncStep(w)
        PROVE  SerialSync'
    BY <1>5, SyncMoves
  <1>6. ASSUME NEW w \in Worker, LoadStep(w)
        PROVE  SerialSync'
    BY <1>6, LoadMoves
  <1>7. QED
    BY <1>1, <1>2, <1>3, <1>4, <1>5, <1>6, Steps
       DEF SetServerRules, SetServerLists, vars

\* Nothing but the fetch, the delete and the inserts of the one goroutine that
\* syncs disturbs a replacement of the table.
LEMMA ReplaceStep ==
    ASSUME TypeOK, HistInv, SerialSync, ReplaceInv, [Next]_vars
    PROVE  ReplaceInv'
  <1> USE DEF ReplaceInv, Worker
  <1>0. ASSUME \A v \in 1 .. Len(hist) : hist'[v] = hist[v],
               UNCHANGED <<rules, rulesVer, torn, mixed, snapVer, todoRules>>,
               \A w \in Worker : pc'[w] \in {"delete", "insert"} => pc[w] = pc'[w]
        PROVE  ReplaceInv'
    BY <1>0 DEF TypeOK
  <1>1. CASE \E R \in SUBSET Rule : SetServerRules(R)
    BY <1>0, <1>1, HistStep DEF SetServerRules, tblVars, workVars
  <1>2. CASE \E L \in SUBSET Lists : SetServerLists(L)
    BY <1>0, <1>2 DEF SetServerLists, tblVars, workVars
  <1>3. CASE Boot
    BY <1>0, <1>3 DEF Boot, srvVars, workVars, TypeOK
  <1>4. CASE Crash
    BY <1>4 DEF Crash
  <1>5. CASE RuleTick \/ ListTick
    BY <1>0, <1>5 DEF RuleTick, ListTick, Goto, srvVars, tblVars, workVars, TypeOK
  <1>6. ASSUME NEW w \in Worker, SyncStep(w)
        PROVE  ReplaceInv'
    <2>1. \A v \in Worker \ {w} : pc'[v] \notin {"delete", "insert"}
      BY <1>6, SyncMoves DEF SerialSync, SyncPhase, TypeOK
    <2>2. CASE FetchRules(w)
      <3>1. /\ todoRules'[w] = hist[Len(hist)] /\ snapVer'[w] = Len(hist)
            /\ pc'[w] = "delete" /\ hist' = hist /\ rulesVer' = rulesVer
        BY <2>2 DEF FetchRules, Goto, HistInv, TypeOK, srvVars, tblVars
      <3>2. rulesVer <= Len(hist)
        BY DEF TypeOK
      <3>3. QED
        BY <2>1, <3>1, <3>2
    <2>3. CASE DeleteRules(w)
      <3>1. /\ rules' = {} /\ rulesVer' = snapVer[w] /\ todoRules' = todoRules
            /\ pc'[w] # "delete" /\ hist' = hist /\ todoRules[w] = hist[snapVer[w]]
        BY <2>3 DEF DeleteRules, Goto, TypeOK, srvVars, workVars
      <3>2. QED
        BY <2>1, <3>1
    <2>4. CASE InsertRule(w)
      <3>1. PICK r \in todoRules[w] :
               /\ rules' = rules \cup {r} /\ todoRules'[w] = todoRules[w] \ {r}
               /\ pc'[w] # "delete" /\ UNCHANGED <<hist, rulesVer, mixed, torn>>
        BY <2>4 DEF InsertRule, InsertNext, Goto, TypeOK, srvVars
      <3>2. ~mixed => /\ rules \cup todoRules[w] \subseteq hist[rulesVer]
                      /\ torn \/ rules \cup todoRules[w] = hist[rulesVer]
        BY <2>4 DEF InsertRule
      <3>3. rules' \cup todoRules'[w] = rules \cup todoRules[w]
        BY <3>1
      <3>4. QED
        BY <2>1, <3>1, <3>2, <3>3
    <2>8. CASE DeleteRulesFails(w)
      BY <2>1, <2>8 DEF DeleteRulesFails, Goto, TypeOK
    <2>9. CASE InsertRuleFails(w)
      <3>1. PICK r \in todoRules[w] :
               /\ rules' = rules /\ todoRules'[w] = todoRules[w] \ {r} /\ torn' = TRUE
               /\ pc'[w] # "delete" /\ UNCHANGED <<hist, rulesVer, mixed>>
        BY <2>9 DEF InsertRuleFails, InsertNext, Goto, TypeOK, srvVars
      <3>2. ~mixed => rules \cup todoRules[w] \subseteq hist[rulesVer]
        BY <2>9 DEF InsertRuleFails
      <3>3. QED
        BY <2>1, <3>1, <3>2
    <2>5. CASE FetchLists(w) \/ AddList(w) \/ AddListFails(w)
      BY <2>1, <2>5 DEF FetchLists, AddList, AddListFails, Goto, TypeOK
    <2>6. CASE FetchRulesFails(w) \/ FetchListsFails(w)
      BY <2>1, <2>6 DEF FetchRulesFails, FetchListsFails, Goto, TypeOK
    <2>7. QED
      BY <1>6, <2>2, <2>3, <2>4, <2>5, <2>6, <2>8, <2>9 DEF SyncStep
  <1>7. ASSUME NEW w \in Worker, LoadStep(w)
        PROVE  ReplaceInv'
    BY <1>0, <1>7, LoadMoves DEF LoadPhase, srvVars, tblVars
  <1>8. CASE UNCHANGED vars
    BY <1>0, <1>8 DEF vars, srvVars, tblVars, workVars
  <1>9. QED
    BY <1>1, <1>2, <1>3, <1>4, <1>5, <1>6, <1>7, <1>8, Steps

LEMMA TableStep ==
    ASSUME TypeOK, HistInv, SerialSync, ReplaceInv, TableFollowsSnapshot, [Next]_vars
    PROVE  TableFollowsSnapshot'
  <1> USE DEF TableFollowsSnapshot, Replacing, Worker
  <1>0. ASSUME \A v \in 1 .. Len(hist) : hist'[v] = hist[v],
               UNCHANGED <<rules, rulesVer, torn, mixed>>,
               \A w \in Worker : pc[w] = "insert" => pc'[w] = "insert"
        PROVE  TableFollowsSnapshot'
    BY <1>0 DEF TypeOK
  <1>1. CASE \E R \in SUBSET Rule : SetServerRules(R)
    BY <1>0, <1>1, HistStep DEF SetServerRules, tblVars
  <1>2. CASE \E L \in SUBSET Lists : SetServerLists(L)
    BY <1>0, <1>2 DEF SetServerLists, tblVars
  <1>3. CASE Boot
    <2>1. \A w \in Worker : pc[w] = "idle"
      BY <1>3 DEF Boot, SerialSync
    <2>2. QED
      BY <1>0, <1>3, <2>1 DEF Boot, srvVars
  <1>4. CASE Crash
    BY <1>4 DEF Crash, srvVars
  <1>5. CASE RuleTick \/ ListTick
    BY <1>0, <1>5 DEF RuleTick, ListTick, Goto, srvVars, tblVars, TypeOK
  <1>6. ASSUME NEW w \in Worker, SyncStep(w)
        PROVE  TableFollowsSnapshot'
    <2>2. CASE DeleteRules(w)
      <3>1. /\ rules' = {} /\ rulesVer' = snapVer[w] /\ hist' = hist
            /\ pc'[w] = "insert" \/ hist[snapVer[w]] = {}
        BY <2>2 DEF DeleteRules, Goto, TypeOK, ReplaceInv, srvVars
      <3>2. QED
        BY <3>1
    <2>3. CASE InsertRule(w)
      <3>1. PICK r \in todoRules[w] :
               /\ rules' = rules \cup {r} /\ UNCHANGED <<hist, rulesVer, mixed, torn>>
               /\ pc'[w] = "insert" \/ todoRules[w] = {r}
        BY <2>3 DEF InsertRule, InsertNext, Goto, TypeOK, srvVars
      <3>2. ~mixed => /\ rules \cup todoRules[w] \subseteq hist[rulesVer]
                      /\ torn \/ rules \cup todoRules[w] = hist[rulesVer]
        BY <2>3 DEF InsertRule, ReplaceInv
      <3>3. QED
        BY <3>1, <3>2
    <2>8. CASE DeleteRulesFails(w)
      BY <2>8 DEF DeleteRulesFails
    <2>9. CASE InsertRuleFails(w)
      <3>1. rules' = rules /\ UNCHANGED <<hist, rulesVer, mixed>> /\ torn' = TRUE
        BY <2>9 DEF InsertRuleFails, InsertNext, srvVars
      <3>2. QED
        BY <3>1
    <2>4. CASE FetchRules(w)
      BY <1>0, <2>4 DEF FetchRules, Goto, TypeOK, srvVars, tblVars
    <2>5. CASE FetchLists(w) \/ AddList(w) \/ AddListFails(w)
      BY <1>0, <2>5 DEF FetchLists, AddList, AddListFails, Goto, TypeOK, srvVars, tblVars
    <2>6. CASE FetchRulesFails(w) \/ FetchListsFails(w)
      BY <1>0, <2>6 DEF FetchRulesFails, FetchListsFails, Goto, TypeOK, srvVars, tblVars
    <2>7. QED
      BY <1>6, <2>2, <2>3, <2>4, <2>5, <2>6, <2>8, <2>9 DEF SyncStep
  <1>7. ASSUME NEW w \in Worker, LoadStep(w)
        PROVE  TableFollowsSnapshot'
    BY <1>0, <1>7, LoadMoves DEF LoadPhase, srvVars, tblVars
  <1>8. CASE UNCHANGED vars
    BY <1>0, <1>8 DEF vars, srvVars, tblVars
  <1>9. QED
    BY <1>1, <1>2, <1>3, <1>4, <1>5, <1>6, <1>7, <1>8, Steps

\* A fetch reads a state of the server no older than the one the table is from.
LEMMA VersionStep ==
    ASSUME TypeOK, HistInv, SerialSync, ReplaceInv, VersionInv, [Next]_vars
    PROVE  VersionInv'
  <1> USE DEF VersionInv, Worker
  <1>0. ASSUME UNCHANGED <<rulesVer, memVer, draftVer>>,
               pc'["ticker"] = "swap" => pc["ticker"] = "swap"
        PROVE  VersionInv'
    BY <1>0
  <1>1. CASE \E R \in SUBSET Rule : SetServerRules(R)
    BY <1>0, <1>1 DEF SetServerRules, tblVars, workVars, memVars
  <1>2. CASE \E L \in SUBSET Lists : SetServerLists(L)
    BY <1>0, <1>2 DEF SetServerLists, tblVars, workVars, memVars
  <1>3. CASE Boot
    BY <1>0, <1>3 DEF Boot, memVars, workVars, TypeOK
  <1>4. CASE Crash
    BY <1>4 DEF Crash, TypeOK
  <1>5. CASE RuleTick \/ ListTick
    BY <1>0, <1>5 DEF RuleTick, ListTick, Goto, tblVars, workVars, memVars, TypeOK
  <1>6. ASSUME NEW w \in Worker, SyncStep(w)
        PROVE  VersionInv'
    <2>1. CASE FetchRules(w) \/ FetchRulesFails(w)
      BY <1>0, <2>1 DEF FetchRules, FetchRulesFails, Goto, TypeOK, tblVars, memVars, workVars
    <2>5. CASE InsertRule(w) \/ InsertRuleFails(w)
      BY <1>0, <2>5 DEF InsertRule, InsertRuleFails, InsertNext, Goto, TypeOK, memVars
    <2>2. CASE FetchLists(w) \/ FetchListsFails(w) \/ AddList(w) \/ AddListFails(w)
      BY <1>0, <2>2 DEF FetchLists, FetchListsFails, AddList, AddListFails, Goto, TypeOK,
                        tblVars, memVars, workVars
    <2>3. CASE DeleteRules(w) \/ DeleteRulesFails(w)
      <3>1. /\ rulesVer' = snapVer[w] /\ rulesVer <= snapVer[w]
            /\ memVer' = memVer /\ draftVer' = draftVer
        BY <2>3 DEF DeleteRules, DeleteRulesFails, ReplaceInv, memVars, workVars
      <3>2. pc'["ticker"] # "swap"
        BY <2>3, SyncMoves, <1>6 DEF DeleteRules, DeleteRulesFails, Goto, SerialSync,
                                     SyncPhase, TypeOK
      <3>3. rulesVer \in Nat /\ memVer \in Nat /\ snapVer[w] \in Nat
            /\ \A v \in Worker : draftVer[v] \in Nat
        BY DEF TypeOK
      <3>4. QED
        BY <3>1, <3>2, <3>3
    <2>4. QED
      BY <1>6, <2>1, <2>2, <2>3, <2>5 DEF SyncStep
  <1>7. ASSUME NEW w \in Worker, LoadStep(w)
        PROVE  VersionInv'
    <2>1. CASE QueryRules(w)
      BY <2>1 DEF QueryRules, Goto, TypeOK, tblVars, memVars
    <2>2. CASE Swap(w)
      BY <2>2 DEF Swap, Goto, TypeOK, tblVars, workVars
    <2>3. CASE QueryLists(w) \/ Download(w) \/ DownloadFails(w) \/ LoadFails(w)
      BY <1>0, <2>3 DEF QueryLists, Download, DownloadFails, DoneWithList, LoadFails,
                        Goto, TypeOK, tblVars, memVars, workVars
    <2>4. QED
      BY <1>7, <2>1, <2>2, <2>3 DEF LoadStep
  <1>8. CASE UNCHANGED vars
    BY <1>0, <1>8 DEF vars, tblVars, memVars, workVars
  <1>9. QED
    BY <1>1, <1>2, <1>3, <1>4, <1>5, <1>6, <1>7, <1>8, Steps

LEMMA CompiledFromLists ==
    ASSUME NEW p, CompiledFrom(p, {})
    PROVE  \E L \in SUBSET Lists : p = Compile({}, L)
  BY DEF CompiledFrom

\* Each step of LoadFromDB leaves the draft compiled from what it has read.
LEMMA DraftStep ==
    ASSUME TypeOK, HistInv, SerialSync, TableFollowsSnapshot, DraftInv, [Next]_vars
    PROVE  DraftInv'
  <1> USE DEF DraftInv, Worker
  <1>0. ASSUME \A v \in 1 .. Len(hist) : hist'[v] = hist[v],
               UNCHANGED <<mem, memVer, draft, draftVer>>, mixed => mixed',
               \A w \in Worker : pc'[w] \in LoadPhase \ {"queryLists"} => pc[w] = pc'[w]
        PROVE  DraftInv'
    <2>1. /\ memVer \in 1 .. Len(hist)
          /\ \A w \in Worker : draftVer[w] \in 1 .. Len(hist)
      BY DEF TypeOK
    <2>2. /\ hist'[memVer'] = hist[memVer]
          /\ \A w \in Worker : hist'[draftVer'[w]] = hist[draftVer[w]]
      BY <1>0, <2>1
    <2>3. ~mixed' => CompiledFrom(mem, hist[memVer])'
      BY <1>0, <2>2 DEF CompiledFrom
    <2>4. ASSUME NEW w \in Worker, pc'[w] = "swap", ~mixed'
          PROVE  CompiledFrom(draft[w], hist[draftVer[w]])'
      BY <1>0, <2>2, <2>4 DEF CompiledFrom, LoadPhase
    <2>5. ASSUME NEW w \in Worker, pc'[w] \in {"download", "queryRules"}
          PROVE  CompiledFrom(draft[w], {})'
      BY <1>0, <2>5 DEF CompiledFrom, LoadPhase
    <2>6. QED
      BY <2>3, <2>4, <2>5
  <1>1. CASE \E R \in SUBSET Rule : SetServerRules(R)
    <2>1. UNCHANGED <<mem, memVer, draft, draftVer, mixed, pc>>
      BY <1>1 DEF SetServerRules, memVars, workVars, tblVars
    <2>2. QED
      BY <1>0, <2>1, HistStep
  <1>2. CASE \E L \in SUBSET Lists : SetServerLists(L)
    BY <1>0, <1>2 DEF SetServerLists, memVars, workVars, tblVars
  <1>3. CASE Boot
    BY <1>0, <1>3 DEF Boot, memVars, srvVars, workVars, TypeOK, LoadPhase
  <1>4. CASE Crash
    <2>1. CompiledFrom(NoPolicy, hist[1])
      BY NoPolicyIsCompiled DEF CompiledFrom
    <2>2. QED
      BY <1>4, <2>1 DEF Crash, srvVars, CompiledFrom
  <1>5. CASE RuleTick \/ ListTick
    BY <1>0, <1>5 DEF RuleTick, ListTick, Goto, srvVars, tblVars, workVars, memVars, TypeOK,
                      LoadPhase
  <1>6. ASSUME NEW w \in Worker, SyncStep(w)
        PROVE  DraftInv'
    <2> USE DEF Goto, TypeOK, srvVars, memVars, workVars, LoadPhase
    <2>1. CASE FetchRules(w) \/ FetchRulesFails(w)
      BY <1>0, <2>1 DEF FetchRules, FetchRulesFails, tblVars
    <2>2. CASE DeleteRules(w) \/ DeleteRulesFails(w)
      BY <1>0, <2>2 DEF DeleteRules, DeleteRulesFails
    <2>3. CASE FetchLists(w) \/ FetchListsFails(w) \/ AddList(w) \/ AddListFails(w)
      BY <1>0, <2>3 DEF FetchLists, FetchListsFails, AddList, AddListFails, tblVars
    <2>5. CASE InsertRule(w) \/ InsertRuleFails(w)
      BY <1>0, <2>5 DEF InsertRule, InsertRuleFails, InsertNext
    <2>4. QED
      BY <1>6, <2>1, <2>2, <2>3, <2>5 DEF SyncStep
  <1>7. ASSUME NEW w \in Worker, LoadStep(w)
        PROVE  DraftInv'
    <2>0. UNCHANGED mixed
      BY <1>7, LoadMoves DEF tblVars
    <2>1. CASE QueryLists(w)
      <3>1. CompiledFrom(NoPolicy, {})
        BY NoPolicyIsCompiled DEF CompiledFrom
      <3>2. /\ draft'[w] = NoPolicy /\ \A v \in Worker \ {w} : draft'[v] = draft[v]
            /\ UNCHANGED <<hist, mem, memVer, draftVer>>
            /\ pc'[w] # "swap" /\ \A v \in Worker \ {w} : pc'[v] = pc[v]
        BY <2>1 DEF QueryLists, Goto, TypeOK, srvVars, memVars
      <3>3. QED
        BY <2>0, <3>1, <3>2 DEF CompiledFrom
    <2>2. CASE Download(w)
      <3>1. PICK l \in Lists :
               /\ draft'[w] = WithList(draft[w], Content[l])
               /\ \A v \in Worker \ {w} : draft'[v] = draft[v] /\ pc'[v] = pc[v]
               /\ UNCHANGED <<hist, mem, memVer, draftVer>>
               /\ pc'[w] # "swap" /\ pc[w] = "download"
        BY <2>2 DEF Download, DoneWithList, Goto, TypeOK, srvVars, memVars
      <3>2. PICK L \in SUBSET Lists : draft[w] = Compile({}, L)
        BY <3>1, CompiledFromLists
      <3>3. draft'[w] = Compile({}, L \cup {l})
        BY <3>1, <3>2, DownloadCompiles
      <3>4. CompiledFrom(draft'[w], {})
        BY <3>3 DEF CompiledFrom
      <3>5. QED
        BY <2>0, <3>1, <3>4 DEF CompiledFrom
    <2>3. CASE QueryRules(w)
      <3>1. /\ draft'[w] = WithRules(draft[w], rules) /\ draftVer'[w] = rulesVer
            /\ \A v \in Worker \ {w} : /\ draft'[v] = draft[v] /\ pc'[v] = pc[v]
                                       /\ draftVer'[v] = draftVer[v]
            /\ UNCHANGED <<hist, mem, memVer>>
            /\ pc'[w] = "swap" /\ pc[w] = "queryRules"
        BY <2>3 DEF QueryRules, Goto, TypeOK, srvVars, memVars
      <3>2. PICK L \in SUBSET Lists : draft[w] = Compile({}, L)
        BY <3>1, CompiledFromLists
      <3>3. draft'[w] = Compile(rules, L) /\ (~mixed => rules \in SUBSET hist[rulesVer])
        BY <3>1, <3>2, QueryCompiles DEF TableFollowsSnapshot
      <3>4. ~mixed => CompiledFrom(draft'[w], hist'[draftVer'[w]])
        BY <3>1, <3>3 DEF CompiledFrom
      <3>5. QED
        BY <2>0, <3>1, <3>4 DEF CompiledFrom
    <2>4. CASE Swap(w)
      <3>1. /\ mem' = draft[w] /\ memVer' = draftVer[w] /\ pc[w] = "swap" /\ pc'[w] = "idle"
            /\ \A v \in Worker \ {w} : pc'[v] = pc[v]
            /\ UNCHANGED <<hist, draft, draftVer>>
        BY <2>4 DEF Swap, Goto, TypeOK, srvVars, workVars
      <3>2. QED
        BY <2>0, <3>1 DEF CompiledFrom
    <2>5. CASE DownloadFails(w)
      <3>1. /\ \A v \in Worker \ {w} : pc'[v] = pc[v]
            /\ UNCHANGED <<hist, mem, memVer, draft, draftVer>>
            /\ pc'[w] # "swap" /\ pc[w] = "download"
        BY <2>5 DEF DownloadFails, DoneWithList, Goto, TypeOK, srvVars, memVars
      <3>2. QED
        BY <2>0, <3>1 DEF CompiledFrom
    <2>6. CASE LoadFails(w)
      BY <1>0, <2>0, <2>6 DEF LoadFails, Goto, TypeOK, srvVars, memVars, workVars, LoadPhase
    <2>7. QED
      BY <1>7, <2>1, <2>2, <2>3, <2>4, <2>5, <2>6 DEF LoadStep
  <1>8. CASE UNCHANGED vars
    BY <1>0, <1>8 DEF vars, srvVars, tblVars, memVars, workVars
  <1>9. QED
    BY <1>1, <1>2, <1>3, <1>4, <1>5, <1>6, <1>7, <1>8, Steps

-----------------------------------------------------------------------------
(***************************************************************************)
(* The theorems.                                                           *)
(***************************************************************************)

\* Every state of the pipeline is a state the program's tables and maps can be
\* in: versions name states of the server, maps hold domains.
THEOREM TypeCorrect == Spec => []TypeOK
  <1>1. TypeOK /\ [Next]_vars => TypeOK'
    BY TypeStep
  <1>2. QED
    BY <1>1, TypeInit, PTL DEF Spec

LEMMA InvInit == Init => IInv
  <1> SUFFICES ASSUME Init PROVE IInv
    OBVIOUS
  <1>1. TypeOK
    BY TypeInit
  <1>2. HistInv /\ TableFollowsSnapshot
    BY DEF Init, MirrorInit, HistInv, TableFollowsSnapshot
  <1>3. SerialSync /\ ReplaceInv
    BY DEF Init, SerialSync, ReplaceInv, SyncPhase, Worker
  <1>4. VersionInv
    BY DEF Init, VersionInv, Worker
  <1>5. DraftInv
    BY NoPolicyIsCompiled DEF Init, MirrorInit, DraftInv, CompiledFrom, Worker
  <1>6. QED
    BY <1>1, <1>2, <1>3, <1>4, <1>5 DEF IInv

LEMMA InvStep == IInv /\ [Next]_vars => IInv'
  BY TypeStep, HistStep, SerialStep, ReplaceStep, TableStep, VersionStep, DraftStep DEF IInv

LEMMA InvAlways == Spec => []IInv
  BY InvInit, InvStep, PTL DEF Spec

\* The agent's rule table follows one fetched snapshot at a time: neither a
\* failed fetch nor the other goroutine makes it a mixture, nor an INSERT that
\* fails, but only a DELETE that does.
THEOREM TableFollows == Spec => []TableFollowsSnapshot
  <1>1. IInv => TableFollowsSnapshot
    BY DEF IInv
  <1>2. QED
    BY <1>1, InvAlways, PTL

\* No swap goes back to older rules but the one of the startup goroutine.
THEOREM NeverBack == Spec => PolicyNeverGoesBack
  <1>1. ASSUME IInv, [Next]_vars
        PROVE  [up' /\ memVer' < memVer => pc["startup"] = "swap" /\ pc'["startup"] = "idle"]_vars
    <2>0. memVer \in Nat /\ rulesVer \in Nat /\ pc \in [Worker -> Phase]
      BY <1>1 DEF IInv, TypeOK
    <2>1. ASSUME UNCHANGED memVer
          PROVE  ~(memVer' < memVer)
      BY <2>0, <2>1
    <2>2. CASE Crash
      BY <2>2 DEF Crash
    <2>3. ASSUME NEW w \in Worker, LoadStep(w), memVer' < memVer
          PROVE  pc["startup"] = "swap" /\ pc'["startup"] = "idle"
      <3>1. CASE Swap(w)
        <4>1. memVer <= rulesVer /\ (pc["ticker"] = "swap" => draftVer["ticker"] = rulesVer)
          BY <1>1 DEF IInv, VersionInv
        <4>2. w # "ticker"
          BY <2>0, <2>3, <3>1, <4>1 DEF Swap
        <4>3. w = "startup"
          BY <2>3, <4>2 DEF Worker
        <4>4. QED
          BY <2>0, <3>1, <4>3 DEF Swap, Goto, Worker
      <3>2. CASE QueryLists(w) \/ Download(w) \/ DownloadFails(w) \/ QueryRules(w)
        BY <2>1, <2>3, <3>2 DEF QueryLists, Download, DownloadFails, DoneWithList, QueryRules, memVars
      <3>3. CASE LoadFails(w)
        BY <2>1, <2>3, <3>3 DEF LoadFails, memVars
      <3>4. QED
        BY <2>3, <3>1, <3>2, <3>3 DEF LoadStep
    <2>4. ASSUME NEW w \in Worker, SyncStep(w)
          PROVE  ~(memVer' < memVer)
      BY <1>1, <2>1, <2>4, SyncMoves DEF memVars, IInv
    <2>5. CASE (\E R \in SUBSET Rule : SetServerRules(R)) \/ (\E L \in SUBSET Lists : SetServerLists(L))
      BY <2>1, <2>5 DEF SetServerRules, SetServerLists, memVars
    <2>6. CASE Boot \/ RuleTick \/ ListTick
      BY <2>1, <2>6 DEF Boot, RuleTick, ListTick, memVars
    <2>7. QED
      BY <1>1, <2>1, <2>2, <2>3, <2>4, <2>5, <2>6, Steps DEF IInv, vars, memVars
  <1>2. QED
    BY <1>1, InvAlways, PTL DEF Spec, PolicyNeverGoesBack

\* The agent implements RuleMirror: the policy in force is always compiled from
\* rules the server held together, as long as no DELETE has failed.
THEOREM MirrorsServer == Spec => RefinesMirror
  <1>1. Init => MirrorInit
    BY DEF Init
  <1>2. ASSUME IInv, [Next]_vars
        PROVE  [MirrorNext]_<<hist, mem, mixed>>
    <2> USE DEF MirrorNext
    <2>1. CASE \E R \in SUBSET Rule : SetServerRules(R)
      BY <2>1 DEF SetServerRules, Edit, memVars, tblVars
    <2>2. CASE \E L \in SUBSET Lists : SetServerLists(L)
      BY <2>2 DEF SetServerLists, memVars, tblVars
    <2>3. CASE Crash
      BY <2>3 DEF Crash, Forget, srvVars
    <2>4. CASE Boot \/ RuleTick \/ ListTick
      BY <2>4 DEF Boot, RuleTick, ListTick, srvVars, memVars, tblVars
    <2>5. ASSUME NEW w \in Worker, SyncStep(w)
          PROVE  Mix \/ UNCHANGED <<hist, mem, mixed>>
      <3>1. UNCHANGED <<hist, mem>>
        BY <1>2, <2>5, SyncMoves DEF IInv, srvVars, memVars
      <3>2. mixed' = mixed \/ mixed' = TRUE
        BY <1>2, MixedStep DEF IInv
      <3>3. QED
        BY <3>1, <3>2 DEF Mix
    <2>6. ASSUME NEW w \in Worker, Swap(w)
          PROVE  Publish
      <3>1. mem' = draft[w] /\ UNCHANGED <<hist, mixed>>
        BY <2>6 DEF Swap, srvVars, tblVars
      <3>2. /\ ~mixed => CompiledFrom(draft[w], hist[draftVer[w]])
            /\ draftVer[w] \in 1 .. Len(hist) /\ draft[w] \in Policy
        BY <1>2, <2>6 DEF Swap, IInv, DraftInv, TypeOK
      <3>3. QED
        BY <3>1, <3>2 DEF CompiledFrom, Publish
    <2>7. ASSUME NEW w \in Worker, LoadStep(w)
          PROVE  Publish \/ UNCHANGED <<hist, mem, mixed>>
      <3>1. CASE QueryLists(w) \/ Download(w) \/ DownloadFails(w) \/ QueryRules(w)
        BY <3>1 DEF QueryLists, Download, DownloadFails, DoneWithList, QueryRules, srvVars, memVars,
                   tblVars
      <3>2. CASE LoadFails(w)
        BY <3>2 DEF LoadFails, srvVars, memVars, tblVars
      <3>3. QED
        BY <2>6, <2>7, <3>1, <3>2 DEF LoadStep
    <2>8. CASE UNCHANGED vars
      BY <2>8 DEF vars, srvVars, memVars, tblVars
    <2>9. QED
      BY <1>2, <2>1, <2>2, <2>3, <2>4, <2>5, <2>7, <2>8, Steps DEF IInv
  <1>3. QED
    BY <1>1, <1>2, InvAlways, PTL DEF Spec, RefinesMirror, MirrorSpec
=============================================================================
