------------------------------ MODULE RuleSync ------------------------------
(***************************************************************************)
(* How a rule or a blocklist that an administrator adds on the server      *)
(* reaches the DNS proxy of an agent.                                      *)
(*                                                                         *)
(*   server tables  --SyncRulesFromServer-->  agent tables                 *)
(*   agent tables, list URLs  --LoadFromDB-->  maps in the agent's memory  *)
(*                                                                         *)
(* Two goroutines of the agent run this pipeline: "startup" once after     *)
(* boot, "ticker" forever.  Nothing serialises them.  Each database        *)
(* statement is atomic, because the process has one SQLite connection and  *)
(* rows are read to the end before it is released; the statements of one   *)
(* pass are not, for no transaction surrounds them.                        *)
(*                                                                         *)
(* Names in tables are already normalised (handleAddRule, parseHostsFile). *)
(* entry_count and last_updated, which LoadFromDB writes and nothing on    *)
(* the agent reads, are left out.                                          *)
(***************************************************************************)
EXTENDS RuleMirror

CONSTANTS
    DefaultList,   \* the list seeded into an empty table
    MaxEdits,      \* bound on the server's edits
    MaxFaults,     \* bound on failed fetches, downloads and queries
    MaxCrashes     \* bound on the agent's crashes and shutdowns

ASSUME DefaultListAssumption == DefaultList \in Lists
ASSUME BoundsAssumption == {MaxEdits, MaxFaults, MaxCrashes} \subseteq Nat

VARIABLES
    srvRules,    \* server: dnsfilter_custom_rules
    srvLists,    \* server: dnsfilter_blocklists
    edits,       \* server edits so far
    up,          \* the agent process runs
    rules,       \* agent: dnsfilter_custom_rules
    lists,       \* agent: dnsfilter_blocklists
    pc,          \* where each goroutine is
    todoRules,   \* fetched rules the goroutine has still to insert
    todoLists,   \* lists the goroutine has still to insert or to download
    draft,       \* the maps LoadFromDB is building
    faults,      \* faults so far
    crashes,     \* crashes so far
    \* History variables: which of the server's states a copy was read from.
    snapVer,     \* of the rules the goroutine fetched last
    rulesVer,    \* of the agent's table
    draftVer,    \* of the rules in the draft
    memVer,      \* of the rules in memory
    torn         \* no replacement of the table has run to its end since one
                 \* was cut short (by a crash, by an INSERT that failed), or
                 \* since the agent was installed

runVars  == <<up, crashes>>
srvVars  == <<srvRules, srvLists, hist, edits>>
tblVars  == <<rules, rulesVer, torn, mixed, lists>>
memVars  == <<mem, memVer>>
workVars == <<todoRules, snapVer, todoLists, draft, draftVer>>
vars     == <<srvVars, runVars, tblVars, memVars, pc, workVars, faults>>

Worker == {"startup", "ticker"}

\* The steps of SyncRulesFromServer and of LoadFromDB, in order.
SyncPhase == {"fetchRules", "delete", "insert", "fetchLists", "addLists"}
LoadPhase == {"queryLists", "download", "queryRules", "swap"}
Phase     == {"idle"} \cup SyncPhase \cup LoadPhase

Replacing == \E w \in Worker : pc[w] = "insert"

TypeOK ==
    /\ srvRules \in SUBSET Rule
    /\ srvLists \in SUBSET Lists
    /\ hist \in Seq(SUBSET Rule)
    /\ edits \in 0 .. MaxEdits
    /\ up \in BOOLEAN
    /\ rules \in SUBSET Rule
    /\ lists \in SUBSET Lists
    /\ mem \in Policy
    /\ pc \in [Worker -> Phase]
    /\ todoRules \in [Worker -> SUBSET Rule]
    /\ todoLists \in [Worker -> SUBSET Lists]
    /\ draft \in [Worker -> Policy]
    /\ faults \in 0 .. MaxFaults
    /\ crashes \in 0 .. MaxCrashes
    /\ snapVer \in [Worker -> 1 .. Len(hist)]
    /\ rulesVer \in 1 .. Len(hist)
    /\ draftVer \in [Worker -> 1 .. Len(hist)]
    /\ memVer \in 1 .. Len(hist)
    /\ torn \in BOOLEAN /\ mixed \in BOOLEAN

Init ==
    /\ MirrorInit
    /\ srvRules = FirstRules
    /\ srvLists = {DefaultList}
    /\ edits = 0
    /\ up = FALSE
    /\ rules = {} /\ rulesVer = 1 /\ torn = TRUE   \* never filled yet
    /\ lists = {}
    /\ memVer = 1
    /\ pc = [w \in Worker |-> "idle"]
    /\ todoRules = [w \in Worker |-> {}]
    /\ snapVer = [w \in Worker |-> 1]
    /\ todoLists = [w \in Worker |-> {}]
    /\ draft = [w \in Worker |-> NoPolicy]
    /\ draftVer = [w \in Worker |-> 1]
    /\ faults = 0
    /\ crashes = 0

-----------------------------------------------------------------------------
(***************************************************************************)
(* The server's handlers.  A call that the table's constraints turn into   *)
(* nothing (a duplicate, an unknown id) is a stuttering step.              *)
(***************************************************************************)
SetServerRules(R) ==
    /\ edits < MaxEdits
    /\ edits' = edits + 1
    /\ srvRules' = R
    /\ hist' = Append(hist, R)
    /\ UNCHANGED <<srvLists, runVars, tblVars, memVars, pc, workVars, faults>>

SetServerLists(L) ==
    /\ edits < MaxEdits
    /\ edits' = edits + 1
    /\ srvLists' = L
    /\ UNCHANGED <<srvRules, hist, runVars, tblVars, memVars, pc, workVars, faults>>

AddRule(r) == r \notin srvRules /\ SetServerRules(srvRules \cup {r})

DeleteRule(r) == r \in srvRules /\ SetServerRules(srvRules \ {r})

AddBlocklist(l) == l \notin srvLists /\ SetServerLists(srvLists \cup {l})

DeleteBlocklist(l) == l \in srvLists /\ SetServerLists(srvLists \ {l})

\* The server starts again: Module.Start seeds the default list.
ServerRestart == srvLists = {} /\ SetServerLists({DefaultList})

-----------------------------------------------------------------------------
(***************************************************************************)
(* The agent process.                                                      *)
(***************************************************************************)

\* runAgent: seed the list table, start both goroutines.  The proxy answers
\* from an empty policy until the first swap.
Boot ==
    /\ ~up
    /\ up' = TRUE
    /\ lists' = IF lists = {} THEN {DefaultList} ELSE lists
    /\ pc' = [pc EXCEPT !["startup"] = "fetchRules"]
    /\ UNCHANGED <<srvVars, crashes, rules, rulesVer, torn, mixed, memVars, workVars, faults>>

\* The agent is killed or shut down: memory goes, the tables stay as they are.
Crash ==
    /\ up
    /\ crashes < MaxCrashes
    /\ crashes' = crashes + 1
    /\ up' = FALSE
    /\ torn' = (torn \/ Replacing)
    /\ mem' = NoPolicy /\ memVer' = 1
    /\ pc' = [w \in Worker |-> "idle"]
    /\ todoRules' = [w \in Worker |-> {}]
    /\ todoLists' = [w \in Worker |-> {}]
    /\ draft' = [w \in Worker |-> NoPolicy]
    /\ snapVer' = [w \in Worker |-> 1]
    /\ draftVer' = [w \in Worker |-> 1]
    /\ UNCHANGED <<srvVars, rules, rulesVer, mixed, lists, faults>>

Goto(w, phase) == pc' = [pc EXCEPT ![w] = phase]

Fault == faults < MaxFaults /\ faults' = faults + 1

\* Fault variant of RuleTick: the first tick does not wait for the startup sync.
EagerRuleTick ==
    /\ up
    /\ pc["ticker"] = "idle"
    /\ Goto("ticker", "fetchRules")
    /\ UNCHANGED <<srvVars, runVars, tblVars, memVars, workVars, faults>>

\* The 5-minute ticker.  It first fires 5 minutes after boot, and the context
\* of SyncRulesFromServer gives up after 30 seconds: the startup goroutine has
\* left its sync by then, though not necessarily its downloads (60 s a list).
RuleTick ==
    /\ up
    /\ pc["ticker"] = "idle"
    /\ pc["startup"] \notin SyncPhase
    /\ Goto("ticker", "fetchRules")
    /\ UNCHANGED <<srvVars, runVars, tblVars, memVars, workVars, faults>>

\* The 6-hour ticker, in the same goroutine: a load without a sync.
ListTick ==
    /\ up
    /\ pc["ticker"] = "idle"
    /\ pc["startup"] \notin SyncPhase
    /\ Goto("ticker", "queryLists")
    /\ UNCHANGED <<srvVars, runVars, tblVars, memVars, workVars, faults>>

-----------------------------------------------------------------------------
(***************************************************************************)
(* SyncRulesFromServer(w)                                                  *)
(***************************************************************************)
FetchRules(w) ==
    /\ pc[w] = "fetchRules"
    /\ todoRules' = [todoRules EXCEPT ![w] = srvRules]
    /\ snapVer' = [snapVer EXCEPT ![w] = Len(hist)]
    /\ Goto(w, "delete")
    /\ UNCHANGED <<srvVars, runVars, tblVars, memVars, todoLists, draft, draftVer, faults>>

\* No answer, not 200, not JSON: the table is left as it is.
FetchRulesFails(w) ==
    /\ pc[w] = "fetchRules"
    /\ Fault
    /\ Goto(w, "fetchLists")
    /\ UNCHANGED <<srvVars, runVars, tblVars, memVars, workVars>>

\* Fault variant of DeleteRules: the fetched rules are added to the old ones.
KeepOldRules(w) ==
    /\ pc[w] = "delete"
    /\ rulesVer' = snapVer[w] /\ torn' = FALSE
    /\ Goto(w, IF todoRules[w] = {} THEN "fetchLists" ELSE "insert")
    /\ UNCHANGED <<srvVars, runVars, rules, mixed, lists, memVars, workVars, faults>>

DeleteRules(w) ==
    /\ pc[w] = "delete"
    /\ rules' = {} /\ rulesVer' = snapVer[w] /\ torn' = FALSE
    /\ Goto(w, IF todoRules[w] = {} THEN "fetchLists" ELSE "insert")
    /\ UNCHANGED <<srvVars, runVars, mixed, lists, memVars, workVars, faults>>

\* The error is ignored: the new rules are inserted next to the old ones.
DeleteRulesFails(w) ==
    /\ pc[w] = "delete"
    /\ Fault
    /\ mixed' = TRUE /\ rulesVer' = snapVer[w]
    /\ Goto(w, IF todoRules[w] = {} THEN "fetchLists" ELSE "insert")
    /\ UNCHANGED <<srvVars, runVars, rules, torn, lists, memVars, workVars>>

InsertNext(w, r) ==
    /\ todoRules' = [todoRules EXCEPT ![w] = @ \ {r}]
    /\ Goto(w, IF todoRules[w] = {r} THEN "fetchLists" ELSE "insert")
    /\ UNCHANGED <<srvVars, runVars, rulesVer, mixed, lists, memVars, snapVer, todoLists,
                   draft, draftVer>>

InsertRule(w) ==
    /\ pc[w] = "insert"
    /\ \E r \in todoRules[w] : rules' = rules \cup {r} /\ InsertNext(w, r)
    /\ UNCHANGED <<torn, faults>>

\* The error is ignored, and the rule is missing until the next pass.
InsertRuleFails(w) ==
    /\ pc[w] = "insert"
    /\ \E r \in todoRules[w] : InsertNext(w, r)
    /\ torn' = TRUE
    /\ Fault
    /\ UNCHANGED rules

FetchLists(w) ==
    /\ pc[w] = "fetchLists"
    /\ todoLists' = [todoLists EXCEPT ![w] = srvLists]
    /\ Goto(w, IF srvLists = {} THEN "queryLists" ELSE "addLists")
    /\ UNCHANGED <<srvVars, runVars, tblVars, memVars, todoRules, snapVer, draft, draftVer,
                   faults>>

FetchListsFails(w) ==
    /\ pc[w] = "fetchLists"
    /\ Fault
    /\ Goto(w, "queryLists")
    /\ UNCHANGED <<srvVars, runVars, tblVars, memVars, workVars>>

\* Fault variant of AddList: no LoadFromDB follows the sync.
AddListNoReload(w) ==
    /\ pc[w] = "addLists"
    /\ \E l \in todoLists[w] :
          /\ lists' = lists \cup {l}
          /\ todoLists' = [todoLists EXCEPT ![w] = @ \ {l}]
          /\ Goto(w, IF todoLists[w] = {l} THEN "idle" ELSE "addLists")
    /\ UNCHANGED <<srvVars, runVars, rules, rulesVer, torn, mixed, memVars, todoRules,
                   snapVer, draft, draftVer, faults>>

\* INSERT OR IGNORE: a list the agent has is left alone, and none is removed.
AddList(w) ==
    /\ pc[w] = "addLists"
    /\ \E l \in todoLists[w] :
          /\ lists' = lists \cup {l}
          /\ todoLists' = [todoLists EXCEPT ![w] = @ \ {l}]
          /\ Goto(w, IF todoLists[w] = {l} THEN "queryLists" ELSE "addLists")
    /\ UNCHANGED <<srvVars, runVars, rules, rulesVer, torn, mixed, memVars, todoRules,
                   snapVer, draft, draftVer, faults>>

AddListFails(w) ==
    /\ pc[w] = "addLists"
    /\ Fault
    /\ \E l \in todoLists[w] :
          /\ todoLists' = [todoLists EXCEPT ![w] = @ \ {l}]
          /\ Goto(w, IF todoLists[w] = {l} THEN "queryLists" ELSE "addLists")
    /\ UNCHANGED <<srvVars, runVars, tblVars, memVars, todoRules, snapVer, draft, draftVer>>

-----------------------------------------------------------------------------
(***************************************************************************)
(* LoadFromDB(w)                                                           *)
(***************************************************************************)
\* Fault variant of QueryLists: the maps of the last load are built on.
QueryListsKeepMaps(w) ==
    /\ pc[w] = "queryLists"
    /\ todoLists' = [todoLists EXCEPT ![w] = lists]
    /\ Goto(w, IF lists = {} THEN "queryRules" ELSE "download")
    /\ UNCHANGED <<srvVars, runVars, tblVars, memVars, todoRules, snapVer, draft, draftVer,
                   faults>>

QueryLists(w) ==
    /\ pc[w] = "queryLists"
    /\ todoLists' = [todoLists EXCEPT ![w] = lists]
    /\ draft' = [draft EXCEPT ![w] = NoPolicy]
    /\ Goto(w, IF lists = {} THEN "queryRules" ELSE "download")
    /\ UNCHANGED <<srvVars, runVars, tblVars, memVars, todoRules, snapVer, draftVer, faults>>

DoneWithList(w, l) ==
    /\ todoLists' = [todoLists EXCEPT ![w] = @ \ {l}]
    /\ Goto(w, IF todoLists[w] = {l} THEN "queryRules" ELSE "download")
    /\ UNCHANGED <<srvVars, runVars, tblVars, memVars, todoRules, snapVer, draftVer>>

Download(w) ==
    /\ pc[w] = "download"
    /\ \E l \in todoLists[w] :
          /\ draft' = [draft EXCEPT ![w] = WithList(@, Content[l])]
          /\ DoneWithList(w, l)
    /\ UNCHANGED faults

\* The list is skipped: the maps are built without it.
DownloadFails(w) ==
    /\ pc[w] = "download"
    /\ \E l \in todoLists[w] : DoneWithList(w, l)
    /\ Fault
    /\ UNCHANGED draft

QueryRules(w) ==
    /\ pc[w] = "queryRules"
    /\ draft' = [draft EXCEPT ![w] = WithRules(@, rules)]
    /\ draftVer' = [draftVer EXCEPT ![w] = rulesVer]
    /\ Goto(w, "swap")
    /\ UNCHANGED <<srvVars, runVars, tblVars, memVars, todoRules, snapVer, todoLists, faults>>

\* Either query fails: LoadFromDB returns and memory keeps the old maps.
LoadFails(w) ==
    /\ pc[w] \in {"queryLists", "queryRules"}
    /\ Fault
    /\ Goto(w, "idle")
    /\ UNCHANGED <<srvVars, runVars, tblVars, memVars, workVars>>

Swap(w) ==
    /\ pc[w] = "swap"
    /\ mem' = draft[w] /\ memVer' = draftVer[w]
    /\ Goto(w, "idle")
    /\ UNCHANGED <<srvVars, runVars, tblVars, workVars, faults>>

-----------------------------------------------------------------------------
Server ==
    \/ \E r \in Rule : AddRule(r) \/ DeleteRule(r)
    \/ \E l \in Lists : AddBlocklist(l) \/ DeleteBlocklist(l)
    \/ ServerRestart

SyncStep(w) ==
    \/ FetchRules(w) \/ FetchRulesFails(w) \/ DeleteRules(w) \/ DeleteRulesFails(w)
    \/ InsertRule(w) \/ InsertRuleFails(w)
    \/ FetchLists(w) \/ FetchListsFails(w) \/ AddList(w) \/ AddListFails(w)

LoadStep(w) ==
    \/ QueryLists(w) \/ Download(w) \/ DownloadFails(w) \/ QueryRules(w)
    \/ LoadFails(w) \/ Swap(w)

Work(w) == SyncStep(w) \/ LoadStep(w)

Next ==
    \/ Server
    \/ Boot \/ Crash \/ RuleTick \/ ListTick
    \/ \E w \in Worker : Work(w)

Spec == Init /\ [][Next]_vars

(***************************************************************************)
(* A goroutine that can run does (Go's scheduler; every request has a      *)
(* timeout).  The 5-minute ticker is not starved by the 6-hour one, though *)
(* both wake the same goroutine.  Nobody has to start the agent again.     *)
(***************************************************************************)
Fairness ==
    /\ \A w \in Worker : WF_vars(Work(w))
    /\ SF_vars(RuleTick)

FairSpec == Spec /\ Fairness

-----------------------------------------------------------------------------
(***************************************************************************)
(* Properties                                                              *)
(***************************************************************************)

\* The agent's rule table holds rules of a single fetched snapshot, and all of
\* them unless a replacement is under way or was cut short.  So a fetch that fails
\* leaves the rules alone, and passes of the two goroutines do not mix their
\* snapshots (DELETE and INSERTs share no transaction); only a failed DELETE does.
TableFollowsSnapshot ==
    ~mixed =>
        /\ rules \subseteq hist[rulesVer]
        /\ rules = hist[rulesVer] \/ torn \/ Replacing

\* A swap puts an older rule snapshot in force than the one it replaces only if it is
\* the startup goroutine's one, after downloads that outlast a pass of the ticker: the
\* ticker, at whatever point of the startup its passes come, never brings back rules
\* the administrator has replaced.
PolicyNeverGoesBack ==
    [][up' /\ memVer' < memVer => pc["startup"] = "swap" /\ pc'["startup"] = "idle"]_vars

\* The policy in force is always compiled from one server snapshot: swaps are
\* whole, and tables never mix two snapshots (the promise of RuleMirror).
RefinesMirror == MirrorSpec

\* If the agent stays up, the policy in force ends up being exactly what the
\* server's rules and the agent's lists ask for, and the agent ends up with every
\* list of the server: no interleaving, fault or crash leaves it stale for ever.
MemoryConverges ==
    <>[]up => <>[](mem = Compile(srvRules, lists) /\ srvLists \subseteq lists)

\* "Agents poll the server every 5 minutes for blocklist and custom-rule
\* changes" (README): the policy ends up being what the server's rules and the
\* server's lists ask for.
BlocklistChangesReachAgent ==
    <>[]up => <>[](mem = Compile(srvRules, srvLists))
=============================================================================
