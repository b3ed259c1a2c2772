------------------------------ MODULE AgentLink -----------------------------
(***************************************************************************)
(* An agent and its server: how the agent comes up (runAgent), what its    *)
(* Client says of the connection, and the loop in which it can lock itself *)
(* out: the agent resolves the server's name through its own DNS proxy, so *)
(* a rule against that name, once loaded, stops the very request that      *)
(* would bring the news that the rule is gone.                             *)
(*                                                                         *)
(* What other modules take apart is one step here: the statements of       *)
(* SyncRulesFromServer and LoadFromDB (RuleSync), Configure and Restore    *)
(* (DnsConfig).  Of all rules there is one, that blocks the server's name. *)
(* The first tick of the rule ticker comes five minutes after the startup  *)
(* sync, whose request ends within 30 seconds: it never comes before it.   *)
(***************************************************************************)
EXTENDS Lifecycle

VARIABLES
    rule,      \* the rule is on the server
    phase,     \* how far runAgent has come: before the two requests of Ping,
               \* before the host's DNS is configured, "running"
    dns,       \* the host resolves with its "own" resolvers or the "proxy"
    proxy,     \* the proxy's sockets: "closed", "bound", "failed"
    table,     \* the rule is in the agent's database
    memory,    \* the rule is in force in the proxy
    job,       \* the goroutines that sync the rules: "idle", "sync", "load"
    conn,      \* a connection to the server is open: it needs no name
    flight,    \* the goroutines that send: "idle", "sent", or what came of it
    status,    \* Client.status
    \* History variable.
    cause      \* since the agent's boot the rule was there or the server away

hostVars == <<dns, table>>
procVars == <<phase, proxy, memory, job, conn, flight, status>>
vars == <<serverVars, faults, rule, hostVars, procVars, cause>>

Syncers  == {"startup", "ticker"}
Senders  == {"flows", "json"}   \* SendFlows, and sendJSON for the two others
Outcomes == {"ok", "rejected", "lost"}
Phases   == {"off", "get", "post", "starting", "running"}

TypeOK ==
    /\ ServerTypeOK
    /\ rule \in BOOLEAN
    /\ phase \in Phases
    /\ dns \in {"own", "proxy"}
    /\ proxy \in {"closed", "bound", "failed"}
    /\ table \in BOOLEAN /\ memory \in BOOLEAN
    /\ job \in [Syncers -> {"idle", "sync", "load"}]
    /\ conn \in BOOLEAN
    /\ flight \in [Senders -> {"idle", "sent"} \cup Outcomes]
    /\ status \in {"connected", "disconnected", "connecting"}
    /\ cause \in BOOLEAN

Idle == [g \in Syncers |-> "idle"]
Quiet == [s \in Senders |-> "idle"]

Init ==
    /\ ServerInit
    /\ rule = FALSE
    /\ dns = "own" /\ table = FALSE
    /\ phase = "off" /\ proxy = "closed" /\ memory = FALSE
    /\ job = Idle /\ conn = FALSE /\ flight = Quiet
    /\ status = "disconnected"
    /\ cause = FALSE

\* The process is gone, and its memory, its sockets and its goroutines with it.
Gone ==
    /\ phase' = "off" /\ proxy' = "closed" /\ memory' = FALSE
    /\ job' = Idle /\ conn' = FALSE /\ flight' = Quiet
    /\ status' = "disconnected"
    /\ cause' = FALSE

-----------------------------------------------------------------------------
(***************************************************************************)
(* The server.                                                             *)
(***************************************************************************)
\* What may keep the agent away is noted while it runs.
Note(bad) == cause' = (cause \/ (bad /\ phase # "off"))

ServerBoots ==
    /\ \E given \in Modes : Boot(given) \/ BootDeaf(given)
    /\ UNCHANGED <<rule, hostVars, procVars, cause>>

SetupCompletes ==
    /\ \E mode \in Modes \cup {""} : CompleteSetup(mode)
    /\ UNCHANGED <<rule, hostVars, procVars, cause>>

\* Its connections end with it.
ServerHalts ==
    /\ Halt
    /\ conn' = FALSE
    /\ Note(TRUE)
    /\ UNCHANGED <<rule, hostVars, phase, proxy, memory, job, flight, status>>

\* The administrator adds the rule or takes it away.
EditRule ==
    /\ Serving
    /\ rule' = ~rule
    /\ Note(rule')
    /\ UNCHANGED <<serverVars, faults, hostVars, procVars>>

-----------------------------------------------------------------------------
(***************************************************************************)
(* A request of the agent.                                                 *)
(***************************************************************************)
\* The proxy answers a blocked name with 0.0.0.0.
Resolves == dns = "own" \/ (proxy = "bound" /\ ~memory)

Reaches == Listening /\ (conn \/ Resolves)

\* A server whose modules are not started rejects what is not the platform's.
\* A request that gets an answer leaves a connection behind.
Request(outcome) ==
    /\ \/ outcome = (CASE ~Reaches -> "lost" [] Reaches /\ routes -> "ok" [] OTHER -> "rejected")
          /\ UNCHANGED faults
       \/ Fault /\ outcome \in {"lost"} \cup (IF Reaches THEN {"rejected"} ELSE {})
    /\ conn' = (outcome # "lost")

\* Idle connections are closed, and networks change.
ConnEnds ==
    /\ conn
    /\ conn' = FALSE
    /\ UNCHANGED <<serverVars, faults, rule, hostVars, phase, proxy, memory, job, flight, status, cause>>

-----------------------------------------------------------------------------
(***************************************************************************)
(* The agent comes up and goes down.                                       *)
(***************************************************************************)
\* The preflight checks are passed: otherwise the process ends before it starts.
AgentBoots ==
    /\ phase = "off"
    /\ phase' = "get"
    /\ cause' = (rule \/ ~Serving)
    /\ UNCHANGED <<serverVars, faults, rule, hostVars, proxy, memory, job, conn, flight, status>>

\* Fault variant of PingGet: an answer of the platform is enough.
PingGetOnly ==
    /\ phase = "get"
    /\ \E outcome \in Outcomes :
          /\ Request(outcome)
          /\ status' = IF outcome = "lost" THEN status ELSE "connected"
    /\ phase' = "starting"
    /\ UNCHANGED <<serverVars, rule, hostVars, proxy, memory, job, flight, cause>>

\* Ping: GET /api/modules, which any server answers with 200 ...
PingGet ==
    /\ phase = "get"
    /\ \E outcome \in Outcomes :
          /\ Request(outcome)
          /\ phase' = IF outcome = "lost" THEN "starting" ELSE "post"
    /\ UNCHANGED <<serverVars, rule, hostVars, proxy, memory, job, flight, status, cause>>

\* ... then an empty POST to the ingest.  That it fails is only logged.
PingPost ==
    /\ phase = "post"
    /\ \E outcome \in Outcomes :
          /\ Request(outcome)
          /\ status' = IF outcome = "ok" THEN "connected" ELSE status
    /\ phase' = "starting"
    /\ UNCHANGED <<serverVars, rule, hostVars, proxy, memory, job, flight, cause>>

\* The proxy binds its port in a goroutine of its own ...
Bind ==
    /\ phase \in {"starting", "running"} /\ proxy = "closed"
    /\ \/ proxy' = "bound" /\ UNCHANGED faults
       \/ Fault /\ proxy' = "failed"
    /\ UNCHANGED <<serverVars, rule, hostVars, phase, memory, job, conn, flight, status, cause>>

\* ... for which half a second is enough, unless something is wrong.
Awaited == proxy # "closed" /\ UNCHANGED faults

\* Fault variant of Configure: what the last run has left is loaded at once.
ConfigureWithoutSync ==
    /\ phase = "starting"
    /\ Awaited /\ dns' = "proxy"
    /\ phase' = "running"
    /\ job' = [job EXCEPT !["startup"] = "load"]
    /\ UNCHANGED <<serverVars, rule, table, proxy, memory, conn, flight, status, cause>>

\* Configure, which may fail, and the start of all goroutines.
Configure ==
    /\ phase = "starting"
    /\ \/ Awaited /\ dns' = "proxy"
       \/ Fault /\ dns' \in {dns, "proxy"}
    /\ phase' = "running"
    /\ job' = [job EXCEPT !["startup"] = "sync"]
    /\ UNCHANGED <<serverVars, rule, table, proxy, memory, conn, flight, status, cause>>

\* A signal restores the host's DNS, which after a kill may have been the proxy;
\* Restore may fail too.
AgentStops ==
    /\ phase = "running"
    /\ dns' \in {"own", dns}
    /\ Gone
    /\ UNCHANGED <<serverVars, faults, rule, table>>

AgentDies ==
    /\ phase # "off"
    /\ Gone
    /\ UNCHANGED <<serverVars, faults, rule, hostVars>>

-----------------------------------------------------------------------------
(***************************************************************************)
(* Rules and status.                                                       *)
(***************************************************************************)
\* The ticker goroutine: the rule ticker syncs and loads, the list ticker loads.
Tick ==
    /\ phase = "running"
    /\ job["ticker"] = "idle" /\ job["startup"] # "sync"
    /\ \E what \in {"sync", "load"} : job' = [job EXCEPT !["ticker"] = what]
    /\ UNCHANGED <<serverVars, faults, rule, hostVars, phase, proxy, memory, conn, flight, status, cause>>

\* SyncRulesFromServer: a fetch that fails leaves the table alone.
Sync(g) ==
    /\ job[g] = "sync"
    /\ \E outcome \in Outcomes :
          /\ Request(outcome)
          /\ table' = IF outcome = "ok" THEN rule ELSE table
    /\ job' = [job EXCEPT ![g] = "load"]
    /\ UNCHANGED <<serverVars, rule, dns, phase, proxy, memory, flight, status, cause>>

\* LoadFromDB, which leaves the maps alone when it fails.
Load(g) ==
    /\ job[g] = "load"
    /\ \/ memory' = table /\ UNCHANGED faults
       \/ Fault /\ UNCHANGED memory
    /\ job' = [job EXCEPT ![g] = "idle"]
    /\ UNCHANGED <<serverVars, rule, hostVars, phase, proxy, conn, flight, status, cause>>

\* A ticker of 30 seconds fires.  Only SendFlows announces its request.
Send(s) ==
    /\ phase = "running" /\ flight[s] = "idle"
    /\ flight' = [flight EXCEPT ![s] = "sent"]
    /\ status' = IF s = "flows" THEN "connecting" ELSE status
    /\ UNCHANGED <<serverVars, faults, rule, hostVars, phase, proxy, memory, job, conn, cause>>

Answer(s) ==
    /\ flight[s] = "sent"
    /\ \E outcome \in Outcomes :
          /\ Request(outcome)
          /\ flight' = [flight EXCEPT ![s] = outcome]
    /\ UNCHANGED <<serverVars, rule, hostVars, phase, proxy, memory, job, status, cause>>

\* Fault variant of Shown: an error leaves the status as it is.
ShownOnSuccess(s) == IF flight[s] = "ok" THEN "connected" ELSE status

\* sendJSON does not take a rejection for a disconnection.
Shown(s) ==
    CASE flight[s] = "ok"       -> "connected"
      [] flight[s] = "lost"     -> "disconnected"
      [] flight[s] = "rejected" -> IF s = "flows" THEN "disconnected" ELSE status

\* The sender takes the lock and writes the status, perhaps after a later one.
Finish(s) ==
    /\ flight[s] \in Outcomes
    /\ status' = Shown(s)
    /\ flight' = [flight EXCEPT ![s] = "idle"]
    /\ UNCHANGED <<serverVars, faults, rule, hostVars, phase, proxy, memory, job, conn, cause>>

-----------------------------------------------------------------------------
\* What goes on by itself in an agent that has been started.
AgentRuns ==
    \/ PingGet \/ PingPost \/ Bind \/ Configure
    \/ \E g \in Syncers : Sync(g) \/ Load(g)
    \/ \E s \in Senders : Answer(s) \/ Finish(s)

Next ==
    \/ ServerBoots \/ SetupCompletes \/ ServerHalts \/ EditRule
    \/ ConnEnds
    \/ AgentBoots \/ AgentStops \/ AgentDies
    \/ Tick
    \/ \E s \in Senders : Send(s)
    \/ AgentRuns

Spec == Init /\ [][Next]_vars

\* Requests end, by their timeout of 30 seconds at the latest, and the monitor's
\* ticker sends one every 30 seconds, whatever there is to report.
FairSpec ==
    /\ Spec
    /\ WF_vars(PingGet) /\ WF_vars(PingPost) /\ WF_vars(Bind) /\ WF_vars(Configure)
    /\ WF_vars(Send("json"))
    /\ \A s \in Senders : WF_vars(Answer(s)) /\ WF_vars(Finish(s))

-----------------------------------------------------------------------------
(***************************************************************************)
(* Properties.                                                             *)
(***************************************************************************)
\* The agent has no connection and cannot make one.
CutOff == phase = "running" /\ ~conn /\ ~Resolves

\* An agent that nothing failed in is cut off by its own filter only if, since it
\* was started, the rule was on the server or the server was away: a rule that
\* was taken away before does no harm, because the startup goroutine syncs before
\* it loads (main.go:311) and the proxy starts with an empty filter.
CutOffHasACause == CutOff /\ faults = 0 => cause

\* "Connected" is never shown for a server whose setup is not complete: Ping asks
\* the ingest too, because such a server answers everything of the platform.
ConnectedMeansSetUp == status = "connected" => saved.complete

\* Whatever the order in which three senders write the status, in the end it says
\* the truth: not "connected" when the server is gone, not "disconnected" when an
\* agent that is not cut off has a server that serves.
StatusFollows ==
    /\ <>[]~Listening => <>[](status # "connected")
    /\ <>[](phase = "running" /\ Serving /\ ~CutOff) => <>[](status # "disconnected")
=============================================================================
