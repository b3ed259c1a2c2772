-------------------------- MODULE AgentLink_proofs --------------------------
(***************************************************************************)
(* Proofs of the safety properties of AgentLink, for any number of         *)
(* failures.                                                               *)
(***************************************************************************)
EXTENDS AgentLink, TLAPS

\* A failure is counted, and the count keeps its bound.
LEMMA FaultCounts ==
    ASSUME faults \in 0 .. MaxFaults, Fault
    PROVE  faults' \in 0 .. MaxFaults /\ faults' # 0
  BY LifecycleBoundsAssumption DEF Fault

\* What a request does, whoever sends it: an answer of a module comes from a
\* server whose modules are started, and without a failure every request that
\* reaches such a server gets one.
LEMMA RequestFacts ==
    ASSUME TypeOK, NEW outcome \in Outcomes, Request(outcome)
    PROVE  /\ faults' \in 0 .. MaxFaults
           /\ conn' \in BOOLEAN
           /\ outcome = "ok" => routes
           /\ faults' = 0 => faults = 0 /\ (Reaches /\ routes => outcome = "ok")
<1>1. CASE outcome = (CASE ~Reaches -> "lost" [] Reaches /\ routes -> "ok" [] OTHER -> "rejected")
           /\ UNCHANGED faults
  <2>1. outcome = "ok" => routes
    BY <1>1
  <2>2. Reaches /\ routes => outcome = "ok"
    BY <1>1
  <2> QED
    BY <1>1, <2>1, <2>2 DEF TypeOK, ServerTypeOK, Request
<1>2. CASE Fault /\ outcome \in {"lost"} \cup (IF Reaches THEN {"rejected"} ELSE {})
  <2>1. faults' \in 0 .. MaxFaults /\ faults' # 0
    BY <1>2, FaultCounts DEF TypeOK, ServerTypeOK
  <2>2. outcome # "ok"
    BY <1>2
  <2> QED
    BY <2>1, <2>2 DEF Request
<1> QED
  BY <1>1, <1>2 DEF Request

-----------------------------------------------------------------------------
(***************************************************************************)
(* Types                                                                   *)
(***************************************************************************)
\* The server's part of the type is disturbed by the steps of the server only.
LEMMA ServerKept ==
    ASSUME TypeOK, UNCHANGED serverVars, faults' \in 0 .. MaxFaults
    PROVE  ServerTypeOK'
  BY DEF TypeOK, ServerTypeOK, serverVars

LEMMA CountTyped == TypeOK => faults \in 0 .. MaxFaults
  BY DEF TypeOK, ServerTypeOK

LEMMA ServerStepTypes ==
    ASSUME TypeOK,
           \/ \E given \in Modes : Boot(given) \/ BootDeaf(given)
           \/ \E mode \in Modes \cup {""} : CompleteSetup(mode)
           \/ Halt
    PROVE  ServerTypeOK'
<1>1. /\ saved \in [complete : BOOLEAN, mode : Modes \cup {""}]
      /\ saved.complete <=> saved.mode # ""
  BY DEF TypeOK, ServerTypeOK
<1>2. ASSUME NEW given \in Modes, Boot(given)
      PROVE  ServerTypeOK'
  <2>1. faults' \in 0 .. MaxFaults
    BY <1>2, CountTyped DEF Boot
  <2>2. saved' = saved /\ proc' \in {"serving", "silent"}
    BY <1>2 DEF Boot
  <2>3. routes' \in BOOLEAN /\ (routes' => saved.complete)
    BY <1>2 DEF Boot
  <2> QED
    BY <1>1, <2>1, <2>2, <2>3 DEF ServerTypeOK
<1>3. ASSUME NEW given \in Modes, BootDeaf(given)
      PROVE  ServerTypeOK'
  <2>1. faults' \in 0 .. MaxFaults
    BY <1>3, CountTyped, FaultCounts DEF BootDeaf
  <2>2. saved' = saved /\ proc' = "silent" /\ routes' = saved.complete
    BY <1>3 DEF BootDeaf
  <2>3. routes' \in BOOLEAN
    BY <1>1, <2>2
  <2> QED
    BY <1>1, <2>1, <2>2, <2>3 DEF ServerTypeOK
<1>4. ASSUME NEW mode, CompleteSetup(mode)
      PROVE  ServerTypeOK'
  <2>1. /\ saved' = [complete |-> TRUE, mode |-> mode] /\ mode \in Modes
        /\ proc' = "serving" /\ routes' = routes /\ faults' = faults
    BY <1>4 DEF CompleteSetup, Listening
  <2>2. routes \in BOOLEAN
    BY DEF TypeOK, ServerTypeOK
  <2> QED
    BY <2>1, <2>2, CountTyped DEF ServerTypeOK, Modes
<1>5. CASE Halt
  BY <1>1, <1>5, CountTyped DEF Halt, ServerTypeOK
<1> QED
  BY <1>2, <1>3, <1>4, <1>5

LEMMA ServerTypes ==
    ASSUME TypeOK, ServerBoots \/ SetupCompletes \/ ServerHalts \/ EditRule
    PROVE  TypeOK'
<1>1. CASE ServerBoots
  BY <1>1, ServerStepTypes DEF ServerBoots, TypeOK, hostVars, procVars
<1>2. CASE SetupCompletes
  BY <1>2, ServerStepTypes DEF SetupCompletes, TypeOK, hostVars, procVars
<1>3. CASE ServerHalts
  <2>1. ServerTypeOK' /\ conn' \in BOOLEAN /\ cause' \in BOOLEAN
    BY <1>3, ServerStepTypes DEF ServerHalts, Note, TypeOK
  <2> QED
    BY <1>3, <2>1 DEF ServerHalts, TypeOK, hostVars
<1>4. CASE EditRule
  <2>1. ServerTypeOK' /\ rule' \in BOOLEAN /\ cause' \in BOOLEAN
    BY <1>4, ServerKept, CountTyped DEF EditRule, Note, TypeOK
  <2> QED
    BY <1>4, <2>1 DEF EditRule, TypeOK, hostVars, procVars
<1> QED
  BY <1>1, <1>2, <1>3, <1>4

LEMMA GoneTypes ==
    ASSUME Gone
    PROVE  /\ phase' \in Phases /\ proxy' \in {"closed", "bound", "failed"}
           /\ memory' \in BOOLEAN /\ job' \in [Syncers -> {"idle", "sync", "load"}]
           /\ conn' \in BOOLEAN /\ flight' \in [Senders -> {"idle", "sent"} \cup Outcomes]
           /\ status' \in {"connected", "disconnected", "connecting"} /\ cause' \in BOOLEAN
  BY DEF Gone, Phases, Idle, Quiet

LEMMA AgentTypes ==
    ASSUME TypeOK,
           ConnEnds \/ AgentBoots \/ AgentStops \/ AgentDies \/ Tick \/ Bind \/ Configure
    PROVE  TypeOK'
<1> USE CountTyped, ServerKept
<1>1. CASE ConnEnds
  BY <1>1 DEF ConnEnds, TypeOK, hostVars
<1>2. CASE AgentBoots
  <2>1. cause' \in BOOLEAN /\ phase' \in Phases /\ ServerTypeOK'
    BY <1>2 DEF AgentBoots, Phases
  <2> QED
    BY <1>2, <2>1 DEF AgentBoots, TypeOK, hostVars
<1>3. CASE AgentStops
  BY <1>3, GoneTypes DEF AgentStops, TypeOK
<1>4. CASE AgentDies
  BY <1>4, GoneTypes DEF AgentDies, TypeOK, hostVars
<1>5. CASE Tick
  BY <1>5 DEF Tick, TypeOK, hostVars
<1>6. CASE Bind
  BY <1>6, FaultCounts DEF Bind, TypeOK, hostVars
<1>7. CASE Configure
  BY <1>7, FaultCounts DEF Configure, Awaited, TypeOK, Phases
<1> QED
  BY <1>1, <1>2, <1>3, <1>4, <1>5, <1>6, <1>7

LEMMA RequestTypes ==
    ASSUME TypeOK,
           \/ PingGet \/ PingPost
           \/ \E g \in Syncers : Sync(g)
           \/ \E s \in Senders : Answer(s)
    PROVE  TypeOK'
<1> USE ServerKept
<1>1. CASE PingGet
  <2>1. PICK outcome \in Outcomes :
           Request(outcome) /\ phase' = IF outcome = "lost" THEN "starting" ELSE "post"
    BY <1>1 DEF PingGet
  <2>2. faults' \in 0 .. MaxFaults /\ conn' \in BOOLEAN /\ phase' \in Phases
    BY <2>1, RequestFacts DEF Phases
  <2> QED
    BY <1>1, <2>2 DEF PingGet, TypeOK, hostVars
<1>2. CASE PingPost
  <2>1. PICK outcome \in Outcomes :
           Request(outcome) /\ status' = IF outcome = "ok" THEN "connected" ELSE status
    BY <1>2 DEF PingPost
  <2>2. faults' \in 0 .. MaxFaults /\ conn' \in BOOLEAN
    BY <2>1, RequestFacts
  <2>3. status' \in {"connected", "disconnected", "connecting"}
    BY <2>1 DEF TypeOK
  <2> QED
    BY <1>2, <2>2, <2>3 DEF PingPost, TypeOK, hostVars, Phases
<1>3. ASSUME NEW g \in Syncers, Sync(g)
      PROVE  TypeOK'
  <2>1. PICK outcome \in Outcomes :
           Request(outcome) /\ table' = IF outcome = "ok" THEN rule ELSE table
    BY <1>3 DEF Sync
  <2>2. faults' \in 0 .. MaxFaults /\ conn' \in BOOLEAN
    BY <2>1, RequestFacts
  <2>3. table' \in BOOLEAN
    BY <2>1 DEF TypeOK
  <2>4. job' \in [Syncers -> {"idle", "sync", "load"}]
    BY <1>3 DEF Sync, TypeOK
  <2> QED
    BY <1>3, <2>2, <2>3, <2>4 DEF Sync, TypeOK
<1>4. ASSUME NEW s \in Senders, Answer(s)
      PROVE  TypeOK'
  <2>1. PICK outcome \in Outcomes : Request(outcome) /\ flight' = [flight EXCEPT ![s] = outcome]
    BY <1>4 DEF Answer
  <2>2. faults' \in 0 .. MaxFaults /\ conn' \in BOOLEAN
    BY <2>1, RequestFacts
  <2>3. flight' \in [Senders -> {"idle", "sent"} \cup Outcomes]
    BY <2>1 DEF TypeOK
  <2> QED
    BY <1>4, <2>2, <2>3 DEF Answer, TypeOK, hostVars
<1> QED
  BY <1>1, <1>2, <1>3, <1>4

LEMMA StatusTypes ==
    ASSUME TypeOK,
           \/ \E g \in Syncers : Load(g)
           \/ \E s \in Senders : Send(s) \/ Finish(s)
    PROVE  TypeOK'
<1> USE CountTyped, ServerKept
<1>1. ASSUME NEW g \in Syncers, Load(g)
      PROVE  TypeOK'
  <2>1. faults' \in 0 .. MaxFaults /\ memory' \in BOOLEAN
    BY <1>1, FaultCounts DEF Load, TypeOK
  <2>2. job' \in [Syncers -> {"idle", "sync", "load"}]
    BY <1>1 DEF Load, TypeOK
  <2> QED
    BY <1>1, <2>1, <2>2 DEF Load, TypeOK, hostVars
<1>2. ASSUME NEW s \in Senders, Send(s)
      PROVE  TypeOK'
  BY <1>2 DEF Send, TypeOK, hostVars
<1>3. ASSUME NEW s \in Senders, Finish(s)
      PROVE  TypeOK'
  <2>1. Shown(s) \in {"connected", "disconnected", "connecting"}
    BY <1>3 DEF Finish, Shown, Outcomes, TypeOK
  <2> QED
    BY <1>3, <2>1 DEF Finish, TypeOK, hostVars
<1> QED
  BY <1>1, <1>2, <1>3

LEMMA TypeStep ==
    ASSUME TypeOK, [Next]_vars
    PROVE  TypeOK'
<1>1. CASE UNCHANGED vars
  <2>1. ServerTypeOK'
    BY <1>1, ServerKept, CountTyped DEF vars
  <2> QED
    BY <1>1, <2>1 DEF TypeOK, vars, hostVars, procVars
<1>2. CASE Next
  BY <1>2, ServerTypes, AgentTypes, RequestTypes, StatusTypes DEF Next, AgentRuns
<1> QED
  BY <1>1, <1>2

\* TypeOK: the server's process and the agent's have their types in every state,
\* and the modules' routes exist only on a server whose setup is complete.
THEOREM TypeCorrect == Spec => []TypeOK
<1>1. Init => TypeOK
  <2>1. ASSUME Init
        PROVE  ServerTypeOK
    <3>1. /\ ~saved.complete /\ saved.mode = ""
          /\ saved \in [complete : BOOLEAN, mode : Modes \cup {""}]
      BY <2>1 DEF Init, ServerInit
    <3>2. ~routes /\ routes \in BOOLEAN /\ proc = "down"
      BY <2>1 DEF Init, ServerInit
    <3>3. faults = 0
      BY <2>1 DEF Init, ServerInit
    <3>4. faults \in 0 .. MaxFaults
      BY <3>3, LifecycleBoundsAssumption
    <3>5. saved.complete <=> saved.mode # ""
      BY <3>1
    <3> QED
      BY <3>1, <3>2, <3>4, <3>5 DEF ServerTypeOK
  <2> QED
    BY <2>1 DEF Init, TypeOK, Idle, Quiet, Phases
<1> QED
  BY <1>1, TypeStep, PTL DEF Spec

-----------------------------------------------------------------------------
(***************************************************************************)
(* The status.                                                             *)
(***************************************************************************)
\* An answer that a sender holds came from a module, so the setup was complete,
\* and it is never undone: the status may be late but not wrong about that.
AnswerInv == \A s \in Senders : flight[s] = "ok" => saved.complete

LEMMA RoutesNeedSetup == TypeOK /\ routes => saved.complete
  BY DEF TypeOK, ServerTypeOK

LEMMA SetupIsKept ==
    ASSUME TypeOK, [Next]_vars, saved.complete
    PROVE  saved'.complete
<1>1. CASE SetupCompletes
  <2>1. PICK mode : saved' = [complete |-> TRUE, mode |-> mode]
    BY <1>1 DEF SetupCompletes, CompleteSetup
  <2> QED
    BY <2>1
<1>2. CASE ~SetupCompletes
  <2>1. saved' = saved
    BY <1>2 DEF Next, AgentRuns, vars, serverVars, ServerBoots, Boot, BootDeaf, ServerHalts, Halt,
          EditRule, ConnEnds, AgentBoots, AgentStops, AgentDies, Tick, Send, PingGet, PingPost,
          Bind, Configure, Sync, Load, Answer, Finish
  <2> QED
    BY <2>1
<1> QED
  BY <1>1, <1>2

LEMMA StatusStep ==
    ASSUME TypeOK, AnswerInv, ConnectedMeansSetUp, [Next]_vars
    PROVE  AnswerInv' /\ ConnectedMeansSetUp'
<1> USE SetupIsKept DEF AnswerInv, ConnectedMeansSetUp
<1>1. CASE AgentStops \/ AgentDies
  BY <1>1 DEF AgentStops, AgentDies, Gone, Quiet
<1>2. CASE PingPost
  <2>1. PICK outcome \in Outcomes :
           Request(outcome) /\ status' = IF outcome = "ok" THEN "connected" ELSE status
    BY <1>2 DEF PingPost
  <2>2. outcome = "ok" => saved.complete
    BY <2>1, RequestFacts, RoutesNeedSetup
  <2> QED
    BY <1>2, <2>1, <2>2 DEF PingPost
<1>3. ASSUME NEW s \in Senders, Answer(s)
      PROVE  AnswerInv' /\ ConnectedMeansSetUp'
  <2>1. PICK outcome \in Outcomes : Request(outcome) /\ flight' = [flight EXCEPT ![s] = outcome]
    BY <1>3 DEF Answer
  <2>2. outcome = "ok" => saved.complete
    BY <2>1, RequestFacts, RoutesNeedSetup
  <2>3. \A t \in Senders : flight'[t] = IF t = s THEN outcome ELSE flight[t]
    BY <2>1 DEF TypeOK
  <2> QED
    BY <1>3, <2>2, <2>3 DEF Answer
<1>4. ASSUME NEW s \in Senders, Finish(s)
      PROVE  AnswerInv' /\ ConnectedMeansSetUp'
  <2>1. \A t \in Senders : flight'[t] = IF t = s THEN "idle" ELSE flight[t]
    BY <1>4 DEF Finish, TypeOK
  <2>2. status' = "connected" => flight[s] = "ok" \/ status = "connected"
    BY <1>4 DEF Finish, Shown, Outcomes
  <2> QED
    BY <2>1, <2>2
<1>5. ASSUME NEW s \in Senders, Send(s)
      PROVE  AnswerInv' /\ ConnectedMeansSetUp'
  <2>1. \A t \in Senders : flight'[t] = IF t = s THEN "sent" ELSE flight[t]
    BY <1>5 DEF Send, TypeOK
  <2>2. status' = "connected" => status = "connected"
    BY <1>5 DEF Send
  <2> QED
    BY <2>1, <2>2
<1>6. CASE UNCHANGED <<flight, status>>
  BY <1>6
<1> QED
  BY <1>1, <1>2, <1>3, <1>4, <1>5, <1>6
     DEF Next, AgentRuns, vars, procVars, ServerBoots, SetupCompletes, ServerHalts, EditRule,
         ConnEnds, AgentBoots, Tick, PingGet, Bind, Configure, Sync, Load

\* ConnectedMeansSetUp: whichever of its three writers wrote the status last, an
\* agent never shows "connected" for a server whose setup is not complete.
THEOREM ConnectedSafe == Spec => []ConnectedMeansSetUp
<1>1. Init => AnswerInv /\ ConnectedMeansSetUp
  BY DEF Init, AnswerInv, ConnectedMeansSetUp, Quiet
<1> QED
  BY <1>1, TypeCorrect, StatusStep, PTL DEF Spec

-----------------------------------------------------------------------------
(***************************************************************************)
(* The lockout.                                                            *)
(***************************************************************************)
\* The rule comes into force by a load, loads come after the startup sync, and
\* that sync, when the server serves and nothing fails, takes what the server has.
StartInv ==
    /\ phase # "running" => job = Idle /\ ~memory
    /\ phase \in {"off", "get", "post"} => proxy = "closed"
    /\ job["ticker"] # "idle" => job["startup"] # "sync"
    /\ proxy = "failed" => faults # 0

Innocent == faults = 0 /\ phase # "off" /\ ~cause

FilterInv ==
    Innocent =>
      /\ ~rule /\ Serving /\ ~memory
      /\ phase = "running" => proxy = "bound"
      /\ phase = "running" /\ job["startup"] # "sync" => ~table

CauseInv == StartInv /\ FilterInv

LEMMA InnocentReaches ==
    ASSUME CauseInv, Innocent, phase = "running"
    PROVE  Reaches /\ routes /\ ~rule
  BY DEF CauseInv, FilterInv, Serving, Reaches, Resolves

LEMMA CauseOfServer ==
    ASSUME TypeOK, CauseInv,
           ServerBoots \/ SetupCompletes \/ ServerHalts \/ EditRule \/ ConnEnds
    PROVE  CauseInv'
<1> USE DEF CauseInv, FilterInv, Innocent, Serving, Listening
<1>1. faults' = 0 => faults = 0
  BY CountTyped, FaultCounts
     DEF ServerBoots, Boot, BootDeaf, SetupCompletes, CompleteSetup, ServerHalts, Halt, EditRule,
         ConnEnds
<1>2. StartInv'
  <2>1. UNCHANGED <<phase, job, memory, proxy>>
    BY DEF ServerBoots, SetupCompletes, ServerHalts, EditRule, ConnEnds, procVars
  <2>2. faults # 0 => faults' # 0
    BY <1>1
  <2> QED
    BY <2>1, <2>2 DEF StartInv, CauseInv
<1>3. CASE ServerBoots
  BY <1>1, <1>2, <1>3 DEF ServerBoots, Boot, BootDeaf, procVars, hostVars
<1>4. CASE SetupCompletes
  <2>1. UNCHANGED <<proc, routes, faults, rule, hostVars, procVars, cause>>
    BY <1>4 DEF SetupCompletes, CompleteSetup
  <2> QED
    BY <1>2, <2>1 DEF procVars, hostVars
<1>5. CASE ServerHalts
  BY <1>2, <1>5 DEF ServerHalts, Note
<1>6. CASE EditRule
  BY <1>1, <1>2, <1>6 DEF EditRule, Note, procVars, hostVars, serverVars
<1>7. CASE ConnEnds
  BY <1>2, <1>7 DEF ConnEnds, hostVars, serverVars
<1> QED
  BY <1>3, <1>4, <1>5, <1>6, <1>7

LEMMA CauseOfStart ==
    ASSUME TypeOK, CauseInv,
           AgentBoots \/ AgentStops \/ AgentDies \/ PingGet \/ PingPost \/ Bind \/ Configure
    PROVE  CauseInv'
<1> USE DEF CauseInv, StartInv, FilterInv, Innocent, Serving, Listening
<1>1. CASE AgentBoots
  BY <1>1 DEF AgentBoots, hostVars, serverVars
<1>2. CASE AgentStops \/ AgentDies
  BY <1>2 DEF AgentStops, AgentDies, Gone, Idle, Syncers
<1>3. CASE PingGet
  <2>1. PICK outcome \in Outcomes :
           Request(outcome) /\ phase' = IF outcome = "lost" THEN "starting" ELSE "post"
    BY <1>3 DEF PingGet
  <2>2. faults' = 0 => faults = 0
    BY <2>1, RequestFacts
  <2> QED
    BY <1>3, <2>1, <2>2 DEF PingGet, hostVars, serverVars
<1>4. CASE PingPost
  <2>1. faults' = 0 => faults = 0
    BY <1>4, RequestFacts DEF PingPost
  <2> QED
    BY <1>4, <2>1 DEF PingPost, hostVars, serverVars
<1>5. CASE Bind
  <2>1. faults' = 0 => faults = 0 /\ proxy' = "bound"
    BY <1>5, CountTyped, FaultCounts DEF Bind
  <2>2. proxy' \in {"bound", "failed"}
    BY <1>5 DEF Bind
  <2> QED
    BY <1>5, <2>1, <2>2 DEF Bind, hostVars, serverVars
<1>6. CASE Configure
  <2>1. faults' = 0 => faults = 0 /\ proxy # "closed"
    BY <1>6, CountTyped, FaultCounts DEF Configure, Awaited
  <2>2. job'["startup"] = "sync" /\ job'["ticker"] = "idle"
    BY <1>6 DEF Configure, Idle, Syncers
  <2>3. faults' = 0 => proxy = "bound"
    BY <2>1 DEF TypeOK
  <2> QED
    BY <1>6, <2>1, <2>2, <2>3 DEF Configure, serverVars
<1> QED
  BY <1>1, <1>2, <1>3, <1>4, <1>5, <1>6

LEMMA CauseOfRules ==
    ASSUME TypeOK, CauseInv, Tick \/ \E g \in Syncers : Sync(g) \/ Load(g)
    PROVE  CauseInv'
<1>1. phase = "running"
  BY DEF Tick, Sync, Load, CauseInv, StartInv, Idle, Syncers
<1>2. CASE Tick
  <2>1. job'["startup"] = job["startup"] /\ job["startup"] # "sync"
    BY <1>2 DEF Tick, TypeOK, Syncers
  <2> QED
    BY <1>1, <1>2, <2>1
       DEF CauseInv, StartInv, FilterInv, Innocent, Serving, Listening, Tick, hostVars, serverVars
<1>3. ASSUME NEW g \in Syncers, Sync(g)
      PROVE  CauseInv'
  <2>1. PICK outcome \in Outcomes :
           Request(outcome) /\ table' = IF outcome = "ok" THEN rule ELSE table
    BY <1>3 DEF Sync
  <2>2. faults' = 0 => faults = 0 /\ (Reaches /\ routes => outcome = "ok")
    BY <2>1, RequestFacts
  <2>3. \A h \in Syncers : job'[h] = IF h = g THEN "load" ELSE job[h]
    BY <1>3 DEF Sync, TypeOK
  <2>4. Innocent' => Innocent
    BY <1>3, <2>2 DEF Innocent, Sync
  <2>5. StartInv'
    <3>1. job'["ticker"] # "idle" => job'["startup"] # "sync"
      BY <1>3, <2>3 DEF CauseInv, StartInv, Sync, Syncers
    <3> QED
      BY <1>1, <1>3, <2>2, <3>1 DEF CauseInv, StartInv, Sync
  <2>6. Innocent' => ~table'
    BY <1>1, <2>1, <2>2, <2>4, InnocentReaches DEF Innocent
  <2> QED
    BY <1>3, <2>4, <2>5, <2>6 DEF CauseInv, FilterInv, Serving, Listening, Sync, serverVars
<1>4. ASSUME NEW g \in Syncers, Load(g)
      PROVE  CauseInv'
  <2>1. \A h \in Syncers : job'[h] = IF h = g THEN "idle" ELSE job[h]
    BY <1>4 DEF Load, TypeOK
  <2>2. job["startup"] # "sync"
    BY <1>4 DEF Load, CauseInv, StartInv, Syncers
  <2>3. faults' = 0 => faults = 0 /\ memory' = table
    BY <1>4, CountTyped, FaultCounts DEF Load
  <2>4. Innocent' => Innocent /\ ~table
    BY <1>1, <1>4, <2>2, <2>3 DEF Innocent, Load, CauseInv, FilterInv
  <2>5. StartInv'
    BY <1>1, <1>4, <2>1, <2>2, <2>3 DEF CauseInv, StartInv, Load, Syncers
  <2> QED
    BY <1>4, <2>3, <2>4, <2>5
       DEF CauseInv, FilterInv, Innocent, Serving, Listening, Load, serverVars, hostVars
<1> QED
  BY <1>2, <1>3, <1>4

LEMMA CauseStep ==
    ASSUME TypeOK, CauseInv, [Next]_vars
    PROVE  CauseInv'
<1> USE DEF CauseInv, StartInv, FilterInv, Innocent, Serving, Listening
<1>1. CASE UNCHANGED vars
  BY <1>1 DEF vars, serverVars, hostVars, procVars
<1>2. ASSUME NEW s \in Senders, Send(s) \/ Finish(s)
      PROVE  CauseInv'
  BY <1>2 DEF Send, Finish, hostVars, serverVars
<1>3. ASSUME NEW s \in Senders, Answer(s)
      PROVE  CauseInv'
  <2>1. faults' = 0 => faults = 0
    BY <1>3, RequestFacts DEF Answer
  <2> QED
    BY <1>3, <2>1 DEF Answer, hostVars, serverVars
<1> QED
  BY <1>1, <1>2, <1>3, CauseOfServer, CauseOfStart, CauseOfRules DEF Next, AgentRuns

\* CutOffHasACause: an agent in which nothing failed is locked out by its own
\* filter only if the rule was on the server, or the server away, at some time
\* since the agent was started.
THEOREM CutOffSafe == Spec => []CutOffHasACause
<1>1. Init => CauseInv
  BY DEF Init, CauseInv, StartInv, FilterInv, Innocent, Idle, Syncers
<1>2. TypeOK /\ CauseInv => CutOffHasACause
  BY DEF TypeOK, CauseInv, FilterInv, Innocent, CutOffHasACause, CutOff, Resolves
<1> QED
  BY <1>1, <1>2, TypeCorrect, CauseStep, PTL DEF Spec
=============================================================================
