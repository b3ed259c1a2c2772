--------------------------- MODULE DnsConfig_proofs -------------------------
(***************************************************************************)
(* What DnsConfig promises, for every set of resolvers and every number of *)
(* failures, kills and changes of the setting.                             *)
(***************************************************************************)
EXTENDS DnsConfig, TLAPS

USE ResolversAssumption, PublicAssumption, DhcpAssumption, DnsBoundsAssumption

\* The phases in which the host may not yet have been pointed at the agent, and those
\* after.
Before == {"off", "starting", "detected"}
After  == {"working", "waiting", "stopping"}

\* On Linux, in a run in which nothing has failed: whoever passed setDNS has something
\* to restore; and after one the agent is neither in the file nor in the record.
Repaired ==
    /\ pc \in After => configured
    /\ pc = "off" => ~Stranded /\ (platform = "resolvconf" => Loopback \notin record)

\* s stems from the setting that is due: it is that one, or what a run makes of it;
\* with resolvconf it has resolvers that the host has had.
Stems(s) ==
    IF platform = "resolvconf" THEN s \subseteq past \cup Public ELSE s \in {due, Back(due)}

\* While nothing has failed and no run was killed: the agent has not seen itself in
\* the setting, and what is due is in the host before a run reads it and in
\* originalDNS from then on.
InOrder ==
    /\ ~trouble
    /\ Loopback \notin original
    /\ pc \in After => configured
    /\ pc \in Before => Loopback \notin dns
    /\ pc \in {"off", "starting"} => Stems(dns)
    /\ pc \in {"detected"} \cup After => Stems(original)
    /\ platform = "linux" /\ pc \in {"off", "starting"} =>
          dns = IF lines THEN due ELSE Back(due)
    /\ platform = "resolvconf" /\ pc \in Before =>
          /\ own \subseteq dns
          /\ dns \subseteq past \cup Public /\ record \subseteq past \cup Public

IInv ==
    /\ TypeOK
    /\ pc \in Before => ~configured
    /\ platform \in Linux /\ ~trouble => Repaired
    /\ own \subseteq past
    /\ kills = 0 /\ faults = 0 => InOrder

-----------------------------------------------------------------------------
(***************************************************************************)
(* Lemmas on the operators.                                                *)
(***************************************************************************)
\* What Restore sets is made of known resolvers, and on Linux names one and never
\* the agent.
LEMMA RestoreToFacts ==
    ASSUME TypeOK
    PROVE  /\ RestoreTo \in Setting
           /\ platform \in Linux => RestoreTo # {} /\ Loopback \notin RestoreTo
  <1>1. original \in Setting /\ (platform \in Linux => Loopback \notin original)
    BY DEF TypeOK
  <1>2. Automatic \in Setting
    BY DEF Automatic, Setting
  <1>3. platform \in Linux => Automatic = Public
    BY DEF Automatic
  <1>4. QED
    BY <1>1, <1>2, <1>3 DEF RestoreTo

\* What setDNS does to the parts of the host's setting.
LEMMA SetToFacts ==
    ASSUME TypeOK, NEW S \in Setting, SetTo(S)
    PROVE  /\ dns' \in Setting /\ record' \in Setting /\ lines' \in BOOLEAN
           /\ platform # "resolvconf" => dns' = S /\ record' = record
           /\ platform = "linux" => lines' = FALSE
           /\ platform = "resolvconf" => record' = S /\ dns' \in Merged(own, S)
  <1>1. own \in Setting /\ \A x \in Merged(own, S) : x \in Setting
    BY DEF TypeOK, Setting, Merged
  <1>2. CASE platform = "linux"
    BY <1>2 DEF SetTo, Linux, TypeOK
  <1>3. CASE platform = "resolvconf"
    BY <1>1, <1>3 DEF SetTo, Linux, TypeOK
  <1>4. CASE platform \notin Linux
    BY <1>4 DEF SetTo, Linux, TypeOK
  <1>5. QED
    BY <1>2, <1>3, <1>4 DEF Linux

LEMMA SetToFailsFacts ==
    ASSUME TypeOK, NEW S \in Setting, SetToFails(S)
    PROVE  /\ dns' \in Setting /\ record' \in Setting /\ lines' \in BOOLEAN
           /\ faults' \in 0 .. MaxFaults /\ faults' = faults + 1 /\ trouble'
           /\ platform # "resolvconf" => record' = record
           /\ platform = "resolvconf" => record' \in {record, S}
  <1>1. own \in Setting /\ \A x \in Merged(own, S) : x \in Setting
    BY DEF TypeOK, Setting, Merged
  <1>2. faults' \in 0 .. MaxFaults /\ faults' = faults + 1
    BY DEF SetToFails, Fault, TypeOK
  <1>3. trouble'
    BY Zenon DEF SetToFails, Fault
  <1>4. CASE UNCHANGED hostVars
    BY <1>2, <1>3, <1>4 DEF hostVars, TypeOK
  <1>5. CASE platform = "linux" /\ dns' = {} /\ lines' = FALSE /\ UNCHANGED record
    BY <1>2, <1>3, <1>5 DEF TypeOK, Setting
  <1>6. CASE /\ platform = "resolvconf"
             /\ record' = S /\ dns' \in {dns} \cup Merged(own, S) /\ UNCHANGED lines
    BY <1>1, <1>2, <1>3, <1>6 DEF TypeOK
  <1>7. QED
    BY <1>4, <1>5, <1>6 DEF SetToFails

-----------------------------------------------------------------------------
(***************************************************************************)
(* The parts of the inductive invariant.                                   *)
(***************************************************************************)
LEMMA InitIInv == Init => IInv
  <1> SUFFICES ASSUME Init PROVE IInv
    OBVIOUS
  <1>1. TypeOK
    <2>1. dns \in Setting /\ record \in Setting /\ original \in Setting
      BY DEF Init, Setting
    <2>2. faults \in 0 .. MaxFaults /\ kills \in 0 .. MaxKills /\ roams \in 0 .. MaxRoams
      BY DEF Init
    <2>3. configured \in BOOLEAN /\ trouble \in BOOLEAN /\ lines \in BOOLEAN
      BY Zenon DEF Init
    <2>4. QED
      BY <2>1, <2>2, <2>3 DEF Init, TypeOK, Phase
  <1>2. Loopback \notin dns /\ record = {} /\ dns = own /\ due = own /\ past = own
    BY DEF Init
  <1>3. Repaired
    BY <1>2 DEF Init, Repaired, Stranded, After
  <1>4. InOrder
    <2>1. ~trouble /\ lines
      BY Zenon DEF Init
    <2>2. QED
      BY <1>2, <2>1 DEF Init, InOrder, Stems, After
  <1>5. QED
    BY <1>1, <1>2, <1>3, <1>4 DEF Init, IInv

\* Every step keeps the types: the setting is made of resolvers the model knows.
LEMMA NextTypeOK == TypeOK /\ [Next]_vars => TypeOK'
  <1> SUFFICES ASSUME TypeOK, [Next]_vars PROVE TypeOK'
    OBVIOUS
  <1>0. {Loopback} \in Setting
    BY DEF Setting
  <1>1. CASE Start \/ Detect \/ Notify \/ Signal
    <2>1. /\ ReadDNS \in Setting
          /\ platform \in Linux => Loopback \notin ReadDNS
      BY DEF ReadDNS, TypeOK, Setting, Platform, Linux
    <2>2. trouble' \in BOOLEAN
      BY <1>1 DEF Start, Detect, Notify, Signal, TypeOK
    <2>3. QED
      BY <1>1, <2>1, <2>2
         DEF Start, Detect, Notify, Signal, TypeOK, Phase, hostVars, boundVars, ownVars
  <1>2. CASE DetectUnreadable \/ DetectFails
    <2>1. faults' \in 0 .. MaxFaults
      BY <1>2 DEF DetectUnreadable, DetectFails, Fault, TypeOK
    <2>2. trouble' \in BOOLEAN
      BY <1>2, Zenon DEF DetectUnreadable, DetectFails, Fault
    <2>3. {} \in Setting
      BY DEF Setting
    <2>4. QED
      BY <1>2, <2>1, <2>2, <2>3
         DEF DetectUnreadable, DetectFails, TypeOK, Phase, hostVars, ownVars
  <1>3. CASE SetDNS
    <2>1. SetTo({Loopback})
      BY <1>3 DEF SetDNS
    <2>2. configured' \in BOOLEAN
      BY <1>3, Zenon DEF SetDNS
    <2>3. QED
      BY <1>0, <1>3, <2>1, <2>2, SetToFacts DEF SetDNS, TypeOK, Phase, boundVars, ownVars
  <1>4. CASE SetDNSFails
    <2>1. SetToFails({Loopback})
      BY <1>4 DEF SetDNSFails
    <2>2. QED
      BY <1>0, <1>4, <2>1, SetToFailsFacts DEF SetDNSFails, TypeOK, Phase, ownVars
  <1>5. CASE Kill
    <2>1. kills' \in 0 .. MaxKills
      BY <1>5 DEF Kill, TypeOK
    <2>2. trouble' \in BOOLEAN /\ configured' \in BOOLEAN
      BY <1>5, Zenon DEF Kill, Gone
    <2>3. original' \in Setting /\ Loopback \notin original' /\ pc' \in Phase
      BY <1>5 DEF Kill, Gone, Setting, Phase
    <2>4. QED
      BY <1>5, <2>1, <2>2, <2>3 DEF Kill, TypeOK, hostVars, ownVars
  <1>6. CASE Restore
    <2>1. dns' \in Setting /\ record' \in Setting /\ lines' \in BOOLEAN
      <3>1. CASE configured
        BY <1>6, <3>1, RestoreToFacts, SetToFacts DEF Restore
      <3>2. CASE ~configured
        BY <1>6, <3>2 DEF Restore, hostVars, TypeOK
      <3>3. QED
        BY <3>1, <3>2
    <2>2. configured' \in BOOLEAN
      BY <1>6, Zenon DEF Restore, Gone
    <2>3. original' \in Setting /\ Loopback \notin original' /\ pc' \in Phase
      BY <1>6 DEF Restore, Gone, Setting, Phase
    <2>4. QED
      BY <1>6, <2>1, <2>2, <2>3 DEF Restore, TypeOK, boundVars, ownVars
  <1>7. CASE RestoreFails
    <2>1. SetToFails(RestoreTo)
      BY <1>7 DEF RestoreFails
    <2>2. configured' \in BOOLEAN
      BY <1>7, Zenon DEF RestoreFails, Gone
    <2>3. original' \in Setting /\ Loopback \notin original' /\ pc' \in Phase
      BY <1>7 DEF RestoreFails, Gone, Setting, Phase
    <2>4. QED
      BY <1>7, <2>1, <2>2, <2>3, RestoreToFacts, SetToFailsFacts
         DEF RestoreFails, TypeOK, ownVars
  <1>8. CASE Roam
    <2>1. own' \in Setting /\ \A x \in Merged(own', record) : x \in Setting
      BY <1>8 DEF Roam, TypeOK, Setting, Merged
    <2>2. dns' \in Setting
      BY <1>8, <2>1 DEF Roam
    <2>3. lines' \in BOOLEAN
      BY <1>8, Zenon DEF Roam
    <2>4. roams' \in 0 .. MaxRoams
      BY <1>8 DEF Roam, TypeOK
    <2>5. own' \in SUBSET Resolvers /\ due' \in SUBSET Resolvers /\ past' \in SUBSET Resolvers
      BY <1>8 DEF Roam, TypeOK
    <2>6. QED
      BY <1>8, <2>2, <2>3, <2>4, <2>5 DEF Roam, TypeOK, agentVars
  <1>9. CASE UNCHANGED vars
    BY <1>9 DEF vars, hostVars, agentVars, boundVars, ownVars, TypeOK
  <1>10. QED
    BY <1>1, <1>2, <1>3, <1>4, <1>5, <1>6, <1>7, <1>8, <1>9 DEF Next, Agent

\* Only setDNS makes the configurator configured, and the end of a run unmakes it.
LEMMA NextConfigured ==
    IInv /\ [Next]_vars => (pc \in Before => ~configured)'
  <1> SUFFICES ASSUME IInv, [Next]_vars, pc' \in Before
               PROVE  ~configured'
    OBVIOUS
  <1> USE DEF IInv, Before
  <1>1. CASE Start \/ Detect \/ DetectUnreadable \/ DetectFails
    BY <1>1 DEF Start, Detect, DetectUnreadable, DetectFails
  <1>2. CASE SetDNS \/ SetDNSFails \/ Notify \/ Signal
    BY <1>2 DEF SetDNS, SetDNSFails, Notify, Signal
  <1>3. CASE Kill \/ Restore \/ RestoreFails
    BY <1>3 DEF Kill, Restore, RestoreFails, Gone
  <1>4. CASE Roam \/ UNCHANGED vars
    BY <1>4 DEF Roam, vars, agentVars
  <1>5. QED
    BY <1>1, <1>2, <1>3, <1>4 DEF Next, Agent

\* In a run in which nothing has failed the agent gets to setDNS, and its Restore
\* repairs whatever it has found.
LEMMA NextRepaired ==
    IInv /\ [Next]_vars => (platform \in Linux /\ ~trouble => Repaired)'
  <1> SUFFICES ASSUME IInv, [Next]_vars, platform' \in Linux, ~trouble'
               PROVE  Repaired'
    OBVIOUS
  <1>0. TypeOK /\ platform' = platform
    BY DEF IInv, Next, Agent, Start, Detect, DetectUnreadable, DetectFails, SetDNS, SetDNSFails,
       Notify, Signal, Kill, Restore, RestoreFails, Roam, vars
  <1>1. CASE Start
    BY <1>1 DEF Start, Repaired, After
  <1>2. CASE Detect \/ SetDNS
    <2>1. pc' # "off" /\ (pc' \in After => configured')
      BY <1>2 DEF Detect, SetDNS, After
    <2>2. QED
      BY <2>1 DEF Repaired
  <1>3. CASE Notify \/ Signal
    <2>1. ~trouble /\ pc \in After /\ pc' \in After /\ pc' # "off" /\ configured' = configured
      BY <1>3 DEF Notify, Signal, After
    <2>2. QED
      BY <1>0, <2>1 DEF IInv, Repaired
  <1>4. CASE Restore
    <2>1. ~trouble /\ pc \in After /\ platform \in Linux
      BY <1>0, <1>4 DEF Restore, After
    <2>2. configured
      BY <2>1 DEF IInv, Repaired
    <2>3. SetTo(RestoreTo) /\ pc' = "off" /\ own' = own
      BY <1>4, <2>2 DEF Restore, Gone, ownVars
    <2>4. RestoreTo \in Setting /\ RestoreTo # {} /\ Loopback \notin RestoreTo
      BY <1>0, <2>1, RestoreToFacts
    <2>5. dns' = RestoreTo \/ dns' = own \cup RestoreTo
      BY <1>0, <2>3, <2>4, SetToFacts DEF Merged
    <2>6. Loopback \notin own
      BY <1>0 DEF TypeOK
    <2>7. platform = "resolvconf" => Loopback \notin record'
      BY <1>0, <2>3, <2>4, SetToFacts
    <2>8. QED
      BY <1>0, <2>3, <2>4, <2>5, <2>6, <2>7 DEF Repaired, Stranded, After
  <1>5. CASE Roam
    <2>1. ~trouble /\ Repaired
      BY <1>0, <1>5 DEF Roam, IInv
    <2>2. UNCHANGED <<pc, configured, record>> /\ own' \subseteq Resolvers
      BY <1>5 DEF Roam, agentVars
    <2>3. platform # "resolvconf" => dns' = own'
      BY <1>5 DEF Roam
    <2>4. platform = "resolvconf" /\ Loopback \notin record => dns' = own' \cup record
      BY <1>5 DEF Roam, Merged
    <2>5. QED
      BY <1>0, <2>1, <2>2, <2>3, <2>4 DEF Repaired, Stranded, After
  <1>6. CASE DetectUnreadable \/ DetectFails \/ SetDNSFails \/ RestoreFails \/ Kill
    <2>1. trouble'
      BY <1>6, Zenon DEF DetectUnreadable, DetectFails, SetDNSFails, RestoreFails, SetToFails,
         Fault, Kill
    <2>2. QED
      BY <2>1
  <1>7. CASE UNCHANGED vars
    BY <1>0, <1>7 DEF vars, hostVars, agentVars, ownVars, IInv, Repaired, Stranded
  <1>8. QED
    BY <1>1, <1>2, <1>3, <1>4, <1>5, <1>6, <1>7 DEF Next, Agent

\* The two settings that a run in order can find, or leave.
LEMMA BackFacts ==
    ASSUME TypeOK, platform \in Platform \ {"resolvconf"}
    PROVE  /\ \A s \in {due, Back(due)} : s # {} => s = Back(due)
           /\ platform = "linux" => Back(due) # {} /\ (Back(due) # due => Back(due) = Public)
           /\ {} \in {due, Back(due)} => Back(due) = (IF platform = "linux" THEN Public
                                             ELSE IF platform = "windows" THEN Dhcp ELSE {})
           /\ Loopback \notin due /\ Loopback \notin Back(due)
  BY DEF TypeOK, Back, Platform, Linux

\* A failure or a kill counts, so a step to a history without either is none.
LEMMA NextInOrder ==
    IInv /\ [Next]_vars => (kills = 0 /\ faults = 0 => InOrder)'
  <1> SUFFICES ASSUME IInv, [Next]_vars, kills' = 0, faults' = 0
               PROVE  InOrder'
    OBVIOUS
  <1>0. TypeOK /\ kills \in Nat /\ faults \in Nat
    BY DEF IInv, TypeOK
  <1>1. CASE DetectUnreadable \/ DetectFails \/ SetDNSFails \/ RestoreFails \/ Kill
    <2>1. kills' = kills + 1 \/ faults' = faults + 1
      BY <1>1 DEF DetectUnreadable, DetectFails, SetDNSFails, RestoreFails, SetToFails, Fault,
         Kill
    <2>2. QED
      BY <1>0, <2>1
  <1>2. ASSUME UNCHANGED <<kills, faults>>
        PROVE  InOrder
    BY <1>2 DEF IInv
  <1> USE DEF Before, After
  <1>3. CASE Start \/ Notify \/ Signal
    <2>1. InOrder /\ UNCHANGED <<platform, dns, lines, record, original, configured, own, due, past>>
      BY <1>2, <1>3 DEF Start, Notify, Signal, hostVars, ownVars, boundVars
    <2>2. ~trouble'
      BY <1>3, <2>1 DEF Start, Notify, Signal, InOrder
    <2>3. \A s : Stems(s)' <=> Stems(s)
      BY <2>1 DEF Stems, Back
    <2>4. Back(due)' = Back(due)
      BY <2>1 DEF Back
    <2>5. \/ pc = "off" /\ pc' = "starting"
          \/ pc \in After /\ pc' \in {"waiting", "stopping"}
      BY <1>3 DEF Start, Notify, Signal
    <2>6. QED
      BY <2>1, <2>2, <2>3, <2>4, <2>5 DEF InOrder, Stems
  <1>4. CASE Detect
    <2>1. /\ InOrder /\ UNCHANGED <<platform, dns, lines, record, configured, own, due, past, trouble>>
          /\ pc = "starting" /\ pc' = "detected" /\ original' = ReadDNS
      BY <1>2, <1>4 DEF Detect, hostVars, ownVars, boundVars
    <2>2. platform \in Platform /\ Loopback \notin dns /\ Stems(dns)
      BY <1>0, <2>1 DEF InOrder, TypeOK
    <2>3. Loopback \notin ReadDNS
      BY <2>2 DEF ReadDNS, Platform, Linux
    <2>4. Stems(ReadDNS)
      <3>1. CASE platform \in Linux \/ platform = "darwin" \/ dns # {}
        <4>1. ReadDNS = dns
          BY <2>2, <3>1 DEF ReadDNS, Platform, Linux
        <4>2. QED
          BY <2>2, <4>1
      <3>2. CASE platform = "windows" /\ dns = {}
        <4>1. ReadDNS = Dhcp /\ {} \in {due, Back(due)}
          BY <2>2, <3>2 DEF ReadDNS, Linux, Stems
        <4>2. Back(due) = Dhcp
          BY <1>0, <2>2, <3>2, <4>1, BackFacts
        <4>3. QED
          BY <3>2, <4>1, <4>2 DEF Stems
      <3>3. QED
        BY <2>2, <3>1, <3>2 DEF Platform
    <2>5. Stems(original)'
      BY <2>1, <2>4 DEF Stems, Back
    <2>6. QED
      BY <2>1, <2>2, <2>3, <2>5 DEF InOrder
  <1>5. CASE SetDNS
    <2>1. /\ InOrder /\ UNCHANGED <<platform, original, own, due, past, trouble>>
          /\ pc = "detected" /\ pc' = "working" /\ configured' = TRUE
      BY <1>2, <1>5 DEF SetDNS, ownVars, boundVars
    <2>2. Stems(original)'
      BY <2>1 DEF InOrder, Stems, Back
    <2>3. QED
      BY <2>1, <2>2 DEF InOrder
  <1>6. CASE Restore
    <2>1. /\ InOrder /\ UNCHANGED <<platform, own, due, past, trouble>>
          /\ pc = "stopping" /\ pc' = "off" /\ original' = {}
      BY <1>2, <1>6 DEF Restore, Gone, ownVars, boundVars
    <2>2. SetTo(RestoreTo) /\ Stems(original) /\ Loopback \notin original
      BY <1>6, <2>1 DEF Restore, InOrder
    <2>3. RestoreTo \in Setting /\ platform \in Platform /\ Loopback \notin RestoreTo
      BY <1>0, <2>2, RestoreToFacts DEF RestoreTo, Automatic, TypeOK
    <2>4. Back(due)' = Back(due)
      BY <2>1 DEF Back
    <2>5. CASE platform = "linux"
      <3>1. dns' = RestoreTo /\ lines' = FALSE
        BY <1>0, <2>2, <2>3, <2>5, SetToFacts
      <3>2. RestoreTo = Back(due)
        BY <1>0, <2>2, <2>5, BackFacts DEF RestoreTo, Automatic, Stems, Platform, Linux
      <3>3. QED
        BY <2>1, <2>3, <2>4, <2>5, <3>1, <3>2 DEF InOrder, Stems
    <2>6. CASE platform = "resolvconf"
      <3>1. dns' = own \cup RestoreTo /\ record' = RestoreTo
        BY <1>0, <2>2, <2>3, <2>6, SetToFacts DEF Merged
      <3>2. RestoreTo \subseteq past \cup Public /\ own \subseteq past
        BY <2>2, <2>6 DEF RestoreTo, Automatic, Stems, Linux, IInv
      <3>3. Loopback \notin own
        BY <1>0 DEF TypeOK
      <3>4. QED
        BY <2>1, <2>3, <2>6, <3>1, <3>2, <3>3 DEF InOrder, Stems
    <2>7. CASE platform \notin Linux
      <3>1. dns' = RestoreTo
        BY <1>0, <2>2, <2>3, <2>7, SetToFacts DEF Linux
      <3>2. RestoreTo = original
        BY <2>7 DEF RestoreTo, Automatic
      <3>3. QED
        BY <2>1, <2>2, <2>3, <2>4, <2>7, <3>1, <3>2 DEF InOrder, Stems, Linux
    <2>8. QED
      BY <2>5, <2>6, <2>7 DEF Linux
  <1>7. CASE Roam
    <2>1. /\ InOrder /\ UNCHANGED <<platform, pc, original, configured, record, trouble>>
          /\ own' \subseteq Resolvers /\ past' = past \cup own'
          /\ due' = IF pc \in {"off", "starting"} THEN own' ELSE due
      BY <1>2, <1>7 DEF Roam, agentVars, boundVars
    <2>2. lines'
      BY <1>7, Zenon DEF Roam
    <2>3. platform # "resolvconf" => dns' = own'
      BY <1>7 DEF Roam
    <2>4. platform = "resolvconf" /\ Loopback \notin record => dns' = own' \cup record
      BY <1>7 DEF Roam, Merged
    <2>5. pc \in {"detected"} \cup After => Stems(original)'
      BY <2>1 DEF InOrder, Stems, Back
    <2>6. pc \in Before /\ platform = "resolvconf" =>
             /\ record \subseteq past \cup Public /\ Loopback \notin record
      BY <1>0, <2>1 DEF InOrder, TypeOK
    <2>7. pc \in Before => Loopback \notin dns'
      BY <2>1, <2>3, <2>4, <2>6
    <2>8. pc \in {"off", "starting"} => Stems(dns)'
      BY <2>1, <2>3, <2>4, <2>6 DEF Stems
    <2>9. QED
      BY <2>1, <2>2, <2>3, <2>4, <2>5, <2>6, <2>7, <2>8 DEF InOrder
  <1>8. CASE UNCHANGED vars
    <2>1. InOrder
      BY <1>2, <1>8 DEF vars, boundVars
    <2>2. QED
      BY <1>8, <2>1 DEF vars, hostVars, agentVars, ownVars, InOrder, Stems, Back
  <1>9. QED
    BY <1>1, <1>3, <1>4, <1>5, <1>6, <1>7, <1>8 DEF Next, Agent

\* The inductive invariant of every run of the agent.
LEMMA Inductive == Spec => []IInv
  <1>1. IInv /\ [Next]_vars => (own \subseteq past)'
    BY DEF IInv, Next, Agent, Start, Detect, DetectUnreadable, DetectFails, SetDNS, SetDNSFails,
       Notify, Signal, Kill, Restore, RestoreFails, Roam, vars, ownVars
  <1>2. IInv /\ [Next]_vars => IInv'
    BY <1>1, NextTypeOK, NextConfigured, NextRepaired, NextInOrder DEF IInv
  <1>3. QED
    BY InitIInv, <1>2, PTL DEF Spec

-----------------------------------------------------------------------------
(***************************************************************************)
(* The theorems.                                                           *)
(***************************************************************************)
\* The host's setting and the configurator keep their types; on Linux the agent
\* never records itself as the original resolver.
THEOREM TypeCorrect == Spec => []TypeOK
  <1>1. IInv => TypeOK
    BY DEF IInv
  <1>2. QED
    BY Inductive, <1>1, PTL

\* A host is left with a dead resolver, or with none, only by a kill or a failed
\* operation, on Linux by one of the last run, after any number of runs.
THEOREM StrandedCause == Spec => []StrandedHasACause
  <1>1. ASSUME IInv, pc = "off", Stranded
        PROVE  /\ kills > 0 \/ faults > 0
               /\ platform \in Linux => trouble
    <2>1. kills \in Nat /\ faults \in Nat
      BY <1>1 DEF IInv, TypeOK
    <2>2. platform \in Linux => trouble
      BY <1>1 DEF IInv, Repaired
    <2>3. ~(kills = 0 /\ faults = 0)
      <3>1. SUFFICES ASSUME kills = 0, faults = 0
                     PROVE  FALSE
        OBVIOUS
      <3>2. InOrder
        BY <1>1, <3>1 DEF IInv
      <3>3. ~trouble /\ Loopback \notin dns
        BY <1>1, <3>2 DEF InOrder, Before
      <3>4. QED
        BY <1>1, <2>2, <3>3 DEF Stranded
    <2>4. QED
      BY <2>1, <2>2, <2>3
  <1>2. IInv => StrandedHasACause
    BY <1>1 DEF StrandedHasACause
  <1>3. QED
    BY Inductive, <1>2, PTL

\* Any number of runs in order leave the resolvers that were set when they began, and
\* what the platform makes of them; with resolvconf also resolvers of earlier settings.
THEOREM ResolversRestored == Spec => []RunsRestoreResolvers
  <1>1. ASSUME IInv, pc = "off", kills = 0, faults = 0
        PROVE  CASE platform = "linux"      -> dns = IF lines THEN due ELSE Back(due)
                 [] platform = "resolvconf" -> own \subseteq dns /\ dns \subseteq past \cup Public
                 [] OTHER                   -> dns \in {due, Back(due)}
    <2>1. InOrder
      BY <1>1 DEF IInv
    <2>2. QED
      BY <1>1, <2>1 DEF InOrder, Stems, Before
  <1>2. IInv => RunsRestoreResolvers
    BY <1>1 DEF RunsRestoreResolvers
  <1>3. QED
    BY Inductive, <1>2, PTL

\* On Linux a stop in order frees the host whatever happened to earlier runs.
THEOREM LinuxFrees == Spec => LinuxStopFreesHost
  <1>1. ASSUME TypeOK, [Next]_vars
        PROVE  [pc = "stopping" /\ configured /\ kills' = kills /\ pc' = "off"
                  /\ platform \in Linux => Loopback \notin dns' \/ faults' > faults]_vars
    <2> SUFFICES ASSUME platform \in Linux, pc = "stopping", configured,
                        kills' = kills, pc' = "off"
                 PROVE  Loopback \notin dns' \/ faults' > faults
      OBVIOUS
    <2>1. kills \in Nat /\ faults \in Nat
      BY <1>1 DEF TypeOK
    <2>2. CASE Restore
      <3>1. SetTo(RestoreTo)
        BY <2>2 DEF Restore
      <3>2. RestoreTo \in Setting /\ Loopback \notin RestoreTo /\ Loopback \notin own
        BY <1>1, RestoreToFacts DEF TypeOK
      <3>3. dns' = RestoreTo \/ dns' = own \cup RestoreTo
        BY <1>1, <3>1, <3>2, SetToFacts DEF Merged
      <3>4. QED
        BY <3>2, <3>3
    <2>3. CASE RestoreFails
      BY <2>1, <2>3 DEF RestoreFails, SetToFails, Fault
    <2>4. CASE Kill
      BY <2>1, <2>4 DEF Kill
    <2>5. CASE Roam \/ UNCHANGED vars
      BY <2>5 DEF Roam, vars, agentVars
    <2>6. CASE Start \/ Detect \/ DetectUnreadable \/ DetectFails
                 \/ SetDNS \/ SetDNSFails \/ Notify \/ Signal
      BY <2>6 DEF Start, Detect, DetectUnreadable, DetectFails,
         SetDNS, SetDNSFails, Notify, Signal
    <2>7. QED
      BY <1>1, <2>2, <2>3, <2>4, <2>5, <2>6 DEF Next, Agent
  <1>2. QED
    BY TypeCorrect, <1>1, PTL DEF Spec, LinuxStopFreesHost
=============================================================================
