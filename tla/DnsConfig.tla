------------------------------ MODULE DnsConfig -----------------------------
(***************************************************************************)
(* The host's DNS setting over the runs of an agent: runAgent points the   *)
(* host at its proxy (Configure), and puts the old resolvers back when a   *)
(* signal tells it to stop (the deferred Restore).  The old resolvers are  *)
(* in the memory of the process only.                                      *)
(*                                                                         *)
(* dns is the set of the resolvers that the host asks; {} is "automatic"   *)
(* for a network adapter and no nameserver at all in a resolv.conf.  What  *)
(* else a resolv.conf says (search, options, the order, comments) is one   *)
(* bit: it is still what the file's owner wrote, or it is not.             *)
(***************************************************************************)
EXTENDS Naturals

CONSTANTS
    Resolvers,   \* the resolvers networks and users choose
    Loopback,    \* 127.0.0.1
    Public,      \* 8.8.8.8 and 1.1.1.1
    Dhcp,        \* the resolvers that the network hands out
    MaxFaults,   \* bound on operations that fail
    MaxKills,    \* bound on runs that end without Restore
    MaxRoams     \* bound on changes of the setting by others

ASSUME ResolversAssumption == Loopback \notin Resolvers /\ Public \subseteq Resolvers
ASSUME PublicAssumption == Public # {}
ASSUME DhcpAssumption == Dhcp \subseteq Resolvers
ASSUME DnsBoundsAssumption == MaxFaults \in Nat /\ MaxKills \in Nat /\ MaxRoams \in Nat

VARIABLES
    platform,     \* what setDNS writes to, see Platform
    dns,          \* the resolvers the host asks
    lines,        \* resolv.conf has the other lines that its owner wrote
    record,       \* the resolvers in resolvconf's record "biglybigly"
    pc,           \* how far runAgent has come
    original,     \* DNSConfigurator.originalDNS
    configured,   \* DNSConfigurator.configured
    faults, kills, roams,
    own,          \* the last setting made by others than the agent (resolvconf has it
                  \* as its other records)
    \* History variables.
    due,          \* the last one that was there when a run read the setting
    past,         \* all resolvers that others have ever set
    trouble       \* the last run was killed, or an operation of it failed

hostVars  == <<dns, lines, record>>
agentVars == <<pc, original, configured>>
boundVars == <<faults, kills, roams>>
ownVars   == <<own, due, past>>
vars == <<platform, hostVars, agentVars, boundVars, ownVars, trouble>>

\* A file that setDNS overwrites; one that resolvconf(8) makes from its records; an
\* adapter's setting.
Linux    == {"linux", "resolvconf"}
Platform == Linux \cup {"darwin", "windows"}

Setting == SUBSET (Resolvers \cup {Loopback})

\* "off", before getActiveDNS, before setDNS, before signal.Notify, before the
\* signal, before Restore.
Phase == {"off", "starting", "detected", "working", "waiting", "stopping"}

TypeOK ==
    /\ platform \in Platform
    /\ dns \in Setting /\ record \in Setting
    /\ lines \in BOOLEAN
    /\ pc \in Phase
    /\ original \in Setting
    /\ platform \in Linux => Loopback \notin original
    /\ configured \in BOOLEAN
    /\ faults \in 0 .. MaxFaults /\ kills \in 0 .. MaxKills /\ roams \in 0 .. MaxRoams
    /\ {own, due, past} \subseteq SUBSET Resolvers
    /\ trouble \in BOOLEAN

Init ==
    /\ platform \in Platform
    /\ own \in SUBSET Resolvers
    /\ dns = own /\ lines = TRUE /\ record = {}
    /\ pc = "off" /\ original = {} /\ configured = FALSE
    /\ faults = 0 /\ kills = 0 /\ roams = 0
    /\ due = own /\ past = own /\ trouble = FALSE

\* An operation of this run fails.
Fault == faults < MaxFaults /\ faults' = faults + 1 /\ trouble' = TRUE

\* The process is gone, and its memory with it.
Gone == pc' = "off" /\ original' = {} /\ configured' = FALSE

-----------------------------------------------------------------------------
(***************************************************************************)
(* setDNS, and resolvconf(8), which is not part of the program: it merges  *)
(* its records into the file, and may leave out all that follows a         *)
(* loopback address.                                                       *)
(***************************************************************************)
Merged(others, S) == {others \cup S} \cup (IF Loopback \in S THEN {S} ELSE {})

\* The whole file is overwritten with nameserver lines; or the record "biglybigly"
\* is, which nothing ever deletes; or the adapter's servers are.
SetTo(S) ==
    \/ /\ platform = "linux"
       /\ dns' = S /\ lines' = FALSE /\ UNCHANGED record
    \/ /\ platform = "resolvconf"
       /\ record' = S /\ dns' \in Merged(own, S) /\ UNCHANGED lines
    \/ /\ platform \notin Linux
       /\ dns' = S /\ UNCHANGED <<lines, record>>

\* It fails.  os.WriteFile truncates the file before it writes; resolvconf may have
\* stored the record, and made the file of it or not.
SetToFails(S) ==
    /\ Fault
    /\ \/ UNCHANGED hostVars
       \/ /\ platform = "linux"
          /\ dns' = {} /\ lines' = FALSE /\ UNCHANGED record
       \/ /\ platform = "resolvconf"
          /\ record' = S /\ dns' \in {dns} \cup Merged(own, S) /\ UNCHANGED lines

-----------------------------------------------------------------------------
(***************************************************************************)
(* A run up to Configure.                                                  *)
(***************************************************************************)
Start ==
    /\ pc = "off"
    /\ pc' = "starting"
    /\ trouble' = FALSE
    /\ UNCHANGED <<platform, hostVars, original, configured, boundVars, ownVars>>

\* Fault variant of ReadDNS: no platform leaves out the agent itself.
ReadAll == dns

\* getActiveDNS: only on Linux it leaves out the agent itself, and on Windows the
\* servers of an automatic adapter are those it was handed out.
ReadDNS ==
    CASE platform \in Linux   -> dns \ {Loopback}
      [] platform = "darwin"  -> dns
      [] platform = "windows" -> IF dns = {} THEN Dhcp ELSE dns

Detect ==
    /\ pc = "starting"
    /\ original' = ReadDNS
    /\ pc' = "detected"
    /\ UNCHANGED <<platform, hostVars, configured, boundVars, ownVars, trouble>>

\* An adapter whose servers cannot be read counts as automatic.
DetectUnreadable ==
    /\ pc = "starting" /\ platform \notin Linux
    /\ Fault
    /\ original' = {}
    /\ pc' = "detected"
    /\ UNCHANGED <<platform, hostVars, configured, kills, roams, ownVars>>

\* Configure returns false: the agent goes on, and Restore is not deferred.
DetectFails ==
    /\ pc = "starting"
    /\ Fault
    /\ pc' = "working"
    /\ UNCHANGED <<platform, hostVars, original, configured, kills, roams, ownVars>>

\* Fault variant of SetDNS: it is forgotten that there is something to restore.
SetDNSForgets ==
    /\ pc = "detected"
    /\ SetTo({Loopback})
    /\ pc' = "working"
    /\ UNCHANGED <<platform, original, configured, boundVars, ownVars, trouble>>

SetDNS ==
    /\ pc = "detected"
    /\ SetTo({Loopback})
    /\ configured' = TRUE
    /\ pc' = "working"
    /\ UNCHANGED <<platform, original, boundVars, ownVars, trouble>>

SetDNSFails ==
    /\ pc = "detected"
    /\ SetToFails({Loopback})
    /\ pc' = "working"
    /\ UNCHANGED <<platform, original, configured, kills, roams, ownVars>>

-----------------------------------------------------------------------------
(***************************************************************************)
(* The end of a run.                                                       *)
(***************************************************************************)
\* signal.Notify comes last in runAgent: a signal before it kills the process.
Notify ==
    /\ pc = "working"
    /\ pc' = "waiting"
    /\ UNCHANGED <<platform, hostVars, original, configured, boundVars, ownVars, trouble>>

\* A signal: runAgent returns, and the deferred Restore runs.
Signal ==
    /\ pc = "waiting"
    /\ pc' = "stopping"
    /\ UNCHANGED <<platform, hostVars, original, configured, boundVars, ownVars, trouble>>

\* A signal that comes too early, SIGKILL, a panic or a power cut.
Kill ==
    /\ pc # "off"
    /\ kills < MaxKills
    /\ kills' = kills + 1
    /\ trouble' = TRUE
    /\ Gone
    /\ UNCHANGED <<platform, hostVars, faults, roams, ownVars>>

\* resetDNS: on Linux there is no automatic setting to go back to.
Automatic == IF platform \in Linux THEN Public ELSE {}

\* Fault variant of RestoreTo: the recorded servers are not used.
RestoreToAutomatic == Automatic

\* What Restore sets: the recorded servers, or the platform's automatic setting.
RestoreTo == IF original = {} THEN Automatic ELSE original

Restore ==
    /\ pc = "stopping"
    /\ IF configured THEN SetTo(RestoreTo) ELSE UNCHANGED hostVars
    /\ Gone
    /\ UNCHANGED <<platform, boundVars, ownVars, trouble>>

RestoreFails ==
    /\ pc = "stopping" /\ configured
    /\ SetToFails(RestoreTo)
    /\ Gone
    /\ UNCHANGED <<platform, kills, roams, ownVars>>

\* A user or the network changes the setting: the whole file, resolvconf's other
\* records, or the adapter's servers.
Roam ==
    /\ roams < MaxRoams
    /\ roams' = roams + 1
    /\ own' \in SUBSET Resolvers
    /\ dns' \in IF platform = "resolvconf" THEN Merged(own', record) ELSE {own'}
    /\ lines' = TRUE
    /\ due' = IF pc \in {"off", "starting"} THEN own' ELSE due
    /\ past' = past \cup own'
    /\ UNCHANGED <<platform, record, agentVars, faults, kills, trouble>>

Agent ==
    \/ Detect \/ DetectUnreadable \/ DetectFails \/ SetDNS \/ SetDNSFails
    \/ Notify \/ Restore \/ RestoreFails

Next == Start \/ Agent \/ Signal \/ Kill \/ Roam

Spec == Init /\ [][Next]_vars

-----------------------------------------------------------------------------
(***************************************************************************)
(* Properties                                                              *)
(***************************************************************************)
\* The host asks a resolver that has stopped, or a resolv.conf has lost its own and
\* names nobody.
Stranded == Loopback \in dns \/ (platform \in Linux /\ dns = {} /\ own # {})

\* A host is left stranded only when some run was killed or some operation failed,
\* never by stops in order alone; and on Linux it must have been the last run, because
\* each one that is not killed and in which nothing fails repairs what earlier ones
\* have left, a truncated file included.
StrandedHasACause ==
    pc = "off" /\ Stranded =>
        /\ kills > 0 \/ faults > 0
        /\ platform \in Linux => trouble

\* What a run in order makes of the setting s: Linux has no automatic one and gets
\* public resolvers, and an automatic adapter of Windows is pinned to the servers it
\* was handed out.
Back(s) ==
    IF s # {} \/ platform = "darwin" THEN s
    ELSE IF platform = "windows" THEN Dhcp ELSE Public

\* After any number of runs that were stopped in order the host asks the resolvers
\* that were set when the first of them read the setting; a change under a running
\* agent is lost.  What else a resolv.conf said is lost with the first setDNS.  With
\* resolvconf a change is not lost, but the record stays: the host asks its own
\* resolvers and, beside them, ones it had at some time.
RunsRestoreResolvers ==
    pc = "off" /\ kills = 0 /\ faults = 0 =>
        CASE platform = "linux"      -> dns = IF lines THEN due ELSE Back(due)
          [] platform = "resolvconf" -> own \subseteq dns /\ dns \subseteq past \cup Public
          [] OTHER                   -> dns \in {due, Back(due)}

\* On Linux the agent never takes itself for the original, so a stop in order frees
\* the host even when an earlier run was killed.
LinuxStopFreesHost ==
    [][pc = "stopping" /\ configured /\ kills' = kills /\ pc' = "off"
         /\ platform \in Linux => Loopback \notin dns' \/ faults' > faults]_vars

\* "restores the original DNS on shutdown" (README): a stop in order in which
\* nothing fails does not leave the host with the resolver that has just stopped.
\* (LinuxStopFreesHost without the platform.)
StopFreesHost ==
    [][pc = "stopping" /\ configured /\ kills' = kills /\ pc' = "off"
         => Loopback \notin dns' \/ faults' > faults]_vars
=============================================================================
