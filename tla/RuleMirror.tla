----------------------------- MODULE RuleMirror -----------------------------
(***************************************************************************)
(* What the DNS filter of an agent promises about the policy it enforces,  *)
(* whatever the network, the goroutines and the crashes do: the policy in  *)
(* memory is, at every moment, compiled from rules that the server held    *)
(* together at one moment (never from a mixture of two moments) and from   *)
(* whole hosts-file lists.  Some of the rules of that moment may be        *)
(* missing: a replacement of the agent's table can be seen half done.  The *)
(* promise ends when the agent's database does not delete what it is told  *)
(* to delete: the error is ignored, and old and new rules mix.             *)
(*                                                                         *)
(* RuleSync implements this specification.                                 *)
(***************************************************************************)
EXTENDS Naturals, Sequences

CONSTANTS
    Domains,       \* domain names
    RuleDomains,   \* those that custom rules may name
    FirstRules,    \* the server's rules when the agent is installed
    Lists,         \* URLs of hosts-file lists
    Content        \* Content[l]: the domains that parsing list l yields

ASSUME ContentAssumption == Content \in [Lists -> SUBSET Domains]
ASSUME RuleDomainsAssumption == RuleDomains \subseteq Domains

VARIABLES
    hist,      \* hist[v]: the server's rules after its v-th state, newest last
    mem,       \* the policy IsBlocked reads
    mixed      \* a DELETE of the agent's rules has failed

(***************************************************************************)
(* A custom rule.  UNIQUE(domain, action): a domain may have both a block  *)
(* and an allow rule.                                                      *)
(***************************************************************************)
Rule == [domain : RuleDomains, action : {"block", "allow"}]

ASSUME FirstRulesAssumption == FirstRules \subseteq Rule

\* The two maps of BlocklistManager, as the sets of their keys.
Policy == [blocked : SUBSET Domains, allowed : SUBSET Domains]

NoPolicy == [blocked |-> {}, allowed |-> {}]

BlockedBy(R) == {r.domain : r \in {x \in R : x.action # "allow"}}

AllowedBy(R) == {r.domain : r \in {x \in R : x.action = "allow"}}

ListedIn(L) == UNION {Content[l] : l \in L}

\* The policy p with the domains D of a list, or the rules R, laid over it.
WithList(p, D) == [blocked |-> p.blocked \cup D, allowed |-> p.allowed]

WithRules(p, R) == [blocked |-> p.blocked \cup BlockedBy(R),
                    allowed |-> p.allowed \cup AllowedBy(R)]

\* The policy that the rules R and the lists L ask for.
Compile(R, L) == [blocked |-> ListedIn(L) \cup BlockedBy(R),
                  allowed |-> AllowedBy(R)]

-----------------------------------------------------------------------------
MirrorInit ==
    /\ hist = <<FirstRules>>
    /\ mem = NoPolicy
    /\ mixed = FALSE

\* An administrator changes the server's rules.
Edit ==
    /\ \E R \in SUBSET Rule : hist' = Append(hist, R)
    /\ UNCHANGED <<mem, mixed>>

\* The agent puts a policy in force.
Publish ==
    /\ \/ \E v \in 1 .. Len(hist), L \in SUBSET Lists :
             \E R \in SUBSET hist[v] : mem' = Compile(R, L)
       \/ mixed /\ mem' \in Policy
    /\ UNCHANGED <<hist, mixed>>

\* The agent stops.
Forget ==
    /\ mem' = NoPolicy
    /\ UNCHANGED <<hist, mixed>>

\* The agent's database does not do as it is told.
Mix ==
    /\ mixed' = TRUE
    /\ UNCHANGED <<hist, mem>>

MirrorNext == Edit \/ Publish \/ Forget \/ Mix

MirrorSpec == MirrorInit /\ [][MirrorNext]_<<hist, mem, mixed>>
=============================================================================
