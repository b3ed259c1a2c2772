----------------------------- MODULE MCRuleSync -----------------------------
(***************************************************************************)
(* Constants for checking RuleSync: rules name d1, which is also in the    *)
(* second list l2; d2 and d3 tell in memory which lists it was built from. *)
(***************************************************************************)
EXTENDS RuleSync

CONSTANTS d1, d2, d3, l1, l2

MCDomains     == {d1, d2, d3}
MCRuleDomains == {d1}
MCFirstRules  == {[domain |-> d1, action |-> "block"]}
MCLists       == {l1, l2}
MCContent     == [l \in MCLists |-> IF l = l1 THEN {d2} ELSE {d1, d3}]
=============================================================================
