----------------------------- MODULE MCAgentLink ----------------------------
(***************************************************************************)
(* Checking AgentLink: any number of boots, setups and edits, and one      *)
(* failure.                                                                *)
(***************************************************************************)
EXTENDS AgentLink
=============================================================================
