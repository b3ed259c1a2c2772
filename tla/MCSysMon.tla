------------------------------- MODULE MCSysMon -----------------------------
(***************************************************************************)
(* Checking SysMon and its views with two agents that report two disks     *)
(* each.                                                                   *)
(***************************************************************************)
EXTENDS SysViews

CONSTANTS a1, a2, m1, m2

MCAgents    == {a1, a2}
MCMounts    == {m1, m2}
MCDiskLists == {<<m1, m2>>}
MCOtherIds  == {1}
=============================================================================
