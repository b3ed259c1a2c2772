------------------------------ MODULE LossyLog ------------------------------
(***************************************************************************)
(* What the query log of the DNS filter promises: an entry is at one place *)
(* only.  It is open (the agent or the network has it) until the server    *)
(* stores it or it is lost, and neither is ever undone: nothing is stored  *)
(* twice, and nothing that was lost comes back.  Losing is allowed at any  *)
(* time: this log is best effort.                                          *)
(*                                                                         *)
(* QueryLog implements this specification.                                 *)
(***************************************************************************)
EXTENDS Naturals

VARIABLES
    logged,    \* the number of entries logged so far: 1 .. logged
    open,      \* those on their way
    stored     \* those the server has stored, ever

LogInit == logged = 0 /\ open = {} /\ stored = {}

\* A new entry; older ones may have to make room for it.
Append1 ==
    /\ logged' = logged + 1
    /\ \E S \in SUBSET open : open' = (open \ S) \cup {logged + 1}
    /\ UNCHANGED stored

\* Some entries leave together; all of them, some or none are stored.
Settle ==
    /\ \E S \in SUBSET open :
          /\ open' = open \ S
          /\ \E K \in SUBSET S : stored' = stored \cup K
    /\ UNCHANGED logged

LogNext == Append1 \/ Settle

LogSpec == LogInit /\ [][LogNext]_<<logged, open, stored>>
=============================================================================
