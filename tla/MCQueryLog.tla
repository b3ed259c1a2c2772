----------------------------- MODULE MCQueryLog -----------------------------
(***************************************************************************)
(* Checking QueryLog with two handlers, which are interchangeable.         *)
(***************************************************************************)
EXTENDS QueryLog

CONSTANTS h1, h2

MCHandlers == {h1, h2}
=============================================================================
