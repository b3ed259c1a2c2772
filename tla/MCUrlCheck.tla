----------------------------- MODULE MCUrlCheck -----------------------------
(***************************************************************************)
(* Checking UrlCheck with two URLs and two handlers.                       *)
(***************************************************************************)
EXTENDS UrlCheck, TLC

CONSTANTS u1, u2, h1, h2

MCUrls     == {u1, u2}
MCCheckers == {h1, h2}

\* URLs and handlers are interchangeable.
MCSymmetry == Permutations(MCUrls) \cup Permutations(MCCheckers)
=============================================================================
