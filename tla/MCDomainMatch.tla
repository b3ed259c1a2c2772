---------------------------- MODULE MCDomainMatch ---------------------------
(***************************************************************************)
(* Checking DomainMatch with the name a.b.c.d, its parents, and two names  *)
(* of the host itself; the list files have a line of each form.            *)
(***************************************************************************)
EXTENDS DomainMatch

CONSTANTS a, b, c, d, localhost, comment, h1, h2

n1 == <<d>>
n2 == <<c, d>>
n3 == <<b, c, d>>
n4 == <<a, b, c, d>>
l1 == <<localhost>>
l2 == <<localhost, d>>

MCLabels      == {a, b, c, d, localhost}
MCNames       == {n1, n2, n3, n4, l1, l2}
MCLocalLabels == {localhost}
MCBlockRules  == {n1, n2}
MCAllowRules  == {n2, n3, n4}
MCHandlers    == {h1, h2}

MCFiles == {
    {},
    {<<Sink, n3>>, <<n4, comment>>, <<Sink, l1>>, <<n1>>, <<>>},
    {<<n2>>, <<l2>>, <<comment>>, <<Sink, n4, comment>>}}
=============================================================================
