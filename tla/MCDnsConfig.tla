----------------------------- MODULE MCDnsConfig ----------------------------
(***************************************************************************)
(* Checking DnsConfig with a network's own resolver and a public one.      *)
(***************************************************************************)
EXTENDS DnsConfig

CONSTANTS isp, google

MCResolvers == {isp, google}
MCPublic    == {google}
MCDhcp      == {isp}
=============================================================================
