------------------------------ MODULE MCNetMon ------------------------------
(***************************************************************************)
(* Checking NetMon and its views with one agent and the server, and one    *)
(* connection to each of three addresses.  A lookup of ip1 may return x or *)
(* the agent's own name; ip2 and ip3 have none.                            *)
(***************************************************************************)
EXTENDS FlowViews, TLC

CONSTANTS agent, c1, c2, c3, ip1, ip2, ip3, x, p, none, https, dns, tcp, udp

MCConns  == {c1, c2, c3}
MCAddrOf == (c1 :> ip1) @@ (c2 :> ip2) @@ (c3 :> ip3)
MCPtr    == (ip1 :> {x, agent}) @@ (ip2 :> {}) @@ (ip3 :> {})
MCPort   == (c1 :> https) @@ (c2 :> https) @@ (c3 :> dns)
MCProto  == (c1 :> tcp) @@ (c2 :> tcp) @@ (c3 :> udp)

See(c, n, q) == [conn |-> c, name |-> n, proc |-> q]

\* Two sockets of one connection, of which the agent may not see the second's
\* process, and sockets to two addresses that have no name.
MCBatches ==
    {<<See(c1, none, none), See(c1, x, p)>>,
     <<See(c2, none, p), See(c3, none, none)>>}
=============================================================================
