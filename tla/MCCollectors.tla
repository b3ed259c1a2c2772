---------------------------- MODULE MCCollectors ----------------------------
(***************************************************************************)
(* Checking Collectors with two processes and a connection of each kind    *)
(* that the code tells apart.                                              *)
(***************************************************************************)
EXTENDS Collectors

CONSTANTS p1, p2, curl, dig           \* PIDs and programs
CONSTANTS tcp, tcp6, udp, listener    \* sockets

MCSocks  == {tcp, tcp6, udp, listener}
MCProto  == [s \in MCSocks |-> IF s = tcp6 THEN "tcp6" ELSE IF s = udp THEN "udp" ELSE "tcp"]
MCRemote == [s \in MCSocks |-> IF s = listener THEN "none" ELSE "peer"]

MCPids == {p1, p2}
MCPrograms == {curl, dig}
Symmetry == Permutations(MCPids) \cup Permutations(MCPrograms)
=============================================================================
