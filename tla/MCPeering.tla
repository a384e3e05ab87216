------------------------------ MODULE MCPeering -------------------------------
EXTENDS Peering

CONSTANTS n1, n2, n3, ghost

\* n1 starts with n2 on its command line, and could be told to add itself; n2 takes
\* nobody from n3's network.
MCBoot == [n \in Node |-> IF n = n1 THEN <<n2>> ELSE <<>>]
MCPermitted ==
    [n \in Node |-> CASE n = n1 -> Addr [] n = n2 -> Addr \ {n3} [] n = n3 -> Addr \ {n3}]
=============================================================================
