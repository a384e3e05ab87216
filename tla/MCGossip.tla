------------------------------- MODULE MCGossip -------------------------------
EXTENDS Gossip

CONSTANTS n1, n2, n3, a, b, x, alice, bob, bob2, sig, off, rev

\* alice's block is signed by bob, and revoked.  bob has submitted his key twice; the second
\* time it is signed by x, who is not on the ledger.
MCFp == [e \in BlockEv |-> IF e = alice THEN a ELSE b]
MCOf == [e \in SigEv \cup RevokeEv |-> IF e = off THEN bob2 ELSE alice]
MCBy == [e \in SigEv |-> IF e = off THEN x ELSE b]

\* n2 is between the other two; each node knows the next one only.
Line == [n \in Node |-> IF n = n2 THEN {n1, n3} ELSE {n2}]
Ring == [n \in Node |-> CASE n = n1 -> {n2} [] n = n2 -> {n3} [] n = n3 -> {n1}]

\* bob submits his key at n1, and anew at n2 with an address that n3 does not allow; what
\* is signed is signed at n2.
MCDoor == [e \in Event |-> CASE e = bob -> {n1} [] e \in {bob2, sig, off} -> {n2} [] OTHER -> {}]
AtOne == [e \in Event |-> {n1}]
MCAllowed == [n \in Node |-> IF n = n3 THEN BlockEv \ {bob2} ELSE BlockEv]

\* Nothing is stored at the start; or alice's block is everywhere, and her revocation has
\* come to n1 only.
Nothing == [n \in Node |-> {}]
AliceKept == [n \in Node |-> IF n = n1 THEN {alice, rev} ELSE {alice}]
=============================================================================
