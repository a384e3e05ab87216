------------------------------- MODULE MCLedger -------------------------------
EXTENDS Ledger, TLC

CONSTANTS n1, n2, n3, alice, bob, carol, a1, a2, b1, c1, t1, t2, t3, sBA, sAB, sBA2, sCA

\* Blocks and the fingerprints of their keys; a2 is a second submission of
\* alice's key.
MCFp == [b \in Block |-> CASE b \in {a1, a2} -> alice [] b = b1 -> bob [] b = c1 -> carol]

\* Signatures are named for their signer and the key they are on.
MCBy == [s \in Sig |-> CASE s \in {sBA, sBA2} -> bob [] s = sAB -> alice [] s = sCA -> carol]
MCOn == [s \in Sig |-> IF s = sAB THEN b1 ELSE a1]

AllPeers == [n \in Node |-> Node \ {n}]
AllowAll == [n \in Node |-> Block]
\* alice's second submission carries addresses that n2's allowlist does not admit.
AllowSome == [n \in Node |-> IF n = n2 THEN Block \ {a2} ELSE Block]

\* Goroutines are interchangeable: no action tells one from another.
Symmetry == Permutations(Thread)
=============================================================================
