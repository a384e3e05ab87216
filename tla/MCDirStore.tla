------------------------------ MODULE MCDirStore ------------------------------
EXTENDS DirStore

CONSTANTS bob, carol, a1, a2, sB, sC, loop, w1

\* Both signatures are on a1.
MCBy == [s \in Sig |-> IF s = sB THEN bob ELSE carol]
MCOn == [s \in Sig |-> a1]

\* Another node has bob's signature, and carol's after it.
MCOffered == {<<a1, sB>>, <<a1, sB, sC>>}
=============================================================================
