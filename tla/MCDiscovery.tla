----------------------------- MODULE MCDiscovery -----------------------------
EXTENDS Discovery

CONSTANTS n1, n2, n3, r, m, w

MCSeeds == <<n1>>

\* Each node may list any of the others.  n3 declares the domain of the address that is
\* looked for, n2 takes any.
MCClass(n) == CASE n = n3 -> "exact" [] n = n2 -> "allowAll" [] OTHER -> "normal"
MCLists == {[n \in Node |-> [p \in l[n] |-> MCClass(p)]] :
              l \in {f \in [Node -> SUBSET Node] : \A n \in Node : n \notin f[n]}}

\* r signed m, and m signed w.  A node may have w without m, with a signature of r too,
\* or revoked.
Blocks(s, v) == [k \in {m, w} |-> IF k = m THEN [sigs |-> {r}, revoked |-> FALSE]
                                   ELSE [sigs |-> s, revoked |-> v]]
OnlyW == [k \in {w} |-> [sigs |-> {m}, revoked |-> FALSE]]

MCHoldings == [Node -> {<<>>, OnlyW, Blocks({m}, FALSE), Blocks({r, m}, FALSE), Blocks({r, m}, TRUE)}]
==============================================================================
