-------------------------------- MODULE Trust --------------------------------
(***************************************************************************)
(* How a client scores a key (trust.go, and trust/graph.py which does the   *)
(* same).  It has fetched the blocks of a ledger, and asks how far it may   *)
(* trust the key `target' when it trusts its own key Root: by the number of *)
(* paths of signatures from Root to target of at most maxDepth hops (Score),*)
(* or by the number of those that share no key between (DisjointScore).     *)
(*                                                                          *)
(* A key is named by its fingerprint.  What a block says of it comes down   *)
(* to who signed it and whether it is revoked; a key without a block is one *)
(* that nobody signed.                                                      *)
(***************************************************************************)
EXTENDS Naturals, Sequences, FiniteSets

CONSTANTS Key, Root,
          Ledgers,    \* the signatures there may be: signers of each key
          Revocable,  \* the keys that may be revoked
          Targets, Depths

ASSUME TrustAssumption ==
    /\ Root \in Key /\ Targets \subseteq Key /\ Revocable \subseteq Key
    /\ Ledgers \subseteq [Key -> SUBSET Key]
    /\ Depths \subseteq Nat /\ IsFiniteSet(Key)

VARIABLES signers, revoked, target, maxDepth, \* what is asked
          method,     \* the function that answers
          phase,
          queue,      \* countPaths, score: paths that may be part of a longer one
          count,      \* the answer, or the part of it found so far
          net         \* disjointMaxFlow: the capacities that are left

question == <<signers, revoked, target, maxDepth, method>>
vars == <<question, phase, queue, count, net>>

Item == [fp : Key, depth : Nat, path : SUBSET Key]

\* The vertices of the flow network: a key between is split in two.
Source == <<Root, "out">>
Sink == <<target, "in">>
Vertex == Key \X {"in", "out"}

TypeOK ==
    /\ signers \in [Key -> SUBSET Key] /\ revoked \in SUBSET Revocable
    /\ target \in Targets /\ maxDepth \in Depths
    /\ method \in {"Score", "score", "DisjointScore"}
    /\ phase \in {"asked", "walk", "flow", "done"}
    /\ queue \in Seq(Item) /\ count \in Nat
    /\ DOMAIN net \subseteq Vertex \X Vertex /\ \A a \in DOMAIN net : net[a] \in Nat

Init ==
    /\ signers \in Ledgers /\ revoked \in SUBSET Revocable
    /\ target \in Targets /\ maxDepth \in Depths
    /\ method \in {"Score", "score", "DisjointScore"}
    /\ phase = "asked" /\ queue = <<>> /\ count = 0 /\ net = <<>>

-----------------------------------------------------------------------------
\* (Mutant: a revoked key keeps the signatures it has made.)
BuildDeadEnds == [k \in Key |-> IF k \in revoked THEN {} ELSE signers[k]]

\* Who vouches for each key: nobody for a revoked one, and no revoked key for any.
Build == [k \in Key |-> IF k \in revoked THEN {} ELSE signers[k] \ revoked]

\* The same the other way, as the Python client keeps it: whom each key vouches for.
BuildSigned == [k \in Key |-> {b \in Key \ revoked : k \in signers[b] \ revoked}]

\* The keys of S in some order; that of a map is random.
Listings(S) == {s \in [1..Cardinality(S) -> S] : \A x \in S : \E i \in DOMAIN s : s[i] = x}

\* What the keys nbrs at the end of path cur make of it: a path to goal is counted,
\* any other may go on.
Extend(cur, nbrs, goal) ==
    /\ count' = IF goal \in nbrs THEN count + 1 ELSE count
    /\ \E s \in Listings(nbrs \ {goal}) :
         queue' = Tail(queue) \o
                    [i \in DOMAIN s |-> [fp |-> s[i], depth |-> cur.depth + 1,
                                        path |-> cur.path \cup {s[i]}]]

Answer(n) ==
    /\ phase' = "done" /\ count' = n
    /\ UNCHANGED <<question, queue, net>>

StartAt(k) ==
    /\ phase' = "walk" /\ queue' = <<[fp |-> k, depth |-> 0, path |-> {k}]>>
    /\ UNCHANGED <<question, count, net>>

-----------------------------------------------------------------------------
(* Score and countPaths: from the target back to the root.                  *)

Score ==
    /\ phase = "asked" /\ method = "Score"
    /\ IF target = Root THEN Answer(1) ELSE StartAt(target)

\* (Mutant: a path may come by a key twice.)
CountPathsRound ==
    /\ phase = "walk" /\ method = "Score" /\ queue # <<>>
    /\ LET cur == Head(queue) IN
         Extend(cur, IF cur.depth >= maxDepth THEN {} ELSE Build[cur.fp], Root)
    /\ UNCHANGED <<question, phase, net>>

CountPaths ==
    /\ phase = "walk" /\ method = "Score" /\ queue # <<>>
    /\ LET cur == Head(queue) IN
         Extend(cur, IF cur.depth >= maxDepth THEN {} ELSE Build[cur.fp] \ cur.path, Root)
    /\ UNCHANGED <<question, phase, net>>

-----------------------------------------------------------------------------
(* score of the Python client: from the root on to the target.              *)

PyScore ==
    /\ phase = "asked" /\ method = "score"
    /\ \/ target \in revoked /\ Answer(0)
       \/ target \notin revoked /\ target = Root /\ Answer(1)
       \/ target \notin revoked /\ target # Root /\ StartAt(Root)

PyCountPaths ==
    /\ phase = "walk" /\ method = "score" /\ queue # <<>>
    /\ LET cur == Head(queue) IN
         Extend(cur, IF cur.depth >= maxDepth THEN {}
                       ELSE (BuildSigned[cur.fp] \ cur.path) \ revoked, target)
    /\ UNCHANGED <<question, phase, net>>

Walked == phase = "walk" /\ queue = <<>>

\* (Mutant: the breadth-first search goes one hop too far.)
TrustedSetFar ==
    LET seen[d \in Nat] ==
          IF d = 0 THEN {Root}
          ELSE seen[d - 1] \cup UNION {BuildSigned[k] \ revoked : k \in seen[d - 1]}
    IN  seen[maxDepth + 1] \ {Root}

\* trusted_set for a threshold of 1: it scores nothing, but collects what is within reach.
TrustedSet ==
    LET seen[d \in Nat] ==
          IF d = 0 THEN {Root}
          ELSE seen[d - 1] \cup UNION {BuildSigned[k] \ revoked : k \in seen[d - 1]}
    IN  seen[maxDepth] \ {Root}

-----------------------------------------------------------------------------
(* DisjointScore: a maximum flow from root to target, where at most one     *)
(* unit passes through each key between.                                    *)

\* The keys within d hops from the root, and those with the target within d hops.
FromRoot ==
    [d \in 0..maxDepth |->
      LET dist[i \in 0..maxDepth] ==
            IF i = 0 THEN {Root}
            ELSE dist[i - 1] \cup {k \in Key : Build[k] \cap dist[i - 1] # {}}
      IN  dist[d]]

ToTarget ==
    [d \in 0..maxDepth |->
      LET dist[i \in 0..maxDepth] ==
            IF i = 0 THEN {target}
            ELSE dist[i - 1] \cup UNION {Build[k] : k \in dist[i - 1]}
      IN  dist[d]]

\* (Mutant: a path through a key between is to be shorter than maxDepth.)
IntermediatesNear ==
    {k \in Key \ {Root, target} :
      \E d \in 0..(maxDepth - 1) : k \in FromRoot[d] /\ k \in ToTarget[maxDepth - 1 - d]}

\* The keys between that are on a way of at most maxDepth hops.
Intermediates ==
    {k \in Key \ {Root, target} :
      \E d \in 0..maxDepth : k \in FromRoot[d] /\ k \in ToTarget[maxDepth - d]}

\* The signatures that are.
Arcs ==
    {a \in ({Root} \cup Intermediates) \X (Intermediates \cup {target}) :
      /\ a[1] \in Build[a[2]]
      /\ \E d \in 0..(maxDepth - 1) : a[1] \in FromRoot[d] /\ a[2] \in ToTarget[maxDepth - 1 - d]}

Back(a) == <<a[2], a[1]>>

\* (Mutant: the keys between are not split.)
CapacitiesUnsplit ==
    LET inter == Intermediates
        split == {<<<<k, "in">>, <<k, "out">>>> : k \in inter}
        cross == {<<<<a[1], "out">>, <<a[2], "in">>>> : a \in Arcs}
        there == split \cup cross
    IN  [a \in there \cup {Back(b) : b \in there} |->
          IF a \in there THEN Cardinality(inter) + 2 ELSE 0]

\* One unit through each key between, and a number that never runs out along a
\* signature: also along one of root itself on target.
Capacities ==
    LET inter == Intermediates
        split == {<<<<k, "in">>, <<k, "out">>>> : k \in inter}
        cross == {<<<<a[1], "out">>, <<a[2], "in">>>> : a \in Arcs}
    IN  [a \in split \cup cross \cup {Back(b) : b \in split \cup cross} |->
          IF a \in cross THEN Cardinality(inter) + 2 ELSE IF a \in split THEN 1 ELSE 0]

DisjointScore ==
    /\ phase = "asked" /\ method = "DisjointScore"
    /\ IF target = Root THEN Answer(1)
       ELSE IF target \notin FromRoot[maxDepth] THEN Answer(0)
       ELSE /\ phase' = "flow" /\ net' = Capacities
            /\ UNCHANGED <<question, queue, count>>

\* The shortest ways from Source to Sink along capacities that are left: those that
\* end before `at' are done, the others go on by the vertices not yet reached.
AugmentingPaths ==
    LET left == {a \in DOMAIN net : net[a] > 0}
        ways[i \in Nat] ==
          IF i = 0 THEN {<<Source>>}
          ELSE LET before == ways[i - 1]
                   reached == UNION {{p[j] : j \in DOMAIN p} : p \in before}
                   next(p) == {a \in left : a[1] = p[Len(p)] /\ a[2] \notin reached}
               IN  IF \E p \in before : p[Len(p)] = Sink \/ before = {} THEN before
                   ELSE UNION {{Append(p, a[2]) : a \in next(p)} : p \in before}
    IN  {p \in ways[2 * Cardinality(Key)] : p[Len(p)] = Sink}

Hops(p) == {<<p[i], p[i + 1]>> : i \in 1..(Len(p) - 1)}
\* (Mutant: the bottleneck is taken for the capacity of the first hop.)
AugmentAll ==
    /\ phase = "flow"
    /\ \E p \in AugmentingPaths :
         LET bn == net[<<p[1], p[2]>>] IN
           /\ net' = [a \in DOMAIN net |->
                       IF a \in Hops(p) THEN net[a] - bn
                       ELSE IF Back(a) \in Hops(p) THEN net[a] + bn ELSE net[a]]
           /\ count' = count + bn
    /\ UNCHANGED <<question, phase, queue>>

\* A round of Edmonds-Karp.
Augment ==
    /\ phase = "flow"
    /\ \E p \in AugmentingPaths :
         LET bn == CHOOSE c \in {net[a] : a \in Hops(p)} : \A a \in Hops(p) : c <= net[a] IN
           /\ net' = [a \in DOMAIN net |->
                       IF a \in Hops(p) THEN net[a] - bn
                       ELSE IF Back(a) \in Hops(p) THEN net[a] + bn ELSE net[a]]
           /\ count' = count + bn
    /\ UNCHANGED <<question, phase, queue>>

Saturated == phase = "flow" /\ AugmentingPaths = {}

Next == \/ Score \/ CountPaths \/ PyScore \/ PyCountPaths \/ DisjointScore \/ Augment
        \/ (Walked \/ Saturated) /\ Answer(count)

Spec == Init /\ [][Next]_vars

-----------------------------------------------------------------------------
(* What the scores are of, stated without a search.                         *)

\* Keys that each signed the next, none twice and none revoked.
IsChain(p) ==
    /\ \A i, j \in DOMAIN p : p[i] = p[j] => i = j
    /\ \A i \in DOMAIN p : p[i] \notin revoked
    /\ \A i \in 1..(Len(p) - 1) : p[i] \in signers[p[i + 1]]

\* Two paths differ if they come by different keys, or by the same in another order.
TrustPaths ==
    {p \in {<<Root>> \o m \o <<target>> : m \in UNION {[1..n -> Key] : n \in 0..(maxDepth - 1)}} :
      IsChain(p)}

Between(p) == {p[i] : i \in 2..(Len(p) - 1)}

\* What spec/trust.md counts instead: "Two paths are distinct if they visit a different set
\* of intermediate nodes".
RouteSets == {Between(p) : p \in TrustPaths}

\* The largest number of trust paths with no key between in common.
MostDisjoint ==
    LET apart == {P \in SUBSET TrustPaths :
                   \A p, q \in P : p # q => Between(p) \cap Between(q) = {}}
    IN  CHOOSE n \in {Cardinality(P) : P \in apart} : \A P \in apart : Cardinality(P) <= n

\* Each trust path is counted once, from whichever end a client starts, although paths
\* share keys and the queue carries sets of them.  Up to a depth of 2, the default, that is
\* the number of sets of keys between that the documents speak of; from a depth of 3 on
\* the code counts the same keys in another order as a further path, and the documents
\* (spec/trust.md:90, 179, docs/trust-guide.md:49, 121) do not.
PathsCounted ==
    phase = "done" /\ method # "DisjointScore" /\ target # Root
      => /\ count = Cardinality(TrustPaths)
         /\ maxDepth <= 2 => count = Cardinality(RouteSets)

\* No path is counted, at any point, when there is no trust path: a revoked key earns
\* no credit for itself or for those it signed, nor does a path that is too long.
CreditHasPath ==
    count > 0 /\ method # "DisjointScore" /\ target # Root => TrustPaths # {}

\* The search that trusted_set does instead of scoring gives the keys that score.
TrustedSetAgrees ==
    phase = "done" /\ method = "score" /\ target # Root
      => (count >= 1 <=> target \in TrustedSet)

\* spec/trust.md: "For threshold = 1, both algorithms are equivalent".
ThresholdOne ==
    phase = "done" /\ method = "DisjointScore" /\ target # Root
      => (count >= 1 <=> TrustPaths # {})

\* For a key that root has not signed itself, and up to a depth of 3, the flow is the
\* number of disjoint paths, although the network may join hops of different paths.
DisjointCounted ==
    (/\ phase = "done" /\ method = "DisjointScore"
     /\ target # Root /\ Root \notin signers[target] /\ maxDepth <= 3)
      => count = MostDisjoint

-----------------------------------------------------------------------------
(* A claim of the source that the code does not keep.                       *)

\* trust.go: DisjointScore "returns the maximum number of vertex-disjoint trust paths
\* from rootFP to targetFP within maxDepth hops".
DisjointIsMost ==
    phase = "done" /\ method = "DisjointScore" /\ target # Root => count = MostDisjoint
=============================================================================
