----------------------------- MODULE TrustProofs -----------------------------
(***************************************************************************)
(* What a score is, for any keys, signatures, revocations and depth, from   *)
(* whichever end a client starts.                                           *)
(*                                                                          *)
(* Paths: each item of the queue stands for a path that exists (WalkInv),   *)
(* and the trust paths still to be counted are those that go on from the    *)
(* items of the queue, no two items sharing one (CountInv): so the count is *)
(* exact.  Reach: the searches of trusted_set and of disjointMaxFlow by     *)
(* distance find what walks find, and a shortest walk is a path.  Flow:     *)
(* the breadth-first search of Edmonds-Karp finds a way where there is one  *)
(* (FlowInv); where root has not signed the target itself, each round sends *)
(* one unit more along signatures (UnitFlow), each unit has a path of its   *)
(* own, and at the end every trust path has a key where the search stops,   *)
(* of which there are as many as units (DisjointInv).                       *)
(***************************************************************************)
EXTENDS Trust, FiniteSetTheorems, TLAPS

\* A path of the graph the client has built, its keys distinct.
IsPath(p) ==
    /\ p \in Seq(Key) /\ Len(p) >= 1
    /\ \A i, j \in 1..Len(p) : p[i] = p[j] => i = j
    /\ \A i \in 1..(Len(p) - 1) : p[i] \in Build[p[i + 1]]

\* A path that an item of the queue may stand for.
StandsFor(q, p) ==
    /\ IsPath(p) /\ Len(p) = q.depth + 1
    /\ \A k : k \in q.path <=> \E i \in 1..Len(p) : p[i] = k
    /\ method = "Score" => p[1] = q.fp /\ p[Len(p)] = target /\ Root \notin q.path
    /\ method = "score" => p[1] = Root /\ p[Len(p)] = q.fp /\ target \notin q.path

Sound(q) == q \in Item /\ q.depth <= maxDepth /\ \E p : StandsFor(q, p)

Question ==
    /\ signers \in [Key -> SUBSET Key] /\ revoked \subseteq Key
    /\ target \in Key /\ maxDepth \in Nat
    /\ method \in {"Score", "score", "DisjointScore"}

Walking ==
    /\ phase \in {"asked", "walk", "done"}
    /\ queue \in Seq(Item) /\ count \in Nat
    /\ phase = "walk" => target # Root
    /\ phase = "asked" => queue = <<>> /\ count = 0
    /\ \A i \in 1..Len(queue) : Sound(queue[i])
    /\ count > 0 /\ target # Root => TrustPaths # {}

WalkInv == Question /\ (method # "DisjointScore" => Walking)

-----------------------------------------------------------------------------
(* Paths.                                                                   *)

\* A path with the keys of p, and k besides.
Adds(l, p, k) ==
    /\ IsPath(l) /\ Len(l) = Len(p) + 1
    /\ \A x : (\E i \in 1..Len(l) : l[i] = x) <=> x = k \/ \E i \in 1..Len(p) : p[i] = x

InFront(k, p) == <<k>> \o p

\* A key that signed the first of a path, and is not on it, makes it longer.
LEMMA LongerInFront ==
    ASSUME NEW p, IsPath(p), NEW k \in Key, k \in Build[p[1]],
           \A i \in 1..Len(p) : p[i] # k
    PROVE  /\ Adds(InFront(k, p), p, k)
           /\ InFront(k, p)[1] = k /\ InFront(k, p)[Len(InFront(k, p))] = p[Len(p)]
<1> DEFINE l == InFront(k, p)
<1>0. p \in Seq(Key) /\ Len(p) \in Nat /\ Len(p) >= 1
  BY DEF IsPath
<1>1. l \in Seq(Key) /\ Len(l) = Len(p) + 1
  BY <1>0 DEF InFront
<1>2. l[1] = k /\ \A i \in 2..Len(l) : l[i] = p[i - 1]
  BY <1>0 DEF InFront
<1>3. \A i \in 1..Len(p) : l[i + 1] = p[i]
  BY <1>0 DEF InFront
<1> HIDE DEF l
<1>4. \A i, j \in 1..Len(l) : l[i] = l[j] => i = j
  <2> SUFFICES ASSUME NEW i \in 1..Len(l), NEW j \in 1..Len(l), l[i] = l[j]
               PROVE  i = j
    OBVIOUS
  <2>1. CASE i = 1 \/ j = 1
    BY <2>1, <1>0, <1>1, <1>2
  <2>2. CASE i # 1 /\ j # 1
    <3>1. i - 1 \in 1..Len(p) /\ j - 1 \in 1..Len(p)
      BY <2>2, <1>0, <1>1
    <3>2. p[i - 1] = p[j - 1]
      BY <2>2, <1>0, <1>1, <1>2
    <3>3. i - 1 = j - 1
      BY <3>1, <3>2 DEF IsPath
    <3> QED
      BY <3>3, <1>0, <1>1
  <2> QED
    BY <2>1, <2>2
<1>5. \A i \in 1..(Len(l) - 1) : l[i] \in Build[l[i + 1]]
  <2> SUFFICES ASSUME NEW i \in 1..(Len(l) - 1)
               PROVE  l[i] \in Build[l[i + 1]]
    OBVIOUS
  <2>1. CASE i = 1
    BY <2>1, <1>0, <1>1, <1>2, <1>3
  <2>2. CASE i # 1
    <3>1. i - 1 \in 1..(Len(p) - 1) /\ l[i] = p[i - 1] /\ l[i + 1] = p[i]
      BY <2>2, <1>0, <1>1, <1>2
    <3>2. (i - 1) + 1 = i
      BY <1>0, <1>1
    <3>3. p[i - 1] \in Build[p[(i - 1) + 1]]
      BY <3>1 DEF IsPath
    <3> QED
      BY <3>1, <3>2, <3>3
  <2> QED
    BY <2>1, <2>2
<1>6. IsPath(l)
  BY <1>0, <1>1, <1>4, <1>5 DEF IsPath
<1>7. l[Len(l)] = p[Len(p)]
  BY <1>0, <1>1, <1>2
<1>8. ASSUME NEW x
      PROVE  (\E i \in 1..Len(l) : l[i] = x) <=> x = k \/ \E i \in 1..Len(p) : p[i] = x
  <2>1. ASSUME NEW i \in 1..Len(l), l[i] = x
        PROVE  x = k \/ \E j \in 1..Len(p) : p[j] = x
    <3>1. CASE i = 1
      BY <2>1, <3>1, <1>2
    <3>2. CASE i # 1
      <4>1. i - 1 \in 1..Len(p) /\ p[i - 1] = x
        BY <2>1, <3>2, <1>0, <1>1, <1>2
      <4> QED
        BY <4>1
    <3> QED
      BY <3>1, <3>2
  <2>2. ASSUME NEW i \in 1..Len(p), p[i] = x
        PROVE  \E j \in 1..Len(l) : l[j] = x
    <3>1. i + 1 \in 1..Len(l) /\ l[i + 1] = x
      BY <2>2, <1>0, <1>1, <1>3
    <3> QED
      BY <3>1
  <2>3. 1 \in 1..Len(l)
    BY <1>0, <1>1
  <2> QED
    BY <2>1, <2>2, <2>3, <1>2
<1>9. Adds(l, p, k)
  BY <1>1, <1>6, <1>8 DEF Adds
<1> QED
  BY <1>2, <1>7, <1>9 DEF l

\* A key that the last of a path signed, and that is not on it, makes it longer.
LEMMA LongerAtEnd ==
    ASSUME NEW p, IsPath(p), NEW k \in Key, p[Len(p)] \in Build[k],
           \A i \in 1..Len(p) : p[i] # k
    PROVE  LET l == Append(p, k)
           IN  /\ IsPath(l) /\ Len(l) = Len(p) + 1
               /\ l[1] = p[1] /\ l[Len(l)] = k
               /\ \A x : (\E i \in 1..Len(l) : l[i] = x)
                           <=> x = k \/ \E i \in 1..Len(p) : p[i] = x
<1> DEFINE l == Append(p, k)
<1>0. p \in Seq(Key) /\ Len(p) \in Nat /\ Len(p) >= 1
  BY DEF IsPath
<1>1. l \in Seq(Key) /\ Len(l) = Len(p) + 1 /\ l[Len(l)] = k
  BY <1>0
<1>2. \A i \in 1..Len(p) : l[i] = p[i]
  BY <1>0
<1> HIDE DEF l
<1>3. \A i \in 1..Len(l) : i \in 1..Len(p) \/ i = Len(l)
  BY <1>0, <1>1
<1>4. \A i, j \in 1..Len(l) : l[i] = l[j] => i = j
  BY <1>0, <1>1, <1>2, <1>3 DEF IsPath
<1>5. \A i \in 1..(Len(l) - 1) : l[i] \in Build[l[i + 1]]
  <2> SUFFICES ASSUME NEW i \in 1..(Len(l) - 1)
               PROVE  l[i] \in Build[l[i + 1]]
    OBVIOUS
  <2>1. CASE i = Len(p)
    BY <2>1, <1>0, <1>1, <1>2
  <2>2. CASE i # Len(p)
    <3>1. i \in 1..(Len(p) - 1) /\ i + 1 \in 1..Len(p)
      BY <2>2, <1>0, <1>1
    <3>2. p[i] \in Build[p[i + 1]]
      BY <3>1 DEF IsPath
    <3> QED
      BY <3>1, <3>2, <1>2, <1>0
  <2> QED
    BY <2>1, <2>2
<1>6. IsPath(l)
  BY <1>0, <1>1, <1>4, <1>5 DEF IsPath
<1>7. l[1] = p[1]
  BY <1>0, <1>2
<1>8. ASSUME NEW x
      PROVE  (\E i \in 1..Len(l) : l[i] = x) <=> x = k \/ \E i \in 1..Len(p) : p[i] = x
  BY <1>0, <1>1, <1>2, <1>3
<1> QED
  BY <1>1, <1>6, <1>7, <1>8 DEF l

\* A path from the root to the target that is not too long is a trust path.
LEMMA PathIsTrustPath ==
    ASSUME Question, NEW p, IsPath(p), Len(p) >= 2, Len(p) <= maxDepth + 1,
           p[1] = Root, p[Len(p)] = target
    PROVE  p \in TrustPaths
<1> DEFINE m == [i \in 1..(Len(p) - 2) |-> p[i + 1]]
           w == <<Root>> \o m \o <<target>>
<1>0. p \in Seq(Key) /\ Len(p) \in Nat /\ maxDepth \in Nat
  BY DEF IsPath, Question
<1>1. m \in [1..(Len(p) - 2) -> Key]
  BY <1>0
<1>2. Len(p) - 2 \in 0..(maxDepth - 1)
  BY <1>0
<1>3. m \in Seq(Key) /\ Len(m) = Len(p) - 2
  BY <1>0, <1>1
<1>4. w = p
  <2>1. \A i \in 1..Len(m) : m[i] = p[i + 1]
    BY <1>3, <1>0
  <2> HIDE DEF m
  <2>2. w \in Seq(Key) /\ Len(w) = Len(p)
    BY <1>3, <1>0, TrustAssumption DEF Question
  <2>3. w[1] = Root /\ w[Len(p)] = target
    BY <1>3, <1>0
  <2>4. ASSUME NEW i \in 1..Len(p), i # 1, i # Len(p)
        PROVE  w[i] = p[i]
    <3>1. i - 1 \in 1..Len(m) /\ w[i] = m[i - 1]
      BY <2>4, <1>3, <1>0
    <3>2. m[i - 1] = p[(i - 1) + 1]
      BY <3>1, <2>1
    <3> QED
      BY <3>1, <3>2, <1>0
  <2>5. \A i \in 1..Len(p) : w[i] = p[i]
    BY <2>3, <2>4
  <2> HIDE DEF w
  <2> QED
    BY <2>2, <2>5, <1>0
<1>5. \A i \in 1..(Len(p) - 1) :
        /\ p[i] \in signers[p[i + 1]]
        /\ p[i] \notin revoked /\ p[i + 1] \notin revoked
  <2> SUFFICES ASSUME NEW i \in 1..(Len(p) - 1)
               PROVE  /\ p[i] \in signers[p[i + 1]]
                      /\ p[i] \notin revoked /\ p[i + 1] \notin revoked
    OBVIOUS
  <2>1. p[i] \in Build[p[i + 1]]
    BY DEF IsPath
  <2>2. p[i + 1] \in Key
    BY <1>0
  <2> QED
    BY <2>1, <2>2 DEF Build
<1>6. \A i \in 1..Len(p) : p[i] \notin revoked
  <2> SUFFICES ASSUME NEW i \in 1..Len(p)
               PROVE  p[i] \notin revoked
    OBVIOUS
  <2>1. CASE i < Len(p)
    BY <2>1, <1>0, <1>5
  <2>2. CASE i = Len(p)
    <3>1. Len(p) - 1 \in 1..(Len(p) - 1) /\ (Len(p) - 1) + 1 = Len(p)
      BY <1>0
    <3> QED
      BY <3>1, <2>2, <1>5
  <2> QED
    BY <2>1, <2>2, <1>0
<1>7. IsChain(p)
  <2>1. DOMAIN p = 1..Len(p)
    BY <1>0
  <2> QED
    BY <2>1, <1>5, <1>6 DEF IsChain, IsPath
<1>8. m \in UNION {[1..n -> Key] : n \in 0..(maxDepth - 1)}
  BY <1>1, <1>2
<1>9. p \in TrustPaths
  <2> HIDE DEF m
  <2> QED
    BY <1>4, <1>7, <1>8 DEF TrustPaths
<1> QED
  BY <1>9

\* And the other way.
LEMMA TrustPathIsPath ==
    ASSUME Question, NEW p \in TrustPaths
    PROVE  /\ IsPath(p) /\ Len(p) >= 2 /\ Len(p) <= maxDepth + 1
           /\ p[1] = Root /\ p[Len(p)] = target
<1>1. PICK n \in 0..(maxDepth - 1) : \E m \in [1..n -> Key] :
        p = <<Root>> \o m \o <<target>> /\ IsChain(p)
  BY DEF TrustPaths
<1>2. PICK m \in [1..n -> Key] : p = <<Root>> \o m \o <<target>> /\ IsChain(p)
  BY <1>1
<1>3. n \in Nat /\ n + 2 <= maxDepth + 1 /\ Root \in Key /\ target \in Key /\ maxDepth \in Nat
  BY TrustAssumption DEF TrustAssumption, Question
<1>4. m \in Seq(Key) /\ Len(m) = n
  BY <1>3
<1>5. p \in Seq(Key) /\ Len(p) = n + 2 /\ p[1] = Root /\ p[n + 2] = target
  BY <1>2, <1>3, <1>4
<1>6. ASSUME NEW i \in 1..(Len(p) - 1)
      PROVE  p[i] \in Build[p[i + 1]]
  <2>1. i \in DOMAIN p /\ i + 1 \in DOMAIN p
    BY <1>3, <1>5
  <2>2. p[i] \in signers[p[i + 1]] /\ p[i] \notin revoked /\ p[i + 1] \notin revoked
    BY <1>2, <2>1 DEF IsChain
  <2>3. p[i + 1] \in Key
    BY <1>5, <2>1
  <2> QED
    BY <2>2, <2>3 DEF Build
<1>7. \A i, j \in 1..Len(p) : p[i] = p[j] => i = j
  <2>1. DOMAIN p = 1..Len(p)
    BY <1>5
  <2>2. IsChain(p)
    BY <1>2
  <2> QED
    BY <2>1, <2>2, Zenon DEF IsChain
<1>8. IsPath(p)
  BY <1>3, <1>5, <1>6, <1>7 DEF IsPath
<1> QED
  BY <1>3, <1>5, <1>8

-----------------------------------------------------------------------------
(* The queue.                                                               *)

\* The item for key k behind cur.
Behind(cur, k) == [fp |-> k, depth |-> cur.depth + 1, path |-> cur.path \cup {k}]

\* Where the items for the keys nbrs are sound, Extend leaves a sound queue.
LEMMA ExtendSound ==
    ASSUME TrustAssumption, Walking, queue # <<>>, NEW nbrs \in SUBSET Key, NEW goal,
           Extend(Head(queue), nbrs, goal),
           \A k \in nbrs \ {goal} : Sound(Behind(Head(queue), k))
    PROVE  /\ queue' \in Seq(Item) /\ count' \in Nat
           /\ \A i \in 1..Len(queue') : Sound(queue'[i])
<1> DEFINE new == nbrs \ {goal}
<1>1. IsFiniteSet(new) /\ Cardinality(new) \in Nat
  <2>1. IsFiniteSet(Key) /\ new \in SUBSET Key
    BY DEF TrustAssumption
  <2> QED
    BY <2>1, FS_Subset, FS_CardinalityType
<1>2. PICK s \in Listings(new) :
        queue' = Tail(queue) \o
                   [i \in DOMAIN s |-> [fp |-> s[i], depth |-> Head(queue).depth + 1,
                                       path |-> Head(queue).path \cup {s[i]}]]
  BY DEF Extend
<1> DEFINE more == [i \in DOMAIN s |-> Behind(Head(queue), s[i])]
<1>3. queue' = Tail(queue) \o more
  BY <1>2 DEF Behind
<1>4. s \in [1..Cardinality(new) -> new]
  BY DEF Listings
<1>5. \A i \in 1..Cardinality(new) : Sound(more[i])
  BY <1>4
<1>6. more \in Seq(Item) /\ Len(more) = Cardinality(new)
  <2>1. \A i \in 1..Cardinality(new) : more[i] \in Item
    BY <1>5 DEF Sound
  <2>2. DOMAIN more = 1..Cardinality(new)
    BY <1>4
  <2>3. more \in [1..Cardinality(new) -> Item]
    BY <2>1, <2>2
  <2> HIDE DEF more, new
  <2> QED
    BY <2>3, <1>1
<1>7. Tail(queue) \in Seq(Item) /\ \A i \in 1..Len(Tail(queue)) : Sound(Tail(queue)[i])
  BY DEF Walking
<1>8. count' \in Nat
  BY DEF Extend, Walking
<1> DEFINE rest == Tail(queue)
<1>9. queue' \in Seq(Item) /\ \A i \in 1..Len(queue') : Sound(queue'[i])
  <2>1. rest \in Seq(Item) /\ \A i \in 1..Len(rest) : Sound(rest[i])
    BY <1>7
  <2>2. queue' = rest \o more
    BY <1>3
  <2>3. \A i \in 1..Len(more) : Sound(more[i])
    BY <1>5, <1>6
  <2>4. more \in Seq(Item)
    BY <1>6
  <2> HIDE DEF rest, more
  <2>5. queue' \in Seq(Item) /\ Len(queue') = Len(rest) + Len(more)
    BY <2>1, <2>2, <2>4
  <2>6. ASSUME NEW i \in 1..Len(queue')
        PROVE  Sound(queue'[i])
    <3>1. CASE i \in 1..Len(rest)
      BY <3>1, <2>1, <2>2, <2>4
    <3>2. CASE i \notin 1..Len(rest)
      <4>1. i - Len(rest) \in 1..Len(more) /\ queue'[i] = more[i - Len(rest)]
        BY <3>2, <2>1, <2>2, <2>4, <2>5
      <4> QED
        BY <4>1, <2>3
    <3> QED
      BY <3>1, <3>2
  <2> QED
    BY <2>5, <2>6
<1> QED
  BY <1>8, <1>9

\* The question does not change, and what was true of it is.
LEMMA QuestionStays ==
    ASSUME Question, UNCHANGED question
    PROVE  Question' /\ Build' = Build /\ TrustPaths' = TrustPaths
BY DEF Question, question, Build, TrustPaths, IsChain

\* So the items that were sound are sound.
LEMMA SoundStays ==
    ASSUME Question, UNCHANGED question, \A i \in 1..Len(queue') : Sound(queue'[i])
    PROVE  (\A i \in 1..Len(queue) : Sound(queue[i]))'
<1>1. Build' = Build /\ target' = target /\ maxDepth' = maxDepth /\ method' = method
  BY QuestionStays DEF question
<1>2. ASSUME NEW p, IsPath(p)
      PROVE  IsPath(p)'
  BY <1>1, <1>2 DEF IsPath
<1>3. ASSUME NEW i \in 1..Len(queue')
      PROVE  (Sound(queue[i]))'
  <2>1. PICK p : StandsFor(queue'[i], p)
    BY <1>3 DEF Sound
  <2>2. IsPath(p)'
    BY <2>1, <1>2 DEF StandsFor
  <2>3. (StandsFor(queue[i], p))'
    BY <1>1, <2>1, <2>2 DEF StandsFor
  <2>4. queue'[i] \in Item /\ queue'[i].depth <= maxDepth
    BY <1>3 DEF Sound
  <2> QED
    BY <1>1, <2>3, <2>4 DEF Sound
<1> QED
  BY <1>3

-----------------------------------------------------------------------------
(* The steps.                                                               *)

\* A round of countPaths, which goes back from the target.
LEMMA CountPathsStep ==
    ASSUME TrustAssumption, WalkInv, CountPaths
    PROVE  WalkInv'
<1> DEFINE cur == Head(queue)
           nbrs == IF cur.depth >= maxDepth THEN {} ELSE Build[cur.fp] \ cur.path
<1>1. /\ method = "Score" /\ phase = "walk" /\ queue # <<>> /\ target # Root
      /\ Question /\ Walking
      /\ UNCHANGED question /\ UNCHANGED phase
      /\ Extend(cur, nbrs, Root)
  BY DEF CountPaths, WalkInv, Walking
<1>2. Sound(cur)
  BY <1>1 DEF Walking
<1>3. PICK p : StandsFor(cur, p)
  BY <1>2 DEF Sound
<1>4. cur \in Item /\ cur.depth \in Nat /\ cur.depth <= maxDepth /\ maxDepth \in Nat
  BY <1>1, <1>2 DEF Sound, Item, Question
<1>5. IsPath(p) /\ Len(p) = cur.depth + 1 /\ p[1] = cur.fp /\ p[Len(p)] = target
      /\ Root \notin cur.path /\ \A k : k \in cur.path <=> \E i \in 1..Len(p) : p[i] = k
  BY <1>1, <1>3 DEF StandsFor
<1>6. nbrs \in SUBSET Key
  BY <1>1, <1>4 DEF Build, Question, Item
<1>7. ASSUME NEW k \in nbrs
      PROVE  \E l : /\ IsPath(l) /\ Len(l) = cur.depth + 2 /\ l[1] = k /\ l[Len(l)] = target
                    /\ \A x : x \in cur.path \cup {k} <=> \E i \in 1..Len(l) : l[i] = x
                    /\ cur.depth + 1 <= maxDepth
  <2>1. k \in Build[p[1]] /\ k \in Key /\ ~(cur.depth >= maxDepth)
        /\ \A i \in 1..Len(p) : p[i] # k
    BY <1>5, <1>6
  <2>0. /\ IsPath(p) /\ k \in Key /\ k \in Build[p[1]] /\ \A i \in 1..Len(p) : p[i] # k
        /\ Len(p) = cur.depth + 1 /\ p[Len(p)] = target
        /\ cur.depth \in Nat /\ cur.depth <= maxDepth /\ maxDepth \in Nat
        /\ ~(cur.depth >= maxDepth)
        /\ \A x : x \in cur.path <=> \E i \in 1..Len(p) : p[i] = x
    BY <2>1, <1>4, <1>5
  <2> HIDE DEF cur, nbrs
  <2>2. PICK l :
          /\ IsPath(l) /\ Len(l) = Len(p) + 1 /\ l[1] = k /\ l[Len(l)] = p[Len(p)]
          /\ \A x : (\E i \in 1..Len(l) : l[i] = x) <=> x = k \/ \E i \in 1..Len(p) : p[i] = x
    <3>1. PICK l : Adds(l, p, k) /\ l[1] = k /\ l[Len(l)] = p[Len(p)]
      BY <2>0, LongerInFront
    <3>2. IsPath(l) /\ Len(l) = Len(p) + 1
      BY <3>1 DEF Adds
    <3>3. \A x : (\E i \in 1..Len(l) : l[i] = x) <=> x = k \/ \E i \in 1..Len(p) : p[i] = x
      BY <3>1 DEF Adds
    <3> QED
      BY <3>1, <3>2, <3>3, ZenonT(30)
  <2>3. Len(l) = cur.depth + 2 /\ l[Len(l)] = target /\ cur.depth + 1 <= maxDepth
    BY <2>0, <2>2
  <2>4. \A x : x \in cur.path \cup {k} <=> \E i \in 1..Len(l) : l[i] = x
    BY <2>0, <2>2
  <2> QED
    BY <2>2, <2>3, <2>4
<1>8. ASSUME NEW k \in nbrs \ {Root}
      PROVE  Sound(Behind(cur, k))
  <2>1. PICK l : /\ IsPath(l) /\ Len(l) = cur.depth + 2 /\ l[1] = k /\ l[Len(l)] = target
                 /\ \A x : x \in cur.path \cup {k} <=> \E i \in 1..Len(l) : l[i] = x
                 /\ cur.depth + 1 <= maxDepth
    BY <1>7
  <2>2. Behind(cur, k) \in Item
    BY <1>4, <1>6 DEF Item, Behind
  <2>3. StandsFor(Behind(cur, k), l)
    BY <1>1, <1>4, <1>5, <2>1 DEF StandsFor, Behind
  <2> QED
    BY <2>1, <2>2, <2>3 DEF Sound, Behind
<1>9. Root \in nbrs => TrustPaths # {}
  <2> SUFFICES ASSUME Root \in nbrs PROVE TrustPaths # {}
    OBVIOUS
  <2>1. PICK l : /\ IsPath(l) /\ Len(l) = cur.depth + 2 /\ l[1] = Root /\ l[Len(l)] = target
                 /\ cur.depth + 1 <= maxDepth
    BY <1>7
  <2> QED
    BY <1>1, <1>4, <2>1, PathIsTrustPath
<1> HIDE DEF cur, nbrs
<1>10. /\ queue' \in Seq(Item) /\ count' \in Nat
       /\ \A i \in 1..Len(queue') : Sound(queue'[i])
  BY <1>1, <1>6, <1>8, ExtendSound DEF cur
<1>11. count' > 0 => TrustPaths # {}
  BY <1>1, <1>9 DEF Extend, Walking
<1> QED
  BY <1>1, <1>10, <1>11, QuestionStays, SoundStays DEF WalkInv, Walking, question

\* A round of the Python client, which goes on from the root.
LEMMA PyCountPathsStep ==
    ASSUME TrustAssumption, WalkInv, PyCountPaths
    PROVE  WalkInv'
<1> DEFINE cur == Head(queue)
           nbrs == IF cur.depth >= maxDepth THEN {}
                     ELSE (BuildSigned[cur.fp] \ cur.path) \ revoked
<1>1. /\ method = "score" /\ phase = "walk" /\ queue # <<>> /\ target # Root
      /\ Question /\ Walking
      /\ UNCHANGED question /\ UNCHANGED phase
      /\ Extend(cur, nbrs, target)
  BY DEF PyCountPaths, WalkInv, Walking
<1>2. Sound(cur)
  BY <1>1 DEF Walking
<1>3. PICK p : StandsFor(cur, p)
  BY <1>2 DEF Sound
<1>4. cur \in Item /\ cur.depth \in Nat /\ cur.depth <= maxDepth /\ maxDepth \in Nat
  BY <1>1, <1>2 DEF Sound, Item, Question
<1>5. IsPath(p) /\ Len(p) = cur.depth + 1 /\ p[1] = Root /\ p[Len(p)] = cur.fp
      /\ target \notin cur.path /\ \A k : k \in cur.path <=> \E i \in 1..Len(p) : p[i] = k
  BY <1>1, <1>3 DEF StandsFor
<1>6. nbrs \in SUBSET Key
  BY <1>4 DEF BuildSigned, Item
<1>7. ASSUME NEW k \in nbrs
      PROVE  \E l : /\ IsPath(l) /\ Len(l) = cur.depth + 2 /\ l[1] = Root /\ l[Len(l)] = k
                    /\ \A x : x \in cur.path \cup {k} <=> \E i \in 1..Len(l) : l[i] = x
                    /\ cur.depth + 1 <= maxDepth
  <2>1. cur.fp \in Key
    BY <1>4 DEF Item
  <2>2. k \in Key /\ ~(cur.depth >= maxDepth) /\ k \in BuildSigned[cur.fp] /\ k \notin cur.path
    BY <1>6
  <2>3. cur.fp \in Build[k]
    BY <2>1, <2>2 DEF BuildSigned, Build
  <2>4. \A i \in 1..Len(p) : p[i] # k
    BY <1>5, <2>2
  <2>5. WITNESS Append(p, k)
  <2> QED
    BY <2>2, <2>3, <2>4, <1>4, <1>5, LongerAtEnd
<1>8. ASSUME NEW k \in nbrs \ {target}
      PROVE  Sound(Behind(cur, k))
  <2>1. PICK l : /\ IsPath(l) /\ Len(l) = cur.depth + 2 /\ l[1] = Root /\ l[Len(l)] = k
                 /\ \A x : x \in cur.path \cup {k} <=> \E i \in 1..Len(l) : l[i] = x
                 /\ cur.depth + 1 <= maxDepth
    BY <1>7
  <2>2. Behind(cur, k) \in Item
    BY <1>4, <1>6 DEF Item, Behind
  <2>3. StandsFor(Behind(cur, k), l)
    BY <1>1, <1>4, <1>5, <2>1 DEF StandsFor, Behind
  <2> QED
    BY <2>1, <2>2, <2>3 DEF Sound, Behind
<1>9. target \in nbrs => TrustPaths # {}
  <2> SUFFICES ASSUME target \in nbrs PROVE TrustPaths # {}
    OBVIOUS
  <2>1. PICK l : /\ IsPath(l) /\ Len(l) = cur.depth + 2 /\ l[1] = Root /\ l[Len(l)] = target
                 /\ cur.depth + 1 <= maxDepth
    BY <1>7
  <2> QED
    BY <1>1, <1>4, <2>1, PathIsTrustPath
<1> HIDE DEF cur, nbrs
<1>10. /\ queue' \in Seq(Item) /\ count' \in Nat
       /\ \A i \in 1..Len(queue') : Sound(queue'[i])
  BY <1>1, <1>6, <1>8, ExtendSound DEF cur
<1>11. count' > 0 => TrustPaths # {}
  BY <1>1, <1>9 DEF Extend, Walking
<1> QED
  BY <1>1, <1>10, <1>11, QuestionStays, SoundStays DEF WalkInv, Walking, question

\* The first item is the path of one key.
LEMMA StartStep ==
    ASSUME TrustAssumption, WalkInv, phase = "asked", target # Root,
           NEW k \in Key, StartAt(k),
           (method = "Score" /\ k = target) \/ (method = "score" /\ k = Root)
    PROVE  WalkInv'
<1> DEFINE q == [fp |-> k, depth |-> 0, path |-> {k}]
<1>1. Question /\ Walking /\ UNCHANGED question
  BY DEF WalkInv, StartAt
<1>2. queue' = <<q>> /\ phase' = "walk" /\ count' = 0
  BY <1>1 DEF StartAt, Walking
<1>3. q \in Item /\ q.depth = 0 /\ q.fp = k /\ q.path = {k}
  BY DEF Item
<1>4. IsPath(<<k>>) /\ Len(<<k>>) = 1 /\ <<k>>[1] = k
  BY DEF IsPath
<1> HIDE DEF q
<1>5. StandsFor(q, <<k>>)
  BY <1>3, <1>4 DEF StandsFor
<1>6. Sound(q)
  BY <1>1, <1>3, <1>5 DEF Sound, Question
<1>7. queue' \in Seq(Item) /\ \A i \in 1..Len(queue') : Sound(queue'[i])
  BY <1>2, <1>3, <1>6
<1>8. Question' /\ target' = target /\ method' = method /\ 0 \in Nat
  BY <1>1, QuestionStays DEF question
<1>9. (\A i \in 1..Len(queue) : Sound(queue[i]))'
  BY <1>1, <1>7, SoundStays
<1>10. Walking'
  BY <1>2, <1>7, <1>8, <1>9 DEF Walking
<1> QED
  BY <1>8, <1>10 DEF WalkInv

\* An answer adds nothing to what was counted, but for the root itself.
LEMMA AnswerStep ==
    ASSUME WalkInv, NEW n \in Nat, Answer(n), n = count \/ n = 0 \/ target = Root
    PROVE  WalkInv'
<1>1. Question /\ UNCHANGED question /\ UNCHANGED queue /\ phase' = "done" /\ count' = n
  BY DEF WalkInv, Answer
<1>2. CASE method = "DisjointScore"
  BY <1>1, <1>2, QuestionStays DEF WalkInv, question
<1>3. CASE method # "DisjointScore"
  <2>1. Walking
    BY <1>3 DEF WalkInv
  <2>2. \A i \in 1..Len(queue') : Sound(queue'[i])
    BY <1>1, <2>1 DEF Walking
  <2> QED
    BY <1>1, <2>1, <2>2, QuestionStays, SoundStays DEF WalkInv, Walking, question
<1> QED
  BY <1>2, <1>3

\* The flow of the other method does not touch what counting paths keeps.
LEMMA FlowStep ==
    ASSUME WalkInv, DisjointScore \/ Augment
    PROVE  WalkInv'
<1>1. Question /\ UNCHANGED question
  BY DEF WalkInv, DisjointScore, Augment, Answer
<1>2. method = "DisjointScore"
  BY DEF WalkInv, Walking, DisjointScore, Augment, Question
<1> QED
  BY <1>1, <1>2, QuestionStays DEF WalkInv, question

\* The invariant holds for all keys, signatures, revocations and depths.
THEOREM WalkInvariant == Spec => []WalkInv
<1>1. Init => WalkInv
  BY TrustAssumption DEF Init, TrustAssumption, WalkInv, Walking, Question
<1>2. WalkInv /\ [Next]_vars => WalkInv'
  <2> SUFFICES ASSUME WalkInv, [Next]_vars PROVE WalkInv'
    OBVIOUS
  <2>0. Question /\ Root \in Key
    BY TrustAssumption DEF WalkInv, TrustAssumption
  <2>1. CASE Score
    <3>1. CASE target = Root
      <4>1. Answer(1)
        BY <2>1, <3>1 DEF Score
      <4> QED
        BY <3>1, <4>1, AnswerStep
    <3>2. CASE target # Root
      <4>1. StartAt(target) /\ phase = "asked" /\ method = "Score" /\ target \in Key
        BY <2>0, <2>1, <3>2 DEF Score, Question
      <4> QED
        BY <3>2, <4>1, TrustAssumption, StartStep
    <3> QED
      BY <3>1, <3>2
  <2>2. CASE CountPaths
    BY <2>2, TrustAssumption, CountPathsStep
  <2>3. CASE PyScore
    <3>1. CASE Answer(0)
      BY <3>1, AnswerStep
    <3>2. CASE target = Root /\ Answer(1)
      BY <3>2, AnswerStep
    <3>3. CASE target # Root /\ StartAt(Root)
      <4>1. phase = "asked" /\ method = "score"
        BY <2>3 DEF PyScore
      <4> QED
        BY <2>0, <3>3, <4>1, TrustAssumption, StartStep
    <3> QED
      BY <2>3, <3>1, <3>2, <3>3 DEF PyScore
  <2>4. CASE PyCountPaths
    BY <2>4, TrustAssumption, PyCountPathsStep
  <2>5. CASE DisjointScore \/ Augment
    BY <2>5, FlowStep
  <2>6. CASE (Walked \/ Saturated) /\ Answer(count)
    <3>1. CASE method = "DisjointScore"
      <4>1. UNCHANGED question
        BY <2>6 DEF Answer
      <4> QED
        BY <3>1, <4>1, <2>0, QuestionStays DEF WalkInv, question
    <3>2. CASE method # "DisjointScore"
      <4>1. count \in Nat
        BY <3>2 DEF WalkInv, Walking
      <4> QED
        BY <4>1, <2>6, AnswerStep
    <3> QED
      BY <3>1, <3>2
  <2>7. CASE UNCHANGED vars
    <3>1. Question /\ UNCHANGED question /\ UNCHANGED <<phase, queue, count>>
      BY <2>0, <2>7 DEF vars, question
    <3>2. CASE method = "DisjointScore"
      BY <3>1, <3>2, QuestionStays DEF WalkInv, question
    <3>3. CASE method # "DisjointScore"
      <4>1. Walking
        BY <3>3 DEF WalkInv
      <4>2. \A i \in 1..Len(queue') : Sound(queue'[i])
        BY <3>1, <4>1 DEF Walking
      <4> QED
        BY <3>1, <4>1, <4>2, QuestionStays, SoundStays DEF WalkInv, Walking, question
    <3> QED
      BY <3>2, <3>3
  <2> QED
    BY <2>1, <2>2, <2>3, <2>4, <2>5, <2>6, <2>7 DEF Next
<1> QED
  BY <1>1, <1>2, PTL DEF Spec

\* What is counted is never without a trust path, in particular never for a revoked
\* key or through one.
THEOREM CreditIsEarned == Spec => []CreditHasPath
<1>1. WalkInv => CreditHasPath
  BY DEF WalkInv, Walking, CreditHasPath
<1> QED
  BY <1>1, WalkInvariant, PTL

\* A revoked key scores nothing, whoever signed it and whenever.
THEOREM RevokedScoreNothing ==
    Spec => [](target \in revoked /\ target # Root /\ method # "DisjointScore" => count = 0)
<1>1. ASSUME WalkInv, target \in revoked, target # Root, method # "DisjointScore"
      PROVE  count = 0
  <2>1. count \in Nat /\ (count > 0 => TrustPaths # {})
    BY <1>1 DEF WalkInv, Walking
  <2>2. ASSUME NEW p \in TrustPaths
        PROVE  FALSE
    <3>1. PICK n \in 0..(maxDepth - 1) : \E m \in [1..n -> Key] :
            p = <<Root>> \o m \o <<target>> /\ IsChain(p)
      BY <2>2 DEF TrustPaths
    <3> PICK m \in [1..n -> Key] : p = <<Root>> \o m \o <<target>> /\ IsChain(p)
      BY <3>1
    <3>2. n \in Nat /\ target \in Key /\ Root \in Key
      BY <1>1, TrustAssumption DEF WalkInv, Question, TrustAssumption
    <3>3. m \in Seq(Key) /\ Len(m) = n
      BY <3>1, <3>2
    <3>4. n + 2 \in DOMAIN p /\ p[n + 2] = target
      BY <3>1, <3>2, <3>3
    <3> QED
      BY <1>1, <3>1, <3>4 DEF IsChain
  <2> QED
    BY <2>1, <2>2
<1>2. WalkInv => (target \in revoked /\ target # Root /\ method # "DisjointScore" => count = 0)
  BY <1>1
<1> QED
  BY <1>2, WalkInvariant, PTL

-----------------------------------------------------------------------------
(* Each path is counted once.                                               *)
(*                                                                         *)
(* An item of the queue stands for the part of a path that lies between the *)
(* end the client starts from and the key it has come to; what is left of   *)
(* it are the trust paths it is part of.  No trust path is left of two      *)
(* items, and those left of none are the ones that have been counted.       *)

Begin == IF method = "Score" THEN target ELSE Root
Goal == IF method = "Score" THEN Root ELSE target

\* The i-th key of a path, from the end where the client begins.
From(p, i) == IF method = "Score" THEN p[Len(p) + 1 - i] ELSE p[i]

\* The keys that one key leads to, those by which an item may go on, and the longer path.
Nbrs(k) == IF method = "Score" THEN Build[k] ELSE BuildSigned[k] \ revoked
Ahead(cur) == IF cur.depth >= maxDepth THEN {} ELSE Nbrs(cur.fp) \ cur.path
Longer(w, k) == IF method = "Score" THEN InFront(k, w) ELSE Append(w, k)

PartOf(w, p) == Len(w) < Len(p) /\ \A i \in 1..Len(w) : From(w, i) = From(p, i)
Left(w) == {p \in TrustPaths : PartOf(w, p)}
LeftOf(W) == [i \in 1..Len(W) |-> Left(W[i])]

\* Of the members of T, those in none of the sets of S have been counted.
Counts(T, S, n) ==
    LET out == {p \in T : \A i \in 1..Len(S) : p \notin S[i]}
    IN  IsFiniteSet(out) /\ n = Cardinality(out)

Apart(S) == \A i, j \in 1..Len(S) : \A p : p \in S[i] /\ p \in S[j] => i = j

Accounted(W) ==
    /\ W \in Seq(Seq(Key)) /\ Len(W) = Len(queue)
    /\ \A i \in 1..Len(W) : StandsFor(queue[i], W[i])
    /\ Apart(LeftOf(W)) /\ Counts(TrustPaths, LeftOf(W), count)

CountInv ==
    /\ WalkInv
    /\ phase = "walk" /\ method # "DisjointScore" => \E W : Accounted(W)
    /\ phase = "done" /\ method # "DisjointScore" /\ target # Root
         => IsFiniteSet(TrustPaths) /\ count = Cardinality(TrustPaths)

-----------------------------------------------------------------------------
(* About the sets alone.                                                    *)

\* U is S without its first, and R behind it.
Joins(S, R, U) ==
    /\ Len(S) \in Nat /\ Len(S) >= 1 /\ Len(R) \in Nat
    /\ Len(U) = Len(S) - 1 + Len(R)
    /\ \A i \in 2..Len(S) : i - 1 \in 1..Len(U) /\ U[i - 1] = S[i]
    /\ \A i \in 1..Len(R) : Len(S) - 1 + i \in 1..Len(U) /\ U[Len(S) - 1 + i] = R[i]
    /\ \A i \in 1..Len(U) : \/ i + 1 \in 2..Len(S) /\ U[i] = S[i + 1]
                            \/ i - (Len(S) - 1) \in 1..Len(R) /\ U[i] = R[i - (Len(S) - 1)]

LEMMA TailThen ==
    ASSUME NEW X, NEW S \in Seq(X), S # <<>>, NEW R \in Seq(X)
    PROVE  Tail(S) \o R \in Seq(X) /\ Joins(S, R, Tail(S) \o R)
<1> DEFINE U == Tail(S) \o R
<1>1. Len(S) \in Nat /\ Len(S) >= 1 /\ Len(R) \in Nat /\ 1 \in 1..Len(S)
  OBVIOUS
<1>2. U \in Seq(X) /\ Len(U) = Len(S) - 1 + Len(R)
  BY <1>1
<1>3. \A i \in 2..Len(S) : i - 1 \in 1..Len(U) /\ U[i - 1] = S[i]
  BY <1>1, <1>2
<1>4. \A i \in 1..Len(R) : Len(S) - 1 + i \in 1..Len(U) /\ U[Len(S) - 1 + i] = R[i]
  BY <1>1, <1>2
<1>5. \A i \in 1..Len(U) : \/ i + 1 \in 2..Len(S) /\ U[i] = S[i + 1]
                           \/ i - (Len(S) - 1) \in 1..Len(R) /\ U[i] = R[i - (Len(S) - 1)]
  <2> SUFFICES ASSUME NEW i \in 1..Len(U)
               PROVE  \/ i + 1 \in 2..Len(S) /\ U[i] = S[i + 1]
                      \/ i - (Len(S) - 1) \in 1..Len(R) /\ U[i] = R[i - (Len(S) - 1)]
    OBVIOUS
  <2>1. CASE i <= Len(S) - 1
    BY <2>1, <1>1, <1>2
  <2>2. CASE ~(i <= Len(S) - 1)
    BY <2>2, <1>1, <1>2
  <2> QED
    BY <2>1, <2>2
<1> HIDE DEF U
<1>6. Joins(S, R, U)
  BY <1>1, <1>2, <1>3, <1>4, <1>5, Zenon DEF Joins
<1> QED
  BY <1>2, <1>6 DEF U

\* A function on the numbers up to n is a sequence.
LEMMA AsSequence ==
    ASSUME NEW X, NEW n \in Nat, NEW f \in [1..n -> X]
    PROVE  f \in Seq(X) /\ Len(f) = n
OBVIOUS

\* When the first of the sets is split, less one member that is counted at most, the
\* sets are still apart and the count is right.
LEMMA SplitFirst ==
    ASSUME NEW T, NEW X, NEW S \in Seq(X), NEW R \in Seq(X), NEW n \in Nat, NEW E, NEW e,
           S # <<>>, Apart(S), Apart(R), Counts(T, S, n),
           E = {} \/ (E = {e} /\ e \in T /\ e \in S[1]),
           \A p : p \in S[1] <=> p \in E \/ \E i \in 1..Len(R) : p \in R[i],
           \A i \in 1..Len(R) : \A p \in E : p \notin R[i]
    PROVE  /\ Apart(Tail(S) \o R)
           /\ Counts(T, Tail(S) \o R, IF E = {} THEN n ELSE n + 1)
<1> DEFINE U == Tail(S) \o R
           out == {p \in T : \A i \in 1..Len(S) : p \notin S[i]}
           outU == {p \in T : \A i \in 1..Len(U) : p \notin U[i]}
<1>1. Len(S) \in Nat /\ Len(S) >= 1 /\ Len(R) \in Nat /\ 1 \in 1..Len(S)
  OBVIOUS
<1>0. Joins(S, R, U)
  BY TailThen
<1> HIDE DEF U
<1>2. Len(U) = Len(S) - 1 + Len(R)
  BY <1>0 DEF Joins
<1>3. \A i \in 2..Len(S) : i - 1 \in 1..Len(U) /\ U[i - 1] = S[i]
  BY <1>0, Zenon DEF Joins
<1>4. \A i \in 1..Len(R) : Len(S) - 1 + i \in 1..Len(U) /\ U[Len(S) - 1 + i] = R[i]
  BY <1>0, Zenon DEF Joins
<1>5. \A i \in 1..Len(U) : \/ i + 1 \in 2..Len(S) /\ U[i] = S[i + 1]
                           \/ i - (Len(S) - 1) \in 1..Len(R) /\ U[i] = R[i - (Len(S) - 1)]
  BY <1>0, Zenon DEF Joins
<1>6. Apart(U)
  <2> SUFFICES ASSUME NEW i \in 1..Len(U), NEW j \in 1..Len(U), NEW p, p \in U[i], p \in U[j]
               PROVE  i = j
    BY DEF Apart
  <2>1. CASE i + 1 \in 2..Len(S) /\ U[i] = S[i + 1] /\ j + 1 \in 2..Len(S) /\ U[j] = S[j + 1]
    <3>1. i + 1 \in 1..Len(S) /\ j + 1 \in 1..Len(S) /\ p \in S[i + 1] /\ p \in S[j + 1]
      BY <2>1, <1>1
    <3>2. i + 1 = j + 1
      BY <3>1 DEF Apart
    <3> QED
      BY <3>2, <1>2
  <2>2. ASSUME NEW a \in 1..Len(U), NEW b \in 1..Len(U), p \in U[a], p \in U[b],
               a + 1 \in 2..Len(S), U[a] = S[a + 1],
               b - (Len(S) - 1) \in 1..Len(R), U[b] = R[b - (Len(S) - 1)]
        PROVE  FALSE
    <3>1. p \in S[1]
      BY <2>2
    <3>2. a + 1 \in 1..Len(S) /\ p \in S[a + 1]
      BY <2>2, <1>1
    <3>3. a + 1 = 1
      BY <3>1, <3>2, <1>1 DEF Apart
    <3> QED
      BY <3>3, <2>2, <1>1
  <2>3. CASE /\ i - (Len(S) - 1) \in 1..Len(R) /\ U[i] = R[i - (Len(S) - 1)]
             /\ j - (Len(S) - 1) \in 1..Len(R) /\ U[j] = R[j - (Len(S) - 1)]
    <3>1. i - (Len(S) - 1) = j - (Len(S) - 1)
      BY <2>3 DEF Apart
    <3> QED
      BY <3>1, <1>1, <1>2
  <2> QED
    BY <1>5, <2>1, <2>2, <2>3
<1>7. \A p : p \in outU <=> p \in out \/ (p \in E /\ p \in T)
  <2> SUFFICES ASSUME NEW p PROVE p \in outU <=> p \in out \/ (p \in E /\ p \in T)
    OBVIOUS
  <2>1. ASSUME p \in out, NEW i \in 1..Len(U), p \in U[i] PROVE FALSE
    <3>1. CASE i + 1 \in 2..Len(S) /\ U[i] = S[i + 1]
      BY <2>1, <3>1, <1>1
    <3>2. CASE i - (Len(S) - 1) \in 1..Len(R) /\ U[i] = R[i - (Len(S) - 1)]
      <4>1. p \in S[1]
        BY <2>1, <3>2
      <4> QED
        BY <2>1, <4>1, <1>1
    <3> QED
      BY <1>5, <3>1, <3>2
  <2>2. ASSUME p \in E, p \in T, NEW i \in 1..Len(U), p \in U[i] PROVE FALSE
    <3>1. CASE i + 1 \in 2..Len(S) /\ U[i] = S[i + 1]
      <4>1. i + 1 \in 1..Len(S) /\ p \in S[i + 1] /\ p \in S[1]
        BY <2>2, <3>1, <1>1
      <4>2. i + 1 = 1
        BY <4>1, <1>1 DEF Apart
      <4> QED
        BY <4>2, <3>1
    <3>2. CASE i - (Len(S) - 1) \in 1..Len(R) /\ U[i] = R[i - (Len(S) - 1)]
      BY <2>2, <3>2
    <3> QED
      BY <1>5, <3>1, <3>2
  <2>3. ASSUME p \in outU, p \notin out PROVE p \in E /\ p \in T
    <3>1. PICK i \in 1..Len(S) : p \in S[i]
      BY <2>3
    <3>2. i = 1
      <4> SUFFICES ASSUME i # 1 PROVE FALSE
        OBVIOUS
      <4>1. i \in 2..Len(S)
        BY <1>1
      <4> QED
        BY <4>1, <3>1, <2>3, <1>3
    <3>3. p \in E \/ \E j \in 1..Len(R) : p \in R[j]
      BY <3>1, <3>2
    <3>4. \A j \in 1..Len(R) : p \notin R[j]
      BY <2>3, <1>4
    <3> QED
      BY <2>3, <3>3, <3>4
  <2> QED
    BY <2>1, <2>2, <2>3
<1>8. IsFiniteSet(out) /\ n = Cardinality(out)
  BY DEF Counts
<1>9. CASE E = {}
  <2>1. outU = out
    BY <1>7, <1>9
  <2> QED
    BY <1>6, <1>8, <1>9, <2>1 DEF Counts, U
<1>10. CASE E = {e} /\ e \in T /\ e \in S[1]
  <2>1. outU = out \cup {e}
    BY <1>7, <1>10
  <2>2. e \notin out
    BY <1>10, <1>1
  <2>3. IsFiniteSet(outU) /\ Cardinality(outU) = n + 1
    <3> HIDE DEF out, outU
    <3> QED
      BY <1>8, <2>1, <2>2, FS_AddElement
  <2> QED
    BY <1>6, <1>10, <2>3 DEF Counts, U
<1> QED
  BY <1>9, <1>10

-----------------------------------------------------------------------------
(* Paths, read from the end where the client begins.                        *)

Walks == TrustAssumption /\ Question /\ method # "DisjointScore" /\ target # Root

LEMMA TwoMethods == Walks => method = "Score" \/ method = "score"
BY DEF Walks, Question

\* From reads the keys of a path, each leading to the next.
LEMMA FromFacts ==
    ASSUME Walks, NEW p, IsPath(p)
    PROVE  /\ \A i \in 1..Len(p) : From(p, i) \in Key
           /\ \A i, j \in 1..Len(p) : From(p, i) = From(p, j) => i = j
           /\ \A x : (\E i \in 1..Len(p) : p[i] = x) <=> \E i \in 1..Len(p) : From(p, i) = x
           /\ \A i \in 1..(Len(p) - 1) : From(p, i + 1) \in Nbrs(From(p, i))
<1>1. /\ p \in Seq(Key) /\ Len(p) \in Nat /\ Len(p) >= 1
      /\ \A i, j \in 1..Len(p) : p[i] = p[j] => i = j
      /\ \A i \in 1..(Len(p) - 1) : p[i] \in Build[p[i + 1]]
  BY DEF IsPath
<1>2. CASE method = "Score"
  <2>1. \A i : From(p, i) = p[Len(p) + 1 - i]
    BY <1>2 DEF From
  <2>2. \A i \in 1..Len(p) : Len(p) + 1 - i \in 1..Len(p) /\ Len(p) + 1 - (Len(p) + 1 - i) = i
    BY <1>1
  <2>3. \A i, j \in 1..Len(p) : From(p, i) = From(p, j) => i = j
    <3> SUFFICES ASSUME NEW i \in 1..Len(p), NEW j \in 1..Len(p), From(p, i) = From(p, j)
                 PROVE  i = j
      OBVIOUS
    <3>1. p[Len(p) + 1 - i] = p[Len(p) + 1 - j]
      BY <2>1
    <3>2. Len(p) + 1 - i \in 1..Len(p) /\ Len(p) + 1 - j \in 1..Len(p)
      BY <2>2
    <3>3. Len(p) + 1 - i = Len(p) + 1 - j
      BY <1>1, <3>1, <3>2, Zenon
    <3> QED
      BY <1>1, <3>3
  <2>4. ASSUME NEW x
        PROVE  (\E i \in 1..Len(p) : p[i] = x) <=> \E i \in 1..Len(p) : From(p, i) = x
    <3>1. ASSUME NEW i \in 1..Len(p), p[i] = x PROVE \E j \in 1..Len(p) : From(p, j) = x
      <4>1. From(p, Len(p) + 1 - i) = x
        BY <2>1, <2>2, <3>1
      <4> QED
        BY <2>2, <4>1
    <3>2. ASSUME NEW i \in 1..Len(p), From(p, i) = x PROVE \E j \in 1..Len(p) : p[j] = x
      BY <2>1, <2>2, <3>2
    <3> QED
      BY <3>1, <3>2
  <2>5. ASSUME NEW i \in 1..(Len(p) - 1)
        PROVE  From(p, i + 1) \in Nbrs(From(p, i))
    <3>1. Len(p) - i \in 1..(Len(p) - 1) /\ (Len(p) - i) + 1 = Len(p) + 1 - i
          /\ Len(p) + 1 - (i + 1) = Len(p) - i
      BY <1>1
    <3>2. p[Len(p) - i] \in Build[p[(Len(p) - i) + 1]]
      BY <1>1, <3>1
    <3> QED
      BY <1>2, <2>1, <3>1, <3>2 DEF Nbrs
  <2>6. ASSUME NEW i \in 1..Len(p) PROVE From(p, i) \in Key
    <3>1. p[Len(p) + 1 - i] \in Key
      BY <1>1, <2>2
    <3> QED
      BY <2>1, <3>1
  <2> QED
    BY <2>3, <2>4, <2>5, <2>6
<1>3. CASE method = "score"
  <2>1. \A i : From(p, i) = p[i]
    BY <1>3 DEF From
  <2>2. ASSUME NEW i \in 1..(Len(p) - 1)
        PROVE  From(p, i + 1) \in Nbrs(From(p, i))
    <3>1. p[i] \in Build[p[i + 1]] /\ p[i] \in Key /\ p[i + 1] \in Key
      BY <1>1
    <3>2. p[i + 1] \notin revoked /\ p[i] \in signers[p[i + 1]] \ revoked
      BY <3>1 DEF Build
    <3>3. p[i + 1] \in BuildSigned[p[i]] \ revoked
      BY <3>1, <3>2 DEF BuildSigned
    <3> QED
      BY <1>3, <2>1, <3>3 DEF Nbrs
  <2>3. \A i \in 1..Len(p) : From(p, i) \in Key
    BY <1>1, <2>1
  <2>4. \A i, j \in 1..Len(p) : From(p, i) = From(p, j) => i = j
    BY <1>1, <2>1, Zenon
  <2>5. \A x : (\E i \in 1..Len(p) : p[i] = x) <=> \E i \in 1..Len(p) : From(p, i) = x
    BY <2>1, Zenon
  <2> QED
    BY <2>2, <2>3, <2>4, <2>5
<1> QED
  BY <1>2, <1>3, TwoMethods

\* Paths that read the same are the same.
LEMMA SameFrom ==
    ASSUME Walks, NEW p \in Seq(Key), NEW q \in Seq(Key), Len(p) = Len(q),
           \A i \in 1..Len(p) : From(p, i) = From(q, i)
    PROVE  p = q
<1>1. CASE method = "Score"
  <2>1. ASSUME NEW i \in 1..Len(p) PROVE p[i] = q[i]
    <3>1. Len(p) + 1 - i \in 1..Len(p) /\ Len(p) + 1 - (Len(p) + 1 - i) = i
      OBVIOUS
    <3>2. From(p, Len(p) + 1 - i) = From(q, Len(p) + 1 - i)
      BY <3>1
    <3> QED
      BY <1>1, <3>1, <3>2 DEF From
  <2> QED
    BY <2>1
<1>2. CASE method = "score"
  BY <1>2 DEF From
<1> QED
  BY <1>1, <1>2, TwoMethods

\* A path that goes on by one key reads as before, and then that key.
LEMMA LongerFrom ==
    ASSUME Walks, NEW w, IsPath(w), NEW k \in Key, k \in Nbrs(From(w, Len(w))),
           \A i \in 1..Len(w) : w[i] # k
    PROVE  /\ Adds(Longer(w, k), w, k)
           /\ From(Longer(w, k), Len(w) + 1) = k
           /\ \A i \in 1..Len(w) : From(Longer(w, k), i) = From(w, i)
<1>1. w \in Seq(Key) /\ Len(w) \in Nat /\ Len(w) >= 1
  BY DEF IsPath
<1>2. CASE method = "Score"
  <2>1. From(w, Len(w)) = w[1] /\ Longer(w, k) = InFront(k, w)
    BY <1>1, <1>2 DEF From, Longer
  <2>2. k \in Build[w[1]]
    BY <1>2, <2>1 DEF Nbrs
  <2>3. Adds(InFront(k, w), w, k) /\ InFront(k, w)[1] = k
    BY <2>2, LongerInFront
  <2>4. Len(InFront(k, w)) = Len(w) + 1
    BY <2>3 DEF Adds
  <2>5. From(InFront(k, w), Len(w) + 1) = k
    BY <1>1, <1>2, <2>3, <2>4 DEF From
  <2>6. ASSUME NEW i \in 1..Len(w)
        PROVE  From(InFront(k, w), i) = From(w, i)
    <3>1. Len(w) + 1 - i \in 1..Len(w)
      BY <1>1
    <3>2. InFront(k, w)[(Len(w) + 1 - i) + 1] = w[Len(w) + 1 - i]
      BY <1>1, <3>1 DEF InFront
    <3>3. (Len(w) + 1 - i) + 1 = Len(w) + 1 + 1 - i
      BY <1>1
    <3> QED
      BY <1>2, <2>4, <3>2, <3>3 DEF From
  <2> QED
    BY <2>1, <2>3, <2>5, <2>6
<1>3. CASE method = "score"
  <2>1. From(w, Len(w)) = w[Len(w)] /\ Longer(w, k) = Append(w, k)
    BY <1>3 DEF From, Longer
  <2>2. w[Len(w)] \in Build[k]
    <3>1. k \in BuildSigned[w[Len(w)]] \ revoked /\ w[Len(w)] \in Key
      BY <1>1, <1>3, <2>1 DEF Nbrs
    <3> QED
      BY <3>1 DEF BuildSigned, Build
  <2>3. Adds(Append(w, k), w, k)
    BY <2>2, LongerAtEnd DEF Adds
  <2>4. From(Append(w, k), Len(w) + 1) = k /\ \A i \in 1..Len(w) : From(Append(w, k), i) = From(w, i)
    BY <1>1, <1>3 DEF From
  <2> QED
    BY <2>1, <2>3, <2>4
<1> QED
  BY <1>2, <1>3, TwoMethods

\* What an item stands for runs from where the client begins to the key of the item,
\* and has not come to the other end.
LEMMA StandsFrom ==
    ASSUME Walks, NEW q, NEW w
    PROVE  StandsFor(q, w) <=>
             /\ IsPath(w) /\ Len(w) = q.depth + 1
             /\ \A k : k \in q.path <=> \E i \in 1..Len(w) : w[i] = k
             /\ From(w, 1) = Begin /\ From(w, Len(w)) = q.fp /\ Goal \notin q.path
<1>1. IsPath(w) => Len(w) \in Nat /\ Len(w) + 1 - 1 = Len(w) /\ Len(w) + 1 - Len(w) = 1
  BY DEF IsPath
<1>2. CASE method = "Score"
  BY <1>1, <1>2 DEF StandsFor, From, Begin, Goal
<1>3. CASE method = "score"
  BY <1>3 DEF StandsFor, From, Begin, Goal
<1> QED
  BY <1>2, <1>3, TwoMethods

\* A trust path runs from where the client begins to the other end.
LEMMA TrustPathFrom ==
    ASSUME Walks, NEW p
    PROVE  p \in TrustPaths <=>
             /\ IsPath(p) /\ Len(p) >= 2 /\ Len(p) <= maxDepth + 1
             /\ From(p, 1) = Begin /\ From(p, Len(p)) = Goal
<1>0. Question
  BY DEF Walks
<1>1. IsPath(p) => Len(p) \in Nat /\ Len(p) + 1 - 1 = Len(p) /\ Len(p) + 1 - Len(p) = 1
  BY DEF IsPath
<1>2. p \in TrustPaths <=> /\ IsPath(p) /\ Len(p) >= 2 /\ Len(p) <= maxDepth + 1
                           /\ p[1] = Root /\ p[Len(p)] = target
  BY <1>0, PathIsTrustPath, TrustPathIsPath
<1>3. CASE method = "Score"
  BY <1>1, <1>2, <1>3 DEF From, Begin, Goal
<1>4. CASE method = "score"
  BY <1>1, <1>2, <1>4 DEF From, Begin, Goal
<1> QED
  BY <1>3, <1>4, TwoMethods

\* The keys ahead of an item: each makes the path it stands for longer.  The other end
\* makes it a trust path, and any other key the path of the item behind.
LEMMA GoingOn ==
    ASSUME Walks, NEW cur \in Item, cur.depth <= maxDepth, NEW w, StandsFor(cur, w),
           NEW k \in Ahead(cur)
    PROVE  /\ IsPath(Longer(w, k)) /\ Len(Longer(w, k)) = Len(w) + 1
           /\ From(Longer(w, k), Len(w) + 1) = k
           /\ \A i \in 1..Len(w) : From(Longer(w, k), i) = From(w, i)
           /\ k # Goal => StandsFor(Behind(cur, k), Longer(w, k))
           /\ k = Goal => Longer(w, k) \in TrustPaths
<1> DEFINE l == Longer(w, k)
<1>1. /\ IsPath(w) /\ Len(w) = cur.depth + 1
      /\ \A x : x \in cur.path <=> \E i \in 1..Len(w) : w[i] = x
      /\ From(w, 1) = Begin /\ From(w, Len(w)) = cur.fp /\ Goal \notin cur.path
  BY StandsFrom
<1>2. cur.depth \in Nat /\ maxDepth \in Nat /\ Len(w) \in Nat /\ Len(w) >= 1
  BY <1>1 DEF Item, Walks, Question, IsPath
<1>3. ~(cur.depth >= maxDepth) /\ k \in Nbrs(cur.fp) /\ k \notin cur.path
  BY DEF Ahead
<1>4. k \in Key
  BY <1>3 DEF Nbrs, Build, BuildSigned, Walks, Question, Item
<1>5. \A i \in 1..Len(w) : w[i] # k
  BY <1>1, <1>3
<1>6. /\ Adds(l, w, k) /\ From(l, Len(w) + 1) = k
      /\ \A i \in 1..Len(w) : From(l, i) = From(w, i)
  BY <1>1, <1>3, <1>4, <1>5, LongerFrom
<1> HIDE DEF l
<1>7. /\ IsPath(l) /\ Len(l) = Len(w) + 1
      /\ \A x : (\E i \in 1..Len(l) : l[i] = x) <=> x = k \/ \E i \in 1..Len(w) : w[i] = x
  BY <1>6, Zenon DEF Adds
<1>8. From(l, 1) = Begin /\ From(l, Len(l)) = k
  BY <1>1, <1>2, <1>6, <1>7
<1>9. ASSUME k # Goal
      PROVE  StandsFor(Behind(cur, k), l)
  <2>1. /\ Behind(cur, k).depth = cur.depth + 1 /\ Behind(cur, k).fp = k
        /\ Behind(cur, k).path = cur.path \cup {k}
    BY DEF Behind
  <2>2. \A x : x \in Behind(cur, k).path <=> \E i \in 1..Len(l) : l[i] = x
    BY <1>1, <1>7, <2>1
  <2>3. Len(l) = Behind(cur, k).depth + 1
    BY <1>1, <1>2, <1>7, <2>1
  <2>4. Goal \notin Behind(cur, k).path
    BY <1>1, <1>9, <2>1
  <2> QED
    BY <1>7, <1>8, <2>1, <2>2, <2>3, <2>4, StandsFrom
<1>10. ASSUME k = Goal
       PROVE  l \in TrustPaths
  <2>1. Len(l) >= 2 /\ Len(l) <= maxDepth + 1
    BY <1>1, <1>2, <1>3, <1>7
  <2> QED
    BY <1>7, <1>8, <1>10, <2>1, TrustPathFrom
<1> QED
  BY <1>6, <1>7, <1>9, <1>10 DEF l

\* What is left of an item is left, after it, of the items behind it, but for the path
\* that ends next.
LEMMA LeftSplits ==
    ASSUME Walks, NEW cur \in Item, cur.depth <= maxDepth, NEW w, StandsFor(cur, w)
    PROVE  /\ \A p : p \in Left(w) <=> \/ Goal \in Ahead(cur) /\ p = Longer(w, Goal)
                                       \/ \E k \in Ahead(cur) \ {Goal} : p \in Left(Longer(w, k))
           /\ \A k \in Ahead(cur) : Longer(w, Goal) \notin Left(Longer(w, k)) \/ Goal \notin Ahead(cur)
           /\ \A k, h \in Ahead(cur) : \A p :
                p \in Left(Longer(w, k)) /\ p \in Left(Longer(w, h)) => k = h
<1>1. /\ IsPath(w) /\ Len(w) = cur.depth + 1
      /\ \A x : x \in cur.path <=> \E i \in 1..Len(w) : w[i] = x
      /\ From(w, 1) = Begin /\ From(w, Len(w)) = cur.fp /\ Goal \notin cur.path
  BY StandsFrom
<1>2. cur.depth \in Nat /\ maxDepth \in Nat /\ Len(w) \in Nat /\ Len(w) >= 1
  BY <1>1 DEF Item, Walks, Question, IsPath
<1>3. \A k \in Ahead(cur) :
        /\ IsPath(Longer(w, k)) /\ Len(Longer(w, k)) = Len(w) + 1
        /\ From(Longer(w, k), Len(w) + 1) = k
        /\ \A i \in 1..Len(w) : From(Longer(w, k), i) = From(w, i)
        /\ k = Goal => Longer(w, k) \in TrustPaths
  BY GoingOn
<1>4. ASSUME NEW k \in Ahead(cur), NEW p \in Left(Longer(w, k))
      PROVE  p \in Left(w) /\ Len(p) > Len(w) + 1 /\ From(p, Len(w) + 1) = k
  <2>1. p \in TrustPaths /\ Len(Longer(w, k)) < Len(p)
        /\ \A i \in 1..Len(Longer(w, k)) : From(Longer(w, k), i) = From(p, i)
    BY DEF Left, PartOf
  <2>2. Len(p) \in Nat
    BY <2>1, TrustPathFrom DEF IsPath
  <2>3. \A i \in 1..(Len(w) + 1) : From(Longer(w, k), i) = From(p, i)
    BY <1>3, <2>1
  <2>4. \A i \in 1..Len(w) : From(w, i) = From(p, i)
    BY <1>2, <1>3, <2>3
  <2>5. From(p, Len(w) + 1) = k
    BY <1>2, <1>3, <2>3
  <2>6. Len(w) + 1 < Len(p)
    BY <1>3, <2>1
  <2> QED
    BY <1>2, <2>1, <2>2, <2>4, <2>5, <2>6 DEF Left, PartOf
<1>5. ASSUME Goal \in Ahead(cur)
      PROVE  Longer(w, Goal) \in Left(w) /\ Len(Longer(w, Goal)) = Len(w) + 1
  BY <1>2, <1>3, <1>5 DEF Left, PartOf
<1>6. ASSUME NEW p \in Left(w)
      PROVE  \/ Goal \in Ahead(cur) /\ p = Longer(w, Goal)
             \/ \E k \in Ahead(cur) \ {Goal} : p \in Left(Longer(w, k))
  <2>1. /\ p \in TrustPaths /\ Len(w) < Len(p)
        /\ \A i \in 1..Len(w) : From(w, i) = From(p, i)
    BY DEF Left, PartOf
  <2>2. IsPath(p) /\ Len(p) \in Nat /\ Len(p) <= maxDepth + 1 /\ From(p, Len(p)) = Goal
    BY <2>1, TrustPathFrom DEF IsPath
  <2> DEFINE k == From(p, Len(w) + 1)
  <2>3. Len(w) \in 1..(Len(p) - 1) /\ Len(w) \in 1..Len(w)
        /\ Len(w) + 1 \in 1..Len(p) /\ Len(p) \in 1..Len(p)
    BY <1>2, <2>1, <2>2
  <2>4. k \in Nbrs(From(p, Len(w)))
    BY <2>2, <2>3, FromFacts
  <2>5. k \in Nbrs(cur.fp)
    BY <1>1, <2>1, <2>3, <2>4
  <2>6. \A i, j \in 1..Len(p) : From(p, i) = From(p, j) => i = j
    BY <2>2, FromFacts
  <2>7. k \notin cur.path
    <3> SUFFICES ASSUME k \in cur.path PROVE FALSE
      OBVIOUS
    <3>1. PICK i \in 1..Len(w) : From(w, i) = k
      BY <1>1, FromFacts
    <3>2. From(p, i) = From(p, Len(w) + 1) /\ i \in 1..Len(p)
      BY <1>2, <2>1, <2>2, <3>1
    <3>3. i = Len(w) + 1
      BY <2>3, <2>6, <3>2
    <3> QED
      BY <1>2, <3>3
  <2>8. ~(cur.depth >= maxDepth)
    BY <1>1, <1>2, <2>1, <2>2
  <2>9. k \in Ahead(cur)
    BY <2>5, <2>7, <2>8 DEF Ahead
  <2> HIDE DEF k
  <2>10. /\ IsPath(Longer(w, k)) /\ Len(Longer(w, k)) = Len(w) + 1
         /\ \A i \in 1..Len(Longer(w, k)) : From(Longer(w, k), i) = From(p, i)
    <3>1. /\ IsPath(Longer(w, k)) /\ Len(Longer(w, k)) = Len(w) + 1
          /\ From(Longer(w, k), Len(w) + 1) = k
          /\ \A i \in 1..Len(w) : From(Longer(w, k), i) = From(w, i)
      BY <1>3, <2>9
    <3>2. ASSUME NEW i \in 1..(Len(w) + 1)
          PROVE  From(Longer(w, k), i) = From(p, i)
      <4>1. CASE i = Len(w) + 1
        BY <3>1, <4>1 DEF k
      <4>2. CASE i # Len(w) + 1
        <5>1. i \in 1..Len(w)
          BY <1>2, <4>2
        <5> QED
          BY <2>1, <3>1, <5>1
      <4> QED
        BY <4>1, <4>2
    <3> QED
      BY <3>1, <3>2
  <2>11. CASE k = Goal
    <3>1. Len(p) = Len(w) + 1
      BY <2>2, <2>3, <2>6, <2>11 DEF k
    <3>2. p = Longer(w, k)
      BY <2>2, <2>10, <3>1, SameFrom DEF IsPath
    <3> QED
      BY <2>9, <2>11, <3>2
  <2>12. CASE k # Goal
    <3>1. Len(p) # Len(w) + 1
      BY <2>2, <2>12 DEF k
    <3>2. Len(w) + 1 < Len(p)
      BY <1>2, <2>1, <2>2, <3>1
    <3>3. p \in Left(Longer(w, k))
      BY <2>1, <2>10, <3>2 DEF Left, PartOf
    <3> QED
      BY <2>9, <2>12, <3>3
  <2> QED
    BY <2>11, <2>12
<1>7. ASSUME NEW k \in Ahead(cur), Longer(w, Goal) \in Left(Longer(w, k)), Goal \in Ahead(cur)
      PROVE  FALSE
  BY <1>2, <1>4, <1>5, <1>7
<1> QED
  BY <1>4, <1>5, <1>6, <1>7

-----------------------------------------------------------------------------
(* The steps again.                                                         *)

\* Nothing that the accounts are about changes, but the queue and the count.
LEMMA AccountsStay ==
    ASSUME Question, UNCHANGED question, NEW W,
           W \in Seq(Seq(Key)), Len(W) = Len(queue'),
           \A i \in 1..Len(W) : StandsFor(queue'[i], W[i]),
           Apart(LeftOf(W)), Counts(TrustPaths, LeftOf(W), count')
    PROVE  Accounted(W)'
<1>1. /\ Build' = Build /\ target' = target /\ method' = method
      /\ TrustPaths' = TrustPaths
  BY QuestionStays DEF question
<1>2. ASSUME NEW i \in 1..Len(W) PROVE (StandsFor(queue[i], W[i]))'
  <2>1. StandsFor(queue'[i], W[i])
    OBVIOUS
  <2>2. IsPath(W[i])'
    BY <1>1, <2>1 DEF StandsFor, IsPath
  <2> QED
    BY <1>1, <2>1, <2>2 DEF StandsFor
<1>3. LeftOf(W)' = LeftOf(W)
  <2>1. \A w : Left(w)' = Left(w)
    BY <1>1 DEF Left, PartOf, From
  <2> QED
    BY <2>1 DEF LeftOf
<1>4. (Apart(LeftOf(W)) /\ Counts(TrustPaths, LeftOf(W), count))'
  BY <1>1, <1>3 DEF Apart, Counts
<1> QED
  BY <1>2, <1>4 DEF Accounted

\* The keys of a finite set, listed, are each listed once.
LEMMA ListedOnce ==
    ASSUME NEW S, IsFiniteSet(S), NEW s \in Listings(S)
    PROVE  /\ Cardinality(S) \in Nat /\ s \in [1..Cardinality(S) -> S]
           /\ \A x \in S : \E i \in 1..Cardinality(S) : s[i] = x
           /\ \A i, j \in 1..Cardinality(S) : s[i] = s[j] => i = j
<1> DEFINE n == Cardinality(S)
<1>1. n \in Nat
  BY FS_CardinalityType
<1>2. s \in [1..n -> S] /\ \A x \in S : \E i \in 1..n : s[i] = x
  BY DEF Listings
<1>3. IsFiniteSet(1..n) /\ Cardinality(1..n) = n
  BY <1>1, FS_Interval
<1>4. s \in Surjection(1..n, S)
  BY <1>2 DEF Surjection
<1>5. s \in Injection(1..n, S)
  BY <1>3, <1>4, FS_Surjection
<1>6. \A i, j \in 1..n : s[i] = s[j] => i = j
  BY <1>5 DEF Injection, IsInjective
<1> QED
  BY <1>1, <1>2, <1>6

\* A round keeps the accounts: the first item gives way to those behind it.
LEMMA RoundAccounted ==
    ASSUME Walks, Walking, queue # <<>>, NEW W, Accounted(W), UNCHANGED question,
           Extend(Head(queue), Ahead(Head(queue)), Goal)
    PROVE  \E V : Accounted(V)'
<1> DEFINE cur == Head(queue)
           new == Ahead(cur) \ {Goal}
           w == W[1]
<1>1. /\ queue \in Seq(Item) /\ count \in Nat /\ Question
      /\ cur = queue[1] /\ cur \in Item /\ cur.depth <= maxDepth
      /\ Len(queue) \in Nat /\ Len(queue) >= 1
  <2>1. queue \in Seq(Item) /\ count \in Nat /\ \A i \in 1..Len(queue) : Sound(queue[i])
    BY DEF Walking
  <2>2. Len(queue) \in Nat /\ Len(queue) >= 1 /\ cur = queue[1]
    BY <2>1
  <2>3. Sound(cur)
    BY <2>1, <2>2
  <2> QED
    BY <2>1, <2>2, <2>3 DEF Sound, Walks
<1>2. /\ W \in Seq(Seq(Key)) /\ Len(W) = Len(queue)
      /\ \A i \in 1..Len(W) : StandsFor(queue[i], W[i])
      /\ Apart(LeftOf(W)) /\ Counts(TrustPaths, LeftOf(W), count)
  BY DEF Accounted
<1>3. StandsFor(cur, w) /\ W # <<>>
  BY <1>1, <1>2
<1>4. Ahead(cur) \subseteq Key
  BY <1>1 DEF Ahead, Nbrs, Build, BuildSigned, Item, Question
<1>5. IsFiniteSet(new)
  <2>1. IsFiniteSet(Key) /\ new \subseteq Key
    BY <1>4 DEF Walks, TrustAssumption
  <2> QED
    BY <2>1, FS_Subset
<1>6. PICK s \in Listings(new) :
        queue' = Tail(queue) \o
                   [i \in DOMAIN s |-> [fp |-> s[i], depth |-> cur.depth + 1,
                                       path |-> cur.path \cup {s[i]}]]
  BY DEF Extend
<1>7. count' = IF Goal \in Ahead(cur) THEN count + 1 ELSE count
  BY DEF Extend
<1> DEFINE n == Cardinality(new)
           more == [i \in 1..n |-> Behind(cur, s[i])]
           V == [i \in 1..n |-> Longer(w, s[i])]
           U == Tail(W) \o V
<1>8. /\ n \in Nat /\ s \in [1..n -> new]
      /\ \A x \in new : \E i \in 1..n : s[i] = x
      /\ \A i, j \in 1..n : s[i] = s[j] => i = j
  BY <1>5, ListedOnce
<1>9. queue' = Tail(queue) \o more
  BY <1>6, <1>8 DEF Behind
<1>10. \A i \in 1..n : s[i] \in Ahead(cur) /\ s[i] # Goal
  BY <1>8
<1>11. /\ \A p : p \in Left(w) <=> \/ Goal \in Ahead(cur) /\ p = Longer(w, Goal)
                                  \/ \E k \in Ahead(cur) \ {Goal} : p \in Left(Longer(w, k))
       /\ \A k \in Ahead(cur) : Longer(w, Goal) \notin Left(Longer(w, k)) \/ Goal \notin Ahead(cur)
       /\ \A k, h \in Ahead(cur) : \A p :
            p \in Left(Longer(w, k)) /\ p \in Left(Longer(w, h)) => k = h
  BY <1>1, <1>3, LeftSplits
<1>12. \A k \in Ahead(cur) :
         /\ Longer(w, k) \in Seq(Key)
         /\ k # Goal => StandsFor(Behind(cur, k), Longer(w, k))
         /\ k = Goal => Longer(w, k) \in TrustPaths
  BY <1>1, <1>3, GoingOn DEF IsPath
<1>13. \A i \in 1..n : V[i] \in Seq(Key) /\ StandsFor(more[i], V[i])
  BY <1>10, <1>12
<1>14. V \in Seq(Seq(Key)) /\ Len(V) = n /\ Len(more) = n /\ more \in Seq(Item)
  <2>1. V \in [1..n -> Seq(Key)]
    BY <1>13
  <2>2. \A i \in 1..n : Behind(cur, s[i]) \in Item
    <3> HIDE DEF cur, n
    <3> QED
      BY <1>1, <1>4, <1>10 DEF Item, Behind
  <2>3. more \in [1..n -> Item]
    BY <2>2
  <2> HIDE DEF V, n, more
  <2> QED
    BY <1>8, <2>1, <2>3, AsSequence
<1>15. \A i \in 1..n : LeftOf(V)[i] = Left(Longer(w, s[i]))
  BY <1>14 DEF LeftOf
<1>16. Len(LeftOf(V)) = n /\ LeftOf(V) \in Seq(SUBSET TrustPaths)
       /\ Len(LeftOf(W)) = Len(W) /\ LeftOf(W) \in Seq(SUBSET TrustPaths)
  <2>1. \A v : Left(v) \in SUBSET TrustPaths
    BY DEF Left
  <2>2. ASSUME NEW v \in Seq(Seq(Key))
        PROVE  Len(LeftOf(v)) = Len(v) /\ LeftOf(v) \in Seq(SUBSET TrustPaths)
    <3>1. LeftOf(v) \in [1..Len(v) -> SUBSET TrustPaths] /\ Len(v) \in Nat
      BY <2>1 DEF LeftOf
    <3> QED
      BY <3>1, AsSequence
  <2> HIDE DEF V, n
  <2> QED
    BY <1>2, <1>14, <2>2
<1> HIDE DEF V, more, n, new, cur, w
<1>17. /\ U \in Seq(Seq(Key)) /\ Len(U) = Len(W) - 1 + n /\ Len(W) \in Nat
       /\ \A i \in 1..Len(U) : \/ i + 1 \in 2..Len(W) /\ U[i] = W[i + 1]
                               \/ i - (Len(W) - 1) \in 1..n /\ U[i] = V[i - (Len(W) - 1)]
  <2>1. W \in Seq(Seq(Key)) /\ W # <<>> /\ V \in Seq(Seq(Key)) /\ Len(V) = n
    BY <1>2, <1>3, <1>14
  <2> HIDE DEF U
  <2>2. U \in Seq(Seq(Key)) /\ Joins(W, V, U)
    BY <2>1, TailThen DEF U
  <2>3. Len(W) \in Nat /\ Len(U) = Len(W) - 1 + Len(V)
    BY <2>2 DEF Joins
  <2>4. \A i \in 1..Len(U) : \/ i + 1 \in 2..Len(W) /\ U[i] = W[i + 1]
                             \/ i - (Len(W) - 1) \in 1..Len(V) /\ U[i] = V[i - (Len(W) - 1)]
    BY <2>2, Zenon DEF Joins
  <2> QED
    BY <2>1, <2>2, <2>3, <2>4, Zenon
<1> HIDE DEF U
<1>18. U \in Seq(Seq(Key)) /\ Len(U) = Len(queue')
       /\ \A i \in 1..Len(U) : StandsFor(queue'[i], U[i])
  <2>2. /\ Len(queue') = Len(queue) - 1 + n
        /\ \A i \in 2..Len(queue) : queue'[i - 1] = queue[i]
        /\ \A i \in 1..n : queue'[Len(queue) - 1 + i] = more[i]
    <3>1. Joins(queue, more, queue')
      <4>1. queue \in Seq(Item) /\ queue # <<>> /\ more \in Seq(Item)
        BY <1>1, <1>14
      <4> QED
        BY <1>9, <4>1, TailThen
    <3> QED
      BY <1>14, <3>1, Zenon DEF Joins
  <2>3. ASSUME NEW i \in 1..Len(U) PROVE StandsFor(queue'[i], U[i])
    <3>1. CASE i + 1 \in 2..Len(W) /\ U[i] = W[i + 1]
      <4>1. queue'[(i + 1) - 1] = queue[i + 1] /\ (i + 1) - 1 = i /\ i + 1 \in 1..Len(W)
        BY <1>2, <1>17, <2>2, <3>1
      <4> QED
        BY <1>2, <3>1, <4>1
    <3>2. CASE i - (Len(W) - 1) \in 1..n /\ U[i] = V[i - (Len(W) - 1)]
      <4>1. queue'[Len(queue) - 1 + (i - (Len(W) - 1))] = more[i - (Len(W) - 1)]
        BY <2>2, <3>2
      <4>2. Len(queue) - 1 + (i - (Len(W) - 1)) = i
        BY <1>1, <1>2, <1>17
      <4> QED
        BY <1>13, <3>2, <4>1, <4>2
    <3> QED
      BY <1>17, <3>1, <3>2
  <2> QED
    BY <1>2, <1>17, <2>2, <2>3
<1>19. LeftOf(U) = Tail(LeftOf(W)) \o LeftOf(V)
  <2> DEFINE Z == Tail(LeftOf(W)) \o LeftOf(V)
  <2>2. LeftOf(W) # <<>>
    BY <1>1, <1>2, <1>16
  <2>3. /\ Z \in Seq(SUBSET TrustPaths) /\ Len(Z) = Len(W) - 1 + n
        /\ \A i \in 2..Len(W) : Z[i - 1] = LeftOf(W)[i]
        /\ \A i \in 1..n : Z[Len(W) - 1 + i] = LeftOf(V)[i]
    <3>1. PICK S : S = LeftOf(W)
      OBVIOUS
    <3>2. PICK R : R = LeftOf(V)
      OBVIOUS
    <3>3. /\ S \in Seq(SUBSET TrustPaths) /\ R \in Seq(SUBSET TrustPaths) /\ S # <<>>
          /\ Len(S) = Len(W) /\ Len(R) = n
      BY <1>16, <2>2, <3>1, <3>2
    <3>4. Tail(S) \o R \in Seq(SUBSET TrustPaths) /\ Joins(S, R, Tail(S) \o R)
      BY <3>3, TailThen
    <3>5. Z = Tail(S) \o R
      BY <3>1, <3>2
    <3> HIDE DEF Z
    <3>6. Z \in Seq(SUBSET TrustPaths) /\ Joins(S, R, Z)
      BY <3>4, <3>5
    <3>7. /\ Len(Z) = Len(S) - 1 + Len(R)
          /\ \A i \in 2..Len(S) : Z[i - 1] = S[i]
          /\ \A i \in 1..Len(R) : Z[Len(S) - 1 + i] = R[i]
      BY <3>6, Zenon DEF Joins
    <3> QED
      BY <3>1, <3>2, <3>3, <3>6, <3>7, Zenon
  <2> HIDE DEF Z
  <2>4. LeftOf(U) \in Seq(SUBSET TrustPaths) /\ Len(LeftOf(U)) = Len(U)
    <3>1. LeftOf(U) \in [1..Len(U) -> SUBSET TrustPaths] /\ Len(U) \in Nat
      BY <1>17 DEF LeftOf, Left
    <3> QED
      BY <3>1, AsSequence
  <2>5. ASSUME NEW i \in 1..Len(U)
        PROVE  LeftOf(U)[i] = Z[i]
    <3>1. LeftOf(U)[i] = Left(U[i])
      BY DEF LeftOf
    <3>2. CASE i + 1 \in 2..Len(W) /\ U[i] = W[i + 1]
      <4>0. Z[(i + 1) - 1] = LeftOf(W)[i + 1]
        BY <2>3, <3>2
      <4>1. Z[(i + 1) - 1] = LeftOf(W)[i + 1] /\ (i + 1) - 1 = i /\ i + 1 \in 1..Len(W)
        BY <1>17, <3>2, <4>0
      <4>2. LeftOf(W)[i + 1] = Left(W[i + 1])
        BY <4>1 DEF LeftOf
      <4> QED
        BY <3>1, <3>2, <4>1, <4>2
    <3>3. CASE i - (Len(W) - 1) \in 1..n /\ U[i] = V[i - (Len(W) - 1)]
      <4>1. Z[Len(W) - 1 + (i - (Len(W) - 1))] = LeftOf(V)[i - (Len(W) - 1)]
        BY <2>3, <3>3
      <4>2. Len(W) - 1 + (i - (Len(W) - 1)) = i
        BY <1>17
      <4>3. LeftOf(V)[i - (Len(W) - 1)] = Left(V[i - (Len(W) - 1)])
        BY <1>14, <3>3 DEF LeftOf
      <4> QED
        BY <3>1, <3>3, <4>1, <4>2, <4>3
    <3> QED
      BY <1>17, <3>2, <3>3
  <2>6. LeftOf(U) = Z
    BY <1>17, <2>3, <2>4, <2>5
  <2> QED
    BY <2>6 DEF Z
<1>20. Apart(LeftOf(V))
  <2> SUFFICES ASSUME NEW i \in 1..n, NEW j \in 1..n, NEW p,
                      p \in LeftOf(V)[i], p \in LeftOf(V)[j]
               PROVE  i = j
    BY <1>16 DEF Apart
  <2>1. p \in Left(Longer(w, s[i])) /\ p \in Left(Longer(w, s[j]))
    BY <1>15
  <2>2. s[i] = s[j]
    BY <1>10, <1>11, <2>1
  <2> QED
    BY <1>8, <2>2
<1> DEFINE e == Longer(w, Goal)
           E == IF Goal \in Ahead(cur) THEN {e} ELSE {}
<1>21. LeftOf(W)[1] = Left(w) /\ LeftOf(W) # <<>>
  <2>1. 1 \in 1..Len(W)
    BY <1>1, <1>2
  <2>2. LeftOf(W)[1] = Left(w)
    BY <2>1 DEF LeftOf, w
  <2> QED
    BY <1>16, <2>1, <2>2
<1>22. E = {} \/ (E = {e} /\ e \in TrustPaths /\ e \in LeftOf(W)[1])
  BY <1>11, <1>12, <1>21
<1>23. \A p : p \in LeftOf(W)[1] <=> p \in E \/ \E i \in 1..Len(LeftOf(V)) : p \in LeftOf(V)[i]
  <2> SUFFICES ASSUME NEW p
               PROVE  p \in Left(w) <=> p \in E \/ \E i \in 1..n : p \in LeftOf(V)[i]
    BY <1>16, <1>21
  <2>1. p \in E <=> Goal \in Ahead(cur) /\ p = Longer(w, Goal)
    OBVIOUS
  <2>2. (\E k \in new : p \in Left(Longer(w, k))) <=> \E i \in 1..n : p \in LeftOf(V)[i]
    BY <1>8, <1>15
  <2>3. new = Ahead(cur) \ {Goal}
    BY DEF new
  <2> QED
    BY <1>11, <2>1, <2>2, <2>3
<1>24. \A i \in 1..Len(LeftOf(V)) : \A p \in E : p \notin LeftOf(V)[i]
  BY <1>10, <1>11, <1>15, <1>16
<1>25. E = {} <=> Goal \notin Ahead(cur)
  OBVIOUS
<1> HIDE DEF E, e
<1>26. /\ Apart(Tail(LeftOf(W)) \o LeftOf(V))
       /\ Counts(TrustPaths, Tail(LeftOf(W)) \o LeftOf(V), IF E = {} THEN count ELSE count + 1)
  BY <1>1, <1>2, <1>16, <1>20, <1>21, <1>22, <1>23, <1>24, SplitFirst
<1>27. Apart(LeftOf(U)) /\ Counts(TrustPaths, LeftOf(U), count')
  <2>1. count' = IF E = {} THEN count ELSE count + 1
    BY <1>7, <1>25 DEF cur
  <2> QED
    BY <1>19, <1>26, <2>1
<1>28. PICK Z : Z = U
  OBVIOUS
<1>29. Accounted(Z)'
  BY <1>1, <1>18, <1>27, <1>28, AccountsStay
<1> QED
  BY <1>29

\* At the start every trust path is left, and none is counted.
LEMMA StartAccounted ==
    ASSUME Walks, Walking, phase = "asked", StartAt(Begin)
    PROVE  \E V : Accounted(V)'
<1> DEFINE q == [fp |-> Begin, depth |-> 0, path |-> {Begin}]
<1>1. /\ Question /\ UNCHANGED question /\ queue' = <<q>> /\ count' = 0
      /\ Begin \in Key /\ Begin # Goal
  BY DEF StartAt, Walks, Walking, Begin, Goal, TrustAssumption, Question
<1>2. PICK w : w = <<Begin>>
  OBVIOUS
<1>3. w \in Seq(Key) /\ Len(w) = 1 /\ w[1] = Begin
  BY <1>1, <1>2
<1>4. IsPath(w) /\ From(w, 1) = Begin
  BY <1>3 DEF IsPath, From
<1>5. StandsFor(q, w)
  <2>1. q.depth = 0 /\ q.fp = Begin /\ q.path = {Begin}
    OBVIOUS
  <2> HIDE DEF q
  <2>2. \A k : k \in q.path <=> \E i \in 1..Len(w) : w[i] = k
    BY <1>3, <2>1
  <2>3. From(w, Len(w)) = q.fp /\ Goal \notin q.path /\ Len(w) = q.depth + 1
    BY <1>1, <1>3, <1>4, <2>1
  <2> QED
    BY <1>4, <2>2, <2>3, StandsFrom
<1>6. Left(w) = TrustPaths
  <2>1. \A p \in TrustPaths : Len(p) \in Nat /\ Len(p) >= 2 /\ From(p, 1) = Begin
    BY TrustPathFrom DEF IsPath
  <2>2. \A p \in TrustPaths : PartOf(w, p)
    BY <1>3, <1>4, <2>1 DEF PartOf
  <2> QED
    BY <2>2 DEF Left
<1> DEFINE W == <<w>>
<1>7. W \in Seq(Seq(Key)) /\ Len(W) = 1 /\ W[1] = w
  BY <1>3
<1> HIDE DEF W, q
<1>8. \A i \in 1..Len(W) : StandsFor(queue'[i], W[i])
  BY <1>1, <1>5, <1>7
<1>9. Len(LeftOf(W)) = 1 /\ LeftOf(W)[1] = TrustPaths
  BY <1>6, <1>7 DEF LeftOf
<1>10. Apart(LeftOf(W))
  BY <1>9 DEF Apart
<1>11. Counts(TrustPaths, LeftOf(W), count')
  <2>1. {p \in TrustPaths : \A i \in 1..Len(LeftOf(W)) : p \notin LeftOf(W)[i]} = {}
    BY <1>9
  <2> QED
    BY <1>1, <2>1, FS_EmptySet DEF Counts
<1>12. Len(W) = Len(queue')
  BY <1>1, <1>7
<1>13. Accounted(W)'
  BY <1>1, <1>7, <1>8, <1>10, <1>11, <1>12, AccountsStay
<1> QED
  BY <1>13

\* At the end nothing is left, and all are counted.
LEMMA EndAccounted ==
    ASSUME queue = <<>>, NEW W, Accounted(W)
    PROVE  IsFiniteSet(TrustPaths) /\ count = Cardinality(TrustPaths)
<1>1. Len(W) = 0 /\ Len(LeftOf(W)) = 0
  BY DEF Accounted, LeftOf
<1>2. {p \in TrustPaths : \A i \in 1..Len(LeftOf(W)) : p \notin LeftOf(W)[i]} = TrustPaths
  BY <1>1
<1> QED
  BY <1>2 DEF Accounted, Counts

\* No path leads to a revoked key.
LEMMA NoPathToRevoked ==
    ASSUME Question, target \in revoked
    PROVE  TrustPaths = {}
<1> SUFFICES ASSUME NEW p \in TrustPaths PROVE FALSE
  OBVIOUS
<1>1. IsPath(p) /\ Len(p) >= 2 /\ p[Len(p)] = target
  BY TrustPathIsPath
<1>2. Len(p) \in Nat /\ Len(p) - 1 \in 1..(Len(p) - 1) /\ (Len(p) - 1) + 1 = Len(p)
  BY <1>1 DEF IsPath
<1>3. p[Len(p) - 1] \in Build[p[(Len(p) - 1) + 1]]
  BY <1>1, <1>2 DEF IsPath
<1>4. p[Len(p) - 1] \in Build[target] /\ target \in Key
  BY <1>1, <1>2, <1>3 DEF Question
<1> QED
  BY <1>4 DEF Build

\* A step that counts keeps the accounts, and one that answers gives what they come to.
LEMMA CountStep ==
    ASSUME TrustAssumption, CountInv, WalkInv', [Next]_vars, method # "DisjointScore", target # Root
    PROVE  /\ phase' = "walk" => \E V : Accounted(V)'
           /\ phase' = "done" => IsFiniteSet(TrustPaths') /\ count' = Cardinality(TrustPaths')
<1>1. Question /\ Walking /\ Walks
  BY DEF CountInv, WalkInv, Walks
<1>2. CASE Score
  <2>1. StartAt(Begin) /\ phase = "asked" /\ phase' = "walk"
    BY <1>2 DEF Score, Begin, StartAt
  <2> QED
    BY <1>1, <2>1, StartAccounted
<1>3. CASE PyScore
  <2>1. CASE target \in revoked /\ Answer(0)
    <3>1. TrustPaths' = {} /\ phase' = "done" /\ count' = 0
      BY <1>1, <2>1, NoPathToRevoked, QuestionStays DEF Answer
    <3> QED
      BY <3>1, FS_EmptySet
  <2>2. CASE StartAt(Root)
    <3>1. StartAt(Begin) /\ phase = "asked" /\ phase' = "walk"
      BY <1>3, <2>2 DEF PyScore, Begin, StartAt
    <3> QED
      BY <1>1, <3>1, StartAccounted
  <2> QED
    BY <1>3, <2>1, <2>2 DEF PyScore
<1>4. CASE CountPaths \/ PyCountPaths
  <2>1. phase = "walk" /\ phase' = "walk" /\ queue # <<>> /\ UNCHANGED question
    BY <1>4 DEF CountPaths, PyCountPaths
  <2>2. Extend(Head(queue), Ahead(Head(queue)), Goal)
    <3>1. CASE CountPaths
      <4>1. /\ method = "Score"
            /\ Extend(Head(queue), IF Head(queue).depth >= maxDepth THEN {}
                                     ELSE Build[Head(queue).fp] \ Head(queue).path, Root)
        BY <3>1 DEF CountPaths
      <4> QED
        BY <4>1 DEF Ahead, Nbrs, Goal
    <3>2. CASE PyCountPaths
      <4>1. /\ method = "score"
            /\ Extend(Head(queue), IF Head(queue).depth >= maxDepth THEN {}
                                     ELSE (BuildSigned[Head(queue).fp] \ Head(queue).path) \ revoked,
                      target)
        BY <3>2 DEF PyCountPaths
      <4>2. (BuildSigned[Head(queue).fp] \ Head(queue).path) \ revoked
              = (BuildSigned[Head(queue).fp] \ revoked) \ Head(queue).path
        OBVIOUS
      <4>3. Ahead(Head(queue)) = IF Head(queue).depth >= maxDepth THEN {}
                                   ELSE (BuildSigned[Head(queue).fp] \ Head(queue).path) \ revoked
        BY <4>1, <4>2 DEF Ahead, Nbrs
      <4>4. Goal = target
        BY <4>1 DEF Goal
      <4> QED
        BY <4>1, <4>3, <4>4, Zenon
    <3> QED
      BY <1>4, <3>1, <3>2
  <2>3. PICK W : Accounted(W)
    BY <2>1 DEF CountInv
  <2> QED
    BY <1>1, <2>1, <2>2, <2>3, RoundAccounted
<1>5. CASE DisjointScore \/ Augment
  BY <1>1, <1>5 DEF DisjointScore, Augment, Walking
<1>6. CASE (Walked \/ Saturated) /\ Answer(count)
  <2>1. /\ phase = "walk" /\ queue = <<>> /\ phase' = "done" /\ count' = count
        /\ UNCHANGED question
    BY <1>1, <1>6 DEF Walking, Walked, Saturated, Answer
  <2>2. IsFiniteSet(TrustPaths) /\ count = Cardinality(TrustPaths)
    BY <2>1, EndAccounted DEF CountInv
  <2> QED
    BY <1>1, <2>1, <2>2, QuestionStays
<1>7. CASE UNCHANGED vars
  <2>1. UNCHANGED question /\ queue' = queue /\ count' = count /\ phase' = phase
    BY <1>7 DEF vars
  <2>2. ASSUME phase = "walk" PROVE \E V : Accounted(V)'
    <3>1. PICK W : Accounted(W)
      BY <2>2 DEF CountInv
    <3>2. Accounted(W)'
      BY <1>1, <2>1, <3>1, AccountsStay DEF Accounted
    <3> QED
      BY <3>2
  <2>3. phase = "done" => IsFiniteSet(TrustPaths) /\ count = Cardinality(TrustPaths)
    BY DEF CountInv
  <2> QED
    BY <1>1, <2>1, <2>2, <2>3, QuestionStays
<1> QED
  BY <1>2, <1>3, <1>4, <1>5, <1>6, <1>7 DEF Next

\* The accounts are kept, for all keys, signatures, revocations and depths.
THEOREM AccountsAreKept == Spec => []CountInv
<1>1. Init => CountInv
  <2> SUFFICES ASSUME Init PROVE CountInv
    OBVIOUS
  <2>1. phase = "asked"
    BY DEF Init
  <2>2. WalkInv
    BY TrustAssumption DEF Init, TrustAssumption, WalkInv, Walking, Question
  <2> QED
    BY <2>1, <2>2 DEF CountInv
<1>2. CountInv /\ WalkInv' /\ [Next]_vars => CountInv'
  <2> SUFFICES ASSUME CountInv, WalkInv', [Next]_vars PROVE CountInv'
    OBVIOUS
  <2>1. method' = method /\ target' = target
    BY DEF Next, Score, CountPaths, PyScore, PyCountPaths, DisjointScore, Augment, Answer,
           StartAt, vars, question
  <2>2. CASE method = "DisjointScore" \/ target = Root
    <3>1. phase' = "walk" => method' = "DisjointScore"
      BY <2>1, <2>2 DEF WalkInv, Walking
    <3> QED
      BY <2>1, <2>2, <3>1 DEF CountInv
  <2>3. CASE method # "DisjointScore" /\ target # Root
    BY <2>1, <2>3, TrustAssumption, CountStep DEF CountInv
  <2> QED
    BY <2>2, <2>3
<1> QED
  BY <1>1, <1>2, WalkInvariant, PTL DEF Spec

\* Two trust paths of at most two hops by the same keys are the same.
LEMMA ShortPathsBySets ==
    ASSUME Question, maxDepth <= 2, NEW p \in TrustPaths, NEW q \in TrustPaths,
           Between(p) = Between(q)
    PROVE  p = q
<1>1. /\ p \in Seq(Key) /\ (Len(p) = 2 \/ Len(p) = 3) /\ p[1] = Root /\ p[Len(p)] = target
      /\ q \in Seq(Key) /\ (Len(q) = 2 \/ Len(q) = 3) /\ q[1] = Root /\ q[Len(q)] = target
  <2>1. maxDepth \in Nat
    BY DEF Question
  <2>2. \A x \in TrustPaths : /\ IsPath(x) /\ Len(x) >= 2 /\ Len(x) <= maxDepth + 1
                              /\ x[1] = Root /\ x[Len(x)] = target
    BY TrustPathIsPath
  <2>3. ASSUME NEW x \in TrustPaths PROVE x \in Seq(Key) /\ (Len(x) = 2 \/ Len(x) = 3)
    <3>1. x \in Seq(Key) /\ Len(x) >= 2 /\ Len(x) <= maxDepth + 1
      BY <2>2 DEF IsPath
    <3>2. Len(x) \in Nat /\ Len(x) >= 2 /\ Len(x) <= 3
      BY <2>1, <3>1
    <3>3. \A n \in Nat : n >= 2 /\ n <= 3 => n = 2 \/ n = 3
      OBVIOUS
    <3> QED
      BY <3>1, <3>2, <3>3, Zenon
  <2> QED
    BY <2>2, <2>3
<1>2. \A x \in {p, q} : /\ Len(x) = 2 => Between(x) = {}
                        /\ Len(x) = 3 => Between(x) = {x[2]}
  <2> SUFFICES ASSUME NEW x \in {p, q}
               PROVE  /\ Len(x) = 2 => Between(x) = {}
                      /\ Len(x) = 3 => Between(x) = {x[2]}
    OBVIOUS
  <2>1. ASSUME Len(x) = 2 PROVE Between(x) = {}
    <3>1. 2..(Len(x) - 1) = {}
      BY <2>1
    <3> QED
      BY <3>1 DEF Between
  <2>2. ASSUME Len(x) = 3 PROVE Between(x) = {x[2]}
    <3>1. 2..(Len(x) - 1) = {2}
      BY <2>2
    <3> QED
      BY <3>1 DEF Between
  <2> QED
    BY <2>1, <2>2
<1>3. CASE Len(p) = 2
  <2>1. Len(q) = 2
    <3>1. Between(p) = {} /\ (Len(q) = 3 => Between(q) = {q[2]})
      BY <1>2, <1>3
    <3>2. Len(q) # 3
      BY <3>1
    <3> QED
      BY <1>1, <3>2
  <2>2. \A i \in 1..2 : p[i] = q[i]
    BY <1>1, <1>3, <2>1
  <2> QED
    BY <1>1, <1>3, <2>1, <2>2
<1>4. CASE Len(p) = 3
  <2>1. Between(p) = {p[2]} /\ Between(q) = {p[2]}
    BY <1>2, <1>4
  <2>2. Len(q) = 3
    <3>1. Len(q) # 2
      BY <1>2, <2>1
    <3> QED
      BY <1>1, <3>1
  <2>3. p[2] = q[2]
    BY <1>2, <2>1, <2>2
  <2>4. \A i \in 1..3 : p[i] = q[i]
    BY <1>1, <1>4, <2>2, <2>3
  <2> QED
    BY <1>1, <1>4, <2>2, <2>4
<1> QED
  BY <1>1, <1>3, <1>4

\* So there are as many of them as sets of keys between.
LEMMA ShortPathsAreSets ==
    ASSUME Question, maxDepth <= 2, IsFiniteSet(TrustPaths)
    PROVE  Cardinality(RouteSets) = Cardinality(TrustPaths)
<1> DEFINE f == [p \in TrustPaths |-> Between(p)]
<1>1. f \in [TrustPaths -> RouteSets]
  BY DEF RouteSets
<1>2. \A p, q \in TrustPaths : f[p] = f[q] => p = q
  BY ShortPathsBySets
<1>3. \A b \in RouteSets : \E p \in TrustPaths : f[p] = b
  BY DEF RouteSets
<1> HIDE DEF f
<1>4. f \in Bijection(TrustPaths, RouteSets)
  BY <1>1, <1>2, <1>3 DEF Bijection, Injection, Surjection, IsInjective
<1> QED
  BY <1>4, FS_Bijection DEF ExistsBijection

\* The count that is answered is that of the trust paths: none is missed and none is
\* counted twice, for any signatures, from whichever end the client starts and in
\* whatever order it takes the keys.  Up to a depth of 2 it is also the number of sets of
\* keys between, which is how spec/trust.md puts it.
THEOREM PathsAreCounted == Spec => []PathsCounted
<1>1. CountInv => PathsCounted
  <2> SUFFICES ASSUME CountInv, phase = "done", method # "DisjointScore", target # Root
               PROVE  /\ count = Cardinality(TrustPaths)
                      /\ maxDepth <= 2 => count = Cardinality(RouteSets)
    BY DEF PathsCounted
  <2>1. IsFiniteSet(TrustPaths) /\ count = Cardinality(TrustPaths) /\ Question
    BY DEF CountInv, WalkInv
  <2> QED
    BY <2>1, ShortPathsAreSets
<1> QED
  BY <1>1, AccountsAreKept, PTL

-----------------------------------------------------------------------------
(* Numbers, and what is defined by recursion on them.                       *)

LEMMA Less == IsWellFoundedOn({ss \in Nat \X Nat : ss[1] < ss[2]}, Nat)
BY NatLessThanWellFounded, Zenon DEF OpToRel

\* A set of numbers has a least.
LEMMA LeastOf ==
    ASSUME NEW T, T \subseteq Nat, T # {}
    PROVE  \E m \in T : \A n \in T : m <= n
<1>1. PICK m \in T : \A n \in T : ~(<<n, m>> \in {ss \in Nat \X Nat : ss[1] < ss[2]})
  BY Less, WFMin
<1>2. \A n \in T : ~(n < m)
  BY <1>1
<1> QED
  BY <1>2

\* A set of numbers that has 0, and with each the next, has them all.
LEMMA AllNumbers ==
    ASSUME NEW T, 0 \in T, \A n \in Nat : n \in T => n + 1 \in T
    PROVE  Nat \subseteq T
<1> SUFFICES ASSUME Nat \ T # {} PROVE FALSE
  OBVIOUS
<1>1. PICK m \in Nat \ T : \A n \in Nat \ T : m <= n
  BY LeastOf
<1>2. m # 0 /\ m - 1 \in Nat /\ m - 1 \in T
  BY <1>1
<1> QED
  BY <1>2

\* f gives x at 0, and up to n at each number what h makes of what it gives before.
Iterates(f, n, x, h) == f[0] = x /\ \A i \in 0..(n - 1) : f[i + 1] = h[f[i]]

IsIteration(g, S, x, h) ==
    g \in [Nat -> S] /\ g[0] = x /\ \A n \in Nat : g[n + 1] = h[g[n]]

LEMMA Iteration ==
    ASSUME NEW S, NEW x \in S, NEW h \in [S -> S]
    PROVE  \E g : IsIteration(g, S, x, h)
<1> DEFINE ok == {n \in Nat : \E f \in [0..n -> S] : Iterates(f, n, x, h)}
<1>1. 0 \in ok
  <2> DEFINE f == [i \in 0..0 |-> x]
  <2>1. f \in [0..0 -> S] /\ f[0] = x
    OBVIOUS
  <2> HIDE DEF f
  <2>2. Iterates(f, 0, x, h)
    BY <2>1 DEF Iterates
  <2> QED
    BY <2>1, <2>2
<1>2. ASSUME NEW n \in Nat, n \in ok PROVE n + 1 \in ok
  <2>1. PICK f \in [0..n -> S] : Iterates(f, n, x, h)
    BY <1>2
  <2> DEFINE e == [i \in 0..(n + 1) |-> IF i = n + 1 THEN h[f[n]] ELSE f[i]]
  <2>2. e[n + 1] = h[f[n]] /\ \A i \in 0..n : e[i] = f[i]
    OBVIOUS
  <2>3. e \in [0..(n + 1) -> S]
    <3>1. \A i \in 0..(n + 1) : i = n + 1 \/ i \in 0..n
      OBVIOUS
    <3>2. f[n] \in S
      OBVIOUS
    <3> QED
      BY <3>1, <3>2
  <2> HIDE DEF e
  <2>4. ASSUME NEW i \in 0..((n + 1) - 1) PROVE e[i + 1] = h[e[i]]
    <3>1. CASE i = n
      BY <2>2, <3>1
    <3>2. CASE i # n
      <4>1. i \in 0..(n - 1) /\ i \in 0..n /\ i + 1 \in 0..n
        BY <3>2
      <4> QED
        BY <2>1, <2>2, <4>1 DEF Iterates
    <3> QED
      BY <3>1, <3>2
  <2>5. e[0] = x
    BY <2>1, <2>2 DEF Iterates
  <2> QED
    BY <2>3, <2>4, <2>5 DEF Iterates
<1>3. Nat \subseteq ok
  <2> HIDE DEF ok
  <2> QED
    BY <1>1, <1>2, AllNumbers
<1>4. ASSUME NEW n \in Nat, NEW f, Iterates(f, n, x, h), NEW m \in Nat, n <= m,
             NEW e, Iterates(e, m, x, h)
      PROVE  f[n] = e[n]
  <2> DEFINE same == {i \in Nat : i <= n => f[i] = e[i]}
  <2>1. 0 \in same
    BY <1>4 DEF Iterates
  <2>2. ASSUME NEW i \in Nat, i \in same PROVE i + 1 \in same
    <3> SUFFICES ASSUME i + 1 <= n PROVE f[i + 1] = e[i + 1]
      OBVIOUS
    <3>1. i \in 0..(n - 1) /\ i \in 0..(m - 1) /\ f[i] = e[i]
      BY <1>4, <2>2
    <3> QED
      BY <1>4, <3>1 DEF Iterates
  <2>3. Nat \subseteq same
    <3> HIDE DEF same
    <3> QED
      BY <2>1, <2>2, AllNumbers
  <2> QED
    BY <2>3
<1> DEFINE F(n) == CHOOSE f \in [0..n -> S] : Iterates(f, n, x, h)
<1>5. \A n \in Nat : F(n) \in [0..n -> S] /\ Iterates(F(n), n, x, h)
  <2> SUFFICES ASSUME NEW n \in Nat PROVE F(n) \in [0..n -> S] /\ Iterates(F(n), n, x, h)
    OBVIOUS
  <2>1. \E f \in [0..n -> S] : Iterates(f, n, x, h)
    BY <1>3
  <2> QED
    BY <2>1
<1> HIDE DEF F, ok
<1> DEFINE g == [n \in Nat |-> F(n)[n]]
<1>6. \A n \in Nat : g[n] = F(n)[n]
  OBVIOUS
<1>7. g \in [Nat -> S]
  BY <1>5
<1> HIDE DEF g
<1>8. g[0] = x
  BY <1>5, <1>6 DEF Iterates
<1>9. ASSUME NEW n \in Nat PROVE g[n + 1] = h[g[n]]
  <2>1. Iterates(F(n), n, x, h) /\ Iterates(F(n + 1), n + 1, x, h)
    BY <1>5
  <2>2. F(n)[n] = F(n + 1)[n]
    BY <1>4, <2>1
  <2>3. n \in 0..((n + 1) - 1)
    OBVIOUS
  <2>4. F(n + 1)[n + 1] = h[F(n + 1)[n]]
    BY <2>1, <2>3 DEF Iterates
  <2> QED
    BY <1>6, <2>2, <2>4
<1>10. IsIteration(g, S, x, h)
  BY <1>7, <1>8, <1>9 DEF IsIteration
<1> QED
  BY <1>10

-----------------------------------------------------------------------------
(* Who is within reach.                                                     *)

\* A walk of signatures from key a to key b, that may come by a key twice.
IsWalk(w, a, b) ==
    /\ w \in Seq(Key) /\ Len(w) >= 1 /\ w[1] = a /\ w[Len(w)] = b
    /\ \A i \in 1..(Len(w) - 1) : w[i] \in Build[w[i + 1]]

\* w without what comes after its place i, up to and with place j.
Cut(w, i, j) == [x \in 1..(Len(w) - (j - i)) |-> IF x <= i THEN w[x] ELSE w[x + (j - i)]]

\* What lies between two visits to a key can be left out.
LEMMA CutWalk ==
    ASSUME NEW a, NEW b, NEW w, IsWalk(w, a, b),
           NEW i \in 1..Len(w), NEW j \in 1..Len(w), i < j, w[i] = w[j]
    PROVE  IsWalk(Cut(w, i, j), a, b) /\ Len(Cut(w, i, j)) = Len(w) - (j - i)
<1> DEFINE n == Len(w) - (j - i)
           v == Cut(w, i, j)
<1>1. w \in Seq(Key) /\ Len(w) \in Nat /\ i \in Nat /\ j \in Nat /\ i >= 1 /\ j <= Len(w)
  BY DEF IsWalk
<1>2. n \in Nat /\ n >= i /\ n < Len(w)
  BY <1>1
<1>3. \A x \in 1..n : /\ x <= i => v[x] = w[x] /\ x \in 1..Len(w)
                      /\ x > i => v[x] = w[x + (j - i)] /\ x + (j - i) \in 1..Len(w)
  BY <1>1, <1>2 DEF Cut
<1>4. v \in [1..n -> Key]
  <2>1. ASSUME NEW x \in 1..n PROVE v[x] \in Key
    <3> HIDE DEF v
    <3>0. \A y \in 1..Len(w) : w[y] \in Key
      BY <1>1
    <3>1. CASE x <= i
      <4>1. v[x] = w[x] /\ x \in 1..Len(w)
        BY <1>3, <3>1
      <4> QED
        BY <3>0, <4>1
    <3>2. CASE x > i
      <4>1. v[x] = w[x + (j - i)] /\ x + (j - i) \in 1..Len(w)
        BY <1>3, <3>2
      <4> QED
        BY <3>0, <4>1
    <3> QED
      BY <1>1, <1>2, <3>1, <3>2
  <2>2. v = [x \in 1..n |-> v[x]]
    BY DEF Cut
  <2> HIDE DEF v, n
  <2> QED
    BY <2>1, <2>2
<1> HIDE DEF v
<1>5. v \in Seq(Key) /\ Len(v) = n
  BY <1>2, <1>4, AsSequence
<1>6. v[1] = a
  BY <1>1, <1>2, <1>3 DEF IsWalk
<1>7. v[n] = b
  <2>1. CASE n = i
    <3>1. j = Len(w)
      BY <1>1, <2>1
    <3> QED
      BY <1>1, <1>2, <1>3, <2>1, <3>1 DEF IsWalk
  <2>2. CASE n # i
    <3>1. n > i /\ n + (j - i) = Len(w)
      BY <1>1, <1>2, <2>2
    <3> QED
      BY <1>1, <1>2, <1>3, <3>1 DEF IsWalk
  <2> QED
    BY <2>1, <2>2
<1>8. ASSUME NEW x \in 1..(n - 1) PROVE v[x] \in Build[v[x + 1]]
  <2>1. x \in 1..n /\ x + 1 \in 1..n
    BY <1>2
  <2>2. CASE x < i
    <3>1. v[x] = w[x] /\ v[x + 1] = w[x + 1] /\ x \in 1..(Len(w) - 1)
      BY <1>1, <1>2, <1>3, <2>1, <2>2
    <3> QED
      BY <3>1 DEF IsWalk
  <2>3. CASE x = i
    <3>1. v[x] = w[j] /\ v[x + 1] = w[x + 1 + (j - i)]
      BY <1>1, <1>3, <2>1, <2>3
    <3>2. x + 1 + (j - i) = j + 1 /\ j \in 1..(Len(w) - 1)
      BY <1>1, <1>2, <2>1, <2>3
    <3> QED
      BY <3>1, <3>2 DEF IsWalk
  <2>4. CASE x > i
    <3>1. v[x] = w[x + (j - i)] /\ v[x + 1] = w[x + 1 + (j - i)]
      BY <1>1, <1>3, <2>1, <2>4
    <3>2. x + 1 + (j - i) = (x + (j - i)) + 1 /\ x + (j - i) \in 1..(Len(w) - 1)
      BY <1>1, <1>2, <2>1, <2>4
    <3> QED
      BY <3>1, <3>2 DEF IsWalk
  <2> QED
    BY <1>1, <2>2, <2>3, <2>4
<1> QED
  BY <1>2, <1>5, <1>6, <1>7, <1>8 DEF IsWalk, v

\* So where there is a walk, there is a path no longer than it.
LEMMA WalkHasPath ==
    ASSUME NEW a, NEW b, NEW w, IsWalk(w, a, b)
    PROVE  \E p : IsPath(p) /\ Len(p) <= Len(w) /\ p[1] = a /\ p[Len(p)] = b
<1> DEFINE lens == {n \in Nat : \E v : IsWalk(v, a, b) /\ Len(v) = n}
<1>1. \A v : IsWalk(v, a, b) => Len(v) \in lens
  BY DEF IsWalk
<1>2. PICK m \in lens : \A n \in lens : m <= n
  <2>1. lens \subseteq Nat /\ lens # {}
    BY <1>1
  <2> HIDE DEF lens
  <2> QED
    BY <2>1, LeastOf
<1>3. PICK p : IsWalk(p, a, b) /\ Len(p) = m
  BY <1>2
<1>4. \A v : IsWalk(v, a, b) => Len(p) <= Len(v)
  BY <1>1, <1>2, <1>3
<1>5. ASSUME NEW i \in 1..Len(p), NEW j \in 1..Len(p), i < j, p[i] = p[j]
      PROVE  FALSE
  <2>1. Len(p) <= Len(p) - (j - i)
    BY <1>3, <1>4, <1>5, CutWalk
  <2> QED
    BY <1>3, <1>5, <2>1
<1>6. \A i, j \in 1..Len(p) : p[i] = p[j] => i = j
  <2> SUFFICES ASSUME NEW i \in 1..Len(p), NEW j \in 1..Len(p), p[i] = p[j] PROVE i = j
    OBVIOUS
  <2>1. i < j \/ j < i \/ i = j
    BY <1>3 DEF IsWalk
  <2> QED
    BY <1>5, <2>1
<1>7. IsPath(p) /\ p[1] = a /\ p[Len(p)] = b
  BY <1>3, <1>6 DEF IsWalk, IsPath
<1>8. Len(p) <= Len(w)
  BY <1>4
<1> QED
  BY <1>7, <1>8

\* Walks that meet make one.
LEMMA JoinWalks ==
    ASSUME NEW a, NEW b, NEW c, NEW d, NEW v, IsWalk(v, a, b), NEW w, IsWalk(w, c, d), b \in Build[c]
    PROVE  IsWalk(v \o w, a, d) /\ Len(v \o w) = Len(v) + Len(w)
<1> DEFINE u == v \o w
<1>1. v \in Seq(Key) /\ w \in Seq(Key) /\ Len(v) \in Nat /\ Len(w) \in Nat /\ Len(v) >= 1 /\ Len(w) >= 1
  BY DEF IsWalk
<1>2. u \in Seq(Key) /\ Len(u) = Len(v) + Len(w)
  BY <1>1
<1>3. (\A i \in 1..Len(v) : u[i] = v[i]) /\ \A i \in 1..Len(w) : u[Len(v) + i] = w[i]
  BY <1>1
<1> HIDE DEF u
<1>4. u[1] = a /\ u[Len(u)] = d
  BY <1>1, <1>2, <1>3 DEF IsWalk
<1>5. ASSUME NEW i \in 1..(Len(u) - 1) PROVE u[i] \in Build[u[i + 1]]
  <2>1. CASE i < Len(v)
    <3>1. u[i] = v[i] /\ u[i + 1] = v[i + 1] /\ i \in 1..(Len(v) - 1)
      BY <1>1, <1>2, <1>3, <2>1
    <3> QED
      BY <3>1 DEF IsWalk
  <2>2. CASE i = Len(v)
    <3>1. u[i] = v[Len(v)] /\ u[i + 1] = w[1]
      BY <1>1, <1>2, <1>3, <2>2
    <3> QED
      BY <3>1 DEF IsWalk
  <2>3. CASE i > Len(v)
    <3>1. i - Len(v) \in 1..(Len(w) - 1) /\ i - Len(v) \in 1..Len(w)
          /\ (i - Len(v)) + 1 \in 1..Len(w)
          /\ Len(v) + (i - Len(v)) = i /\ Len(v) + ((i - Len(v)) + 1) = i + 1
      BY <1>1, <1>2, <2>3
    <3>2. u[i] = w[i - Len(v)] /\ u[i + 1] = w[(i - Len(v)) + 1]
      BY <1>3, <3>1
    <3> QED
      BY <3>1, <3>2 DEF IsWalk
  <2> QED
    BY <1>1, <1>2, <2>1, <2>2, <2>3
<1> QED
  BY <1>1, <1>2, <1>4, <1>5 DEF IsWalk, u

LEMMA WalkOfOne ==
    ASSUME NEW k \in Key
    PROVE  IsWalk(<<k>>, k, k) /\ Len(<<k>>) = 1
BY DEF IsWalk

\* Those a set of keys vouches for, besides them, and those who vouch for them.
Onward(X) == X \cup {k \in Key : Build[k] \cap X # {}}
Backward(X) == X \cup UNION {Build[k] : k \in X}

\* The keys within n hops from the root, and those with the target within n hops.
IsReach(g) ==
    g \in [Nat -> SUBSET Key] /\ g[0] = {Root} /\ \A n \in Nat : g[n + 1] = Onward(g[n])

IsReachTo(g) ==
    g \in [Nat -> SUBSET Key] /\ g[0] = {target} /\ \A n \in Nat : g[n + 1] = Backward(g[n])

LEMMA ReachExists ==
    ASSUME Question, Root \in Key
    PROVE  (\E g : IsReach(g)) /\ \E g : IsReachTo(g)
<1>1. \E g : IsReach(g)
  <2> DEFINE h == [X \in SUBSET Key |-> Onward(X)]
  <2>1. \A X \in SUBSET Key : Onward(X) \in SUBSET Key
    BY DEF Onward
  <2>2. h \in [SUBSET Key -> SUBSET Key] /\ \A X \in SUBSET Key : h[X] = Onward(X)
    BY <2>1
  <2> HIDE DEF h
  <2>3. {Root} \in SUBSET Key
    OBVIOUS
  <2>4. PICK g : IsIteration(g, SUBSET Key, {Root}, h)
    BY <2>2, <2>3, Iteration
  <2> QED
    BY <2>2, <2>4 DEF IsIteration, IsReach
<1>2. \E g : IsReachTo(g)
  <2> DEFINE h == [X \in SUBSET Key |-> Backward(X)]
  <2>1. \A X \in SUBSET Key : Backward(X) \in SUBSET Key
    BY DEF Backward, Build, Question
  <2>2. h \in [SUBSET Key -> SUBSET Key] /\ \A X \in SUBSET Key : h[X] = Backward(X)
    BY <2>1
  <2> HIDE DEF h
  <2>3. {target} \in SUBSET Key
    BY DEF Question
  <2>4. PICK g : IsIteration(g, SUBSET Key, {target}, h)
    BY <2>2, <2>3, Iteration
  <2> QED
    BY <2>2, <2>4 DEF IsIteration, IsReachTo
<1> QED
  BY <1>1, <1>2

\* What is within reach is so by a walk.
LEMMA ReachHasWalk ==
    ASSUME Question, Root \in Key, NEW g, IsReach(g)
    PROVE  \A n \in Nat : \A k \in g[n] : \E w : IsWalk(w, Root, k) /\ Len(w) <= n + 1
<1> DEFINE ok == {n \in Nat : \A k \in g[n] : \E w : IsWalk(w, Root, k) /\ Len(w) <= n + 1}
<1>1. 0 \in ok
  <2>1. IsWalk(<<Root>>, Root, Root) /\ Len(<<Root>>) <= 0 + 1
    BY WalkOfOne
  <2>2. \A k \in g[0] : k = Root
    BY DEF IsReach
  <2> QED
    BY <2>1, <2>2
<1>2. ASSUME NEW n \in Nat, n \in ok PROVE n + 1 \in ok
  <2> SUFFICES ASSUME NEW k \in g[n + 1]
               PROVE  \E w : IsWalk(w, Root, k) /\ Len(w) <= (n + 1) + 1
    OBVIOUS
  <2>1. \A x \in g[n] : \E w : IsWalk(w, Root, x) /\ Len(w) <= n + 1
    BY <1>2
  <2>2. k \in g[n] \/ (k \in Key /\ Build[k] \cap g[n] # {})
    BY DEF IsReach, Onward
  <2>3. CASE k \in g[n]
    <3>1. PICK w : IsWalk(w, Root, k) /\ Len(w) <= n + 1
      BY <2>1, <2>3
    <3>2. Len(w) \in Nat
      BY <3>1 DEF IsWalk
    <3> QED
      BY <3>1, <3>2
  <2>4. CASE k \in Key /\ Build[k] \cap g[n] # {}
    <3>1. PICK x \in g[n] : x \in Build[k]
      BY <2>4
    <3>2. PICK w : IsWalk(w, Root, x) /\ Len(w) <= n + 1
      BY <2>1
    <3>3. IsWalk(<<k>>, k, k) /\ Len(<<k>>) = 1
      BY <2>4, WalkOfOne
    <3>4. IsWalk(w \o <<k>>, Root, k) /\ Len(w \o <<k>>) = Len(w) + Len(<<k>>)
      BY <3>1, <3>2, <3>3, JoinWalks
    <3>5. Len(w) \in Nat
      BY <3>2 DEF IsWalk
    <3>6. Len(w \o <<k>>) <= (n + 1) + 1
      BY <3>2, <3>3, <3>4, <3>5
    <3> QED
      BY <3>4, <3>6, Zenon
  <2> QED
    BY <2>2, <2>3, <2>4
<1> HIDE DEF ok
<1>3. Nat \subseteq ok
  BY <1>1, <1>2, AllNumbers
<1> QED
  BY <1>3 DEF ok

LEMMA ReachToHasWalk ==
    ASSUME Question, NEW g, IsReachTo(g)
    PROVE  \A n \in Nat : \A k \in g[n] : \E w : IsWalk(w, k, target) /\ Len(w) <= n + 1
<1> DEFINE ok == {n \in Nat : \A k \in g[n] : \E w : IsWalk(w, k, target) /\ Len(w) <= n + 1}
<1>1. 0 \in ok
  <2>1. IsWalk(<<target>>, target, target) /\ Len(<<target>>) <= 0 + 1
    BY WalkOfOne DEF Question
  <2>2. \A k \in g[0] : k = target
    BY DEF IsReachTo
  <2> QED
    BY <2>1, <2>2
<1>2. ASSUME NEW n \in Nat, n \in ok PROVE n + 1 \in ok
  <2> SUFFICES ASSUME NEW k \in g[n + 1]
               PROVE  \E w : IsWalk(w, k, target) /\ Len(w) <= (n + 1) + 1
    OBVIOUS
  <2>1. \A x \in g[n] : \E w : IsWalk(w, x, target) /\ Len(w) <= n + 1
    BY <1>2
  <2>2. k \in g[n] \/ \E x \in g[n] : k \in Build[x]
    BY DEF IsReachTo, Backward
  <2>3. CASE k \in g[n]
    <3>1. PICK w : IsWalk(w, k, target) /\ Len(w) <= n + 1
      BY <2>1, <2>3
    <3>2. Len(w) \in Nat
      BY <3>1 DEF IsWalk
    <3> QED
      BY <3>1, <3>2
  <2>4. CASE \E x \in g[n] : k \in Build[x]
    <3>1. PICK x \in g[n] : k \in Build[x]
      BY <2>4
    <3>2. PICK w : IsWalk(w, x, target) /\ Len(w) <= n + 1
      BY <2>1
    <3>3. k \in Key
      BY DEF IsReachTo
    <3>4. IsWalk(<<k>>, k, k) /\ Len(<<k>>) = 1
      BY <3>3, WalkOfOne
    <3>5. IsWalk(<<k>> \o w, k, target) /\ Len(<<k>> \o w) = Len(<<k>>) + Len(w)
      BY <3>1, <3>2, <3>4, JoinWalks
    <3>6. Len(w) \in Nat
      BY <3>2 DEF IsWalk
    <3>7. Len(<<k>> \o w) <= (n + 1) + 1
      BY <3>2, <3>4, <3>5, <3>6
    <3> QED
      BY <3>5, <3>7, Zenon
  <2> QED
    BY <2>2, <2>3, <2>4
<1> HIDE DEF ok
<1>3. Nat \subseteq ok
  BY <1>1, <1>2, AllNumbers
<1> QED
  BY <1>3 DEF ok

\* What is within reach stays so with more hops.
LEMMA ReachGrows ==
    ASSUME NEW g, IsReach(g) \/ IsReachTo(g), NEW m \in Nat, NEW k \in g[m]
    PROVE  \A n \in Nat : m <= n => k \in g[n]
<1> DEFINE ok == {n \in Nat : m <= n => k \in g[n]}
<1>1. 0 \in ok
  OBVIOUS
<1>2. ASSUME NEW n \in Nat, n \in ok PROVE n + 1 \in ok
  <2>1. g[n] \subseteq g[n + 1]
    BY DEF IsReach, IsReachTo, Onward, Backward
  <2>2. CASE m = n + 1
    BY <2>2
  <2>3. CASE m # n + 1
    BY <1>2, <2>1, <2>3
  <2> QED
    BY <2>2, <2>3
<1> HIDE DEF ok
<1>3. Nat \subseteq ok
  BY <1>1, <1>2, AllNumbers
<1> QED
  BY <1>3 DEF ok

\* The keys of a path from the root are within as many hops as they are on it, and those
\* of a path to the target.
LEMMA PathInReach ==
    ASSUME NEW g, IsReach(g), NEW p, IsPath(p), p[1] = Root
    PROVE  \A i \in 1..Len(p) : p[i] \in g[i - 1]
<1>0. p \in Seq(Key) /\ Len(p) \in Nat
  BY DEF IsPath
<1> DEFINE ok == {n \in Nat : n + 1 \in 1..Len(p) => p[n + 1] \in g[n]}
<1>1. 0 \in ok
  BY DEF IsReach
<1>2. ASSUME NEW n \in Nat, n \in ok PROVE n + 1 \in ok
  <2> SUFFICES ASSUME (n + 1) + 1 \in 1..Len(p) PROVE p[(n + 1) + 1] \in g[n + 1]
    OBVIOUS
  <2>1. n + 1 \in 1..(Len(p) - 1) /\ n + 1 \in 1..Len(p)
    BY <1>0
  <2>2. p[n + 1] \in g[n] /\ p[n + 1] \in Build[p[(n + 1) + 1]] /\ p[(n + 1) + 1] \in Key
    BY <1>0, <1>2, <2>1 DEF IsPath
  <2> QED
    BY <2>2 DEF IsReach, Onward
<1> HIDE DEF ok
<1>3. Nat \subseteq ok
  BY <1>1, <1>2, AllNumbers
<1>4. ASSUME NEW i \in 1..Len(p) PROVE p[i] \in g[i - 1]
  <2>1. i - 1 \in Nat /\ (i - 1) + 1 = i
    OBVIOUS
  <2> QED
    BY <1>3, <2>1 DEF ok
<1> QED
  BY <1>4

LEMMA PathInReachTo ==
    ASSUME NEW g, IsReachTo(g), NEW p, IsPath(p), p[Len(p)] = target
    PROVE  \A i \in 1..Len(p) : p[i] \in g[Len(p) - i]
<1>0. p \in Seq(Key) /\ Len(p) \in Nat
  BY DEF IsPath
<1> DEFINE ok == {n \in Nat : Len(p) - n \in 1..Len(p) => p[Len(p) - n] \in g[n]}
<1>1. 0 \in ok
  BY <1>0 DEF IsReachTo
<1>2. ASSUME NEW n \in Nat, n \in ok PROVE n + 1 \in ok
  <2> SUFFICES ASSUME Len(p) - (n + 1) \in 1..Len(p) PROVE p[Len(p) - (n + 1)] \in g[n + 1]
    OBVIOUS
  <2> DEFINE i == Len(p) - (n + 1)
  <2>1. i \in 1..(Len(p) - 1) /\ Len(p) - n \in 1..Len(p) /\ i + 1 = Len(p) - n
    BY <1>0
  <2>2. p[i] \in Build[p[i + 1]]
    BY <2>1 DEF IsPath
  <2>3. p[i + 1] \in g[n]
    BY <1>2, <2>1
  <2> HIDE DEF i
  <2>4. p[i] \in Backward(g[n])
    BY <2>2, <2>3, Zenon DEF Backward
  <2>5. p[i] \in g[n + 1]
    BY <2>4 DEF IsReachTo
  <2> QED
    BY <2>5 DEF i
<1> HIDE DEF ok
<1>3. Nat \subseteq ok
  BY <1>1, <1>2, AllNumbers
<1>4. ASSUME NEW i \in 1..Len(p) PROVE p[i] \in g[Len(p) - i]
  <2>1. Len(p) - i \in Nat /\ Len(p) - (Len(p) - i) = i
    BY <1>0
  <2> QED
    BY <1>3, <2>1 DEF ok
<1> QED
  BY <1>4

\* The target is within reach where there is a trust path.
LEMMA ReachHasPath ==
    ASSUME Question, Root \in Key, target # Root, NEW g, IsReach(g)
    PROVE  target \in g[maxDepth] <=> TrustPaths # {}
<1>1. maxDepth \in Nat
  BY DEF Question
<1>2. ASSUME target \in g[maxDepth] PROVE TrustPaths # {}
  <2>1. PICK w : IsWalk(w, Root, target) /\ Len(w) <= maxDepth + 1
    BY <1>1, <1>2, ReachHasWalk
  <2>2. PICK p : IsPath(p) /\ Len(p) <= Len(w) /\ p[1] = Root /\ p[Len(p)] = target
    BY <2>1, WalkHasPath
  <2>3. Len(p) \in Nat /\ Len(w) \in Nat /\ Len(p) >= 2
    BY <2>1, <2>2 DEF IsPath, IsWalk
  <2>4. p \in TrustPaths
    BY <1>1, <2>1, <2>2, <2>3, PathIsTrustPath
  <2> QED
    BY <2>4
<1>3. ASSUME NEW p \in TrustPaths PROVE target \in g[maxDepth]
  <2>1. IsPath(p) /\ Len(p) >= 2 /\ Len(p) <= maxDepth + 1 /\ p[1] = Root /\ p[Len(p)] = target
    BY TrustPathIsPath
  <2>2. Len(p) \in 1..Len(p) /\ Len(p) - 1 \in Nat /\ Len(p) - 1 <= maxDepth
    BY <1>1, <2>1 DEF IsPath
  <2>3. target \in g[Len(p) - 1]
    BY <2>1, <2>2, PathInReach
  <2> QED
    BY <1>1, <2>2, <2>3, ReachGrows
<1> QED
  BY <1>2, <1>3

-----------------------------------------------------------------------------
(* The keys of trusted_set.                                                 *)

LEMMA VouchesBothWays ==
    ASSUME Question, NEW X \in SUBSET Key
    PROVE  X \cup UNION {BuildSigned[k] \ revoked : k \in X} = Onward(X)
<1> SUFFICES ASSUME NEW b
             PROVE  b \in UNION {BuildSigned[k] \ revoked : k \in X}
                      <=> b \in Key /\ \E k \in X : k \in Build[b]
  BY DEF Onward
<1>1. ASSUME NEW k \in X
      PROVE  b \in BuildSigned[k] \ revoked <=> b \in Key /\ k \in Build[b]
  BY DEF BuildSigned, Build
<1> QED
  BY <1>1

\* trusted_set collects what is within reach of the root.
LEMMA TrustedSetIs ==
    ASSUME Question, Root \in Key
    PROVE  \E g : IsReach(g) /\ TrustedSet = g[maxDepth] \ {Root}
<1> DEFINE E(X) == X \cup UNION {BuildSigned[k] \ revoked : k \in X}
           seen[d \in Nat] == IF d = 0 THEN {Root} ELSE E(seen[d - 1])
<1>1. PICK g : IsReach(g)
  BY ReachExists
<1>2. \A X \in SUBSET Key : E(X) = Onward(X)
  BY VouchesBothWays
<1> HIDE DEF E
<1>3. g = [d \in Nat |-> IF d = 0 THEN {Root} ELSE E(g[d - 1])]
  <2>1. ASSUME NEW d \in Nat PROVE g[d] = IF d = 0 THEN {Root} ELSE E(g[d - 1])
    <3>1. CASE d = 0
      BY <1>1, <3>1 DEF IsReach
    <3>2. CASE d # 0
      <4>1. d - 1 \in Nat /\ (d - 1) + 1 = d
        BY <3>2
      <4>2. g[(d - 1) + 1] = Onward(g[d - 1]) /\ g[d - 1] \in SUBSET Key
        BY <1>1, <4>1 DEF IsReach
      <4> QED
        BY <1>2, <3>2, <4>1, <4>2
    <3> QED
      BY <3>1, <3>2
  <2>2. g \in [Nat -> SUBSET Key]
    BY <1>1 DEF IsReach
  <2> QED
    BY <2>1, <2>2
<1>4. seen = [d \in Nat |-> IF d = 0 THEN {Root} ELSE E(seen[d - 1])]
  BY <1>3, Zenon DEF seen
<1> HIDE DEF seen
<1>5. \A n \in Nat : seen[n] = g[n]
  <2> DEFINE ok == {n \in Nat : seen[n] = g[n]}
  <2>1. 0 \in ok
    BY <1>1, <1>4 DEF IsReach
  <2>2. ASSUME NEW n \in Nat, n \in ok PROVE n + 1 \in ok
    <3>1. seen[n + 1] = E(seen[n])
      BY <1>4
    <3>2. g[n + 1] = E(g[n])
      BY <1>1, <1>2 DEF IsReach
    <3> QED
      BY <2>2, <3>1, <3>2
  <2> HIDE DEF ok
  <2>3. Nat \subseteq ok
    BY <2>1, <2>2, AllNumbers
  <2> QED
    BY <2>3 DEF ok
<1>6. TrustedSet = seen[maxDepth] \ {Root}
  BY DEF TrustedSet, seen, E
<1> QED
  BY <1>1, <1>5, <1>6 DEF Question

\* The keys that trusted_set collects for a threshold of 1 are those that score, for
\* any signatures and depth, although it never looks at a path.
THEOREM TrustedSetIsWhatScores == Spec => []TrustedSetAgrees
<1>1. CountInv => TrustedSetAgrees
  <2> SUFFICES ASSUME CountInv, phase = "done", method = "score", target # Root
               PROVE  count >= 1 <=> target \in TrustedSet
    BY DEF TrustedSetAgrees
  <2>1. Question /\ Root \in Key
    BY TrustAssumption DEF CountInv, WalkInv, TrustAssumption
  <2>2. PICK g : IsReach(g) /\ TrustedSet = g[maxDepth] \ {Root}
    BY <2>1, TrustedSetIs
  <2>3. target \in TrustedSet <=> TrustPaths # {}
    BY <2>1, <2>2, ReachHasPath
  <2>4. IsFiniteSet(TrustPaths) /\ count = Cardinality(TrustPaths)
    BY DEF CountInv
  <2>5. count \in Nat /\ (count = 0 <=> TrustPaths = {})
    BY <2>4, FS_CardinalityType, FS_EmptySet
  <2> QED
    BY <2>3, <2>5
<1> QED
  BY <1>1, AccountsAreKept, PTL

-----------------------------------------------------------------------------
(* The distances of disjointMaxFlow.                                        *)

LEMMA FromRootIs ==
    ASSUME Question, Root \in Key
    PROVE  \E g : IsReach(g) /\ \A d \in 0..maxDepth : FromRoot[d] = g[d]
<1> DEFINE dist[i \in 0..maxDepth] == IF i = 0 THEN {Root} ELSE Onward(dist[i - 1])
<1>1. PICK g : IsReach(g)
  BY ReachExists
<1> DEFINE f == [i \in 0..maxDepth |-> g[i]]
<1>2. f = [i \in 0..maxDepth |-> IF i = 0 THEN {Root} ELSE Onward(f[i - 1])]
  <2>1. ASSUME NEW i \in 0..maxDepth PROVE f[i] = IF i = 0 THEN {Root} ELSE Onward(f[i - 1])
    <3>1. CASE i = 0
      BY <1>1, <3>1 DEF IsReach
    <3>2. CASE i # 0
      <4>1. i - 1 \in Nat /\ i - 1 \in 0..maxDepth /\ (i - 1) + 1 = i
        BY <3>2 DEF Question
      <4>2. g[(i - 1) + 1] = Onward(g[i - 1])
        BY <1>1, <4>1 DEF IsReach
      <4> QED
        BY <3>2, <4>1, <4>2
    <3> QED
      BY <3>1, <3>2
  <2> QED
    BY <2>1
<1> HIDE DEF f
<1>3. dist = [i \in 0..maxDepth |-> IF i = 0 THEN {Root} ELSE Onward(dist[i - 1])]
  BY <1>2, Zenon DEF dist
<1> HIDE DEF dist
<1>4. \A n \in Nat : n \in 0..maxDepth => dist[n] = g[n]
  <2> DEFINE ok == {n \in Nat : n \in 0..maxDepth => dist[n] = g[n]}
  <2>1. 0 \in ok
    BY <1>1, <1>3 DEF IsReach
  <2>2. ASSUME NEW n \in Nat, n \in ok PROVE n + 1 \in ok
    <3> SUFFICES ASSUME n + 1 \in 0..maxDepth PROVE dist[n + 1] = g[n + 1]
      OBVIOUS
    <3>1. n \in 0..maxDepth /\ (n + 1) - 1 = n /\ n + 1 # 0
      BY DEF Question
    <3>2. dist[n + 1] = Onward(dist[n])
      BY <1>3, <3>1
    <3> QED
      BY <1>1, <2>2, <3>1, <3>2 DEF IsReach
  <2> HIDE DEF ok
  <2>3. Nat \subseteq ok
    BY <2>1, <2>2, AllNumbers
  <2> QED
    BY <2>3 DEF ok
<1>5. FromRoot = [d \in 0..maxDepth |-> dist[d]]
  BY DEF FromRoot, dist, Onward
<1>6. \A d \in 0..maxDepth : FromRoot[d] = g[d]
  BY <1>4, <1>5 DEF Question
<1> QED
  BY <1>1, <1>6

LEMMA ToTargetIs ==
    ASSUME Question, Root \in Key
    PROVE  \E g : IsReachTo(g) /\ \A d \in 0..maxDepth : ToTarget[d] = g[d]
<1> DEFINE dist[i \in 0..maxDepth] == IF i = 0 THEN {target} ELSE Backward(dist[i - 1])
<1>1. PICK g : IsReachTo(g)
  BY ReachExists
<1> DEFINE f == [i \in 0..maxDepth |-> g[i]]
<1>2. f = [i \in 0..maxDepth |-> IF i = 0 THEN {target} ELSE Backward(f[i - 1])]
  <2>1. ASSUME NEW i \in 0..maxDepth PROVE f[i] = IF i = 0 THEN {target} ELSE Backward(f[i - 1])
    <3>1. CASE i = 0
      BY <1>1, <3>1 DEF IsReachTo
    <3>2. CASE i # 0
      <4>1. i - 1 \in Nat /\ i - 1 \in 0..maxDepth /\ (i - 1) + 1 = i
        BY <3>2 DEF Question
      <4>2. g[(i - 1) + 1] = Backward(g[i - 1])
        BY <1>1, <4>1 DEF IsReachTo
      <4> QED
        BY <3>2, <4>1, <4>2
    <3> QED
      BY <3>1, <3>2
  <2> QED
    BY <2>1
<1> HIDE DEF f
<1>3. dist = [i \in 0..maxDepth |-> IF i = 0 THEN {target} ELSE Backward(dist[i - 1])]
  BY <1>2, Zenon DEF dist
<1> HIDE DEF dist
<1>4. \A n \in Nat : n \in 0..maxDepth => dist[n] = g[n]
  <2> DEFINE ok == {n \in Nat : n \in 0..maxDepth => dist[n] = g[n]}
  <2>1. 0 \in ok
    BY <1>1, <1>3 DEF IsReachTo
  <2>2. ASSUME NEW n \in Nat, n \in ok PROVE n + 1 \in ok
    <3> SUFFICES ASSUME n + 1 \in 0..maxDepth PROVE dist[n + 1] = g[n + 1]
      OBVIOUS
    <3>1. n \in 0..maxDepth /\ (n + 1) - 1 = n /\ n + 1 # 0
      BY DEF Question
    <3>2. dist[n + 1] = Backward(dist[n])
      BY <1>3, <3>1
    <3> QED
      BY <1>1, <2>2, <3>1, <3>2 DEF IsReachTo
  <2> HIDE DEF ok
  <2>3. Nat \subseteq ok
    BY <2>1, <2>2, AllNumbers
  <2> QED
    BY <2>3 DEF ok
<1>5. ToTarget = [d \in 0..maxDepth |-> dist[d]]
  BY DEF ToTarget, dist, Backward
<1>6. \A d \in 0..maxDepth : ToTarget[d] = g[d]
  BY <1>4, <1>5 DEF Question
<1> QED
  BY <1>1, <1>6

-----------------------------------------------------------------------------
(* The breadth-first search for an augmenting path.                         *)

\* The arcs that have capacity left.
Open == {a \in DOMAIN net : net[a] > 0}

\* A way from Source to v along arcs of L.
IsWay(L, q, v) ==
    /\ q \in Seq(Vertex) /\ Len(q) >= 1 /\ q[1] = Source /\ q[Len(q)] = v
    /\ \A i \in 1..(Len(q) - 1) : <<q[i], q[i + 1]>> \in L

\* What a round of the search makes of the ways it has.
Grow(X) ==
    LET left == {a \in DOMAIN net : net[a] > 0}
        reached == UNION {{p[j] : j \in DOMAIN p} : p \in X}
        next(p) == {a \in left : a[1] = p[Len(p)] /\ a[2] \notin reached}
    IN  IF \E p \in X : p[Len(p)] = Sink \/ X = {} THEN X
        ELSE UNION {{Append(p, a[2]) : a \in next(p)} : p \in X}

IsSearch(g) ==
    /\ g \in [Nat -> SUBSET Seq(Vertex)] /\ g[0] = {<<Source>>}
    /\ \A n \in Nat : g[n + 1] = Grow(g[n])

\* The search has come to Sink after n rounds.
Found(g, n) == \E p \in g[n] : p[Len(p)] = Sink

LEMMA GrowFound ==
    ASSUME NEW X, \E p \in X : p[Len(p)] = Sink
    PROVE  Grow(X) = X
BY DEF Grow

LEMMA GrowOn ==
    ASSUME NEW X, ~ \E p \in X : p[Len(p)] = Sink
    PROVE  \A q : q \in Grow(X) <=>
             \E p \in X : \E a \in Open :
               /\ a[1] = p[Len(p)] /\ q = Append(p, a[2])
               /\ ~ \E r \in X : \E j \in DOMAIN r : r[j] = a[2]
<1> DEFINE reached == UNION {{p[j] : j \in DOMAIN p} : p \in X}
           next(p) == {a \in Open : a[1] = p[Len(p)] /\ a[2] \notin reached}
<1>1. ~ \E p \in X : p[Len(p)] = Sink \/ X = {}
  OBVIOUS
<1>2. Grow(X) = UNION {{Append(p, a[2]) : a \in next(p)} : p \in X}
  BY <1>1 DEF Grow, Open
<1>3. \A v : v \in reached <=> \E r \in X : \E j \in DOMAIN r : r[j] = v
  OBVIOUS
<1> HIDE DEF reached
<1>4. ASSUME NEW q
      PROVE  q \in Grow(X) <=> \E p \in X : \E a \in next(p) : q = Append(p, a[2])
  <2> HIDE DEF next
  <2>1. q \in Grow(X) <=> \E p \in X : q \in {Append(p, a[2]) : a \in next(p)}
    BY <1>2
  <2> QED
    BY <2>1
<1> QED
  BY <1>3, <1>4

LEMMA WayOfOne ==
    ASSUME Root \in Key, NEW L
    PROVE  IsWay(L, <<Source>>, Source) /\ Len(<<Source>>) = 1 /\ Source \in Vertex
<1>1. Source \in Vertex
  BY DEF Source, Vertex
<1> QED
  BY <1>1 DEF IsWay

\* A way goes on by an arc.
LEMMA WayGoesOn ==
    ASSUME NEW L, NEW u, NEW q, IsWay(L, q, u), NEW v \in Vertex, <<u, v>> \in L
    PROVE  IsWay(L, Append(q, v), v) /\ Len(Append(q, v)) = Len(q) + 1
<1> DEFINE r == Append(q, v)
<1>1. q \in Seq(Vertex) /\ Len(q) \in Nat /\ Len(q) >= 1
  BY DEF IsWay
<1>2. r \in Seq(Vertex) /\ Len(r) = Len(q) + 1 /\ r[Len(r)] = v /\ \A i \in 1..Len(q) : r[i] = q[i]
  BY <1>1
<1> HIDE DEF r
<1>3. r[1] = Source
  BY <1>1, <1>2 DEF IsWay
<1>4. ASSUME NEW i \in 1..(Len(r) - 1) PROVE <<r[i], r[i + 1]>> \in L
  <2>1. CASE i = Len(q)
    <3>1. i \in 1..Len(q) /\ i + 1 = Len(r)
      BY <1>1, <1>2, <2>1
    <3>2. r[i] = u /\ r[i + 1] = v
      BY <1>2, <2>1, <3>1 DEF IsWay
    <3> QED
      BY <3>2
  <2>2. CASE i # Len(q)
    <3>1. i \in 1..(Len(q) - 1) /\ i + 1 \in 1..Len(q) /\ i \in 1..Len(q)
      BY <1>1, <1>2, <2>2
    <3>2. r[i] = q[i] /\ r[i + 1] = q[i + 1]
      BY <1>2, <3>1
    <3>3. <<q[i], q[i + 1]>> \in L
      BY <3>1 DEF IsWay
    <3> QED
      BY <3>2, <3>3
  <2> QED
    BY <2>1, <2>2
<1> QED
  BY <1>1, <1>2, <1>3, <1>4 DEF IsWay, r

\* The beginning of a way is one.
LEMMA WayBegins ==
    ASSUME NEW L, NEW u, NEW q, IsWay(L, q, u), NEW j \in 1..Len(q)
    PROVE  \E r : IsWay(L, r, q[j]) /\ Len(r) = j
<1> DEFINE r == [i \in 1..j |-> q[i]]
<1>1. q \in Seq(Vertex) /\ Len(q) \in Nat /\ j \in Nat /\ j >= 1 /\ j <= Len(q)
  BY DEF IsWay
<1>2. r \in [1..j -> Vertex] /\ \A i \in 1..j : r[i] = q[i]
  BY <1>1
<1> HIDE DEF r
<1>3. r \in Seq(Vertex) /\ Len(r) = j
  BY <1>1, <1>2, AsSequence
<1>4. r[1] = Source /\ r[Len(r)] = q[j]
  BY <1>1, <1>2, <1>3 DEF IsWay
<1>5. ASSUME NEW i \in 1..(Len(r) - 1) PROVE <<r[i], r[i + 1]>> \in L
  <2>1. r[i] = q[i] /\ r[i + 1] = q[i + 1] /\ i \in 1..(Len(q) - 1)
    BY <1>1, <1>2, <1>3
  <2> QED
    BY <2>1 DEF IsWay
<1>6. IsWay(L, r, q[j])
  BY <1>1, <1>3, <1>4, <1>5 DEF IsWay
<1> QED
  BY <1>3, <1>6

\* Each way the search has is one along open arcs, of at most one hop for a round.
LEMMA SearchHasWays ==
    ASSUME Root \in Key, Open \subseteq Vertex \X Vertex, NEW g, IsSearch(g)
    PROVE  \A n \in Nat : \A p \in g[n] : IsWay(Open, p, p[Len(p)]) /\ Len(p) <= n + 1
<1> DEFINE ok == {n \in Nat : \A p \in g[n] : IsWay(Open, p, p[Len(p)]) /\ Len(p) <= n + 1}
<1>1. 0 \in ok
  <2>1. IsWay(Open, <<Source>>, Source) /\ Len(<<Source>>) = 1 /\ <<Source>>[1] = Source
    BY WayOfOne
  <2>2. g[0] = {<<Source>>}
    BY DEF IsSearch
  <2>3. \A p \in g[0] : p = <<Source>>
    BY <2>2
  <2>4. ASSUME NEW p \in g[0] PROVE IsWay(Open, p, p[Len(p)]) /\ Len(p) <= 0 + 1
    BY <2>1, <2>3
  <2> QED
    BY <2>4
<1>2. ASSUME NEW n \in Nat, n \in ok PROVE n + 1 \in ok
  <2> SUFFICES ASSUME NEW p \in g[n + 1]
               PROVE  IsWay(Open, p, p[Len(p)]) /\ Len(p) <= (n + 1) + 1
    OBVIOUS
  <2>1. \A r \in g[n] : IsWay(Open, r, r[Len(r)]) /\ Len(r) <= n + 1 /\ Len(r) \in Nat
    BY <1>2 DEF IsWay
  <2>2. g[n + 1] = Grow(g[n])
    BY DEF IsSearch
  <2>3. CASE Found(g, n)
    <3>1. p \in g[n]
      BY <2>2, <2>3, GrowFound DEF Found
    <3> QED
      BY <2>1, <3>1
  <2>4. CASE ~Found(g, n)
    <3>1. PICK r \in g[n], a \in Open : a[1] = r[Len(r)] /\ p = Append(r, a[2])
      BY <2>2, <2>4, GrowOn DEF Found
    <3>2. a[2] \in Vertex /\ <<a[1], a[2]>> = a
      BY <3>1
    <3>3. IsWay(Open, p, a[2]) /\ Len(p) = Len(r) + 1
      BY <2>1, <3>1, <3>2, WayGoesOn
    <3>4. p[Len(p)] = a[2]
      BY <3>3 DEF IsWay
    <3> QED
      BY <2>1, <3>3, <3>4
  <2> QED
    BY <2>3, <2>4
<1> HIDE DEF ok
<1>3. Nat \subseteq ok
  BY <1>1, <1>2, AllNumbers
<1> QED
  BY <1>3 DEF ok

\* What has been found stays found.
LEMMA FoundStays ==
    ASSUME NEW g, IsSearch(g), NEW m \in Nat, Found(g, m)
    PROVE  \A n \in Nat : m <= n => Found(g, n)
<1> DEFINE ok == {n \in Nat : m <= n => Found(g, n)}
<1>1. 0 \in ok
  OBVIOUS
<1>2. ASSUME NEW n \in Nat, n \in ok PROVE n + 1 \in ok
  <2>1. Found(g, n) => Found(g, n + 1)
    BY GrowFound DEF IsSearch, Found
  <2>2. CASE m = n + 1
    BY <2>2
  <2>3. CASE m # n + 1
    BY <1>2, <2>1, <2>3
  <2> QED
    BY <2>2, <2>3
<1> HIDE DEF ok
<1>3. Nat \subseteq ok
  BY <1>1, <1>2, AllNumbers
<1> QED
  BY <1>3 DEF ok

\* Some way to v has n hops, and none has fewer.
Nearest(v, n) ==
    /\ \E q : IsWay(Open, q, v) /\ Len(q) = n + 1
    /\ \A q : IsWay(Open, q, v) => Len(q) >= n + 1

\* Until it has found Sink, the search has after n rounds come to all that is n hops away.
LEMMA SearchComesTo ==
    ASSUME Root \in Key, Open \subseteq Vertex \X Vertex, NEW g, IsSearch(g),
           NEW m \in Nat, ~Found(g, m)
    PROVE  \A n \in Nat : n <= m => \A v : Nearest(v, n) => \E p \in g[n] : p[Len(p)] = v
<1> DEFINE ok == {n \in Nat : n <= m => \A v : Nearest(v, n) => \E p \in g[n] : p[Len(p)] = v}
<1>0. \A n \in Nat : n <= m => ~Found(g, n)
  BY FoundStays
<1>1. 0 \in ok
  <2> SUFFICES ASSUME NEW v, Nearest(v, 0) PROVE \E p \in g[0] : p[Len(p)] = v
    OBVIOUS
  <2>1. PICK q : IsWay(Open, q, v) /\ Len(q) = 0 + 1
    BY DEF Nearest
  <2>2. v = Source
    BY <2>1 DEF IsWay
  <2>3. <<Source>> \in g[0] /\ <<Source>>[Len(<<Source>>)] = Source
    BY DEF IsSearch
  <2> QED
    BY <2>2, <2>3
<1>2. ASSUME NEW n \in Nat, n \in ok PROVE n + 1 \in ok
  <2> SUFFICES ASSUME n + 1 <= m, NEW v, Nearest(v, n + 1)
               PROVE  \E p \in g[n + 1] : p[Len(p)] = v
    OBVIOUS
  <2>1. PICK q : IsWay(Open, q, v) /\ Len(q) = (n + 1) + 1
    BY DEF Nearest
  <2>2. \A r : IsWay(Open, r, v) => Len(r) >= (n + 1) + 1
    BY DEF Nearest
  <2>3. n + 1 \in 1..Len(q) /\ n + 1 \in 1..(Len(q) - 1) /\ q \in Seq(Vertex) /\ q[(n + 1) + 1] = v
    BY <2>1 DEF IsWay
  <2>4. PICK u : u = q[n + 1]
    OBVIOUS
  <2>5. <<u, v>> \in Open /\ v \in Vertex
    <3>1. <<q[n + 1], q[(n + 1) + 1]>> \in Open
      BY <2>1, <2>3 DEF IsWay
    <3>2. <<u, v>> \in Open
      BY <2>3, <2>4, <3>1
    <3>3. (n + 1) + 1 \in 1..Len(q)
      BY <2>1
    <3> QED
      BY <2>3, <3>2, <3>3
  <2>6. Nearest(u, n)
    <3>1. \E r : IsWay(Open, r, u) /\ Len(r) = n + 1
      BY <2>1, <2>3, <2>4, WayBegins
    <3>2. ASSUME NEW r, IsWay(Open, r, u) PROVE Len(r) >= n + 1
      <4>1. Len(r) \in Nat
        BY <3>2 DEF IsWay
      <4>2. IsWay(Open, Append(r, v), v) /\ Len(Append(r, v)) = Len(r) + 1
        BY <2>5, <3>2, WayGoesOn
      <4>3. Len(r) + 1 >= (n + 1) + 1
        BY <2>2, <4>2
      <4> QED
        BY <4>1, <4>3
    <3> QED
      BY <3>1, <3>2 DEF Nearest
  <2>7. PICK p \in g[n] : p[Len(p)] = u
    BY <1>2, <2>6
  <2>8. ASSUME NEW r \in g[n], NEW j \in DOMAIN r, r[j] = v PROVE FALSE
    <3>1. IsWay(Open, r, r[Len(r)]) /\ Len(r) <= n + 1
      BY SearchHasWays
    <3>2. j \in 1..Len(r) /\ Len(r) \in Nat
      BY <3>1 DEF IsWay
    <3>3. PICK s : IsWay(Open, s, r[j]) /\ Len(s) = j
      BY <3>1, <3>2, WayBegins
    <3>4. j >= (n + 1) + 1
      BY <2>2, <2>8, <3>3
    <3> QED
      BY <3>1, <3>2, <3>4
  <2>9. Append(p, v) \in g[n + 1]
    <3>1. g[n + 1] = Grow(g[n])
      BY DEF IsSearch
    <3>2. PICK a \in Open : a = <<u, v>>
      BY <2>5
    <3>3. /\ a[1] = p[Len(p)] /\ Append(p, v) = Append(p, a[2])
          /\ ~ \E r \in g[n] : \E j \in DOMAIN r : r[j] = a[2]
      BY <2>7, <2>8, <3>2
    <3>4. ~ \E r \in g[n] : r[Len(r)] = Sink
      BY <1>0 DEF Found
    <3>5. \A s : s \in Grow(g[n]) <=>
            \E r \in g[n] : \E b \in Open :
              /\ b[1] = r[Len(r)] /\ s = Append(r, b[2])
              /\ ~ \E t \in g[n] : \E j \in DOMAIN t : t[j] = b[2]
      BY <3>4, GrowOn, Zenon
    <3>6. \E r \in g[n] : \E b \in Open :
            /\ b[1] = r[Len(r)] /\ Append(p, v) = Append(r, b[2])
            /\ ~ \E t \in g[n] : \E j \in DOMAIN t : t[j] = b[2]
      BY <3>3, Zenon
    <3>7. Append(p, v) \in Grow(g[n])
      BY <3>5, <3>6, Zenon
    <3> QED
      BY <3>1, <3>7
  <2>10. Append(p, v)[Len(Append(p, v))] = v
    <3>1. p \in Seq(Vertex)
      BY DEF IsSearch
    <3> QED
      BY <3>1
  <2> QED
    BY <2>9, <2>10
<1> HIDE DEF ok
<1>3. Nat \subseteq ok
  BY <1>1, <1>2, AllNumbers
<1> QED
  BY <1>3 DEF ok

\* Where there is a way to Sink, the search finds one in as many rounds.
LEMMA SearchFindsSink ==
    ASSUME Root \in Key, Open \subseteq Vertex \X Vertex, NEW g, IsSearch(g),
           NEW m \in Nat, NEW q, IsWay(Open, q, Sink), Len(q) <= m + 1
    PROVE  Found(g, m)
<1> SUFFICES ASSUME ~Found(g, m) PROVE FALSE
  OBVIOUS
<1> DEFINE hops == {n \in Nat : \E r : IsWay(Open, r, Sink) /\ Len(r) = n + 1}
<1>1. \A r : IsWay(Open, r, Sink) => Len(r) - 1 \in hops /\ Len(r) \in Nat
  BY DEF IsWay
<1>2. PICK n \in hops : \A x \in hops : n <= x
  <2>1. hops \subseteq Nat /\ hops # {}
    BY <1>1
  <2> HIDE DEF hops
  <2> QED
    BY <2>1, LeastOf
<1>3. Nearest(Sink, n)
  <2>1. ASSUME NEW r, IsWay(Open, r, Sink) PROVE Len(r) >= n + 1
    <3>1. Len(r) - 1 \in hops /\ Len(r) \in Nat /\ n \in Nat
      BY <1>1, <2>1
    <3>2. n <= Len(r) - 1
      BY <1>2, <3>1
    <3> QED
      BY <3>1, <3>2
  <2> QED
    BY <1>2, <2>1 DEF Nearest
<1>4. n \in Nat /\ n <= m
  <2>1. Len(q) - 1 \in hops /\ Len(q) \in Nat /\ n \in Nat
    BY <1>1
  <2>2. n <= Len(q) - 1
    BY <1>2, <2>1
  <2> QED
    BY <2>1, <2>2
<1> HIDE DEF hops
<1>5. Found(g, n)
  BY <1>3, <1>4, SearchComesTo DEF Found
<1> QED
  BY <1>4, <1>5, FoundStays

\* What the search comes to is what AugmentingPaths chooses from.
LEMMA SearchIs ==
    ASSUME Root \in Key, Open \subseteq Vertex \X Vertex
    PROVE  \E g : IsSearch(g) /\ AugmentingPaths = {p \in g[2 * Cardinality(Key)] : p[Len(p)] = Sink}
<1> DEFINE S == SUBSET Seq(Vertex)
           h == [X \in S |-> Grow(X)]
           ways[i \in Nat] == IF i = 0 THEN {<<Source>>} ELSE Grow(ways[i - 1])
<1>1. \A X \in S : Grow(X) \in S
  <2> SUFFICES ASSUME NEW X \in S, NEW q \in Grow(X) PROVE q \in Seq(Vertex)
    OBVIOUS
  <2>1. CASE \E p \in X : p[Len(p)] = Sink
    BY <2>1, GrowFound
  <2>2. CASE ~ \E p \in X : p[Len(p)] = Sink
    <3>1. PICK p \in X, a \in Open : q = Append(p, a[2])
      BY <2>2, GrowOn
    <3>2. p \in Seq(Vertex) /\ a[2] \in Vertex
      BY <3>1
    <3> QED
      BY <3>1, <3>2
  <2> QED
    BY <2>1, <2>2
<1>2. h \in [S -> S] /\ \A X \in S : h[X] = Grow(X)
  BY <1>1
<1> HIDE DEF h
<1>3. {<<Source>>} \in S
  <2>1. <<Source>> \in Seq(Vertex)
    BY WayOfOne DEF IsWay
  <2> QED
    BY <2>1
<1>4. PICK g : IsIteration(g, S, {<<Source>>}, h)
  BY <1>2, <1>3, Iteration
<1>5. IsSearch(g)
  BY <1>2, <1>4 DEF IsIteration, IsSearch
<1>6. g = [i \in Nat |-> IF i = 0 THEN {<<Source>>} ELSE Grow(g[i - 1])]
  <2>1. ASSUME NEW i \in Nat PROVE g[i] = IF i = 0 THEN {<<Source>>} ELSE Grow(g[i - 1])
    <3>1. CASE i = 0
      BY <1>5, <3>1 DEF IsSearch
    <3>2. CASE i # 0
      <4>1. i - 1 \in Nat /\ (i - 1) + 1 = i
        BY <3>2
      <4>2. g[(i - 1) + 1] = Grow(g[i - 1])
        BY <1>5, <4>1 DEF IsSearch
      <4> QED
        BY <3>2, <4>1, <4>2
    <3> QED
      BY <3>1, <3>2
  <2>2. g \in [Nat -> S]
    BY <1>5 DEF IsSearch
  <2> QED
    BY <2>1, <2>2
<1>7. ways = [i \in Nat |-> IF i = 0 THEN {<<Source>>} ELSE Grow(ways[i - 1])]
  BY <1>6, Zenon DEF ways
<1> HIDE DEF ways, S
<1>8. \A n \in Nat : ways[n] = g[n]
  <2> DEFINE ok == {n \in Nat : ways[n] = g[n]}
  <2>1. 0 \in ok
    BY <1>5, <1>7 DEF IsSearch
  <2>2. ASSUME NEW n \in Nat, n \in ok PROVE n + 1 \in ok
    <3>0. n + 1 \in Nat /\ n + 1 # 0 /\ (n + 1) - 1 = n
      OBVIOUS
    <3>1. ways[n + 1] = Grow(ways[n])
      <4> DEFINE back(i) == IF i = 0 THEN {<<Source>>} ELSE Grow(ways[i - 1])
      <4>1. ways = [i \in Nat |-> back(i)]
        BY <1>7
      <4>2. back(n + 1) = Grow(ways[n])
        BY <3>0
      <4> HIDE DEF back
      <4>3. ways[n + 1] = back(n + 1)
        BY <3>0, <4>1
      <4> QED
        BY <4>2, <4>3
    <3>2. g[n + 1] = Grow(g[n])
      BY <1>5 DEF IsSearch
    <3> QED
      BY <2>2, <3>1, <3>2
  <2> HIDE DEF ok
  <2>3. Nat \subseteq ok
    BY <2>1, <2>2, AllNumbers
  <2> QED
    BY <2>3 DEF ok
<1>9. AugmentingPaths = {p \in ways[2 * Cardinality(Key)] : p[Len(p)] = Sink}
  BY DEF AugmentingPaths, ways, Grow
<1>10. 2 * Cardinality(Key) \in Nat
  BY TrustAssumption, FS_CardinalityType DEF TrustAssumption
<1> QED
  BY <1>5, <1>8, <1>9, <1>10

-----------------------------------------------------------------------------
(* The network.                                                             *)

Typed == DOMAIN net \subseteq Vertex \X Vertex /\ \A a \in DOMAIN net : net[a] \in Nat

Splits == {<<<<k, "in">>, <<k, "out">>>> : k \in Intermediates}
Cross == {<<<<a[1], "out">>, <<a[2], "in">>>> : a \in Arcs}

LEMMA CapacitiesAre ==
    ASSUME Question, TrustAssumption
    PROVE  /\ DOMAIN Capacities \subseteq Vertex \X Vertex
           /\ \A a \in DOMAIN Capacities : Capacities[a] \in Nat
           /\ \A a \in Splits \cup Cross : a \in DOMAIN Capacities /\ Capacities[a] > 0
<1>1. Cardinality(Intermediates) \in Nat
  <2>1. Intermediates \subseteq Key /\ IsFiniteSet(Key)
    BY DEF Intermediates, TrustAssumption
  <2> QED
    BY <2>1, FS_Subset, FS_CardinalityType
<1> DEFINE n == Cardinality(Intermediates) + 2
           dom == Splits \cup Cross \cup {Back(b) : b \in Splits \cup Cross}
<1>2. Capacities = [a \in dom |-> IF a \in Cross THEN n ELSE IF a \in Splits THEN 1 ELSE 0]
  BY DEF Capacities, Splits, Cross
<1>3. n \in Nat /\ n > 0
  BY <1>1
<1> HIDE DEF n
<1>4. Splits \cup Cross \subseteq Vertex \X Vertex
  <2>1. Splits \subseteq Vertex \X Vertex
    BY DEF Splits, Intermediates, Vertex
  <2>2. \A a \in Arcs : a[1] \in Key /\ a[2] \in Key
    BY DEF Arcs, Intermediates, TrustAssumption, Question
  <2>3. Cross \subseteq Vertex \X Vertex
    BY <2>2 DEF Cross, Vertex
  <2> QED
    BY <2>1, <2>3
<1>5. dom \subseteq Vertex \X Vertex
  <2> SUFFICES ASSUME NEW b \in Splits \cup Cross PROVE Back(b) \in Vertex \X Vertex
    BY <1>4
  <2> QED
    BY <1>4 DEF Back
<1> QED
  BY <1>2, <1>3, <1>5

\* The keys between on a trust path are in the network, and its signatures.
LEMMA TrustPathArcs ==
    ASSUME Question, TrustAssumption, target # Root, NEW p \in TrustPaths
    PROVE  /\ \A i \in 2..(Len(p) - 1) : p[i] \in Intermediates
           /\ \A i \in 1..(Len(p) - 1) : <<p[i], p[i + 1]>> \in Arcs
<1>1. /\ IsPath(p) /\ Len(p) >= 2 /\ Len(p) <= maxDepth + 1 /\ p[1] = Root /\ p[Len(p)] = target
      /\ p \in Seq(Key) /\ Len(p) \in Nat /\ maxDepth \in Nat /\ Root \in Key
      /\ \A i, j \in 1..Len(p) : p[i] = p[j] => i = j
      /\ \A i \in 1..(Len(p) - 1) : p[i] \in Build[p[i + 1]]
  BY TrustPathIsPath DEF IsPath, Question, TrustAssumption
<1>2. PICK f : IsReach(f) /\ \A d \in 0..maxDepth : FromRoot[d] = f[d]
  BY <1>1, FromRootIs
<1>3. PICK g : IsReachTo(g) /\ \A d \in 0..maxDepth : ToTarget[d] = g[d]
  BY <1>1, ToTargetIs
<1>4. \A i \in 1..Len(p) : p[i] \in FromRoot[i - 1]
  <2> SUFFICES ASSUME NEW i \in 1..Len(p) PROVE p[i] \in FromRoot[i - 1]
    OBVIOUS
  <2>1. p[i] \in f[i - 1] /\ i - 1 \in 0..maxDepth
    BY <1>1, <1>2, PathInReach
  <2> QED
    BY <1>2, <2>1
<1>5. \A i \in 1..Len(p) : \A d \in 0..maxDepth : Len(p) - i <= d => p[i] \in ToTarget[d]
  <2> SUFFICES ASSUME NEW i \in 1..Len(p), NEW d \in 0..maxDepth, Len(p) - i <= d
               PROVE  p[i] \in ToTarget[d]
    OBVIOUS
  <2>1. p[i] \in g[Len(p) - i]
    BY <1>1, <1>3, PathInReachTo
  <2>2. Len(p) - i \in Nat /\ d \in Nat
    BY <1>1
  <2>3. p[i] \in g[d]
    BY <1>3, <2>1, <2>2, ReachGrows
  <2> QED
    BY <1>3, <2>3
<1>6. \A i \in 2..(Len(p) - 1) : p[i] \in Intermediates
  <2> SUFFICES ASSUME NEW i \in 2..(Len(p) - 1) PROVE p[i] \in Intermediates
    OBVIOUS
  <2>1. i \in 1..Len(p) /\ i # 1 /\ i # Len(p) /\ 1 \in 1..Len(p) /\ Len(p) \in 1..Len(p)
    BY <1>1
  <2>2. p[i] \in Key \ {Root, target}
    BY <1>1, <2>1
  <2>3. i - 1 \in 0..maxDepth /\ maxDepth - (i - 1) \in 0..maxDepth
        /\ Len(p) - i <= maxDepth - (i - 1)
    BY <1>1, <2>1
  <2>4. p[i] \in FromRoot[i - 1] /\ p[i] \in ToTarget[maxDepth - (i - 1)]
    BY <1>4, <1>5, <2>1, <2>3
  <2> QED
    BY <2>2, <2>3, <2>4 DEF Intermediates
<1>7. \A i \in 1..(Len(p) - 1) : <<p[i], p[i + 1]>> \in Arcs
  <2> SUFFICES ASSUME NEW i \in 1..(Len(p) - 1) PROVE <<p[i], p[i + 1]>> \in Arcs
    OBVIOUS
  <2>1. i \in 1..Len(p) /\ i + 1 \in 1..Len(p)
    BY <1>1
  <2>2. p[i] \in {Root} \cup Intermediates
    <3>1. i = 1 \/ i \in 2..(Len(p) - 1)
      BY <1>1
    <3> QED
      BY <1>1, <1>6, <3>1
  <2>3. p[i + 1] \in Intermediates \cup {target}
    <3>1. i + 1 = Len(p) \/ i + 1 \in 2..(Len(p) - 1)
      BY <1>1
    <3> QED
      BY <1>1, <1>6, <3>1
  <2>4. i - 1 \in 0..(maxDepth - 1) /\ maxDepth - 1 - (i - 1) \in 0..maxDepth
        /\ Len(p) - (i + 1) <= maxDepth - 1 - (i - 1)
    BY <1>1, <2>1
  <2>5. p[i] \in FromRoot[i - 1] /\ p[i + 1] \in ToTarget[maxDepth - 1 - (i - 1)]
    BY <1>4, <1>5, <2>1, <2>4
  <2>6. p[i] \in Build[p[i + 1]]
    BY <1>1
  <2> QED
    BY <2>2, <2>3, <2>4, <2>5, <2>6 DEF Arcs
<1> QED
  BY <1>6, <1>7

\* A trust path is a way through the network: from its first key to each that follows.
LEMMA TrustPathFlows ==
    ASSUME Question, TrustAssumption, target # Root, net = Capacities, NEW p \in TrustPaths
    PROVE  \E q : IsWay(Open, q, Sink) /\ Len(q) <= 2 * Cardinality(Key) + 1
<1>1. /\ IsPath(p) /\ Len(p) >= 2 /\ Len(p) <= maxDepth + 1 /\ p[1] = Root /\ p[Len(p)] = target
      /\ p \in Seq(Key) /\ Len(p) \in Nat /\ maxDepth \in Nat /\ Root \in Key
      /\ \A i, j \in 1..Len(p) : p[i] = p[j] => i = j
      /\ \A i \in 1..(Len(p) - 1) : p[i] \in Build[p[i + 1]]
  BY TrustPathIsPath DEF IsPath, Question, TrustAssumption
<1>2. \A i \in 2..(Len(p) - 1) : p[i] \in Intermediates
  BY TrustPathArcs
<1>3. \A i \in 1..(Len(p) - 1) : <<p[i], p[i + 1]>> \in Arcs
  BY TrustPathArcs
<1>4. \A a \in Splits \cup Cross : a \in Open
  BY CapacitiesAre DEF Open
<1>5. Open \subseteq Vertex \X Vertex
  BY CapacitiesAre DEF Open
<1>6. \A i \in 1..(Len(p) - 1) : <<<<p[i], "out">>, <<p[i + 1], "in">>>> \in Open
  <2> SUFFICES ASSUME NEW i \in 1..(Len(p) - 1)
               PROVE  <<<<p[i], "out">>, <<p[i + 1], "in">>>> \in Cross
    BY <1>4
  <2>1. PICK a \in Arcs : a = <<p[i], p[i + 1]>>
    BY <1>3
  <2>2. a[1] = p[i] /\ a[2] = p[i + 1]
    BY <2>1
  <2> QED
    BY <2>2 DEF Cross
<1>7. \A i \in 2..(Len(p) - 1) : <<<<p[i], "in">>, <<p[i], "out">>>> \in Open
  BY <1>2, <1>4 DEF Splits
<1> DEFINE ok == {n \in Nat : n + 2 \in 1..Len(p) =>
                    \E q : IsWay(Open, q, <<p[n + 2], "in">>) /\ Len(q) = 2 * n + 2}
<1>8. 0 \in ok
  <2>1. 1 \in 1..(Len(p) - 1)
    BY <1>1
  <2>2. IsWay(Open, <<Source>>, Source) /\ Len(<<Source>>) = 1
    BY <1>1, WayOfOne
  <2>3. <<Source, <<p[2], "in">>>> \in Open
    BY <1>1, <1>6, <2>1 DEF Source
  <2>4. <<p[2], "in">> \in Vertex
    BY <1>1 DEF Vertex
  <2>5. PICK q : IsWay(Open, q, <<p[2], "in">>) /\ Len(q) = 1 + 1
    BY <2>2, <2>3, <2>4, WayGoesOn
  <2> QED
    BY <2>5
<1>9. ASSUME NEW n \in Nat, n \in ok PROVE n + 1 \in ok
  <2> SUFFICES ASSUME (n + 1) + 2 \in 1..Len(p)
               PROVE  \E q : IsWay(Open, q, <<p[(n + 1) + 2], "in">>) /\ Len(q) = 2 * (n + 1) + 2
    OBVIOUS
  <2> DEFINE i == n + 2
  <2>1. i \in 2..(Len(p) - 1) /\ i \in 1..(Len(p) - 1) /\ i \in 1..Len(p) /\ i + 1 \in 1..Len(p)
        /\ (n + 1) + 2 = i + 1
    BY <1>1
  <2>2. PICK q : IsWay(Open, q, <<p[i], "in">>) /\ Len(q) = 2 * n + 2
    BY <1>9, <2>1
  <2> HIDE DEF i
  <2>3. <<p[i], "out">> \in Vertex /\ <<p[i + 1], "in">> \in Vertex
    BY <1>1, <2>1 DEF Vertex
  <2>4. <<<<p[i], "in">>, <<p[i], "out">>>> \in Open
    BY <1>7, <2>1
  <2>5. PICK r : IsWay(Open, r, <<p[i], "out">>) /\ Len(r) = (2 * n + 2) + 1
    BY <2>2, <2>3, <2>4, WayGoesOn
  <2>6. <<<<p[i], "out">>, <<p[i + 1], "in">>>> \in Open
    BY <1>6, <2>1
  <2>7. PICK s : IsWay(Open, s, <<p[i + 1], "in">>) /\ Len(s) = ((2 * n + 2) + 1) + 1
    BY <2>3, <2>5, <2>6, WayGoesOn
  <2>8. Len(s) = 2 * (n + 1) + 2
    BY <2>7
  <2> QED
    BY <2>1, <2>7, <2>8
<1>10. Nat \subseteq ok
  <2> HIDE DEF ok
  <2> QED
    BY <1>8, <1>9, AllNumbers
<1>11. PICK q : IsWay(Open, q, <<p[Len(p)], "in">>) /\ Len(q) = 2 * (Len(p) - 2) + 2
  <2>1. Len(p) - 2 \in Nat /\ (Len(p) - 2) + 2 = Len(p) /\ Len(p) \in 1..Len(p)
    BY <1>1
  <2>2. Len(p) - 2 \in ok
    BY <1>10, <2>1
  <2> QED
    BY <2>1, <2>2
<1> HIDE DEF ok
<1>12. Len(p) <= Cardinality(Key) /\ Cardinality(Key) \in Nat
  <2>0. PICK n : n = Len(p) /\ n \in Nat
    BY <1>1
  <2>1. IsFiniteSet(Key) /\ Cardinality(Key) \in Nat
    BY FS_CardinalityType DEF TrustAssumption
  <2>2. IsFiniteSet(1..n) /\ Cardinality(1..n) = n
    <3>1. 1 \in Int /\ n \in Int
      BY <2>0
    <3>2. IsFiniteSet(1..n) /\ Cardinality(1..n) = IF 1 > n THEN 0 ELSE n - 1 + 1
      BY <3>1, FS_Interval
    <3> QED
      BY <2>0, <3>2
  <2>3. p \in [1..n -> Key]
    BY <1>1, <2>0
  <2>4. p \in Injection(1..n, Key)
    BY <1>1, <2>0, <2>3 DEF Injection, IsInjective
  <2>5. Cardinality(1..n) <= Cardinality(Key)
    BY <2>1, <2>2, <2>4, FS_Injection
  <2> QED
    BY <2>0, <2>1, <2>2, <2>5
<1>13. Sink = <<p[Len(p)], "in">>
  BY <1>1 DEF Sink
<1>14. Len(q) <= 2 * Cardinality(Key) + 1
  BY <1>1, <1>11, <1>12
<1> QED
  BY <1>11, <1>13, <1>14

-----------------------------------------------------------------------------
(* The flow.                                                                *)

Flowing ==
    /\ phase \in {"asked", "flow", "done"} /\ queue = <<>> /\ count \in Nat /\ Typed
    /\ phase = "asked" => count = 0
    /\ phase = "flow" =>
         target # Root /\ TrustPaths # {} /\ (count = 0 => net = Capacities)
    /\ phase = "done" /\ target # Root => (count >= 1 <=> TrustPaths # {})

FlowInv == Question /\ (method = "DisjointScore" => Flowing)

\* An augmenting path has hops, each with capacity left.
LEMMA PathsAugment ==
    ASSUME Root \in Key, TrustAssumption, Typed, NEW p \in AugmentingPaths
    PROVE  IsWay(Open, p, Sink) /\ Len(p) >= 2 /\ Hops(p) # {} /\ Hops(p) \subseteq Open
<1>1. Open \subseteq Vertex \X Vertex
  BY DEF Open, Typed
<1>2. PICK g : IsSearch(g) /\ AugmentingPaths = {q \in g[2 * Cardinality(Key)] : q[Len(q)] = Sink}
  BY <1>1, SearchIs
<1>3. 2 * Cardinality(Key) \in Nat
  BY FS_CardinalityType DEF TrustAssumption
<1>4. p \in g[2 * Cardinality(Key)] /\ p[Len(p)] = Sink
  BY <1>2
<1>5. IsWay(Open, p, p[Len(p)])
  BY <1>1, <1>2, <1>3, <1>4, SearchHasWays
<1>6. Len(p) \in Nat /\ Len(p) >= 1 /\ p[1] = Source
  BY <1>5 DEF IsWay
<1>7. Source # Sink
  BY DEF Source, Sink
<1>8. Len(p) # 1
  BY <1>4, <1>6, <1>7
<1>9. 1 \in 1..(Len(p) - 1)
  <2>1. PICK n : n = Len(p)
    OBVIOUS
  <2>2. n \in Nat /\ n >= 1 /\ n # 1
    BY <1>6, <1>8, <2>1
  <2>3. 1 \in 1..(n - 1)
    BY <2>2
  <2> QED
    BY <2>1, <2>3
<1>10. \A i \in 1..(Len(p) - 1) : <<p[i], p[i + 1]>> \in Open
  BY <1>5 DEF IsWay
<1>11. Hops(p) # {} /\ Hops(p) \subseteq Open
  BY <1>9, <1>10 DEF Hops
<1>12. Len(p) >= 2
  <2>1. PICK n : n = Len(p)
    OBVIOUS
  <2>2. n \in Nat /\ n >= 1 /\ n # 1
    BY <1>6, <1>8, <2>1
  <2>3. n >= 2
    BY <2>2
  <2> QED
    BY <2>1, <2>3
<1>13. IsWay(Open, p, Sink)
  BY <1>4, <1>5
<1> QED
  BY <1>11, <1>12, <1>13

\* A round makes the flow larger, and takes from no arc more than it has.
LEMMA AugmentStep ==
    ASSUME Root \in Key, TrustAssumption, Typed, count \in Nat, Augment
    PROVE  Typed' /\ count' \in Nat /\ count' >= 1
<1>1. PICK p \in AugmentingPaths :
        LET bn == CHOOSE c \in {net[a] : a \in Hops(p)} : \A a \in Hops(p) : c <= net[a] IN
          /\ net' = [a \in DOMAIN net |->
                      IF a \in Hops(p) THEN net[a] - bn
                      ELSE IF Back(a) \in Hops(p) THEN net[a] + bn ELSE net[a]]
          /\ count' = count + bn
  BY DEF Augment
<1> DEFINE T == {net[a] : a \in Hops(p)}
           bn == CHOOSE c \in T : \A a \in Hops(p) : c <= net[a]
<1>2. Hops(p) # {} /\ Hops(p) \subseteq Open
  BY PathsAugment
<1>3. \A a \in Hops(p) : a \in DOMAIN net /\ net[a] \in Nat /\ net[a] > 0
  BY <1>2 DEF Open, Typed
<1>4. T \subseteq Nat /\ T # {}
  BY <1>2, <1>3
<1>5. \E c \in T : \A a \in Hops(p) : c <= net[a]
  <2> HIDE DEF T
  <2>1. PICK c \in T : \A x \in T : c <= x
    BY <1>4, LeastOf
  <2>2. \A a \in Hops(p) : net[a] \in T
    BY DEF T
  <2> QED
    BY <2>1, <2>2
<1>6. bn \in T /\ \A a \in Hops(p) : bn <= net[a]
  <2> HIDE DEF T
  <2> QED
    BY <1>5
<1>7. /\ net' = [a \in DOMAIN net |->
                  IF a \in Hops(p) THEN net[a] - bn
                  ELSE IF Back(a) \in Hops(p) THEN net[a] + bn ELSE net[a]]
      /\ count' = count + bn
  BY <1>1
<1> HIDE DEF bn
<1>8. bn \in Nat /\ bn >= 1
  BY <1>3, <1>6
<1> HIDE DEF T
<1>9. DOMAIN net' = DOMAIN net
  BY <1>7
<1>10. ASSUME NEW a \in DOMAIN net PROVE net'[a] \in Nat
  <2>1. net[a] \in Nat
    BY DEF Typed
  <2>2. a \in Hops(p) => net[a] - bn \in Nat
    BY <1>6, <1>8, <2>1
  <2> QED
    BY <1>7, <1>8, <2>1, <2>2
<1> QED
  BY <1>7, <1>8, <1>9, <1>10 DEF Typed, Vertex

\* With the first flow there is none to find only where there is no trust path.
LEMMA FirstSearchFinds ==
    ASSUME Question, TrustAssumption, target # Root, net = Capacities, TrustPaths # {}
    PROVE  AugmentingPaths # {}
<1>1. Root \in Key
  BY DEF TrustAssumption
<1>2. Open \subseteq Vertex \X Vertex
  BY CapacitiesAre DEF Open
<1>3. PICK g : IsSearch(g) /\ AugmentingPaths = {p \in g[2 * Cardinality(Key)] : p[Len(p)] = Sink}
  BY <1>1, <1>2, SearchIs
<1>4. 2 * Cardinality(Key) \in Nat
  BY FS_CardinalityType DEF TrustAssumption
<1>5. PICK p \in TrustPaths : TRUE
  OBVIOUS
<1>6. PICK q : IsWay(Open, q, Sink) /\ Len(q) <= 2 * Cardinality(Key) + 1
  BY <1>5, TrustPathFlows
<1>7. Found(g, 2 * Cardinality(Key))
  BY <1>1, <1>2, <1>3, <1>4, <1>6, SearchFindsSink
<1> QED
  BY <1>3, <1>7 DEF Found

\* What the steps do not touch.
LEMMA FlowStays ==
    ASSUME Question, UNCHANGED question
    PROVE  Question' /\ TrustPaths' = TrustPaths /\ (net' = net => (Typed => Typed'))
<1>1. net' = net => (Typed => Typed')
  BY DEF Typed, Vertex
<1> QED
  BY <1>1, QuestionStays

\* A step of disjointMaxFlow.
LEMMA FlowKept ==
    ASSUME TrustAssumption, Question, Flowing, method = "DisjointScore", [Next]_vars
    PROVE  Flowing' /\ Question'
<1>1. Root \in Key
  BY DEF TrustAssumption
<1>2. CASE DisjointScore
  <2>1. UNCHANGED question /\ UNCHANGED queue
    BY <1>2 DEF DisjointScore, Answer
  <2>2. Question' /\ TrustPaths' = TrustPaths /\ target' = target /\ phase = "asked" /\ count = 0
    BY <1>2, <2>1, FlowStays DEF DisjointScore, Flowing, question
  <2>3. PICK g : IsReach(g) /\ \A d \in 0..maxDepth : FromRoot[d] = g[d]
    BY <1>1, FromRootIs
  <2>4. maxDepth \in 0..maxDepth
    BY DEF Question
  <2>5. target # Root => (target \in FromRoot[maxDepth] <=> TrustPaths # {})
    BY <1>1, <2>3, <2>4, ReachHasPath
  <2>6. CASE target = Root
    <3>1. phase' = "done" /\ count' = 1 /\ net' = net
      BY <1>2, <2>6 DEF DisjointScore, Answer
    <3> QED
      BY <2>1, <2>2, <2>6, <3>1, FlowStays DEF Flowing
  <2>7. CASE target # Root /\ target \notin FromRoot[maxDepth]
    <3>1. phase' = "done" /\ count' = 0 /\ net' = net
      BY <1>2, <2>7 DEF DisjointScore, Answer
    <3> QED
      BY <2>1, <2>2, <2>5, <2>7, <3>1, FlowStays DEF Flowing
  <2>8. CASE target # Root /\ target \in FromRoot[maxDepth]
    <3>1. phase' = "flow" /\ count' = count /\ net' = Capacities
      BY <1>2, <2>8 DEF DisjointScore
    <3>2. DOMAIN net' \subseteq Vertex \X Vertex /\ \A a \in DOMAIN net' : net'[a] \in Nat
      BY <3>1, CapacitiesAre
    <3>3. Typed'
      BY <3>2 DEF Typed, Vertex
    <3>4. Capacities' = Capacities
      BY <2>1 DEF question, Capacities, Intermediates, Arcs, FromRoot, ToTarget, Build, Back
    <3> QED
      BY <2>1, <2>2, <2>5, <2>8, <3>1, <3>3, <3>4 DEF Flowing
  <2> QED
    BY <2>2, <2>6, <2>7, <2>8
<1>3. CASE Augment
  <2>1. UNCHANGED question /\ UNCHANGED <<phase, queue>> /\ phase = "flow"
    BY <1>3 DEF Augment
  <2>2. Typed' /\ count' \in Nat /\ count' >= 1
    BY <1>1, <1>3, AugmentStep DEF Flowing
  <2>3. Question' /\ TrustPaths' = TrustPaths /\ target' = target
    BY <2>1, FlowStays DEF question
  <2> QED
    BY <2>1, <2>2, <2>3 DEF Flowing
<1>4. CASE (Walked \/ Saturated) /\ Answer(count)
  <2>1. phase = "flow" /\ AugmentingPaths = {}
    BY <1>4 DEF Flowing, Walked, Saturated
  <2>2. phase' = "done" /\ count' = count /\ UNCHANGED <<queue, net>> /\ UNCHANGED question
    BY <1>4 DEF Answer
  <2>3. TrustPaths # {} /\ target # Root /\ count \in Nat
    BY <2>1 DEF Flowing
  <2>4. count # 0
    BY <2>1, <2>3, FirstSearchFinds DEF Flowing
  <2>5. Question' /\ TrustPaths' = TrustPaths /\ Typed'
    BY <2>2, FlowStays DEF Flowing
  <2> QED
    BY <2>2, <2>3, <2>4, <2>5 DEF Flowing
<1>5. CASE UNCHANGED vars
  <2>1. UNCHANGED question /\ UNCHANGED <<phase, queue, count, net>>
    BY <1>5 DEF vars
  <2>2. Question' /\ TrustPaths' = TrustPaths /\ Typed' /\ target' = target
    BY <2>1, FlowStays DEF Flowing, question
  <2>3. Capacities' = Capacities
    BY <2>1 DEF question, Capacities, Intermediates, Arcs, FromRoot, ToTarget, Build, Back
  <2> QED
    BY <2>1, <2>2, <2>3 DEF Flowing
<1>6. CASE Score \/ CountPaths \/ PyScore \/ PyCountPaths
  BY <1>6 DEF Score, CountPaths, PyScore, PyCountPaths
<1> QED
  BY <1>2, <1>3, <1>4, <1>5, <1>6 DEF Next

\* The invariant of disjointMaxFlow: there is a trust path as long as it runs, and the
\* network is as it was built until the first path is found.
THEOREM FlowInvariant == Spec => []FlowInv
<1>1. Init => FlowInv
  <2> SUFFICES ASSUME Init PROVE FlowInv
    OBVIOUS
  <2>1. Question
    BY TrustAssumption DEF Init, TrustAssumption, Question
  <2>2. DOMAIN net = {}
    BY DEF Init
  <2>3. Typed
    BY <2>2 DEF Typed
  <2> QED
    BY <2>1, <2>3 DEF Init, FlowInv, Flowing
<1>2. FlowInv /\ [Next]_vars => FlowInv'
  <2> SUFFICES ASSUME FlowInv, [Next]_vars PROVE FlowInv'
    OBVIOUS
  <2>1. UNCHANGED question
    BY DEF Next, Score, CountPaths, PyScore, PyCountPaths, DisjointScore, Augment, Answer,
           StartAt, vars
  <2>2. Question' /\ method' = method
    BY <2>1, FlowStays DEF FlowInv, question
  <2>3. method = "DisjointScore" => Flowing'
    BY TrustAssumption, FlowKept DEF FlowInv
  <2> QED
    BY <2>2, <2>3 DEF FlowInv
<1> QED
  BY <1>1, <1>2, PTL DEF Spec

\* A threshold of one asks the same of both algorithms: the flow is at least one exactly
\* where there is a trust path, although the network may join hops of different paths.
THEOREM ThresholdOneIsTheSame == Spec => []ThresholdOne
<1>1. FlowInv => ThresholdOne
  BY DEF FlowInv, Flowing, ThresholdOne
<1> QED
  BY <1>1, FlowInvariant, PTL

\* What neither of the invariants needs to know.
Asked ==
    /\ revoked \in SUBSET Revocable /\ target \in Targets /\ maxDepth \in Depths
    /\ method # "DisjointScore" => net = <<>>

\* Every variable keeps its type: in particular no capacity of the network is overdrawn.
THEOREM TypeCorrect == Spec => []TypeOK
<1>1. Init => Asked
  BY DEF Init, Asked
<1>2. WalkInv /\ FlowInv /\ Asked /\ [Next]_vars => Asked'
  <2> SUFFICES ASSUME WalkInv, FlowInv, Asked, [Next]_vars PROVE Asked'
    OBVIOUS
  <2>1. UNCHANGED question
    BY DEF Next, Score, CountPaths, PyScore, PyCountPaths, DisjointScore, Augment, Answer,
           StartAt, vars
  <2>2. method # "DisjointScore" => net' = net
    BY DEF Next, Score, CountPaths, PyScore, PyCountPaths, DisjointScore, Augment, Answer,
           StartAt, vars, WalkInv, Walking
  <2> QED
    BY <2>1, <2>2 DEF Asked, question
<1>3. WalkInv /\ FlowInv /\ Asked => TypeOK
  <2> SUFFICES ASSUME WalkInv, FlowInv, Asked PROVE TypeOK
    OBVIOUS
  <2>1. Question /\ (phase \in {"asked", "walk", "flow", "done"}) /\ count \in Nat
    BY DEF WalkInv, Walking, FlowInv, Flowing
  <2>2. queue \in Seq(Item)
    <3>1. <<>> \in Seq(Item)
      OBVIOUS
    <3> QED
      BY <3>1 DEF WalkInv, Walking, FlowInv, Flowing
  <2>3. DOMAIN net \subseteq Vertex \X Vertex /\ \A a \in DOMAIN net : net[a] \in Nat
    <3>1. CASE method = "DisjointScore"
      BY <3>1 DEF FlowInv, Flowing, Typed
    <3>2. CASE method # "DisjointScore"
      <4>1. DOMAIN net = {}
        BY <3>2 DEF Asked
      <4> QED
        BY <4>1
    <3> QED
      BY <3>1, <3>2
  <2> QED
    BY <2>1, <2>2, <2>3 DEF TypeOK, Question, Asked
<1> QED
  BY <1>1, <1>2, <1>3, WalkInvariant, FlowInvariant, PTL DEF Spec

-----------------------------------------------------------------------------
(* The flow as a set of signatures.                                         *)
(*                                                                          *)
(* When root has not signed the target itself, each way through the network *)
(* passes a key between, and carries one unit.  The flow is then a set of   *)
(* signatures: as many lead to a key between as lead on from it, one if its *)
(* unit is used up and none otherwise.                                      *)

SplitOf(k) == <<<<k, "in">>, <<k, "out">>>>
CrossOf(a) == <<<<a[1], "out">>, <<a[2], "in">>>>
Plenty == Cardinality(Intermediates) + 2

Used(k) == net[SplitOf(k)] = 0

\* The signatures along which a unit flows.  (A key may have signed itself.)
Carried == {a \in Arcs : a[1] # a[2] /\ net[Back(CrossOf(a))] = 1}
Into(C, k) == {a \in C : a[2] = k}
OutOf(C, k) == {a \in C : a[1] = k}

\* What the capacities that are left can be.
Network ==
    /\ DOMAIN net = DOMAIN Capacities
    /\ \A k \in Intermediates :
         /\ net[SplitOf(k)] \in {0, 1}
         /\ net[Back(SplitOf(k))]
              = (IF <<k, k>> \in Arcs THEN Plenty ELSE 0) + (1 - net[SplitOf(k)])
    /\ \A a \in Arcs : a[1] # a[2] =>
         /\ net[Back(CrossOf(a))] \in {0, 1}
         /\ net[CrossOf(a)] = Plenty - net[Back(CrossOf(a))]

Passes(C, k, used) ==
    IF used THEN (\E a : Into(C, k) = {a}) /\ (\E a : OutOf(C, k) = {a})
    ELSE Into(C, k) = {} /\ OutOf(C, k) = {}

Conserved == \A k \in Intermediates : Passes(Carried, k, Used(k))

UnitFlow == Network /\ Conserved /\ count = Cardinality(OutOf(Carried, Root))

\* Root has not signed the target.
Indirect == TrustAssumption /\ Question /\ target # Root /\ Root \notin signers[target]

\* The signatures of the network, none of them one of root on the target.
LEMMA ArcsAre ==
    ASSUME Indirect
    PROVE  /\ Intermediates \subseteq Key \ {Root, target} /\ IsFiniteSet(Intermediates)
           /\ Plenty \in Nat /\ Plenty >= 2
           /\ Arcs \subseteq Key \X Key /\ IsFiniteSet(Arcs)
           /\ \A a \in Arcs : /\ a = <<a[1], a[2]>> /\ a[1] \in Build[a[2]]
                              /\ a[1] \in {Root} \cup Intermediates
                              /\ a[2] \in Intermediates \cup {target}
                              /\ a[1] = Root => a[2] \in Intermediates
<1>1. Root \in Key /\ target \in Key /\ IsFiniteSet(Key) /\ target # Root
  BY DEF Indirect, TrustAssumption, Question
<1>2. Intermediates \subseteq Key \ {Root, target}
  BY DEF Intermediates
<1>3. IsFiniteSet(Intermediates)
  BY <1>1, <1>2, FS_Subset
<1>4. Cardinality(Intermediates) \in Nat
  BY <1>3, FS_CardinalityType
<1>5. Arcs \subseteq Key \X Key
  <2>1. {Root} \cup Intermediates \subseteq Key /\ Intermediates \cup {target} \subseteq Key
    BY <1>1, <1>2
  <2> QED
    BY <2>1 DEF Arcs
<1>6. IsFiniteSet(Arcs)
  BY <1>1, <1>5, FS_Product, FS_Subset
<1>7. ASSUME NEW a \in Arcs
      PROVE  /\ a = <<a[1], a[2]>> /\ a[1] \in Build[a[2]]
             /\ a[1] \in {Root} \cup Intermediates
             /\ a[2] \in Intermediates \cup {target}
  BY DEF Arcs
<1>8. ASSUME NEW a \in Arcs, a[1] = Root PROVE a[2] \in Intermediates
  <2>1. a[2] # target
    BY <1>1, <1>7, <1>8 DEF Build, Indirect
  <2> QED
    BY <1>7, <2>1
<1>9. Plenty \in Nat /\ Plenty >= 2
  BY <1>4 DEF Plenty
<1> QED
  BY <1>2, <1>3, <1>5, <1>6, <1>7, <1>8, <1>9

\* The arcs that are in the network.
LEMMA NetworkArcs ==
    ASSUME Indirect
    PROVE  \A e : e \in DOMAIN Capacities <=>
             \/ \E k \in Intermediates : e = SplitOf(k) \/ e = Back(SplitOf(k))
             \/ \E a \in Arcs : a[1] # a[2] /\ (e = CrossOf(a) \/ e = Back(CrossOf(a)))
<1>1. DOMAIN Capacities = Splits \cup Cross \cup {Back(b) : b \in Splits \cup Cross}
  BY DEF Capacities, Splits, Cross
<1>2. \A e : e \in Splits <=> \E k \in Intermediates : e = SplitOf(k)
  BY DEF Splits, SplitOf
<1>3. \A e : e \in Cross <=> \E a \in Arcs : e = CrossOf(a)
  BY DEF Cross, CrossOf
<1>4. ASSUME NEW a \in Arcs, a[1] = a[2]
      PROVE  /\ a[1] \in Intermediates
             /\ CrossOf(a) = Back(SplitOf(a[1])) /\ Back(CrossOf(a)) = SplitOf(a[1])
  <2>1. a[1] \in Intermediates
    BY <1>4, ArcsAre DEF Indirect
  <2> QED
    BY <1>4, <2>1 DEF CrossOf, SplitOf, Back
<1>5. \A e : e \in {Back(b) : b \in Splits \cup Cross} <=>
               \/ \E k \in Intermediates : e = Back(SplitOf(k))
               \/ \E a \in Arcs : e = Back(CrossOf(a))
  BY <1>2, <1>3
<1>6. \A e : e \in DOMAIN Capacities <=>
               \/ \E k \in Intermediates : e = SplitOf(k) \/ e = Back(SplitOf(k))
               \/ \E a \in Arcs : e = CrossOf(a) \/ e = Back(CrossOf(a))
  BY <1>1, <1>2, <1>3, <1>5
<1> QED
  BY <1>4, <1>6

\* The arcs with capacity left, by where they lead.
OpenFrom(e) ==
    \/ \E k \in Intermediates : e = SplitOf(k) /\ ~Used(k)
    \/ \E k \in Intermediates : e = Back(SplitOf(k)) /\ (Used(k) \/ <<k, k>> \in Arcs)
    \/ \E a \in Arcs : a[1] # a[2] /\ e = CrossOf(a)
    \/ \E a \in Carried : e = Back(CrossOf(a))

\* (One that is between two keys always has some.)
LEMMA OpenArcs ==
    ASSUME Indirect, Network
    PROVE  \A e : e \in Open <=> OpenFrom(e)
<1>1. DOMAIN net = DOMAIN Capacities
  BY DEF Network
<1>2. ASSUME NEW k \in Intermediates
      PROVE  /\ SplitOf(k) \in Open <=> ~Used(k)
             /\ Back(SplitOf(k)) \in Open <=> Used(k) \/ <<k, k>> \in Arcs
  <2>1. SplitOf(k) \in DOMAIN net /\ Back(SplitOf(k)) \in DOMAIN net
    BY <1>1, NetworkArcs
  <2>2. /\ net[SplitOf(k)] \in {0, 1}
        /\ net[Back(SplitOf(k))] = (IF <<k, k>> \in Arcs THEN Plenty ELSE 0) + (1 - net[SplitOf(k)])
    BY DEF Network
  <2>3. Plenty \in Nat /\ Plenty >= 2
    BY ArcsAre
  <2>4. net[SplitOf(k)] > 0 <=> ~Used(k)
    BY <2>2 DEF Used
  <2>5. net[Back(SplitOf(k))] > 0 <=> Used(k) \/ <<k, k>> \in Arcs
    BY <2>2, <2>3 DEF Used
  <2> QED
    BY <2>1, <2>4, <2>5 DEF Open
<1>3. ASSUME NEW a \in Arcs, a[1] # a[2]
      PROVE  /\ CrossOf(a) \in Open
             /\ Back(CrossOf(a)) \in Open <=> a \in Carried
  <2>1. CrossOf(a) \in DOMAIN net /\ Back(CrossOf(a)) \in DOMAIN net
    BY <1>1, <1>3, NetworkArcs
  <2>2. net[Back(CrossOf(a))] \in {0, 1} /\ net[CrossOf(a)] = Plenty - net[Back(CrossOf(a))]
    BY <1>3 DEF Network
  <2>3. Plenty \in Nat /\ Plenty >= 2
    BY ArcsAre
  <2>4. net[CrossOf(a)] > 0 /\ (net[Back(CrossOf(a))] > 0 <=> net[Back(CrossOf(a))] = 1)
    BY <2>2, <2>3
  <2> QED
    BY <1>3, <2>1, <2>4 DEF Open, Carried
<1>4. \A a \in Carried : a \in Arcs /\ a[1] # a[2]
  BY DEF Carried
<1>5. ASSUME NEW e, OpenFrom(e) PROVE e \in Open
  <2>1. CASE \E k \in Intermediates : e = SplitOf(k) /\ ~Used(k)
    BY <1>2, <2>1
  <2>2. CASE \E k \in Intermediates : e = Back(SplitOf(k)) /\ (Used(k) \/ <<k, k>> \in Arcs)
    BY <1>2, <2>2
  <2>3. CASE \E a \in Arcs : a[1] # a[2] /\ e = CrossOf(a)
    BY <1>3, <2>3
  <2>4. CASE \E a \in Carried : e = Back(CrossOf(a))
    BY <1>3, <1>4, <2>4
  <2> QED
    BY <1>5, <2>1, <2>2, <2>3, <2>4 DEF OpenFrom
<1>6. ASSUME NEW e \in Open PROVE OpenFrom(e)
  <2>1. e \in DOMAIN Capacities
    BY <1>1 DEF Open
  <2>2. CASE \E k \in Intermediates : e = SplitOf(k) \/ e = Back(SplitOf(k))
    <3>1. PICK k \in Intermediates : e = SplitOf(k) \/ e = Back(SplitOf(k))
      BY <2>2
    <3>2. CASE e = SplitOf(k)
      BY <1>2, <1>6, <3>2 DEF OpenFrom
    <3>3. CASE e = Back(SplitOf(k))
      BY <1>2, <1>6, <3>3 DEF OpenFrom
    <3> QED
      BY <3>1, <3>2, <3>3
  <2>3. CASE \E a \in Arcs : a[1] # a[2] /\ (e = CrossOf(a) \/ e = Back(CrossOf(a)))
    <3>1. PICK a \in Arcs : a[1] # a[2] /\ (e = CrossOf(a) \/ e = Back(CrossOf(a)))
      BY <2>3
    <3>2. CASE e = CrossOf(a)
      BY <3>1, <3>2 DEF OpenFrom
    <3>3. CASE e = Back(CrossOf(a))
      BY <1>3, <1>6, <3>1, <3>3 DEF OpenFrom
    <3> QED
      BY <3>1, <3>2, <3>3
  <2> QED
    BY <2>1, <2>2, <2>3, NetworkArcs
<1> QED
  BY <1>5, <1>6

-----------------------------------------------------------------------------
(* The hops of an augmenting path.                                          *)

\* The search goes only by vertices it has not reached.
LEMMA SearchNeverReturns ==
    ASSUME Root \in Key, Open \subseteq Vertex \X Vertex, NEW g, IsSearch(g)
    PROVE  \A n \in Nat : \A p \in g[n] : \A i, j \in 1..Len(p) : p[i] = p[j] => i = j
<1> DEFINE Simple(p) == \A i, j \in 1..Len(p) : p[i] = p[j] => i = j
           ok == {n \in Nat : \A p \in g[n] : Simple(p)}
<1>1. 0 \in ok
  <2>1. ASSUME NEW p \in g[0] PROVE Simple(p)
    <3>1. p = <<Source>>
      BY <2>1 DEF IsSearch
    <3>2. Len(p) = 1
      BY <3>1
    <3> QED
      BY <3>2
  <2> QED
    BY <2>1
<1>2. ASSUME NEW n \in Nat, n \in ok PROVE n + 1 \in ok
  <2> SUFFICES ASSUME NEW p \in g[n + 1] PROVE Simple(p)
    OBVIOUS
  <2>1. g[n + 1] = Grow(g[n])
    BY DEF IsSearch
  <2>2. \A r \in g[n] : Simple(r) /\ IsWay(Open, r, r[Len(r)])
    BY <1>2, SearchHasWays
  <2>3. CASE Found(g, n)
    <3>1. p \in g[n]
      BY <2>1, <2>3, GrowFound DEF Found
    <3> QED
      BY <2>2, <3>1
  <2>4. CASE ~Found(g, n)
    <3>1. PICK r \in g[n], a \in Open :
            p = Append(r, a[2]) /\ ~ \E s \in g[n] : \E j \in DOMAIN s : s[j] = a[2]
      BY <2>1, <2>4, GrowOn DEF Found
    <3>2. r \in Seq(Vertex) /\ Len(r) \in Nat /\ Simple(r)
      BY <2>2 DEF IsWay
    <3>3. a[2] \in Vertex /\ \A j \in 1..Len(r) : r[j] # a[2]
      BY <3>1, <3>2
    <3>4. /\ Len(p) = Len(r) + 1 /\ p[Len(r) + 1] = a[2]
          /\ \A j \in 1..Len(r) : p[j] = r[j]
      BY <3>1, <3>2, <3>3
    <3>5. \A i \in 1..Len(p) : i \in 1..Len(r) \/ i = Len(r) + 1
      BY <3>2, <3>4
    <3> QED
      BY <3>2, <3>3, <3>4, <3>5
  <2> QED
    BY <2>3, <2>4
<1> HIDE DEF ok
<1>3. Nat \subseteq ok
  BY <1>1, <1>2, AllNumbers
<1> QED
  BY <1>3 DEF ok

\* The hops of a path that comes from Source to Sink and visits no vertex twice.
IsTrail(H) ==
    /\ H \subseteq Open
    /\ \A e, f \in H : (e[1] = f[1] => e = f) /\ (e[2] = f[2] => e = f)
    /\ \A e \in H : Back(e) \notin H /\ e[2] # Source /\ e[1] # Sink
    /\ \A e \in H : /\ e[2] # Sink => \E f \in H : f[1] = e[2]
                    /\ e[1] # Source => \E f \in H : f[2] = e[1]
    /\ \E e \in H : e[1] = Source

\* A way that comes by no vertex twice is one.
LEMMA WayIsTrail ==
    ASSUME NEW p, IsWay(Open, p, Sink), Len(p) >= 2, \A i, j \in 1..Len(p) : p[i] = p[j] => i = j
    PROVE  IsTrail(Hops(p))
<1>1. PICK n : n = Len(p)
  OBVIOUS
<1>2. n \in Nat /\ n >= 2 /\ p[1] = Source /\ p[n] = Sink
  BY <1>1 DEF IsWay
<1>3. \A i, j \in 1..n : p[i] = p[j] => i = j
  BY <1>1
<1>4. Hops(p) = {<<p[i], p[i + 1]>> : i \in 1..(n - 1)}
  BY <1>1 DEF Hops
<1>5. \A i \in 1..(n - 1) : <<p[i], p[i + 1]>> \in Hops(p) /\ i \in 1..n /\ i + 1 \in 1..n
  BY <1>2, <1>4
<1>6. \A e \in Hops(p) : \E i \in 1..(n - 1) : e = <<p[i], p[i + 1]>> /\ e[1] = p[i] /\ e[2] = p[i + 1]
  BY <1>4
<1>7. Hops(p) \subseteq Open
  <2>1. \A i \in 1..(n - 1) : <<p[i], p[i + 1]>> \in Open
    BY <1>1 DEF IsWay
  <2> QED
    BY <1>6, <2>1
<1>8. \A e, f \in Hops(p) : (e[1] = f[1] => e = f) /\ (e[2] = f[2] => e = f)
  <2> SUFFICES ASSUME NEW e \in Hops(p), NEW f \in Hops(p)
               PROVE  (e[1] = f[1] => e = f) /\ (e[2] = f[2] => e = f)
    OBVIOUS
  <2>1. PICK i \in 1..(n - 1) : e = <<p[i], p[i + 1]>> /\ e[1] = p[i] /\ e[2] = p[i + 1]
    BY <1>6
  <2>2. PICK j \in 1..(n - 1) : f = <<p[j], p[j + 1]>> /\ f[1] = p[j] /\ f[2] = p[j + 1]
    BY <1>6
  <2>3. p[i] = p[j] => i = j
    BY <1>3, <1>5
  <2>4. p[i + 1] = p[j + 1] => i = j
    <3>1. p[i + 1] = p[j + 1] => i + 1 = j + 1
      BY <1>3, <1>5
    <3> QED
      BY <3>1
  <2> QED
    BY <2>1, <2>2, <2>3, <2>4
<1>9. ASSUME NEW e \in Hops(p) PROVE Back(e) \notin Hops(p)
  <2>1. PICK i \in 1..(n - 1) : e = <<p[i], p[i + 1]>> /\ e[1] = p[i] /\ e[2] = p[i + 1]
    BY <1>6
  <2>2. ASSUME Back(e) \in Hops(p) PROVE FALSE
    <3>1. PICK j \in 1..(n - 1) :
            Back(e) = <<p[j], p[j + 1]>> /\ Back(e)[1] = p[j] /\ Back(e)[2] = p[j + 1]
      BY <1>6, <2>2
    <3>2. p[i + 1] = p[j] /\ p[i] = p[j + 1]
      BY <2>1, <3>1 DEF Back
    <3>3. i + 1 = j /\ i = j + 1
      BY <1>3, <1>5, <3>2
    <3> QED
      BY <3>3
  <2> QED
    BY <2>2
<1>10. ASSUME NEW e \in Hops(p)
       PROVE  /\ e[2] # Source /\ e[1] # Sink
              /\ e[2] # Sink => \E f \in Hops(p) : f[1] = e[2]
              /\ e[1] # Source => \E f \in Hops(p) : f[2] = e[1]
  <2>1. PICK i \in 1..(n - 1) : e = <<p[i], p[i + 1]>> /\ e[1] = p[i] /\ e[2] = p[i + 1]
    BY <1>6
  <2>2. i \in 1..n /\ i + 1 \in 1..n /\ i + 1 # 1 /\ i # n /\ 1 \in 1..n /\ n \in 1..n
    BY <1>2
  <2>3. e[2] # Source /\ e[1] # Sink
    BY <1>2, <1>3, <2>1, <2>2
  <2>4. ASSUME e[2] # Sink PROVE \E f \in Hops(p) : f[1] = e[2]
    <3>1. i + 1 # n
      BY <1>2, <2>1, <2>4
    <3>2. i + 1 \in 1..(n - 1)
      BY <1>2, <3>1
    <3>3. <<p[i + 1], p[(i + 1) + 1]>> \in Hops(p)
      BY <1>5, <3>2
    <3> QED
      BY <2>1, <3>3
  <2>5. ASSUME e[1] # Source PROVE \E f \in Hops(p) : f[2] = e[1]
    <3>1. i # 1
      BY <1>2, <2>1, <2>5
    <3>2. i - 1 \in 1..(n - 1) /\ (i - 1) + 1 = i
      BY <1>2, <3>1
    <3>3. <<p[i - 1], p[i]>> \in Hops(p)
      BY <1>5, <3>2
    <3> QED
      BY <2>1, <3>3
  <2> QED
    BY <2>3, <2>4, <2>5
<1>11. \E e \in Hops(p) : e[1] = Source
  <2>1. 1 \in 1..(n - 1)
    BY <1>2
  <2>2. <<p[1], p[1 + 1]>> \in Hops(p)
    BY <1>5, <2>1
  <2> QED
    BY <1>2, <2>2
<1> QED
  BY <1>7, <1>8, <1>9, <1>10, <1>11 DEF IsTrail

\* Each path that augments the flow is one.
LEMMA PathIsTrail ==
    ASSUME Root \in Key, TrustAssumption, Typed, NEW p \in AugmentingPaths
    PROVE  IsTrail(Hops(p))
<1>1. Open \subseteq Vertex \X Vertex
  BY DEF Open, Typed
<1>2. PICK g : IsSearch(g) /\ AugmentingPaths = {q \in g[2 * Cardinality(Key)] : q[Len(q)] = Sink}
  BY <1>1, SearchIs
<1>3. 2 * Cardinality(Key) \in Nat
  BY FS_CardinalityType DEF TrustAssumption
<1>4. p \in g[2 * Cardinality(Key)]
  BY <1>2
<1>5. \A i, j \in 1..Len(p) : p[i] = p[j] => i = j
  BY <1>1, <1>2, <1>3, <1>4, SearchNeverReturns
<1> QED
  BY <1>5, PathsAugment, WayIsTrail

-----------------------------------------------------------------------------
(* How an augmenting path passes a key between.                             *)

\* The arcs with capacity left at the two vertices of a key between.
LEMMA OpenAt ==
    ASSUME Indirect, Network, Conserved, NEW k \in Intermediates, NEW e \in Open
    PROVE  /\ e[1] = <<k, "in">> =>
                \/ e = SplitOf(k) /\ ~Used(k)
                \/ Used(k) /\ \E a \in Into(Carried, k) : e = Back(CrossOf(a))
           /\ e[2] = <<k, "in">> =>
                \/ e = Back(SplitOf(k))
                \/ \E a \in Into(Arcs, k) : a[1] # a[2] /\ e = CrossOf(a)
           /\ e[2] = <<k, "out">> =>
                \/ e = SplitOf(k) /\ ~Used(k)
                \/ Used(k) /\ \E a \in OutOf(Carried, k) : e = Back(CrossOf(a))
           /\ e[1] = <<k, "out">> =>
                \/ e = Back(SplitOf(k))
                \/ \E a \in OutOf(Arcs, k) : a[1] # a[2] /\ e = CrossOf(a)
<1>1. Passes(Carried, k, Used(k))
  BY DEF Conserved
<1>2. (Into(Carried, k) # {} => Used(k)) /\ (OutOf(Carried, k) # {} => Used(k))
  BY <1>1 DEF Passes
<1>3. OpenFrom(e)
  BY OpenArcs
<1>4. CASE \E x \in Intermediates : e = SplitOf(x) /\ ~Used(x)
  <2>1. PICK x \in Intermediates : e = SplitOf(x) /\ ~Used(x)
    BY <1>4
  <2>2. e[1] = <<x, "in">> /\ e[2] = <<x, "out">>
    BY <2>1 DEF SplitOf
  <2> QED
    BY <2>1, <2>2
<1>5. CASE \E x \in Intermediates : e = Back(SplitOf(x))
  <2>1. PICK x \in Intermediates : e = Back(SplitOf(x))
    BY <1>5
  <2>2. e[1] = <<x, "out">> /\ e[2] = <<x, "in">>
    BY <2>1 DEF SplitOf, Back
  <2> QED
    BY <2>1, <2>2
<1>6. CASE \E a \in Arcs : a[1] # a[2] /\ e = CrossOf(a)
  <2>1. PICK a \in Arcs : a[1] # a[2] /\ e = CrossOf(a)
    BY <1>6
  <2>2. e[1] = <<a[1], "out">> /\ e[2] = <<a[2], "in">>
    BY <2>1 DEF CrossOf
  <2>3. e[2] = <<k, "in">> => a \in Into(Arcs, k)
    BY <2>2 DEF Into
  <2>4. e[1] = <<k, "out">> => a \in OutOf(Arcs, k)
    BY <2>2 DEF OutOf
  <2>5. e[1] # <<k, "in">> /\ e[2] # <<k, "out">>
    BY <2>2
  <2> QED
    BY <2>1, <2>3, <2>4, <2>5
<1>7. CASE \E a \in Carried : e = Back(CrossOf(a))
  <2>1. PICK a \in Carried : e = Back(CrossOf(a))
    BY <1>7
  <2>2. e[1] = <<a[2], "in">> /\ e[2] = <<a[1], "out">>
    BY <2>1 DEF CrossOf, Back
  <2>3. e[1] = <<k, "in">> => a \in Into(Carried, k)
    BY <2>2 DEF Into
  <2>4. e[2] = <<k, "out">> => a \in OutOf(Carried, k)
    BY <2>2 DEF OutOf
  <2>5. e[2] # <<k, "in">> /\ e[1] # <<k, "out">>
    BY <2>2
  <2> QED
    BY <1>2, <2>1, <2>3, <2>4, <2>5
<1> QED
  BY <1>3, <1>4, <1>5, <1>6, <1>7 DEF OpenFrom

\* What is added to the flow, and what is taken from it.
Plus(H) == {a \in Arcs : a[1] # a[2] /\ CrossOf(a) \in H}
Minus(H) == {a \in Carried : Back(CrossOf(a)) \in H}

\* A path passes the two vertices of a key between: not at all, on to use its unit up,
\* past the unit that comes or goes there, or back over it.
AtIn(H, k) ==
    \/ \A e \in H : e[1] # <<k, "in">> /\ e[2] # <<k, "in">>
    \/ ~Used(k) /\ SplitOf(k) \in H /\ Into(Plus(H), k) # {}
    \/ Used(k) /\ Into(Minus(H), k) # {} /\ Into(Plus(H), k) # {}
    \/ Used(k) /\ Into(Minus(H), k) # {} /\ Back(SplitOf(k)) \in H

AtOut(H, k) ==
    \/ \A e \in H : e[1] # <<k, "out">> /\ e[2] # <<k, "out">>
    \/ ~Used(k) /\ SplitOf(k) \in H /\ OutOf(Plus(H), k) # {}
    \/ Used(k) /\ OutOf(Minus(H), k) # {} /\ OutOf(Plus(H), k) # {}
    \/ Used(k) /\ OutOf(Minus(H), k) # {} /\ Back(SplitOf(k)) \in H

\* There is no other way to pass.
LEMMA TrailAt ==
    ASSUME Indirect, Network, Conserved, NEW H, IsTrail(H), NEW k \in Intermediates
    PROVE  AtIn(H, k) /\ AtOut(H, k)
<1>0. k # Root /\ k # target
  BY ArcsAre
<1>1. /\ <<k, "in">> # Source /\ <<k, "in">> # Sink
      /\ <<k, "out">> # Source /\ <<k, "out">> # Sink
  BY <1>0 DEF Source, Sink
<1>2. \A e \in H : e \in Open /\ Back(e) \notin H
  BY DEF IsTrail
<1>3. ASSUME NEW v, v # Source, v # Sink, ~ \A e \in H : e[1] # v /\ e[2] # v
      PROVE  (\E e \in H : e[2] = v) /\ (\E f \in H : f[1] = v)
  BY <1>3 DEF IsTrail
<1>4. AtIn(H, k)
  <2> SUFFICES ASSUME ~ \A e \in H : e[1] # <<k, "in">> /\ e[2] # <<k, "in">>
               PROVE  AtIn(H, k)
    BY DEF AtIn
  <2>1. PICK e \in H, f \in H : e[2] = <<k, "in">> /\ f[1] = <<k, "in">>
    BY <1>1, <1>3
  <2>2. \/ e = Back(SplitOf(k))
        \/ \E a \in Into(Arcs, k) : a[1] # a[2] /\ e = CrossOf(a)
    BY <1>2, <2>1, OpenAt
  <2>3. \/ f = SplitOf(k) /\ ~Used(k)
        \/ Used(k) /\ \E a \in Into(Carried, k) : f = Back(CrossOf(a))
    BY <1>2, <2>1, OpenAt
  <2>4. ~(f = SplitOf(k) /\ e = Back(SplitOf(k)))
    BY <1>2
  <2>5. (\E a \in Into(Arcs, k) : a[1] # a[2] /\ e = CrossOf(a)) => Into(Plus(H), k) # {}
    BY DEF Into, Plus
  <2>6. (\E a \in Into(Carried, k) : f = Back(CrossOf(a))) => Into(Minus(H), k) # {}
    BY DEF Into, Minus
  <2> QED
    BY <2>2, <2>3, <2>4, <2>5, <2>6 DEF AtIn
<1>5. AtOut(H, k)
  <2> SUFFICES ASSUME ~ \A e \in H : e[1] # <<k, "out">> /\ e[2] # <<k, "out">>
               PROVE  AtOut(H, k)
    BY DEF AtOut
  <2>1. PICK e \in H, f \in H : e[2] = <<k, "out">> /\ f[1] = <<k, "out">>
    BY <1>1, <1>3
  <2>2. \/ f = Back(SplitOf(k))
        \/ \E a \in OutOf(Arcs, k) : a[1] # a[2] /\ f = CrossOf(a)
    BY <1>2, <2>1, OpenAt
  <2>3. \/ e = SplitOf(k) /\ ~Used(k)
        \/ Used(k) /\ \E a \in OutOf(Carried, k) : e = Back(CrossOf(a))
    BY <1>2, <2>1, OpenAt
  <2>4. ~(e = SplitOf(k) /\ f = Back(SplitOf(k)))
    BY <1>2
  <2>5. (\E a \in OutOf(Arcs, k) : a[1] # a[2] /\ f = CrossOf(a)) => OutOf(Plus(H), k) # {}
    BY DEF OutOf, Plus
  <2>6. (\E a \in OutOf(Carried, k) : e = Back(CrossOf(a))) => OutOf(Minus(H), k) # {}
    BY DEF OutOf, Minus
  <2> QED
    BY <2>2, <2>3, <2>4, <2>5, <2>6 DEF AtOut
<1> QED
  BY <1>4, <1>5

\* The hops that are at one vertex exclude each other.
LEMMA TrailApart ==
    ASSUME Indirect, Network, Conserved, NEW H, IsTrail(H), NEW k \in Intermediates
    PROVE  /\ \A a, b \in Into(Plus(H), k) : a = b
           /\ \A a, b \in OutOf(Plus(H), k) : a = b
           /\ Into(Plus(H), k) # {} => Back(SplitOf(k)) \notin H
           /\ OutOf(Plus(H), k) # {} => Back(SplitOf(k)) \notin H
           /\ Into(Minus(H), k) # {} => SplitOf(k) \notin H
           /\ OutOf(Minus(H), k) # {} => SplitOf(k) \notin H
<1>1. \A e, f \in H : (e[1] = f[1] => e = f) /\ (e[2] = f[2] => e = f)
  BY DEF IsTrail
<1>2. \A a \in Plus(H) : /\ CrossOf(a) \in H /\ a[1] # a[2] /\ a = <<a[1], a[2]>>
                         /\ CrossOf(a)[1] = <<a[1], "out">> /\ CrossOf(a)[2] = <<a[2], "in">>
  BY ArcsAre DEF Plus, CrossOf
<1>3. \A a \in Minus(H) : /\ Back(CrossOf(a)) \in H /\ a[1] # a[2]
                          /\ Back(CrossOf(a))[1] = <<a[2], "in">>
                          /\ Back(CrossOf(a))[2] = <<a[1], "out">>
  BY DEF Minus, Carried, CrossOf, Back
<1>4. /\ SplitOf(k)[1] = <<k, "in">> /\ SplitOf(k)[2] = <<k, "out">>
      /\ Back(SplitOf(k))[1] = <<k, "out">> /\ Back(SplitOf(k))[2] = <<k, "in">>
  BY DEF SplitOf, Back
<1>5. ASSUME NEW a \in Into(Plus(H), k), NEW b \in Into(Plus(H), k) PROVE a = b
  <2>1. a \in Plus(H) /\ b \in Plus(H) /\ a[2] = k /\ b[2] = k
    BY DEF Into
  <2>2. CrossOf(a) = CrossOf(b)
    BY <1>1, <1>2, <2>1
  <2>3. a[1] = b[1]
    BY <1>2, <2>1, <2>2
  <2> QED
    BY <1>2, <2>1, <2>3
<1>6. ASSUME NEW a \in OutOf(Plus(H), k), NEW b \in OutOf(Plus(H), k) PROVE a = b
  <2>1. a \in Plus(H) /\ b \in Plus(H) /\ a[1] = k /\ b[1] = k
    BY DEF OutOf
  <2>2. CrossOf(a) = CrossOf(b)
    BY <1>1, <1>2, <2>1
  <2>3. a[2] = b[2]
    BY <1>2, <2>1, <2>2
  <2> QED
    BY <1>2, <2>1, <2>3
<1>7. ASSUME NEW a \in Into(Plus(H), k), Back(SplitOf(k)) \in H PROVE FALSE
  <2>1. a \in Plus(H) /\ a[2] = k
    BY DEF Into
  <2>2. CrossOf(a) = Back(SplitOf(k))
    BY <1>1, <1>2, <1>4, <1>7, <2>1
  <2> QED
    BY <1>2, <1>4, <2>1, <2>2
<1>8. ASSUME NEW a \in OutOf(Plus(H), k), Back(SplitOf(k)) \in H PROVE FALSE
  <2>1. a \in Plus(H) /\ a[1] = k
    BY DEF OutOf
  <2>2. CrossOf(a) = Back(SplitOf(k))
    BY <1>1, <1>2, <1>4, <1>8, <2>1
  <2> QED
    BY <1>2, <1>4, <2>1, <2>2
<1>9. ASSUME NEW a \in Into(Minus(H), k), SplitOf(k) \in H PROVE FALSE
  <2>1. a \in Minus(H) /\ a[2] = k
    BY DEF Into
  <2>2. Back(CrossOf(a)) = SplitOf(k)
    BY <1>1, <1>3, <1>4, <1>9, <2>1
  <2> QED
    BY <1>3, <1>4, <2>1, <2>2
<1>10. ASSUME NEW a \in OutOf(Minus(H), k), SplitOf(k) \in H PROVE FALSE
  <2>1. a \in Minus(H) /\ a[1] = k
    BY DEF OutOf
  <2>2. Back(CrossOf(a)) = SplitOf(k)
    BY <1>1, <1>3, <1>4, <1>10, <2>1
  <2> QED
    BY <1>3, <1>4, <2>1, <2>2
<1> QED
  BY <1>5, <1>6, <1>7, <1>8, <1>9, <1>10

-----------------------------------------------------------------------------
(* A round of disjointMaxFlow.                                              *)

\* The flow when a unit has gone along H, and the keys whose unit is then used up.
After(H) == (Carried \ Minus(H)) \cup Plus(H)
UsedAfter(H, k) ==
    SplitOf(k) \in H \/ (Back(SplitOf(k)) \notin H /\ Used(k))

\* A path comes along no signature that carries a unit, and finds each unit as it uses it.
LEMMA TrailIsNew ==
    ASSUME Indirect, Network, Conserved, NEW H, IsTrail(H)
    PROVE  /\ Plus(H) \cap Carried = {}
           /\ \A k \in Intermediates : /\ SplitOf(k) \in H => ~Used(k)
                                       /\ Back(SplitOf(k)) \in H => Used(k)
<1>1. ASSUME NEW k \in Intermediates
      PROVE  /\ SplitOf(k) \in H => ~Used(k)
             /\ Back(SplitOf(k)) \in H => Used(k)
  <2>1. AtIn(H, k)
    BY TrailAt
  <2>2. Into(Minus(H), k) # {} => SplitOf(k) \notin H
    BY TrailApart
  <2>3. SplitOf(k) \in H => Back(SplitOf(k)) \notin H
    BY DEF IsTrail
  <2>4. SplitOf(k)[1] = <<k, "in">> /\ Back(SplitOf(k))[2] = <<k, "in">>
    BY DEF SplitOf, Back
  <2> QED
    BY <2>1, <2>2, <2>3, <2>4 DEF AtIn
<1>2. ASSUME NEW a \in Plus(H), a \in Carried PROVE FALSE
  <2>1. /\ a \in Arcs /\ CrossOf(a) \in H /\ Back(CrossOf(a)) \notin H
        /\ CrossOf(a)[1] = <<a[1], "out">> /\ CrossOf(a)[2] = <<a[2], "in">>
    BY DEF Plus, CrossOf, IsTrail
  <2>2. \A b \in Minus(H) : b \in Carried /\ b # a
    BY <2>1 DEF Minus
  <2>3. CASE a[2] \in Intermediates
    <3>1. Passes(Carried, a[2], Used(a[2])) /\ a \in Into(Carried, a[2])
      BY <1>2, <2>3 DEF Conserved, Into
    <3>2. Used(a[2]) /\ Into(Carried, a[2]) = {a}
      BY <3>1 DEF Passes
    <3>3. Into(Minus(H), a[2]) = {}
      BY <2>2, <3>2 DEF Into
    <3> QED
      BY <2>1, <2>3, <3>2, <3>3, TrailAt DEF AtIn
  <2>4. CASE a[2] \notin Intermediates
    <3>1. a[1] \in Intermediates
      BY <2>1, <2>4, ArcsAre
    <3>2. Passes(Carried, a[1], Used(a[1])) /\ a \in OutOf(Carried, a[1])
      BY <1>2, <3>1 DEF Conserved, OutOf
    <3>3. Used(a[1]) /\ OutOf(Carried, a[1]) = {a}
      BY <3>2 DEF Passes
    <3>4. OutOf(Minus(H), a[1]) = {}
      BY <2>2, <3>3 DEF OutOf
    <3> QED
      BY <2>1, <3>1, <3>3, <3>4, TrailAt DEF AtOut
  <2> QED
    BY <2>3, <2>4
<1> QED
  BY <1>1, <1>2

\* As many units still come to a key between as go on from it.
LEMMA FlowPasses ==
    ASSUME Indirect, Network, Conserved, NEW H, IsTrail(H), NEW k \in Intermediates
    PROVE  Passes(After(H), k, UsedAfter(H, k))
<1>1. /\ Into(After(H), k) = (Into(Carried, k) \ Into(Minus(H), k)) \cup Into(Plus(H), k)
      /\ OutOf(After(H), k) = (OutOf(Carried, k) \ OutOf(Minus(H), k)) \cup OutOf(Plus(H), k)
  BY DEF Into, OutOf, After
<1>2. /\ Into(Minus(H), k) \subseteq Into(Carried, k)
      /\ OutOf(Minus(H), k) \subseteq OutOf(Carried, k)
  BY DEF Into, OutOf, Minus
<1>3. Passes(Carried, k, Used(k))
  BY DEF Conserved
<1>4. /\ SplitOf(k)[1] = <<k, "in">> /\ SplitOf(k)[2] = <<k, "out">>
      /\ Back(SplitOf(k))[1] = <<k, "out">> /\ Back(SplitOf(k))[2] = <<k, "in">>
      /\ SplitOf(k) \in H => Back(SplitOf(k)) \notin H
  BY DEF SplitOf, Back, IsTrail
<1>5. IF UsedAfter(H, k) THEN \E a : Into(After(H), k) = {a} ELSE Into(After(H), k) = {}
  <2>1. /\ \A a, b \in Into(Plus(H), k) : a = b
        /\ Into(Plus(H), k) # {} => Back(SplitOf(k)) \notin H
        /\ Into(Minus(H), k) # {} => SplitOf(k) \notin H
    BY TrailApart
  <2>2. IF Used(k) THEN \E a : Into(Carried, k) = {a} ELSE Into(Carried, k) = {}
    BY <1>3 DEF Passes
  <2>3. CASE \A e \in H : e[1] # <<k, "in">> /\ e[2] # <<k, "in">>
    <3>1. SplitOf(k) \notin H /\ Back(SplitOf(k)) \notin H
      BY <1>4, <2>3
    <3>2. Into(Plus(H), k) = {} /\ Into(Minus(H), k) = {}
      BY <2>3 DEF Into, Plus, Minus, CrossOf, Back
    <3> QED
      BY <1>1, <2>2, <3>1, <3>2 DEF UsedAfter
  <2>4. CASE ~Used(k) /\ SplitOf(k) \in H /\ Into(Plus(H), k) # {}
    <3>1. PICK a : Into(Plus(H), k) = {a}
      BY <2>1, <2>4
    <3> QED
      BY <1>1, <2>2, <2>4, <3>1 DEF UsedAfter
  <2>5. CASE Used(k) /\ Into(Minus(H), k) # {} /\ Into(Plus(H), k) # {}
    <3>1. PICK a : Into(Plus(H), k) = {a}
      BY <2>1, <2>5
    <3>2. Into(Carried, k) \ Into(Minus(H), k) = {}
      BY <1>2, <2>2, <2>5
    <3> QED
      BY <1>1, <2>1, <2>5, <3>1, <3>2 DEF UsedAfter
  <2>6. CASE Used(k) /\ Into(Minus(H), k) # {} /\ Back(SplitOf(k)) \in H
    <3>1. Into(Carried, k) \ Into(Minus(H), k) = {}
      BY <1>2, <2>2, <2>6
    <3> QED
      BY <1>1, <2>1, <2>6, <3>1 DEF UsedAfter
  <2> QED
    BY <2>3, <2>4, <2>5, <2>6, TrailAt DEF AtIn
<1>6. IF UsedAfter(H, k) THEN \E a : OutOf(After(H), k) = {a} ELSE OutOf(After(H), k) = {}
  <2>1. /\ \A a, b \in OutOf(Plus(H), k) : a = b
        /\ OutOf(Plus(H), k) # {} => Back(SplitOf(k)) \notin H
        /\ OutOf(Minus(H), k) # {} => SplitOf(k) \notin H
    BY TrailApart
  <2>2. IF Used(k) THEN \E a : OutOf(Carried, k) = {a} ELSE OutOf(Carried, k) = {}
    BY <1>3 DEF Passes
  <2>3. CASE \A e \in H : e[1] # <<k, "out">> /\ e[2] # <<k, "out">>
    <3>1. SplitOf(k) \notin H /\ Back(SplitOf(k)) \notin H
      BY <1>4, <2>3
    <3>2. OutOf(Plus(H), k) = {} /\ OutOf(Minus(H), k) = {}
      BY <2>3 DEF OutOf, Plus, Minus, CrossOf, Back
    <3> QED
      BY <1>1, <2>2, <3>1, <3>2 DEF UsedAfter
  <2>4. CASE ~Used(k) /\ SplitOf(k) \in H /\ OutOf(Plus(H), k) # {}
    <3>1. PICK a : OutOf(Plus(H), k) = {a}
      BY <2>1, <2>4
    <3> QED
      BY <1>1, <2>2, <2>4, <3>1 DEF UsedAfter
  <2>5. CASE Used(k) /\ OutOf(Minus(H), k) # {} /\ OutOf(Plus(H), k) # {}
    <3>1. PICK a : OutOf(Plus(H), k) = {a}
      BY <2>1, <2>5
    <3>2. OutOf(Carried, k) \ OutOf(Minus(H), k) = {}
      BY <1>2, <2>2, <2>5
    <3> QED
      BY <1>1, <2>1, <2>5, <3>1, <3>2 DEF UsedAfter
  <2>6. CASE Used(k) /\ OutOf(Minus(H), k) # {} /\ Back(SplitOf(k)) \in H
    <3>1. OutOf(Carried, k) \ OutOf(Minus(H), k) = {}
      BY <1>2, <2>2, <2>6
    <3> QED
      BY <1>1, <2>1, <2>6, <3>1 DEF UsedAfter
  <2> QED
    BY <2>3, <2>4, <2>5, <2>6, TrailAt DEF AtOut
<1> QED
  BY <1>5, <1>6 DEF Passes

\* A path begins with one more signature of root, and uses the unit of some key up.
LEMMA TrailBegins ==
    ASSUME Indirect, Network, Conserved, NEW H, IsTrail(H)
    PROVE  /\ Cardinality(OutOf(After(H), Root)) = Cardinality(OutOf(Carried, Root)) + 1
           /\ \E f \in H : net[f] = 1
<1>1. PICK e \in H : e[1] = Source
  BY DEF IsTrail
<1>2. OpenFrom(e)
  BY OpenArcs DEF IsTrail
<1>3. \E a \in Arcs : a[1] = Root /\ a[1] # a[2] /\ e = CrossOf(a)
  <2>1. \A k \in Intermediates : k # Root /\ SplitOf(k)[1] = <<k, "in">>
                                 /\ Back(SplitOf(k))[1] = <<k, "out">>
    BY ArcsAre DEF SplitOf, Back
  <2>2. /\ \A a \in Arcs : CrossOf(a)[1] = <<a[1], "out">>
        /\ \A a \in Carried : Back(CrossOf(a))[1] = <<a[2], "in">>
    BY DEF CrossOf, Back
  <2>3. e[1] = <<Root, "out">>
    BY <1>1 DEF Source
  <2>4. ~ \E k \in Intermediates : e = SplitOf(k)
    BY <2>1, <2>3
  <2>5. ~ \E k \in Intermediates : e = Back(SplitOf(k))
    BY <2>1, <2>3
  <2>6. ~ \E a \in Carried : e = Back(CrossOf(a))
    BY <2>2, <2>3
  <2>7. PICK a \in Arcs : a[1] # a[2] /\ e = CrossOf(a)
    BY <1>2, <2>4, <2>5, <2>6 DEF OpenFrom
  <2>8. a[1] = Root
    BY <2>2, <2>3, <2>7
  <2> QED
    BY <2>7, <2>8
<1>4. PICK a \in Arcs : a[1] = Root /\ a[1] # a[2] /\ e = CrossOf(a)
  BY <1>3
<1>5. a \in Plus(H) /\ a \notin Carried /\ a[2] \in Intermediates
  BY <1>4, TrailIsNew, ArcsAre DEF Plus
<1>6. OutOf(Minus(H), Root) = {}
  <2>1. \A b \in Minus(H) : Back(CrossOf(b)) \in H /\ Back(CrossOf(b))[2] = <<b[1], "out">>
    BY DEF Minus, CrossOf, Back
  <2> QED
    BY <2>1 DEF IsTrail, Source, OutOf
<1>7. OutOf(Plus(H), Root) = {a}
  <2>1. ASSUME NEW b \in OutOf(Plus(H), Root) PROVE b = a
    <3>1. b \in Arcs /\ b[1] = Root /\ CrossOf(b) \in H /\ b = <<b[1], b[2]>> /\ a = <<a[1], a[2]>>
      BY ArcsAre DEF OutOf, Plus
    <3>2. CrossOf(b)[1] = e[1]
      BY <1>1, <3>1 DEF CrossOf, Source
    <3>3. CrossOf(b) = CrossOf(a)
      BY <1>4, <3>1, <3>2 DEF IsTrail
    <3>4. b[2] = a[2]
      BY <3>3 DEF CrossOf
    <3> QED
      BY <1>4, <3>1, <3>4
  <2> QED
    BY <1>4, <1>5, <2>1 DEF OutOf
<1>8. OutOf(After(H), Root) = OutOf(Carried, Root) \cup {a}
  BY <1>6, <1>7 DEF After, OutOf
<1>9. IsFiniteSet(OutOf(Carried, Root)) /\ a \notin OutOf(Carried, Root)
  <2>1. OutOf(Carried, Root) \subseteq Arcs
    BY DEF OutOf, Carried
  <2> QED
    BY <1>5, <2>1, ArcsAre, FS_Subset DEF OutOf
<1>10. Cardinality(OutOf(After(H), Root)) = Cardinality(OutOf(Carried, Root)) + 1
  BY <1>8, <1>9, FS_AddElement
<1>11. \E f \in H : f[1] = <<a[2], "in">>
  <2>1. e[2] = <<a[2], "in">> /\ a[2] # target
    BY <1>4, <1>5, ArcsAre DEF CrossOf
  <2>2. e[2] # Sink
    BY <2>1 DEF Sink
  <2>3. \A x \in H : x[2] # Sink => \E f \in H : f[1] = x[2]
    BY DEF IsTrail
  <2> QED
    BY <2>1, <2>2, <2>3
<1>12. PICK f \in H : f[1] = <<a[2], "in">>
  BY <1>11
<1>13. \/ f = SplitOf(a[2]) /\ ~Used(a[2])
       \/ \E b \in Into(Carried, a[2]) : f = Back(CrossOf(b))
  BY <1>5, <1>12, OpenAt DEF IsTrail
<1>14. net[f] = 1
  BY <1>5, <1>13 DEF Network, Used, Into, Carried
<1> QED
  BY <1>10, <1>14

\* Nothing flows in the network that DisjointScore builds.
LEMMA FreshFlow ==
    ASSUME Indirect, net = Capacities, count = 0
    PROVE  UnitFlow
<1>1. /\ DOMAIN Capacities = Splits \cup Cross \cup {Back(b) : b \in Splits \cup Cross}
      /\ \A e \in DOMAIN Capacities :
           Capacities[e] = IF e \in Cross THEN Plenty ELSE IF e \in Splits THEN 1 ELSE 0
  BY DEF Capacities, Splits, Cross, Plenty
<1>2. \A e : e \in Splits <=> \E k \in Intermediates : e = SplitOf(k)
  BY DEF Splits, SplitOf
<1>3. \A e : e \in Cross <=> \E a \in Arcs : e = CrossOf(a)
  BY DEF Cross, CrossOf
<1>4. \A a \in Arcs : a = <<a[1], a[2]>>
  BY ArcsAre
<1>5. ASSUME NEW k \in Intermediates
      PROVE  /\ net[SplitOf(k)] = 1
             /\ net[Back(SplitOf(k))] = IF <<k, k>> \in Arcs THEN Plenty ELSE 0
  <2>1. SplitOf(k) \in DOMAIN Capacities /\ Back(SplitOf(k)) \in DOMAIN Capacities
    BY NetworkArcs
  <2>2. \A a \in Arcs : CrossOf(a) # SplitOf(k)
    BY DEF CrossOf, SplitOf
  <2>3. SplitOf(k) \in Splits /\ SplitOf(k) \notin Cross
    BY <1>2, <1>3, <2>2
  <2>4. \A j \in Intermediates : SplitOf(j) # Back(SplitOf(k))
    BY DEF SplitOf, Back
  <2>5. \A a \in Arcs : CrossOf(a) = Back(SplitOf(k)) => a[1] = k /\ a[2] = k
    BY DEF CrossOf, SplitOf, Back
  <2>6. CrossOf(<<k, k>>) = Back(SplitOf(k))
    BY DEF CrossOf, SplitOf, Back
  <2>7. Back(SplitOf(k)) \in Cross <=> <<k, k>> \in Arcs
    <3>1. ASSUME NEW a \in Arcs, CrossOf(a) = Back(SplitOf(k)) PROVE <<k, k>> \in Arcs
      <4>1. a = <<k, k>>
        BY <1>4, <2>5, <3>1
      <4> QED
        BY <4>1
    <3> QED
      BY <1>3, <2>6, <3>1
  <2>8. Back(SplitOf(k)) \notin Splits
    BY <1>2, <2>4
  <2> QED
    BY <1>1, <2>1, <2>3, <2>7, <2>8
<1>6. ASSUME NEW a \in Arcs, a[1] # a[2]
      PROVE  net[CrossOf(a)] = Plenty /\ net[Back(CrossOf(a))] = 0
  <2>1. CrossOf(a) \in DOMAIN Capacities /\ Back(CrossOf(a)) \in DOMAIN Capacities
    BY <1>6, NetworkArcs
  <2>2. \A b \in Arcs : CrossOf(b) # Back(CrossOf(a))
    BY DEF CrossOf, Back
  <2>3. \A j \in Intermediates : SplitOf(j) # Back(CrossOf(a))
    BY <1>6 DEF SplitOf, CrossOf, Back
  <2>4. CrossOf(a) \in Cross /\ Back(CrossOf(a)) \notin Cross /\ Back(CrossOf(a)) \notin Splits
    BY <1>2, <1>3, <2>2, <2>3
  <2> QED
    BY <1>1, <2>1, <2>4
<1>7. Plenty \in Nat
  BY ArcsAre
<1>8. Network
  <2>1. \A k \in Intermediates :
          /\ net[SplitOf(k)] \in {0, 1}
          /\ net[Back(SplitOf(k))]
               = (IF <<k, k>> \in Arcs THEN Plenty ELSE 0) + (1 - net[SplitOf(k)])
    <3> SUFFICES ASSUME NEW k \in Intermediates
                 PROVE  /\ net[SplitOf(k)] \in {0, 1}
                        /\ net[Back(SplitOf(k))]
                             = (IF <<k, k>> \in Arcs THEN Plenty ELSE 0) + (1 - net[SplitOf(k)])
      OBVIOUS
    <3>1. PICK x : x = IF <<k, k>> \in Arcs THEN Plenty ELSE 0
      OBVIOUS
    <3>2. net[SplitOf(k)] = 1 /\ net[Back(SplitOf(k))] = x /\ x \in Nat
      BY <1>5, <1>7, <3>1
    <3>3. x = x + (1 - 1)
      BY <3>2
    <3> QED
      BY <3>1, <3>2, <3>3
  <2>2. \A a \in Arcs : a[1] # a[2] =>
          /\ net[Back(CrossOf(a))] \in {0, 1}
          /\ net[CrossOf(a)] = Plenty - net[Back(CrossOf(a))]
    BY <1>6, <1>7
  <2> QED
    BY <2>1, <2>2 DEF Network
<1>9. Carried = {}
  BY <1>6 DEF Carried
<1>10. Conserved
  <2>1. \A k : Into(Carried, k) = {} /\ OutOf(Carried, k) = {}
    BY <1>9 DEF Into, OutOf
  <2>2. \A k \in Intermediates : ~Used(k)
    <3>1. \A k \in Intermediates : net[SplitOf(k)] = 1
      BY <1>5
    <3> QED
      BY <3>1 DEF Used
  <2> QED
    BY <2>1, <2>2 DEF Conserved, Passes
<1>11. OutOf(Carried, Root) = {}
  BY <1>9 DEF OutOf
<1> QED
  BY <1>8, <1>10, <1>11, FS_EmptySet DEF UnitFlow

\* A round sends one unit along the path.
LEMMA RoundIs ==
    ASSUME Indirect, Typed, UnitFlow, Augment
    PROVE  \E H : /\ IsTrail(H) /\ count' = count + 1
                  /\ net' = [e \in DOMAIN net |->
                               IF e \in H THEN net[e] - 1
                               ELSE IF Back(e) \in H THEN net[e] + 1 ELSE net[e]]
<1>1. PICK p \in AugmentingPaths :
        LET bn == CHOOSE c \in {net[a] : a \in Hops(p)} : \A a \in Hops(p) : c <= net[a] IN
          /\ net' = [a \in DOMAIN net |->
                      IF a \in Hops(p) THEN net[a] - bn
                      ELSE IF Back(a) \in Hops(p) THEN net[a] + bn ELSE net[a]]
          /\ count' = count + bn
  BY DEF Augment
<1> DEFINE T == {net[a] : a \in Hops(p)}
           bn == CHOOSE c \in T : \A a \in Hops(p) : c <= net[a]
<1>2. IsTrail(Hops(p))
  BY PathIsTrail DEF Indirect, TrustAssumption
<1>3. \E f \in Hops(p) : net[f] = 1
  BY <1>2, TrailBegins DEF UnitFlow
<1>4. \A a \in Hops(p) : net[a] \in Nat /\ net[a] >= 1
  <2>1. \A a \in Hops(p) : a \in DOMAIN net /\ net[a] > 0
    BY <1>2 DEF IsTrail, Open
  <2> QED
    BY <2>1 DEF Typed
<1>5. 1 \in T /\ \A a \in Hops(p) : 1 <= net[a]
  BY <1>3, <1>4
<1>6. bn \in T /\ \A a \in Hops(p) : bn <= net[a]
  <2> HIDE DEF T
  <2> QED
    BY <1>5
<1>7. /\ net' = [a \in DOMAIN net |->
                  IF a \in Hops(p) THEN net[a] - bn
                  ELSE IF Back(a) \in Hops(p) THEN net[a] + bn ELSE net[a]]
      /\ count' = count + bn
  BY <1>1
<1> HIDE DEF bn
<1>8. bn = 1
  <2>1. bn \in Nat /\ bn >= 1
    BY <1>4, <1>6
  <2>2. bn <= 1
    BY <1>3, <1>6
  <2> QED
    BY <2>1, <2>2
<1> QED
  BY <1>2, <1>7, <1>8

\* The flow stays one of units, and grows by one.
LEMMA RoundKeepsFlow ==
    ASSUME Indirect, Typed, UnitFlow, Augment
    PROVE  UnitFlow'
<1>1. PICK H : /\ IsTrail(H) /\ count' = count + 1
               /\ net' = [e \in DOMAIN net |->
                            IF e \in H THEN net[e] - 1
                            ELSE IF Back(e) \in H THEN net[e] + 1 ELSE net[e]]
  BY RoundIs
<1>2. UNCHANGED question
  BY DEF Augment
<1>3. Intermediates' = Intermediates /\ Arcs' = Arcs /\ Plenty' = Plenty
      /\ Capacities' = Capacities
  BY <1>2 DEF question, Plenty, Capacities, Intermediates, Arcs, FromRoot, ToTarget, Build, Back
<1>4. DOMAIN net' = DOMAIN net /\ DOMAIN net = DOMAIN Capacities
  BY <1>1 DEF UnitFlow, Network
<1>5. \A e \in H : Back(e) \notin H
  BY <1>1 DEF IsTrail
<1>6. Network /\ Conserved
  BY DEF UnitFlow
<1>7. Plenty \in Nat /\ Plenty >= 2
  BY ArcsAre
<1>8. ASSUME NEW k \in Intermediates
      PROVE  /\ net'[SplitOf(k)] \in {0, 1}
             /\ net'[Back(SplitOf(k))]
                  = (IF <<k, k>> \in Arcs THEN Plenty ELSE 0) + (1 - net'[SplitOf(k)])
             /\ net'[SplitOf(k)] = 0 <=> UsedAfter(H, k)
  <2>1. SplitOf(k) \in DOMAIN net /\ Back(SplitOf(k)) \in DOMAIN net
    BY <1>4, NetworkArcs
  <2>2. Back(Back(SplitOf(k))) = SplitOf(k)
    BY DEF SplitOf, Back
  <2>3. /\ SplitOf(k) \in H => net[SplitOf(k)] # 0
        /\ Back(SplitOf(k)) \in H => net[SplitOf(k)] = 0
    BY <1>1, <1>6, TrailIsNew DEF Used
  <2>4. PICK n : n = net[SplitOf(k)]
    OBVIOUS
  <2>5. PICK x : x = IF <<k, k>> \in Arcs THEN Plenty ELSE 0
    OBVIOUS
  <2>6. x \in Nat /\ n \in {0, 1} /\ net[Back(SplitOf(k))] = x + (1 - n)
    BY <1>6, <1>7, <2>4, <2>5 DEF Network
  <2>7. /\ net'[SplitOf(k)] = IF SplitOf(k) \in H THEN n - 1
                              ELSE IF Back(SplitOf(k)) \in H THEN n + 1 ELSE n
        /\ net'[Back(SplitOf(k))] = IF Back(SplitOf(k)) \in H THEN (x + (1 - n)) - 1
                                    ELSE IF SplitOf(k) \in H THEN (x + (1 - n)) + 1 ELSE x + (1 - n)
    BY <1>1, <2>1, <2>2, <2>4, <2>6
  <2>8. CASE SplitOf(k) \in H
    <3>1. n = 1 /\ Back(SplitOf(k)) \notin H
      BY <1>5, <2>3, <2>4, <2>6, <2>8
    <3>2. net'[SplitOf(k)] = 0 /\ net'[Back(SplitOf(k))] = x + 1
      BY <2>6, <2>7, <2>8, <3>1
    <3> QED
      BY <2>5, <2>6, <2>8, <3>2 DEF UsedAfter
  <2>9. CASE SplitOf(k) \notin H /\ Back(SplitOf(k)) \in H
    <3>1. n = 0
      BY <2>3, <2>4, <2>9
    <3>2. net'[SplitOf(k)] = 1 /\ net'[Back(SplitOf(k))] = x
      BY <2>6, <2>7, <2>9, <3>1
    <3> QED
      BY <2>5, <2>6, <2>9, <3>2 DEF UsedAfter
  <2>10. CASE SplitOf(k) \notin H /\ Back(SplitOf(k)) \notin H
    <3>1. net'[SplitOf(k)] = n /\ net'[Back(SplitOf(k))] = x + (1 - n)
      BY <2>7, <2>10
    <3> QED
      BY <2>4, <2>5, <2>6, <2>10, <3>1 DEF UsedAfter, Used
  <2> QED
    BY <2>8, <2>9, <2>10
<1>9. ASSUME NEW a \in Arcs, a[1] # a[2]
      PROVE  /\ net'[Back(CrossOf(a))] \in {0, 1}
             /\ net'[CrossOf(a)] = Plenty - net'[Back(CrossOf(a))]
             /\ net'[Back(CrossOf(a))] = 1 <=> a \in After(H)
  <2>1. CrossOf(a) \in DOMAIN net /\ Back(CrossOf(a)) \in DOMAIN net
    BY <1>4, <1>9, NetworkArcs
  <2>2. Back(Back(CrossOf(a))) = CrossOf(a)
    BY DEF CrossOf, Back
  <2>3. PICK n : n = net[Back(CrossOf(a))]
    OBVIOUS
  <2>4. n \in {0, 1} /\ net[CrossOf(a)] = Plenty - n /\ (n = 1 <=> a \in Carried)
    BY <1>6, <1>9, <2>3 DEF Network, Carried
  <2>5. /\ a \in Plus(H) <=> CrossOf(a) \in H
        /\ a \in Minus(H) <=> a \in Carried /\ Back(CrossOf(a)) \in H
        /\ a \in Plus(H) => a \notin Carried
    BY <1>1, <1>6, <1>9, TrailIsNew DEF Plus, Minus
  <2>6. Back(CrossOf(a)) \in H => a \in Carried
    <3>1. Back(CrossOf(a)) \in H => net[Back(CrossOf(a))] > 0
      BY <1>1 DEF IsTrail, Open
    <3> QED
      BY <2>3, <2>4, <3>1
  <2>7. /\ net'[Back(CrossOf(a))] = IF Back(CrossOf(a)) \in H THEN n - 1
                                    ELSE IF CrossOf(a) \in H THEN n + 1 ELSE n
        /\ net'[CrossOf(a)] = IF CrossOf(a) \in H THEN (Plenty - n) - 1
                              ELSE IF Back(CrossOf(a)) \in H THEN (Plenty - n) + 1 ELSE Plenty - n
    BY <1>1, <2>1, <2>2, <2>3, <2>4
  <2>8. CASE CrossOf(a) \in H
    <3>1. n = 0 /\ Back(CrossOf(a)) \notin H
      BY <1>5, <2>4, <2>5, <2>8
    <3>2. net'[Back(CrossOf(a))] = 1 /\ net'[CrossOf(a)] = Plenty - 1
      BY <1>7, <2>7, <2>8, <3>1
    <3> QED
      BY <2>5, <2>8, <3>2 DEF After
  <2>9. CASE CrossOf(a) \notin H /\ Back(CrossOf(a)) \in H
    <3>1. n = 1
      BY <2>4, <2>6, <2>9
    <3>2. net'[Back(CrossOf(a))] = 0 /\ net'[CrossOf(a)] = Plenty
      BY <1>7, <2>7, <2>9, <3>1
    <3> QED
      BY <1>7, <2>5, <2>6, <2>9, <3>2 DEF After
  <2>10. CASE CrossOf(a) \notin H /\ Back(CrossOf(a)) \notin H
    <3>1. net'[Back(CrossOf(a))] = n /\ net'[CrossOf(a)] = Plenty - n
      BY <2>7, <2>10
    <3> QED
      BY <2>4, <2>5, <2>10, <3>1 DEF After
  <2> QED
    BY <2>8, <2>9, <2>10
<1>10. Network'
  <2>1. \A k \in Intermediates :
          /\ net'[SplitOf(k)] \in {0, 1}
          /\ net'[Back(SplitOf(k))]
               = (IF <<k, k>> \in Arcs THEN Plenty ELSE 0) + (1 - net'[SplitOf(k)])
    BY <1>8
  <2>2. \A a \in Arcs : a[1] # a[2] =>
          /\ net'[Back(CrossOf(a))] \in {0, 1}
          /\ net'[CrossOf(a)] = Plenty - net'[Back(CrossOf(a))]
    BY <1>9
  <2> QED
    BY <1>3, <1>4, <2>1, <2>2 DEF Network, SplitOf, CrossOf, Back
<1>11. Carried' = After(H)
  <2>1. After(H) \subseteq Arcs /\ \A a \in After(H) : a[1] # a[2]
    BY DEF After, Carried, Plus
  <2>2. Carried' = {a \in Arcs : a[1] # a[2] /\ net'[Back(CrossOf(a))] = 1}
    BY <1>3 DEF Carried, CrossOf, Back
  <2> QED
    BY <1>9, <2>1, <2>2
<1>12. Conserved'
  <2> SUFFICES ASSUME NEW k \in Intermediates PROVE Passes(Carried, k, Used(k))'
    BY <1>3 DEF Conserved
  <2>1. Used(k)' <=> UsedAfter(H, k)
    BY <1>8 DEF Used, SplitOf
  <2>2. Passes(After(H), k, UsedAfter(H, k))
    BY <1>1, <1>6, FlowPasses
  <2> QED
    BY <1>11, <2>1, <2>2 DEF Passes, Into, OutOf
<1>13. count' = Cardinality(OutOf(Carried, Root))'
  <2>1. Cardinality(OutOf(After(H), Root)) = Cardinality(OutOf(Carried, Root)) + 1
    BY <1>1, <1>6, TrailBegins
  <2>2. OutOf(Carried, Root)' = OutOf(After(H), Root)
    BY <1>11 DEF OutOf
  <2> QED
    BY <1>1, <2>1, <2>2 DEF UnitFlow
<1> QED
  BY <1>10, <1>12, <1>13 DEF UnitFlow

-----------------------------------------------------------------------------
(* As many disjoint trust paths as units flow.                              *)

IsApart(P) == \A p, q \in P : p # q => Between(p) \cap Between(q) = {}

\* Up to a depth of 3, a signature of one key between on another leads on to the target.
LEMMA ShortArcs ==
    ASSUME Indirect, maxDepth <= 3, NEW a \in Arcs
    PROVE  /\ a[1] = Root => maxDepth >= 2
           /\ a[1] # Root /\ a[2] # target => maxDepth = 3 /\ a[2] \in Build[target]
<1>1. Root \in Key /\ Question /\ maxDepth \in Nat
  BY DEF Indirect, TrustAssumption, Question
<1>2. PICK f : IsReach(f) /\ \A d \in 0..maxDepth : FromRoot[d] = f[d]
  BY <1>1, FromRootIs
<1>3. PICK g : IsReachTo(g) /\ \A d \in 0..maxDepth : ToTarget[d] = g[d]
  BY <1>1, ToTargetIs
<1>4. PICK d \in 0..(maxDepth - 1) : a[1] \in FromRoot[d] /\ a[2] \in ToTarget[maxDepth - 1 - d]
  BY DEF Arcs
<1>5. d \in 0..maxDepth /\ maxDepth - 1 - d \in 0..maxDepth /\ d \in Nat /\ maxDepth - 1 - d \in Nat
  BY <1>1, <1>4
<1>6. a[1] \in f[d] /\ a[2] \in g[maxDepth - 1 - d]
  BY <1>2, <1>3, <1>4, <1>5
<1>7. f[0] = {Root} /\ g[0] = {target} /\ g[1] = {target} \cup Build[target]
  <2>1. f[0] = {Root} /\ g[0] = {target} /\ g[0 + 1] = Backward(g[0])
    BY <1>2, <1>3 DEF IsReach, IsReachTo
  <2> QED
    BY <2>1 DEF Backward
<1>8. d = 0 => a[1] = Root
  BY <1>6, <1>7
<1>9. maxDepth - 1 - d = 0 => a[2] = target
  BY <1>6, <1>7
<1>10. ASSUME a[1] = Root PROVE maxDepth >= 2
  <2>1. a[2] # target
    BY <1>10, ArcsAre
  <2>2. maxDepth - 1 - d # 0
    BY <1>9, <2>1
  <2> QED
    BY <1>1, <1>5, <2>2
<1>11. ASSUME a[1] # Root, a[2] # target PROVE maxDepth = 3 /\ a[2] \in Build[target]
  <2>1. d # 0 /\ maxDepth - 1 - d # 0
    BY <1>8, <1>9, <1>11
  <2>2. maxDepth = 3 /\ maxDepth - 1 - d = 1
    BY <1>1, <1>5, <2>1
  <2> QED
    BY <1>6, <1>7, <1>11, <2>2
<1> QED
  BY <1>10, <1>11

\* The keys between on the path that begins with the signature a.
Along(p, a) ==
    /\ a[2] \in Between(p)
    /\ \A x \in Between(p) : x \in Intermediates /\ (x = a[2] \/ <<a[2], x>> \in Carried)

\* A unit that leaves root comes to the target along a trust path.
LEMMA UnitHasPath ==
    ASSUME Indirect, UnitFlow, maxDepth <= 3, NEW a \in OutOf(Carried, Root)
    PROVE  \E p \in TrustPaths : Along(p, a)
<1>1. Question /\ Root \in Key /\ target \in Key /\ target # Root /\ maxDepth \in Nat
  BY DEF Indirect, TrustAssumption, Question
<1>2. \A b \in Carried : b \in Arcs /\ b[1] # b[2] /\ b = <<b[1], b[2]>> /\ b[1] \in Build[b[2]]
  BY ArcsAre DEF Carried
<1>3. a \in Carried /\ a[1] = Root
  BY DEF OutOf
<1>4. PICK k \in Intermediates : k = a[2]
  BY <1>2, <1>3, ArcsAre
<1>5. k \in Key /\ k # Root /\ k # target /\ Root \in Build[k] /\ maxDepth >= 2
  BY <1>2, <1>3, <1>4, ArcsAre, ShortArcs
<1>6. \E b : OutOf(Carried, k) = {b}
  <2>1. a \in Into(Carried, k) /\ Passes(Carried, k, Used(k))
    BY <1>3, <1>4 DEF Into, UnitFlow, Conserved
  <2> QED
    BY <2>1 DEF Passes
<1>7. PICK b \in Carried : b[1] = k
  BY <1>6 DEF OutOf
<1>8. PICK m : m = b[2]
  OBVIOUS
<1>9. b \in Arcs /\ b = <<k, m>> /\ k # m /\ k \in Build[m] /\ (m = target \/ m \in Intermediates)
  BY <1>2, <1>7, <1>8, ArcsAre
<1>10. CASE m = target
  <2> DEFINE p == <<Root, k, target>>
  <2>1. p \in Seq(Key) /\ Len(p) = 3 /\ p[1] = Root /\ p[2] = k /\ p[3] = target
    BY <1>1, <1>5
  <2> HIDE DEF p
  <2>2. \A i \in 1..3 : i = 1 \/ i = 2 \/ i = 3
    OBVIOUS
  <2>3. \A i, j \in 1..Len(p) : p[i] = p[j] => i = j
    BY <1>1, <1>5, <2>1, <2>2
  <2>4. \A i \in 1..(Len(p) - 1) : p[i] \in Build[p[i + 1]]
    <3>1. \A i \in 1..(Len(p) - 1) : i = 1 \/ i = 2
      BY <2>1
    <3> QED
      BY <1>5, <1>9, <1>10, <2>1, <3>1
  <2>5. p \in TrustPaths
    <3>1. IsPath(p)
      BY <2>1, <2>3, <2>4 DEF IsPath
    <3>2. Len(p) >= 2 /\ Len(p) <= maxDepth + 1 /\ p[Len(p)] = target
      BY <1>1, <1>5, <2>1
    <3> QED
      BY <1>1, <2>1, <3>1, <3>2, PathIsTrustPath
  <2>6. Between(p) = {k}
    <3>1. \A i \in 2..(Len(p) - 1) : i = 2
      BY <2>1
    <3>2. 2 \in 2..(Len(p) - 1)
      BY <2>1
    <3> QED
      BY <2>1, <3>1, <3>2 DEF Between
  <2> QED
    BY <1>4, <2>5, <2>6 DEF Along
<1>11. CASE m # target
  <2>1. m \in Intermediates /\ m \in Key /\ m # Root /\ m # target
    BY <1>9, <1>11, ArcsAre
  <2>2. maxDepth = 3 /\ m \in Build[target]
    BY <1>5, <1>8, <1>9, <1>11, <1>7, ShortArcs
  <2> DEFINE p == <<Root, k, m, target>>
  <2>3. p \in Seq(Key) /\ Len(p) = 4 /\ p[1] = Root /\ p[2] = k /\ p[3] = m /\ p[4] = target
    BY <1>1, <1>5, <2>1
  <2> HIDE DEF p
  <2>4. \A i \in 1..4 : i = 1 \/ i = 2 \/ i = 3 \/ i = 4
    OBVIOUS
  <2>5. \A i, j \in 1..Len(p) : p[i] = p[j] => i = j
    BY <1>1, <1>5, <1>9, <2>1, <2>3, <2>4
  <2>6. \A i \in 1..(Len(p) - 1) : p[i] \in Build[p[i + 1]]
    <3>1. \A i \in 1..(Len(p) - 1) : i = 1 \/ i = 2 \/ i = 3
      BY <2>3
    <3> QED
      BY <1>5, <1>9, <2>2, <2>3, <3>1
  <2>7. p \in TrustPaths
    <3>1. IsPath(p)
      BY <2>3, <2>5, <2>6 DEF IsPath
    <3>2. Len(p) >= 2 /\ Len(p) <= maxDepth + 1 /\ p[Len(p)] = target
      BY <2>2, <2>3
    <3> QED
      BY <1>1, <2>3, <3>1, <3>2, PathIsTrustPath
  <2>8. Between(p) = {k, m}
    <3>1. \A i \in 2..(Len(p) - 1) : i = 2 \/ i = 3
      BY <2>3
    <3>2. 2 \in 2..(Len(p) - 1) /\ 3 \in 2..(Len(p) - 1)
      BY <2>3
    <3> QED
      BY <2>3, <3>1, <3>2 DEF Between
  <2>9. <<k, m>> \in Carried
    BY <1>7, <1>9
  <2> QED
    BY <1>4, <2>1, <2>7, <2>8, <2>9 DEF Along
<1> QED
  BY <1>10, <1>11

\* The paths of two units have no key between in common.
LEMMA UnitsApart ==
    ASSUME Indirect, UnitFlow, NEW a \in OutOf(Carried, Root), NEW b \in OutOf(Carried, Root),
           a # b, NEW p, NEW q, Along(p, a), Along(q, b)
    PROVE  Between(p) \cap Between(q) = {}
<1>1. a \in Carried /\ b \in Carried /\ a = <<Root, a[2]>> /\ b = <<Root, b[2]>> /\ a[2] # b[2]
  BY ArcsAre DEF OutOf, Carried
<1>2. a[2] \in Intermediates /\ b[2] \in Intermediates /\ a[2] # Root /\ b[2] # Root
  BY ArcsAre DEF OutOf, Carried
<1>3. \A x \in Intermediates : \A c, d \in Carried : c[2] = x /\ d[2] = x => c = d
  <2> SUFFICES ASSUME NEW x \in Intermediates, NEW c \in Into(Carried, x), NEW d \in Into(Carried, x)
               PROVE  c = d
    BY DEF Into
  <2>1. Passes(Carried, x, Used(x))
    BY DEF UnitFlow, Conserved
  <2> QED
    BY <2>1 DEF Passes
<1>4. ASSUME NEW x \in Between(p), x \in Between(q) PROVE FALSE
  <2>1. /\ x \in Intermediates /\ (x = a[2] \/ <<a[2], x>> \in Carried)
        /\ x = b[2] \/ <<b[2], x>> \in Carried
    BY <1>4 DEF Along
  <2>2. CASE x = a[2]
    <3>1. <<b[2], a[2]>> \in Carried /\ <<Root, a[2]>> \in Carried
      BY <1>1, <2>1, <2>2
    <3>2. <<b[2], a[2]>> = <<Root, a[2]>>
      BY <1>2, <1>3, <3>1
    <3> QED
      BY <1>2, <3>2
  <2>3. CASE x = b[2]
    <3>1. <<a[2], b[2]>> \in Carried /\ <<Root, b[2]>> \in Carried
      BY <1>1, <2>1, <2>3
    <3>2. <<a[2], b[2]>> = <<Root, b[2]>>
      BY <1>2, <1>3, <3>1
    <3> QED
      BY <1>2, <3>2
  <2>4. CASE x # a[2] /\ x # b[2]
    <3>1. <<a[2], x>> \in Carried /\ <<b[2], x>> \in Carried
      BY <2>1, <2>4
    <3>2. <<a[2], x>> = <<b[2], x>>
      BY <1>3, <2>1, <3>1
    <3> QED
      BY <1>1, <3>2
  <2> QED
    BY <2>2, <2>3, <2>4
<1> QED
  BY <1>4

\* So there are as many disjoint trust paths as units.
LEMMA AsManyPaths ==
    ASSUME Indirect, UnitFlow, maxDepth <= 3
    PROVE  \E P \in SUBSET TrustPaths : IsApart(P) /\ Cardinality(P) = count
<1> DEFINE D == OutOf(Carried, Root)
           f == [a \in D |-> CHOOSE p \in TrustPaths : Along(p, a)]
           P == {f[a] : a \in D}
<1>1. \A a \in D : f[a] \in TrustPaths /\ Along(f[a], a)
  BY UnitHasPath
<1>2. IsFiniteSet(D) /\ count = Cardinality(D)
  <2>1. D \subseteq Arcs
    BY DEF OutOf, Carried
  <2> QED
    BY <2>1, ArcsAre, FS_Subset DEF UnitFlow
<1>3. f \in [D -> P]
  OBVIOUS
<1> HIDE DEF f
<1>4. ASSUME NEW a \in D, NEW b \in D, a # b
      PROVE  f[a] # f[b] /\ Between(f[a]) \cap Between(f[b]) = {}
  <2>1. Between(f[a]) \cap Between(f[b]) = {}
    BY <1>1, <1>4, UnitsApart
  <2>2. a[2] \in Between(f[a])
    BY <1>1 DEF Along
  <2> QED
    BY <2>1, <2>2
<1>5. P \in SUBSET TrustPaths /\ IsApart(P)
  <2>1. P \in SUBSET TrustPaths
    BY <1>1
  <2>2. ASSUME NEW p \in P, NEW q \in P, p # q PROVE Between(p) \cap Between(q) = {}
    <3>1. PICK a \in D, b \in D : p = f[a] /\ q = f[b]
      OBVIOUS
    <3> QED
      BY <1>4, <2>2, <3>1
  <2> QED
    BY <2>1, <2>2 DEF IsApart
<1>6. f \in Bijection(D, P)
  <2>1. \A a, b \in D : f[a] = f[b] => a = b
    BY <1>4
  <2>2. \A p \in P : \E a \in D : f[a] = p
    OBVIOUS
  <2> QED
    BY <1>3, <2>1, <2>2 DEF Bijection, Injection, Surjection, IsInjective
<1>7. Cardinality(P) = Cardinality(D)
  <2> HIDE DEF P, D
  <2> QED
    BY <1>2, <1>6, FS_Bijection DEF ExistsBijection
<1> QED
  BY <1>2, <1>5, <1>7

-----------------------------------------------------------------------------
(* No more disjoint trust paths than units, once no path augments the flow. *)

\* The vertices that capacity is left on a way to.
Reached == {v \in Vertex : \E q : IsWay(Open, q, v)}

\* A way goes on wherever there is capacity left.
LEMMA ReachedGoesOn ==
    ASSUME Root \in Key, Open \subseteq Vertex \X Vertex, NEW u \in Reached, NEW v, <<u, v>> \in Open
    PROVE  v \in Reached
<1>1. v \in Vertex
  OBVIOUS
<1>2. PICK q : IsWay(Open, q, u)
  BY DEF Reached
<1>3. IsWay(Open, Append(q, v), v)
  BY <1>1, <1>2, WayGoesOn
<1> QED
  BY <1>1, <1>3 DEF Reached

\* The bound on the rounds of the search is enough: it finds Sink if any way leads there.
LEMMA SinkNotReached ==
    ASSUME TrustAssumption, Typed, AugmentingPaths = {}
    PROVE  Sink \notin Reached
<1> SUFFICES ASSUME NEW q, IsWay(Open, q, Sink) PROVE FALSE
  BY DEF Reached
<1>1. Root \in Key /\ Open \subseteq Vertex \X Vertex
  BY DEF Open, Typed, TrustAssumption
<1>2. PICK g : IsSearch(g) /\ AugmentingPaths = {p \in g[2 * Cardinality(Key)] : p[Len(p)] = Sink}
  BY <1>1, SearchIs
<1>3. PICK m : m = 2 * Cardinality(Key)
  OBVIOUS
<1>4. m \in Nat /\ IsFiniteSet(Vertex) /\ Cardinality(Vertex) = m
  <2>1. IsFiniteSet(Key) /\ Cardinality(Key) \in Nat
    BY FS_CardinalityType DEF TrustAssumption
  <2>2. IsFiniteSet({"in"}) /\ Cardinality({"in"}) = 1
    BY FS_Singleton
  <2>3. IsFiniteSet({"in"} \cup {"out"}) /\ Cardinality({"in"} \cup {"out"}) = 1 + 1
    <3>1. "out" \notin {"in"}
      OBVIOUS
    <3>2. /\ IsFiniteSet({"in"} \cup {"out"})
          /\ Cardinality({"in"} \cup {"out"})
               = IF "out" \in {"in"} THEN Cardinality({"in"}) ELSE Cardinality({"in"}) + 1
      BY <2>2, FS_AddElement, Zenon
    <3> QED
      BY <2>2, <3>1, <3>2
  <2>4. {"in"} \cup {"out"} = {"in", "out"}
    OBVIOUS
  <2>5. IsFiniteSet({"in", "out"}) /\ Cardinality({"in", "out"}) = 2
    BY <2>3, <2>4
  <2>6. IsFiniteSet(Vertex) /\ Cardinality(Vertex) = Cardinality(Key) * 2
    BY <2>1, <2>5, FS_Product DEF Vertex
  <2> QED
    BY <1>3, <2>1, <2>6
<1>5. PICK n \in Nat : Len(q) = n + 1
  <2>1. Len(q) \in Nat /\ Len(q) >= 1
    BY DEF IsWay
  <2>2. Len(q) - 1 \in Nat /\ Len(q) = (Len(q) - 1) + 1
    BY <2>1
  <2> QED
    BY <2>2
<1>6. Found(g, n)
  BY <1>1, <1>2, <1>5, SearchFindsSink
<1>7. PICK p \in g[n] : p[Len(p)] = Sink
  BY <1>6 DEF Found
<1>8. IsWay(Open, p, Sink) /\ \A i, j \in 1..Len(p) : p[i] = p[j] => i = j
  BY <1>1, <1>2, <1>7, SearchHasWays, SearchNeverReturns
<1>9. Len(p) <= m + 1
  <2>1. PICK l : l = Len(p)
    OBVIOUS
  <2>2. l \in Nat /\ p \in [1..l -> Vertex]
    BY <1>8, <2>1 DEF IsWay
  <2>3. p \in Injection(1..l, Vertex)
    BY <1>8, <2>1, <2>2 DEF Injection, IsInjective
  <2>4. Cardinality(1..l) <= m
    BY <1>4, <2>3, FS_Injection
  <2>5. Cardinality(1..l) = l
    <3>1. 1 \in Int /\ l \in Int
      BY <2>2
    <3>2. Cardinality(1..l) = IF 1 > l THEN 0 ELSE l - 1 + 1
      BY <3>1, FS_Interval
    <3> QED
      BY <2>2, <3>2
  <2> QED
    BY <1>4, <2>1, <2>2, <2>4, <2>5
<1>10. Found(g, m)
  BY <1>1, <1>2, <1>4, <1>8, <1>9, SearchFindsSink
<1> QED
  BY <1>2, <1>3, <1>10 DEF Found

\* The keys that a way comes to, and no further.
Cuts == {k \in Intermediates : <<k, "in">> \in Reached /\ <<k, "out">> \notin Reached}

\* Each trust path has a key there.
LEMMA PathIsCut ==
    ASSUME Indirect, Typed, UnitFlow, AugmentingPaths = {}, NEW p \in TrustPaths
    PROVE  \E k \in Cuts : k \in Between(p)
<1> SUFFICES ASSUME \A k \in Between(p) : k \notin Cuts PROVE FALSE
  OBVIOUS
<1>1. Root \in Key /\ target # Root /\ Open \subseteq Vertex \X Vertex
  BY DEF Open, Typed, Indirect, TrustAssumption
<1>2. PICK n : n = Len(p)
  OBVIOUS
<1>3. /\ p \in Seq(Key) /\ n \in Nat /\ n >= 2 /\ p[1] = Root /\ p[n] = target
      /\ \A i, j \in 1..n : p[i] = p[j] => i = j
  BY <1>2, TrustPathIsPath DEF IsPath, Indirect
<1>4. /\ \A i \in 2..(n - 1) : p[i] \in Intermediates
      /\ \A i \in 1..(n - 1) : <<p[i], p[i + 1]>> \in Arcs
  BY <1>1, <1>2, TrustPathArcs DEF Indirect
<1>5. \A i \in 1..(n - 1) : <<<<p[i], "out">>, <<p[i + 1], "in">>>> \in Open
  <2> SUFFICES ASSUME NEW i \in 1..(n - 1)
               PROVE  <<<<p[i], "out">>, <<p[i + 1], "in">>>> \in Open
    OBVIOUS
  <2>1. PICK a \in Arcs : a = <<p[i], p[i + 1]>>
    BY <1>4
  <2>2. i \in 1..n /\ i + 1 \in 1..n /\ i # i + 1
    BY <1>3
  <2>3. a[1] # a[2]
    BY <1>3, <2>1, <2>2
  <2>4. OpenFrom(CrossOf(a))
    BY <2>3 DEF OpenFrom
  <2>5. CrossOf(a) \in Open
    BY <2>4, OpenArcs DEF UnitFlow
  <2> QED
    BY <2>1, <2>5 DEF CrossOf
<1>6. <<Root, "out">> \in Reached
  BY <1>1, WayOfOne DEF Reached, Source
<1> DEFINE ok == {j \in Nat : j + 2 <= n => <<p[j + 2], "in">> \in Reached}
<1>7. 0 \in ok
  <2>1. 1 \in 1..(n - 1)
    BY <1>3
  <2>2. <<<<p[1], "out">>, <<p[1 + 1], "in">>>> \in Open
    BY <1>5, <2>1
  <2>3. <<<<Root, "out">>, <<p[2], "in">>>> \in Open
    BY <1>3, <2>2
  <2>4. <<p[2], "in">> \in Reached
    BY <1>1, <1>6, <2>3, ReachedGoesOn, Zenon
  <2> QED
    BY <2>4
<1>8. ASSUME NEW j \in Nat, j \in ok PROVE j + 1 \in ok
  <2> SUFFICES ASSUME (j + 1) + 2 <= n PROVE <<p[(j + 1) + 2], "in">> \in Reached
    OBVIOUS
  <2>1. PICK i : i = j + 2
    OBVIOUS
  <2>2. i \in 2..(n - 1) /\ i \in 1..(n - 1) /\ (j + 1) + 2 = i + 1 /\ j + 2 <= n
    BY <1>3, <2>1
  <2>3. <<p[i], "in">> \in Reached
    BY <1>8, <2>1, <2>2
  <2>4. p[i] \in Intermediates /\ p[i] \in Between(p)
    BY <1>2, <1>4, <2>2 DEF Between
  <2>5. <<p[i], "out">> \in Reached
    BY <2>3, <2>4 DEF Cuts
  <2>6. <<<<p[i], "out">>, <<p[i + 1], "in">>>> \in Open
    BY <1>5, <2>2
  <2>7. <<p[i + 1], "in">> \in Reached
    BY <1>1, <2>5, <2>6, ReachedGoesOn
  <2> QED
    BY <2>2, <2>7
<1> HIDE DEF ok
<1>9. Nat \subseteq ok
  BY <1>7, <1>8, AllNumbers
<1>10. Sink \in Reached
  <2>1. n - 2 \in Nat /\ (n - 2) + 2 = n
    BY <1>3
  <2>2. n - 2 \in ok
    BY <1>9, <2>1
  <2>3. <<p[n], "in">> \in Reached
    BY <1>3, <2>1, <2>2 DEF ok
  <2> QED
    BY <1>3, <2>3 DEF Sink
<1> QED
  BY <1>10, SinkNotReached DEF Indirect

\* The keys used that a way comes to, and those it goes on from.
UsedIn == {k \in Intermediates : Used(k) /\ <<k, "in">> \in Reached}
UsedOut == {k \in Intermediates : Used(k) /\ <<k, "out">> \in Reached}

\* Where a way comes to a unit, it goes back along it.
LEMMA ReachedBack ==
    ASSUME Indirect, Typed, UnitFlow
    PROVE  /\ UsedOut \subseteq UsedIn /\ Cuts = UsedIn \ UsedOut
           /\ \A a \in Carried : a[2] \in UsedIn => a[1] = Root \/ a[1] \in UsedOut
<1>1. Root \in Key /\ Open \subseteq Vertex \X Vertex
  BY DEF Open, Typed, Indirect, TrustAssumption
<1>2. Network /\ Conserved
  BY DEF UnitFlow
<1>3. \A e : e \in Open <=> OpenFrom(e)
  BY <1>2, OpenArcs
<1>4. UsedOut \subseteq UsedIn
  <2> SUFFICES ASSUME NEW k \in UsedOut PROVE k \in UsedIn
    OBVIOUS
  <2>1. k \in Intermediates /\ Used(k) /\ <<k, "out">> \in Reached
    BY DEF UsedOut
  <2>2. OpenFrom(Back(SplitOf(k)))
    BY <2>1 DEF OpenFrom
  <2>3. Back(SplitOf(k)) = <<<<k, "out">>, <<k, "in">>>>
    BY DEF Back, SplitOf
  <2>4. <<<<k, "out">>, <<k, "in">>>> \in Open
    BY <1>3, <2>2, <2>3
  <2>5. <<k, "in">> \in Reached
    BY <1>1, <2>1, <2>4, ReachedGoesOn
  <2> QED
    BY <2>1, <2>5 DEF UsedIn
<1>5. Cuts = UsedIn \ UsedOut
  <2>1. ASSUME NEW k \in Cuts PROVE Used(k)
    <3>1. k \in Intermediates /\ <<k, "in">> \in Reached /\ <<k, "out">> \notin Reached
      BY DEF Cuts
    <3>2. SplitOf(k) \notin Open
      BY <1>1, <3>1, ReachedGoesOn DEF SplitOf
    <3>3. ~OpenFrom(SplitOf(k))
      BY <1>3, <3>2
    <3> QED
      BY <3>1, <3>3 DEF OpenFrom
  <2> QED
    BY <2>1 DEF Cuts, UsedIn, UsedOut
<1>6. ASSUME NEW a \in Carried, a[2] \in UsedIn, a[1] # Root PROVE a[1] \in UsedOut
  <2>1. a[1] \in Intermediates
    BY <1>6, ArcsAre DEF Carried
  <2>2. OpenFrom(Back(CrossOf(a)))
    BY DEF OpenFrom
  <2>3. Back(CrossOf(a)) = <<<<a[2], "in">>, <<a[1], "out">>>>
    BY DEF Back, CrossOf
  <2>4. <<<<a[2], "in">>, <<a[1], "out">>>> \in Open
    BY <1>3, <2>2, <2>3
  <2>5. <<a[1], "out">> \in Reached
    BY <1>1, <1>6, <2>4, ReachedGoesOn DEF UsedIn
  <2>6. a \in OutOf(Carried, a[1]) /\ Passes(Carried, a[1], Used(a[1]))
    BY <1>2, <2>1 DEF Conserved, OutOf
  <2>7. Used(a[1])
    BY <2>6 DEF Passes
  <2> QED
    BY <2>1, <2>5, <2>7 DEF UsedOut
<1> QED
  BY <1>4, <1>5, <1>6

\* As many of them as there are units.
LEMMA CutIsFlow ==
    ASSUME Indirect, Typed, UnitFlow
    PROVE  IsFiniteSet(Cuts) /\ Cardinality(Cuts) <= count
<1> DEFINE In == {a \in Carried : a[2] \in UsedIn}
           Out == {a \in Carried : a[1] \in UsedOut}
           D == OutOf(Carried, Root)
<1>1. Conserved /\ count = Cardinality(D)
  BY DEF UnitFlow
<1>2. \A a \in Carried : a = <<a[1], a[2]>>
  BY ArcsAre DEF Carried
<1>3. IsFiniteSet(Carried)
  <2>1. Carried \subseteq Arcs
    BY DEF Carried
  <2> QED
    BY <2>1, ArcsAre, FS_Subset
<1>4. IsFiniteSet(In) /\ IsFiniteSet(Out) /\ IsFiniteSet(D)
  <2>1. In \in SUBSET Carried /\ Out \in SUBSET Carried /\ D \in SUBSET Carried
    BY DEF OutOf
  <2> HIDE DEF In, Out, D
  <2> QED
    BY <1>3, <2>1, FS_Subset
<1>5. Cardinality(In) = Cardinality(UsedIn) /\ IsFiniteSet(UsedIn)
  <2> DEFINE f == [a \in In |-> a[2]]
  <2>1. f \in [In -> UsedIn]
    OBVIOUS
  <2>2. \A k \in UsedIn : \E a : Into(Carried, k) = {a}
    BY <1>1 DEF UsedIn, Conserved, Passes
  <2>3. ASSUME NEW a \in In, NEW b \in In, f[a] = f[b] PROVE a = b
    <3>1. PICK k \in UsedIn : k = a[2] /\ k = b[2]
      BY <2>3
    <3>2. a \in Into(Carried, k) /\ b \in Into(Carried, k)
      BY <3>1 DEF Into
    <3> QED
      BY <2>2, <3>2
  <2>4. ASSUME NEW k \in UsedIn PROVE \E a \in In : f[a] = k
    <3>1. PICK a : Into(Carried, k) = {a}
      BY <2>2
    <3>2. a \in In /\ a[2] = k
      BY <3>1 DEF Into
    <3> QED
      BY <3>2
  <2>5. f \in Bijection(In, UsedIn)
    <3> HIDE DEF f, In
    <3> QED
      BY <2>1, <2>3, <2>4 DEF Bijection, Injection, Surjection, IsInjective
  <2> HIDE DEF f, In
  <2> QED
    BY <1>4, <2>5, FS_Bijection DEF ExistsBijection
<1>6. Cardinality(Out) = Cardinality(UsedOut) /\ IsFiniteSet(UsedOut)
  <2> DEFINE f == [a \in Out |-> a[1]]
  <2>1. f \in [Out -> UsedOut]
    OBVIOUS
  <2>2. \A k \in UsedOut : \E a : OutOf(Carried, k) = {a}
    BY <1>1 DEF UsedOut, Conserved, Passes
  <2>3. ASSUME NEW a \in Out, NEW b \in Out, f[a] = f[b] PROVE a = b
    <3>1. PICK k \in UsedOut : k = a[1] /\ k = b[1]
      BY <2>3
    <3>2. a \in OutOf(Carried, k) /\ b \in OutOf(Carried, k)
      BY <3>1 DEF OutOf
    <3> QED
      BY <2>2, <3>2
  <2>4. ASSUME NEW k \in UsedOut PROVE \E a \in Out : f[a] = k
    <3>1. PICK a : OutOf(Carried, k) = {a}
      BY <2>2
    <3>2. a \in Out /\ a[1] = k
      BY <3>1 DEF OutOf
    <3> QED
      BY <3>2
  <2>5. f \in Bijection(Out, UsedOut)
    <3> HIDE DEF f, Out
    <3> QED
      BY <2>1, <2>3, <2>4 DEF Bijection, Injection, Surjection, IsInjective
  <2> HIDE DEF f, Out
  <2> QED
    BY <1>4, <2>5, FS_Bijection DEF ExistsBijection
<1>7. In \subseteq D \cup Out
  BY ReachedBack DEF OutOf
<1>8. UsedOut \subseteq UsedIn /\ Cuts = UsedIn \ UsedOut
  BY ReachedBack
<1> HIDE DEF In, Out, D
<1>9. Cardinality(In) <= Cardinality(D) + Cardinality(Out)
  <2>1. /\ IsFiniteSet(D \cup Out)
        /\ Cardinality(D \cup Out) = Cardinality(D) + Cardinality(Out) - Cardinality(D \cap Out)
    BY <1>4, FS_Union
  <2>2. IsFiniteSet(D \cap Out)
    BY <1>4, FS_Intersection
  <2>3. Cardinality(In) <= Cardinality(D \cup Out)
    BY <1>7, <2>1, FS_Subset
  <2>4. /\ Cardinality(D) \in Nat /\ Cardinality(Out) \in Nat /\ Cardinality(D \cap Out) \in Nat
        /\ Cardinality(In) \in Nat
    BY <1>4, <2>2, FS_CardinalityType
  <2> QED
    BY <2>1, <2>3, <2>4
<1>10. /\ IsFiniteSet(Cuts)
       /\ Cardinality(Cuts) = Cardinality(UsedIn) - Cardinality(UsedOut)
  <2>1. UsedIn \cap UsedOut = UsedOut
    BY <1>8
  <2> QED
    BY <1>5, <1>8, <2>1, FS_Difference
<1>11. Cardinality(D) \in Nat /\ Cardinality(In) \in Nat /\ Cardinality(Out) \in Nat
  BY <1>4, FS_CardinalityType
<1> QED
  BY <1>1, <1>5, <1>6, <1>9, <1>10, <1>11

\* Disjoint trust paths have each a key of their own there.
LEMMA NoMorePaths ==
    ASSUME Indirect, Typed, UnitFlow, AugmentingPaths = {},
           NEW P \in SUBSET TrustPaths, IsApart(P)
    PROVE  IsFiniteSet(P) /\ Cardinality(P) <= count
<1> DEFINE f == [p \in P |-> CHOOSE k \in Cuts : k \in Between(p)]
<1>1. \A p \in P : f[p] \in Cuts /\ f[p] \in Between(p)
  BY PathIsCut
<1>2. f \in [P -> Cuts]
  BY <1>1
<1> HIDE DEF f
<1>3. \A p, q \in P : f[p] = f[q] => p = q
  BY <1>1 DEF IsApart
<1>4. f \in Injection(P, Cuts)
  BY <1>2, <1>3 DEF Injection, IsInjective
<1>5. IsFiniteSet(Cuts) /\ Cardinality(Cuts) <= count
  BY CutIsFlow
<1>6. IsFiniteSet(P) /\ Cardinality(P) <= Cardinality(Cuts)
  BY <1>4, <1>5, FS_Injection
<1>7. Cardinality(P) \in Nat /\ Cardinality(Cuts) \in Nat /\ count \in Nat
  <2>1. count = Cardinality(OutOf(Carried, Root)) /\ OutOf(Carried, Root) \subseteq Arcs
    BY DEF UnitFlow, OutOf, Carried
  <2>2. IsFiniteSet(OutOf(Carried, Root))
    BY <2>1, ArcsAre, FS_Subset
  <2> QED
    BY <1>5, <1>6, <2>1, <2>2, FS_CardinalityType
<1> QED
  BY <1>5, <1>6, <1>7

-----------------------------------------------------------------------------
(* The flow that is left when no path augments it is the most there is.     *)

\* MostDisjoint is the number of paths of a family that is as large as any.
LEMMA MostIs ==
    ASSUME NEW n \in Nat, NEW Q \in SUBSET TrustPaths, IsApart(Q), Cardinality(Q) = n,
           \A P \in SUBSET TrustPaths : IsApart(P) => IsFiniteSet(P) /\ Cardinality(P) <= n
    PROVE  MostDisjoint = n
<1> DEFINE apart == {P \in SUBSET TrustPaths : IsApart(P)}
           sizes == {Cardinality(P) : P \in apart}
<1>1. MostDisjoint = CHOOSE x \in sizes : \A P \in apart : Cardinality(P) <= x
  BY DEF MostDisjoint, IsApart
<1>2. n \in sizes /\ \A P \in apart : Cardinality(P) <= n
  OBVIOUS
<1>3. \A P \in apart : Cardinality(P) \in Nat
  BY FS_CardinalityType
<1>4. ASSUME NEW x \in sizes, \A P \in apart : Cardinality(P) <= x PROVE x = n
  <2>1. x \in Nat /\ x <= n
    BY <1>2, <1>3
  <2>2. n <= x
    BY <1>4
  <2> QED
    BY <2>1, <2>2
<1> HIDE DEF sizes, apart
<1>5. \E x \in sizes : \A P \in apart : Cardinality(P) <= x
  BY <1>2
<1>6. /\ MostDisjoint \in sizes
      /\ \A P \in apart : Cardinality(P) <= MostDisjoint
  BY <1>1, <1>5
<1> QED
  BY <1>4, <1>6

\* For a key that root has not signed itself.
DisjointInv ==
    method = "DisjointScore" /\ target # Root /\ Root \notin signers[target] =>
      /\ phase = "flow" /\ count > 0 => UnitFlow
      /\ phase = "done" /\ maxDepth <= 3 => count = MostDisjoint

\* The flow is one of units from the start.
LEMMA FlowIsOfUnits ==
    ASSUME Indirect, Flowing, method = "DisjointScore", DisjointInv, phase = "flow"
    PROVE  UnitFlow
<1>1. CASE count = 0
  BY <1>1, FreshFlow DEF Flowing
<1>2. CASE count # 0
  BY <1>2 DEF DisjointInv, Indirect, Flowing
<1> QED
  BY <1>1, <1>2

\* When the search finds no path any more, the flow is the most there is.
LEMMA SaturatedIsMost ==
    ASSUME Indirect, Typed, UnitFlow, count \in Nat, AugmentingPaths = {}, maxDepth <= 3
    PROVE  count = MostDisjoint
<1>1. PICK Q \in SUBSET TrustPaths : IsApart(Q) /\ Cardinality(Q) = count
  BY AsManyPaths
<1>2. \A P \in SUBSET TrustPaths : IsApart(P) => IsFiniteSet(P) /\ Cardinality(P) <= count
  BY NoMorePaths
<1> QED
  BY <1>1, <1>2, MostIs

\* Without a trust path there is nothing to count.
LEMMA NoneIsMost ==
    ASSUME TrustPaths = {}
    PROVE  MostDisjoint = 0
<1>1. {} \in SUBSET TrustPaths /\ IsApart({}) /\ Cardinality({}) = 0 /\ IsFiniteSet({})
  BY FS_EmptySet DEF IsApart
<1>2. \A P \in SUBSET TrustPaths : P = {}
  OBVIOUS
<1>3. \A P \in SUBSET TrustPaths : IsApart(P) => IsFiniteSet(P) /\ Cardinality(P) <= 0
  BY <1>1, <1>2
<1> QED
  BY <1>1, <1>3, MostIs

\* Each step keeps it.
LEMMA DisjointKept ==
    ASSUME TrustAssumption, FlowInv, DisjointInv, [Next]_vars
    PROVE  DisjointInv'
<1>1. UNCHANGED question
  BY DEF Next, Score, CountPaths, PyScore, PyCountPaths, DisjointScore, Augment, Answer,
         StartAt, vars
<1>2. /\ method' = method /\ target' = target /\ signers' = signers /\ maxDepth' = maxDepth
      /\ TrustPaths' = TrustPaths
  BY <1>1, FlowStays DEF FlowInv, question
<1>3. MostDisjoint' = MostDisjoint
  BY <1>2 DEF MostDisjoint, Between
<1> SUFFICES ASSUME method = "DisjointScore", target # Root, Root \notin signers[target]
             PROVE  /\ phase' = "flow" /\ count' > 0 => UnitFlow'
                    /\ phase' = "done" /\ maxDepth <= 3 => count' = MostDisjoint
  BY <1>2, <1>3 DEF DisjointInv
<1>4. Indirect /\ Flowing /\ Question /\ Root \in Key
  BY DEF FlowInv, Indirect, TrustAssumption
<1>5. CASE DisjointScore
  <2>1. count = 0
    BY <1>4, <1>5 DEF DisjointScore, Flowing
  <2>2. CASE target \notin FromRoot[maxDepth]
    <3>1. PICK g : IsReach(g) /\ \A d \in 0..maxDepth : FromRoot[d] = g[d]
      BY <1>4, FromRootIs
    <3>2. maxDepth \in 0..maxDepth
      BY <1>4 DEF Question
    <3>3. TrustPaths = {}
      BY <1>4, <2>2, <3>1, <3>2, ReachHasPath
    <3>4. phase' = "done" /\ count' = 0
      BY <1>5, <2>2 DEF DisjointScore, Answer
    <3> QED
      BY <3>3, <3>4, NoneIsMost
  <2>3. CASE target \in FromRoot[maxDepth]
    <3>1. phase' = "flow" /\ count' = 0
      BY <1>5, <2>1, <2>3 DEF DisjointScore
    <3> QED
      BY <3>1
  <2> QED
    BY <2>2, <2>3
<1>6. CASE Augment
  <2>1. phase = "flow" /\ phase' = "flow"
    BY <1>6 DEF Augment
  <2>2. UnitFlow /\ Typed
    BY <1>4, <2>1, FlowIsOfUnits DEF Flowing
  <2> QED
    BY <1>4, <1>6, <2>1, <2>2, RoundKeepsFlow
<1>7. CASE (Walked \/ Saturated) /\ Answer(count)
  <2>1. phase = "flow" /\ AugmentingPaths = {}
    BY <1>4, <1>7 DEF Flowing, Walked, Saturated
  <2>2. phase' = "done" /\ count' = count
    BY <1>7 DEF Answer
  <2>3. UnitFlow /\ Typed /\ count \in Nat
    BY <1>4, <2>1, FlowIsOfUnits DEF Flowing
  <2> QED
    BY <1>4, <2>1, <2>2, <2>3, SaturatedIsMost
<1>8. CASE UNCHANGED vars
  <2>1. phase' = phase /\ count' = count /\ net' = net
    BY <1>8 DEF vars
  <2>2. UnitFlow => UnitFlow'
    <3>1. /\ Intermediates' = Intermediates /\ Arcs' = Arcs /\ Plenty' = Plenty
          /\ Capacities' = Capacities
      BY <1>1 DEF question, Plenty, Capacities, Intermediates, Arcs, FromRoot, ToTarget, Build, Back
    <3>2. Network => Network'
      BY <2>1, <3>1 DEF Network, SplitOf, CrossOf, Back
    <3>3. Carried' = Carried /\ \A k : Used(k)' = Used(k)
      BY <2>1, <3>1 DEF Carried, Used, SplitOf, CrossOf, Back
    <3>4. Conserved => Conserved'
      BY <3>1, <3>3 DEF Conserved, Passes, Into, OutOf
    <3>5. OutOf(Carried, Root)' = OutOf(Carried, Root)
      BY <3>3 DEF OutOf
    <3> QED
      BY <2>1, <3>2, <3>4, <3>5 DEF UnitFlow
  <2> QED
    BY <2>1, <2>2 DEF DisjointInv
<1>9. CASE Score \/ CountPaths \/ PyScore \/ PyCountPaths
  BY <1>9 DEF Score, CountPaths, PyScore, PyCountPaths
<1> QED
  BY <1>5, <1>6, <1>7, <1>8, <1>9 DEF Next

\* For a key that root has not signed itself, and up to a depth of 3, disjointMaxFlow ends
\* with the largest number of disjoint trust paths: each unit that flows has a path of its
\* own, and the keys that the search comes to and not past are as many as the units, one
\* on every trust path.
THEOREM DisjointIsCounted == Spec => []DisjointCounted
<1>1. Init => DisjointInv
  BY DEF Init, DisjointInv
<1>2. FlowInv /\ DisjointInv /\ [Next]_vars => DisjointInv'
  BY TrustAssumption, DisjointKept
<1>3. DisjointInv => DisjointCounted
  BY DEF DisjointInv, DisjointCounted
<1> QED
  BY <1>1, <1>2, <1>3, FlowInvariant, PTL DEF Spec

=============================================================================
