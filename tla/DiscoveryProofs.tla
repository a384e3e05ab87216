--------------------------- MODULE DiscoveryProofs ---------------------------
(***************************************************************************)
(* What a search finds, for every network, all seeds, and any requests that *)
(* fail.                                                                    *)
(*                                                                          *)
(* A node is marked visited when it is queued, so each visited node is in   *)
(* one place: it has been asked, or is once in one of the queues.           *)
(***************************************************************************)
EXTENDS Discovery, FiniteSetTheorems, TLAPS

\* s lists the members of S, each once.
ListsOnce(s, S) == s \in Seq(S) /\ IsInjective(s) /\ Range(s) = S

\* Each visited node has been asked, or is in one of the queues, and in one place.
QueuesSound ==
    /\ ListsOnce(asked, Range(asked)) /\ ListsOnce(exact, Range(exact))
    /\ ListsOnce(allowAll, Range(allowAll)) /\ ListsOnce(normal, Range(normal))
    /\ Range(asked) \cap Range(exact) = {} /\ Range(asked) \cap Range(allowAll) = {}
    /\ Range(asked) \cap Range(normal) = {} /\ Range(exact) \cap Range(allowAll) = {}
    /\ Range(exact) \cap Range(normal) = {} /\ Range(allowAll) \cap Range(normal) = {}
    /\ visited = Range(asked) \cup Range(exact) \cup Range(allowAll) \cup Range(normal)
    /\ Range(Seeds) \subseteq visited

\* The node that is asked is one of those asked, and what for fits the search.
Busy == phase \in {"block", "blocks", "search", "peers"}
TurnSound ==
    /\ Busy => at \in Range(asked)
    /\ phase = "search" => method = "FindBlocksByEmail"
    /\ phase = "block" => method # "FindBlocksByEmail"
    /\ phase = "blocks" => method = "FindBlock with trust"

\* A node that answered has been heard, up to the request it is at.
PeersHeard ==
    \A n \in Answered :
      \/ DOMAIN lists[n] \subseteq visited
      \/ n = at /\ (Busy \/ (phase = "done" /\ score >= Threshold))

CopiesHeard ==
    method # "FindBlocksByEmail" =>
      \A n \in Answered : Wanted \in DOMAIN held[n] => copies # <<>> \/ (n = at /\ phase = "block")

MatchesHeard ==
    method = "FindBlocksByEmail" =>
      \A n \in Answered :
        Matching \cap DOMAIN held[n] \subseteq DOMAIN accumulated \/ (n = at /\ phase = "search")

\* What is kept of a key is a copy that some node had; of Wanted, none that a node showed
\* was longer.
KeptIsHeld ==
    \A k \in DOMAIN accumulated :
      \E m \in Range(asked) : k \in DOMAIN held[m] /\ accumulated[k] = held[m][k]

LongestKept ==
    method = "FindBlock with trust" =>
      \A n \in Answered : Wanted \in DOMAIN held[n] =>
        \/ /\ Wanted \in DOMAIN accumulated
           /\ Length(held[n][Wanted]) <= Length(accumulated[Wanted])
        \/ n = at /\ phase \in {"block", "blocks"}

\* The score is of what is kept, and a search ends with enough of it or when the loop does.
ScoreOfKept ==
    /\ score > 0 => method = "FindBlock with trust" /\ score = Score(accumulated)
    /\ phase # "done" => score = 0
    /\ phase = "done" /\ score < Threshold => ~GoesOn

\* The network stays the one that was given.
Typed == TypeOK /\ lists \in Lists /\ held \in Holdings

SearchInv ==
    /\ Typed /\ QueuesSound /\ TurnSound
    /\ Len(asked) <= maxNodes /\ failed \subseteq Range(asked)
    /\ PeersHeard /\ CopiesHeard /\ MatchesHeard
    /\ KeptIsHeld /\ LongestKept /\ ScoreOfKept

-----------------------------------------------------------------------------
(* Sequences in which nothing occurs twice.                                 *)

LEMMA NothingListed == ListsOnce(<<>>, {})
BY DEF ListsOnce, IsInjective, Range

LEMMA ListEmpty == ASSUME NEW S, NEW s, ListsOnce(s, S) PROVE s = <<>> <=> S = {}
BY DEF ListsOnce, IsInjective, Range

\* A list that is appended to another.
LEMMA ListConcat ==
    ASSUME NEW S, NEW T, S \cap T = {}, NEW s, ListsOnce(s, S), NEW t, ListsOnce(t, T)
    PROVE  ListsOnce(s \o t, S \cup T)
<1> DEFINE l == s \o t
<1>1. /\ s \in Seq(S) /\ t \in Seq(T) /\ Len(s) \in Nat /\ Len(t) \in Nat
      /\ DOMAIN s = 1 .. Len(s) /\ DOMAIN t = 1 .. Len(t)
  BY DEF ListsOnce
<1>2. /\ Len(l) = Len(s) + Len(t) /\ DOMAIN l = 1 .. Len(l)
      /\ \A i \in 1 .. Len(s) : l[i] = s[i]
      /\ \A i \in 1 .. Len(t) : l[Len(s) + i] = t[i]
  BY <1>1
<1>3. /\ \A i \in 1 .. Len(s) : s[i] \in S
      /\ \A i \in 1 .. Len(t) : t[i] \in T
  BY <1>1
<1>4. \A i \in 1 .. Len(l) : \/ i \in 1 .. Len(s) /\ l[i] \in S
                             \/ \E j \in 1 .. Len(t) : i = Len(s) + j /\ l[i] \in T
  <2> SUFFICES ASSUME NEW i \in 1 .. Len(l), i \notin 1 .. Len(s)
               PROVE  \E j \in 1 .. Len(t) : i = Len(s) + j /\ l[i] \in T
    BY <1>2, <1>3
  <2>1. i - Len(s) \in 1 .. Len(t) /\ i = Len(s) + (i - Len(s))
    BY <1>1, <1>2
  <2> QED
    BY <1>2, <1>3, <2>1
<1>5. l \in Seq(S \cup T)
  <2>1. s \in Seq(S \cup T) /\ t \in Seq(S \cup T)
    BY <1>1
  <2> QED
    BY <2>1
<1> HIDE DEF l
<1>6. IsInjective(l)
  <2> SUFFICES ASSUME NEW i \in 1 .. Len(l), NEW j \in 1 .. Len(l), l[i] = l[j]
               PROVE  i = j
    BY <1>2 DEF IsInjective
  <2>1. CASE i \in 1 .. Len(s) /\ j \in 1 .. Len(s)
    BY <1>1, <1>2, <2>1 DEF ListsOnce, IsInjective
  <2>2. CASE /\ \E k \in 1 .. Len(t) : i = Len(s) + k
             /\ \E k \in 1 .. Len(t) : j = Len(s) + k
    <3>1. PICK k \in 1 .. Len(t), h \in 1 .. Len(t) : i = Len(s) + k /\ j = Len(s) + h
      BY <2>2
    <3>2. t[k] = t[h]
      BY <1>2, <3>1
    <3>3. k = h
      BY <1>1, <3>2 DEF ListsOnce, IsInjective
    <3> QED
      BY <3>1, <3>3
  <2> QED
    BY <1>4, <2>1, <2>2
<1>7. Range(l) = S \cup T
  <2>1. \A x \in Range(l) : x \in S \cup T
    BY <1>2, <1>4 DEF Range
  <2>2. \A x \in S : x \in Range(l)
    <3> SUFFICES ASSUME NEW x \in S PROVE \E i \in 1 .. Len(l) : l[i] = x
      BY <1>2 DEF Range
    <3>1. PICK i \in 1 .. Len(s) : s[i] = x
      BY <1>1 DEF ListsOnce, Range
    <3>2. i \in 1 .. Len(l) /\ l[i] = x
      BY <1>1, <1>2, <3>1
    <3> QED
      BY <3>2
  <2>3. \A x \in T : x \in Range(l)
    <3> SUFFICES ASSUME NEW x \in T PROVE \E i \in 1 .. Len(l) : l[i] = x
      BY <1>2 DEF Range
    <3>1. PICK i \in 1 .. Len(t) : t[i] = x
      BY <1>1 DEF ListsOnce, Range
    <3>2. Len(s) + i \in 1 .. Len(l) /\ l[Len(s) + i] = x
      BY <1>1, <1>2, <3>1
    <3> QED
      BY <3>2
  <2> QED
    BY <2>1, <2>2, <2>3
<1> QED
  BY <1>5, <1>6, <1>7 DEF ListsOnce, l

\* A list without its first member.
LEMMA ListTail ==
    ASSUME NEW S, NEW s, ListsOnce(s, S), s # <<>>
    PROVE  Head(s) \in S /\ ListsOnce(Tail(s), S \ {Head(s)})
<1> DEFINE t == Tail(s)
<1>1. /\ s \in Seq(S) /\ Len(s) \in Nat /\ Len(s) >= 1 /\ DOMAIN s = 1 .. Len(s)
      /\ Head(s) = s[1] /\ s[1] \in S
  BY DEF ListsOnce
<1>2. /\ t \in Seq(S) /\ Len(t) = Len(s) - 1 /\ DOMAIN t = 1 .. Len(t)
      /\ \A i \in 1 .. Len(t) : t[i] = s[i + 1]
  BY <1>1
<1> HIDE DEF t
<1>3. \A i, j \in 1 .. Len(s) : s[i] = s[j] => i = j
  BY <1>1 DEF ListsOnce, IsInjective
<1>4. \A i \in 1 .. Len(t) : i + 1 \in 1 .. Len(s) /\ i + 1 # 1 /\ t[i] # s[1] /\ t[i] \in S
  BY <1>1, <1>2, <1>3
<1>5. t \in Seq(S \ {Head(s)})
  <2>1. \A i \in 1 .. Len(t) : t[i] \in S \ {Head(s)}
    BY <1>1, <1>4
  <2> QED
    BY <1>2, <2>1
<1>6. IsInjective(t)
  <2> SUFFICES ASSUME NEW i \in 1 .. Len(t), NEW j \in 1 .. Len(t), t[i] = t[j]
               PROVE  i = j
    BY <1>2 DEF IsInjective
  <2>1. i + 1 = j + 1
    BY <1>2, <1>3, <1>4
  <2> QED
    BY <1>1, <1>2, <2>1
<1>7. Range(t) = S \ {Head(s)}
  <2>1. \A x \in Range(t) : x \in S \ {Head(s)}
    BY <1>1, <1>2, <1>4 DEF Range
  <2>2. ASSUME NEW x \in S, x # Head(s) PROVE x \in Range(t)
    <3>1. PICK i \in 1 .. Len(s) : s[i] = x
      BY <1>1 DEF ListsOnce, Range
    <3>2. i - 1 \in 1 .. Len(t) /\ t[i - 1] = x
      BY <1>1, <1>2, <2>2, <3>1
    <3> QED
      BY <1>2, <3>2 DEF Range
  <2> QED
    BY <2>1, <2>2
<1> QED
  BY <1>1, <1>5, <1>6, <1>7 DEF ListsOnce, t

\* SetToSeqs gives lists.
LEMMA SetToSeqsLists ==
    ASSUME NEW S, IsFiniteSet(S), NEW s \in SetToSeqs(S)
    PROVE  ListsOnce(s, S)
<1>1. Cardinality(S) \in Nat
  BY FS_CardinalityType
<1>2. /\ s \in [1 .. Cardinality(S) -> S]
      /\ \A i, j \in 1 .. Cardinality(S) : i # j => s[i] # s[j]
  BY DEF SetToSeqs
<1>3. s \in Injection(1 .. Cardinality(S), S)
  BY <1>2 DEF Injection, IsInjective
<1>4. Cardinality(1 .. Cardinality(S)) = Cardinality(S)
  BY <1>1, FS_Interval
<1>5. s \in Surjection(1 .. Cardinality(S), S)
  BY <1>3, <1>4, FS_Injection
<1>6. Range(s) = S
  BY <1>2, <1>5 DEF Surjection, Range
<1>7. s \in Seq(S) /\ IsInjective(s)
  BY <1>1, <1>2 DEF IsInjective
<1> QED
  BY <1>6, <1>7 DEF ListsOnce

\* A list is as long as what it lists is large.
LEMMA ListLength ==
    ASSUME NEW S, NEW s, ListsOnce(s, S)
    PROVE  IsFiniteSet(S) /\ Cardinality(S) = Len(s) /\ Len(s) \in Nat
<1>1. /\ Len(s) \in Nat /\ s \in [1 .. Len(s) -> S]
      /\ \A i, j \in 1 .. Len(s) : s[i] = s[j] => i = j
      /\ \A x \in S : \E i \in 1 .. Len(s) : s[i] = x
  BY DEF ListsOnce, IsInjective, Range
<1>2. s \in Bijection(1 .. Len(s), S)
  BY <1>1 DEF Bijection, Injection, Surjection, IsInjective
<1>3. IsFiniteSet(1 .. Len(s)) /\ Cardinality(1 .. Len(s)) = Len(s)
  BY <1>1, FS_Interval
<1>4. ExistsBijection(1 .. Len(s), S)
  BY <1>2 DEF ExistsBijection
<1> QED
  BY <1>1, <1>3, <1>4, FS_Bijection

\* One more at the end of a list.
LEMMA ListAppend ==
    ASSUME NEW S, NEW s, ListsOnce(s, S), NEW x, x \notin S
    PROVE  ListsOnce(Append(s, x), S \cup {x})
<1>1. ListsOnce(<<x>>, {x})
  BY DEF ListsOnce, IsInjective, Range
<1>2. ListsOnce(s \o <<x>>, S \cup {x})
  BY <1>1, ListConcat
<1>3. s \in Seq(S \cup {x})
  <2>1. s \in Seq(S)
    BY DEF ListsOnce
  <2> QED
    BY <2>1
<1>4. Append(s, x) = s \o <<x>>
  BY <1>3
<1> QED
  BY <1>2, <1>4

LEMMA ListWithin ==
    ASSUME NEW S, NEW s, ListsOnce(s, S), NEW T, S \subseteq T
    PROVE  s \in Seq(T)
BY DEF ListsOnce

\* What is listed is the range.
LEMMA ListRange ==
    ASSUME NEW S, NEW s, ListsOnce(s, S)
    PROVE  Range(s) = S /\ ListsOnce(s, Range(s))
BY DEF ListsOnce

-----------------------------------------------------------------------------
(* The network.                                                             *)

LEMMA PeerFacts ==
    ASSUME Typed, NEW n \in Node
    PROVE  /\ DOMAIN lists[n] \subseteq Node /\ IsFiniteSet(DOMAIN lists[n])
           /\ \A p \in DOMAIN lists[n] : lists[n][p] \in Class
<1>1. Range(lists[n]) \subseteq Class
  BY DiscoveryAssumption DEF DiscoveryAssumption, Typed, TypeOK
<1> QED
  BY <1>1, DiscoveryAssumption DEF DiscoveryAssumption, Typed, TypeOK, Range

LEMMA HeldFacts ==
    ASSUME Typed, NEW n \in Node
    PROVE  /\ DOMAIN held[n] \subseteq Key
           /\ \A k \in DOMAIN held[n] : held[n][k] \in Copy
<1>1. DOMAIN held[n] \subseteq Key /\ Range(held[n]) \subseteq Copy
  BY DiscoveryAssumption DEF DiscoveryAssumption, Typed, TypeOK
<1> QED
  BY <1>1 DEF Range

LEMMA LengthIsNat == \A c \in Copy : Length(c) \in Nat
<1> SUFFICES ASSUME NEW c \in Copy PROVE Length(c) \in Nat
  OBVIOUS
<1>1. c.sigs \in SUBSET Key /\ IsFiniteSet(Key)
  BY DiscoveryAssumption DEF DiscoveryAssumption, Copy
<1> QED
  BY <1>1, FS_Subset, FS_CardinalityType DEF Length

\* Copies of blocks, by key.
Blocks(f) == \A k \in DOMAIN f : k \in Key /\ f[k] \in Copy

\* a takes copies from f and g, all their keys, and no shorter copy than either has.
TakenFrom(a, f, g) ==
    /\ DOMAIN a = DOMAIN f \cup DOMAIN g
    /\ \A k \in DOMAIN a : (k \in DOMAIN f /\ a[k] = f[k]) \/ (k \in DOMAIN g /\ a[k] = g[k])
    /\ \A k \in DOMAIN f : Length(f[k]) <= Length(a[k])
    /\ \A k \in DOMAIN g : Length(g[k]) <= Length(a[k])

LEMMA MergeFacts ==
    ASSUME NEW f, NEW g, Blocks(f), Blocks(g)
    PROVE  TakenFrom(Merge(f, g), f, g)
<1>1. /\ \A k \in DOMAIN f : Length(f[k]) \in Nat
      /\ \A k \in DOMAIN g : Length(g[k]) \in Nat
  BY LengthIsNat DEF Blocks
<1>2. DOMAIN Merge(f, g) = DOMAIN f \cup DOMAIN g
  BY DEF Merge
<1>3. \A k \in DOMAIN f \cup DOMAIN g :
        Merge(f, g)[k] = IF k \in DOMAIN f /\ (k \in DOMAIN g => Length(g[k]) <= Length(f[k]))
                         THEN f[k] ELSE g[k]
  BY DEF Merge
<1> QED
  BY <1>1, <1>2, <1>3 DEF TakenFrom

-----------------------------------------------------------------------------
(* The score.                                                               *)

\* A trust path in blocks ends at Wanted, and is not longer than Depth allows.
LEMMA PathEnds ==
    ASSUME NEW blocks, NEW p \in Evaluated(blocks)!TrustPaths
    PROVE  \E n \in 2 .. (Depth + 1) :
             /\ p \in [1 .. n -> Key] /\ p[n] = Wanted
             /\ Wanted \notin {k \in DOMAIN blocks : blocks[k].revoked}
<1>0. PICK n \in 0 .. (Depth - 1) : \E m \in [1 .. n -> Key] : p = <<Root>> \o m \o <<Wanted>>
  BY DEF Evaluated!TrustPaths
<1>1. PICK m \in [1 .. n -> Key] : p = <<Root>> \o m \o <<Wanted>>
  BY <1>0
<1>2. \A i \in DOMAIN p : p[i] \notin {k \in DOMAIN blocks : blocks[k].revoked}
  BY DEF Evaluated!TrustPaths, Evaluated!IsChain
<1>3. n \in Nat /\ m \in Seq(Key) /\ Len(m) = n /\ Root \in Key /\ Wanted \in Key /\ Depth \in Nat
  BY DiscoveryAssumption DEF DiscoveryAssumption
<1>4. p \in Seq(Key) /\ Len(p) = n + 2 /\ p[n + 2] = Wanted
  BY <1>1, <1>3
<1>5. p \in [1 .. n + 2 -> Key] /\ n + 2 \in 2 .. (Depth + 1) /\ n + 2 \in DOMAIN p
  BY <1>3, <1>4
<1> QED
  BY <1>2, <1>4, <1>5

\* There are only so many.
LEMMA PathsFinite ==
    ASSUME NEW blocks
    PROVE  IsFiniteSet(Evaluated(blocks)!TrustPaths)
<1> DEFINE P == Evaluated(blocks)!TrustPaths
           S == SUBSET ((1 .. (Depth + 1)) \X Key)
           graph(p) == {<<i, p[i]>> : i \in DOMAIN p}
           f == [p \in P |-> graph(p)]
<1>1. IsFiniteSet(S)
  <2>1. IsFiniteSet(1 .. (Depth + 1)) /\ IsFiniteSet(Key)
    BY FS_Interval, DiscoveryAssumption DEF DiscoveryAssumption
  <2> QED
    BY <2>1, FS_Product, FS_SUBSET
<1>2. \A p \in P : \E n \in 2 .. (Depth + 1) : p \in [1 .. n -> Key]
  BY PathEnds
<1>3. Depth \in Nat
  BY DiscoveryAssumption DEF DiscoveryAssumption
<1> HIDE DEF P
<1>4. ASSUME NEW p \in P PROVE graph(p) \in S
  <2>1. PICK n \in 2 .. (Depth + 1) : p \in [1 .. n -> Key]
    BY <1>2
  <2>2. \A i \in DOMAIN p : i \in 1 .. (Depth + 1) /\ p[i] \in Key
    BY <1>3, <2>1
  <2> QED
    BY <2>2
<1>5. ASSUME NEW p \in P, NEW q \in P, graph(p) = graph(q) PROVE p = q
  <2>1. PICK n \in 2 .. (Depth + 1) : p \in [1 .. n -> Key]
    BY <1>2
  <2>2. PICK h \in 2 .. (Depth + 1) : q \in [1 .. h -> Key]
    BY <1>2
  <2>3. \A i \in DOMAIN p : i \in DOMAIN q /\ q[i] = p[i]
    <3> SUFFICES ASSUME NEW i \in DOMAIN p PROVE i \in DOMAIN q /\ q[i] = p[i]
      OBVIOUS
    <3>1. <<i, p[i]>> \in graph(q)
      BY <1>5
    <3> QED
      BY <3>1
  <2>4. \A i \in DOMAIN q : i \in DOMAIN p
    <3> SUFFICES ASSUME NEW i \in DOMAIN q PROVE i \in DOMAIN p
      OBVIOUS
    <3>1. <<i, q[i]>> \in graph(p)
      BY <1>5
    <3> QED
      BY <3>1
  <2>5. DOMAIN p = DOMAIN q
    BY <2>3, <2>4
  <2> QED
    BY <2>1, <2>2, <2>3, <2>5
<1>6. f \in Injection(P, S)
  BY <1>4, <1>5 DEF Injection, IsInjective
<1>7. IsFiniteSet(P)
  BY <1>1, <1>6, FS_Injection
<1> QED
  BY <1>7 DEF P

LEMMA ScoreFacts ==
    ASSUME NEW blocks
    PROVE  /\ Score(blocks) \in Nat
           /\ Score(blocks) > 0 /\ Wanted # Root /\ Wanted \in DOMAIN blocks
                => ~blocks[Wanted].revoked
<1>1. Cardinality(Evaluated(blocks)!TrustPaths) \in Nat
  BY PathsFinite, FS_CardinalityType
<1>2. Score(blocks) \in Nat
  BY <1>1 DEF Score
<1>3. ASSUME Score(blocks) > 0, Wanted # Root, Wanted \in DOMAIN blocks
      PROVE  ~blocks[Wanted].revoked
  <2>1. Cardinality(Evaluated(blocks)!TrustPaths) # 0
    BY <1>1, <1>3 DEF Score
  <2>2. PICK p : p \in Evaluated(blocks)!TrustPaths
    BY <2>1, FS_EmptySet
  <2> QED
    BY <1>3, <2>2, PathEnds
<1> QED
  BY <1>2, <1>3

-----------------------------------------------------------------------------
(* One lemma per action: it preserves the invariant.                        *)

\* The list of nodes asked with the next one, taken from the front of a queue.
LEMMA TakeNext ==
    ASSUME NEW A, NEW B, NEW a, ListsOnce(a, A), NEW q, ListsOnce(q, B), A \cap B = {}, q # <<>>
    PROVE  /\ Head(q) \in B /\ Head(q) \notin A
           /\ ListsOnce(Append(a, Head(q)), A \cup {Head(q)})
           /\ ListsOnce(Tail(q), B \ {Head(q)})
<1>1. Head(q) \in B /\ ListsOnce(Tail(q), B \ {Head(q)})
  BY ListTail
<1> QED
  BY <1>1, ListAppend

LEMMA VisitedFinite == QueuesSound => IsFiniteSet(visited)
<1> SUFFICES ASSUME QueuesSound PROVE IsFiniteSet(visited)
  OBVIOUS
<1>1. /\ IsFiniteSet(Range(asked)) /\ IsFiniteSet(Range(exact))
      /\ IsFiniteSet(Range(allowAll)) /\ IsFiniteSet(Range(normal))
  BY ListLength DEF QueuesSound
<1>2. IsFiniteSet(Range(asked) \cup Range(exact))
  BY <1>1, FS_Union
<1>3. IsFiniteSet(Range(asked) \cup Range(exact) \cup Range(allowAll))
  BY <1>1, <1>2, FS_Union
<1>4. IsFiniteSet(Range(asked) \cup Range(exact) \cup Range(allowAll) \cup Range(normal))
  BY <1>1, <1>3, FS_Union
<1> QED
  BY <1>4 DEF QueuesSound

\* The next node comes from a queue, and has not been asked.
LEMMA NextNodeQueues ==
    ASSUME SearchInv, NextNode
    PROVE  /\ QueuesSound'
           /\ at' \in visited /\ at' \notin Range(asked)
           /\ Range(asked') = Range(asked) \cup {at'}
<1> DEFINE A == Range(asked)
           E == Range(exact)
           W == Range(allowAll)
           N == Range(normal)
<1>1. /\ ListsOnce(asked, A) /\ ListsOnce(exact, E) /\ ListsOnce(allowAll, W) /\ ListsOnce(normal, N)
      /\ A \cap E = {} /\ A \cap W = {} /\ A \cap N = {}
      /\ E \cap W = {} /\ E \cap N = {} /\ W \cap N = {}
      /\ visited = A \cup E \cup W \cup N /\ Range(Seeds) \subseteq visited
  BY DEF SearchInv, QueuesSound
<1>2. asked' = Append(asked, at') /\ visited' = visited
  BY DEF NextNode
<1> DEFINE Kept(a, e, w, n) ==
             /\ ListsOnce(asked', a) /\ ListsOnce(exact', e)
             /\ ListsOnce(allowAll', w) /\ ListsOnce(normal', n)
<1> HIDE DEF A, E, W, N
<1>3. ASSUME exact # <<>>, at' = Head(exact), exact' = Tail(exact), UNCHANGED <<allowAll, normal>>
      PROVE  /\ at' \in E /\ at' \notin A
             /\ Kept(A \cup {at'}, E \ {at'}, W, N)
  BY <1>1, <1>2, <1>3, TakeNext
<1>4. ASSUME allowAll # <<>>, at' = Head(allowAll), allowAll' = Tail(allowAll),
             UNCHANGED <<exact, normal>>
      PROVE  /\ at' \in W /\ at' \notin A
             /\ Kept(A \cup {at'}, E, W \ {at'}, N)
  BY <1>1, <1>2, <1>4, TakeNext
<1>5. ASSUME normal # <<>>, at' = Head(normal), normal' = Tail(normal),
             UNCHANGED <<exact, allowAll>>
      PROVE  /\ at' \in N /\ at' \notin A
             /\ Kept(A \cup {at'}, E, W, N \ {at'})
  BY <1>1, <1>2, <1>5, TakeNext
<1> HIDE DEF Kept
<1>6. PICK e, w, n :
        /\ at' \in visited /\ at' \notin A /\ Kept(A \cup {at'}, e, w, n)
        /\ visited = A \cup {at'} \cup e \cup w \cup n
        /\ (A \cup {at'}) \cap e = {} /\ (A \cup {at'}) \cap w = {} /\ (A \cup {at'}) \cap n = {}
        /\ e \cap w = {} /\ e \cap n = {} /\ w \cap n = {}
  <2>1. CASE exact # <<>> /\ at' = Head(exact) /\ exact' = Tail(exact) /\ UNCHANGED <<allowAll, normal>>
    <3>1. at' \in E /\ at' \notin A /\ Kept(A \cup {at'}, E \ {at'}, W, N)
      BY <1>3, <2>1
    <3> QED
      BY <1>1, <3>1
  <2>2. CASE allowAll # <<>> /\ at' = Head(allowAll) /\ allowAll' = Tail(allowAll) /\ UNCHANGED <<exact, normal>>
    <3>1. at' \in W /\ at' \notin A /\ Kept(A \cup {at'}, E, W \ {at'}, N)
      BY <1>4, <2>2
    <3> QED
      BY <1>1, <3>1
  <2>3. CASE normal # <<>> /\ at' = Head(normal) /\ normal' = Tail(normal) /\ UNCHANGED <<exact, allowAll>>
    <3>1. at' \in N /\ at' \notin A /\ Kept(A \cup {at'}, E, W, N \ {at'})
      BY <1>5, <2>3
    <3> QED
      BY <1>1, <3>1
  <2> QED
    BY <2>1, <2>2, <2>3 DEF NextNode, GoesOn, HasQueued
<1>7. /\ Range(asked') = A \cup {at'} /\ ListsOnce(asked', Range(asked'))
      /\ Range(exact') = e /\ ListsOnce(exact', Range(exact'))
      /\ Range(allowAll') = w /\ ListsOnce(allowAll', Range(allowAll'))
      /\ Range(normal') = n /\ ListsOnce(normal', Range(normal'))
  BY <1>6, ListRange DEF Kept
<1>8. QueuesSound'
  BY <1>1, <1>2, <1>6, <1>7 DEF QueuesSound
<1> QED
  BY <1>6, <1>7, <1>8 DEF A
\* No more nodes are asked than the limit: a node is asked only when there are that few
\* visited, and the one asked is among them.
LEMMA NextNodeStep ==
    ASSUME SearchInv, NextNode
    PROVE  SearchInv'
<1>1. /\ QueuesSound' /\ at' \in visited /\ at' \notin Range(asked)
      /\ Range(asked') = Range(asked) \cup {at'}
  BY NextNodeQueues
<1>2. /\ phase = "next" /\ score = 0 /\ GoesOn
      /\ phase' = IF method = "FindBlocksByEmail" THEN "search" ELSE "block"
      /\ UNCHANGED <<lists, held, method, maxNodes, visited, copies, accumulated, score, failed>>
  BY DEF NextNode, network, SearchInv, ScoreOfKept
<1>3. Answered' \subseteq Answered \cup {at'}
  BY <1>1, <1>2 DEF Answered
<1>4. Typed'
  <2>1. visited' \subseteq Node /\ at' \in Node
    BY <1>1, <1>2 DEF SearchInv, Typed, TypeOK
  <2>2. /\ ListsOnce(asked', Range(asked')) /\ Range(asked') \subseteq Node
        /\ ListsOnce(exact', Range(exact')) /\ Range(exact') \subseteq Node
        /\ ListsOnce(allowAll', Range(allowAll')) /\ Range(allowAll') \subseteq Node
        /\ ListsOnce(normal', Range(normal')) /\ Range(normal') \subseteq Node
    BY <1>1, <2>1 DEF QueuesSound
  <2>3. {exact, allowAll, normal, asked}' \subseteq Seq(Node)
    BY <2>2, ListWithin
  <2> QED
    BY <1>2, <2>1, <2>3 DEF SearchInv, Typed, TypeOK
<1>5. TurnSound'
  BY <1>1, <1>2 DEF TurnSound, Busy
<1>6. Len(asked') <= maxNodes'
  <2>1. IsFiniteSet(visited) /\ Cardinality(visited) \in Nat /\ Cardinality(visited) <= maxNodes
    BY <1>2, VisitedFinite, FS_CardinalityType DEF SearchInv, GoesOn
  <2>2. Range(asked') \subseteq visited
    BY <1>1, <1>2 DEF QueuesSound
  <2>3. Cardinality(Range(asked')) = Len(asked') /\ Len(asked') \in Nat
    BY <1>1, ListLength DEF QueuesSound
  <2>4. Cardinality(Range(asked')) <= Cardinality(visited)
    BY <2>1, <2>2, FS_Subset
  <2>5. maxNodes \in Nat
    BY DiscoveryAssumption DEF SearchInv, Typed, TypeOK, DiscoveryAssumption
  <2> QED
    BY <1>2, <2>1, <2>3, <2>4, <2>5
<1>7. failed' \subseteq Range(asked')
  BY <1>1, <1>2 DEF SearchInv
<1>8. PeersHeard'
  <2>1. \A n \in Answered : DOMAIN lists[n] \subseteq visited
    BY <1>2 DEF SearchInv, PeersHeard, Busy
  <2> QED
    BY <1>2, <1>3, <2>1 DEF PeersHeard, Busy
<1>9. CopiesHeard'
  <2>1. method # "FindBlocksByEmail" =>
          \A n \in Answered : Wanted \in DOMAIN held[n] => copies # <<>>
    BY <1>2 DEF SearchInv, CopiesHeard
  <2> QED
    BY <1>2, <1>3, <2>1 DEF CopiesHeard
<1>10. MatchesHeard'
  <2>1. method = "FindBlocksByEmail" =>
          \A n \in Answered : Matching \cap DOMAIN held[n] \subseteq DOMAIN accumulated
    BY <1>2 DEF SearchInv, MatchesHeard
  <2> QED
    BY <1>2, <1>3, <2>1 DEF MatchesHeard
<1>11. KeptIsHeld'
  BY <1>1, <1>2 DEF SearchInv, KeptIsHeld
<1>12. LongestKept'
  <2>1. method = "FindBlock with trust" =>
          \A n \in Answered : Wanted \in DOMAIN held[n] =>
            /\ Wanted \in DOMAIN accumulated
            /\ Length(held[n][Wanted]) <= Length(accumulated[Wanted])
    BY <1>2 DEF SearchInv, LongestKept
  <2> QED
    BY <1>2, <1>3, <2>1 DEF LongestKept
<1>13. ScoreOfKept'
  BY <1>2 DEF ScoreOfKept
<1> QED
  BY <1>1, <1>4, <1>5, <1>6, <1>7, <1>8, <1>9, <1>10, <1>11, <1>12, <1>13 DEF SearchInv

LEMMA OneMore ==
    ASSUME NEW S, NEW s \in Seq(S), NEW x \in S
    PROVE  Append(s, x) \in Seq(S) /\ Append(s, x) # <<>>
<1>1. Append(s, x) \in Seq(S) /\ Len(Append(s, x)) = Len(s) + 1 /\ Len(s) \in Nat
  OBVIOUS
<1> QED
  BY <1>1

\* While a node is asked, the queues stay as they are until its list is in.
LEMMA FetchBlockStep ==
    ASSUME SearchInv, FetchBlock
    PROVE  SearchInv'
<1>1. /\ phase = "block" /\ method # "FindBlocksByEmail" /\ score = 0 /\ at \in Range(asked) /\ at \in Node
      /\ UNCHANGED <<lists, held, method, maxNodes, visited, exact, allowAll, normal>>
      /\ UNCHANGED <<at, accumulated, score, asked>>
  BY DEF FetchBlock, network, queues, SearchInv, TurnSound, Busy, ScoreOfKept, Typed, TypeOK
<1>2. /\ failed' = failed \/ failed' = failed \cup {at}
      /\ phase' \in {"blocks", "peers"}
      /\ phase' = "blocks" => method = "FindBlock with trust"
  BY DEF FetchBlock, Fails
<1>3. /\ copies' \in Seq(Node \X Copy)
      /\ copies # <<>> => copies' # <<>>
  <2>1. copies \in Seq(Node \X Copy)
    BY DEF SearchInv, Typed, TypeOK
  <2>2. CASE Wanted \in DOMAIN held[at] /\ copies' = Append(copies, <<at, held[at][Wanted]>>)
    <3>1. <<at, held[at][Wanted]>> \in Node \X Copy
      BY <1>1, <2>2, HeldFacts DEF SearchInv
    <3> QED
      BY <2>1, <2>2, <3>1, OneMore
  <2> QED
    BY <2>1, <2>2 DEF FetchBlock
<1>4. /\ Answered' \subseteq Answered
      /\ at \in Answered' /\ Wanted \in DOMAIN held[at] => copies' # <<>>
                            /\ (method = "FindBlock with trust" => phase' = "blocks")
  <2>1. Answered' \subseteq Answered
    BY <1>1, <1>2 DEF Answered
  <2>2. ASSUME at \in Answered', Wanted \in DOMAIN held[at]
        PROVE  copies' # <<>> /\ (method = "FindBlock with trust" => phase' = "blocks")
    <3>1. ~Fails
      BY <2>2 DEF Answered, Fails
    <3>2. /\ copies' = Append(copies, <<at, held[at][Wanted]>>)
          /\ phase' = IF method = "FindBlock with trust" THEN "blocks" ELSE "peers"
      BY <2>2, <3>1 DEF FetchBlock
    <3>3. copies \in Seq(Node \X Copy) /\ <<at, held[at][Wanted]>> \in Node \X Copy
      BY <1>1, <2>2, HeldFacts DEF SearchInv, Typed, TypeOK
    <3>4. copies' # <<>>
      BY <3>2, <3>3, OneMore
    <3> QED
      BY <3>2, <3>4
  <2> QED
    BY <2>1, <2>2
<1>5. Typed'
  BY <1>1, <1>2, <1>3 DEF SearchInv, Typed, TypeOK
<1>6. QueuesSound' /\ TurnSound' /\ Len(asked') <= maxNodes' /\ failed' \subseteq Range(asked')
  BY <1>1, <1>2 DEF SearchInv, QueuesSound, TurnSound, Busy
<1>7. PeersHeard'
  BY <1>1, <1>2, <1>4 DEF SearchInv, PeersHeard, Busy
<1>8. CopiesHeard' /\ MatchesHeard'
  BY <1>1, <1>2, <1>3, <1>4 DEF SearchInv, CopiesHeard, MatchesHeard
<1>9. KeptIsHeld'
  BY <1>1 DEF SearchInv, KeptIsHeld
<1>10. LongestKept'
  BY <1>1, <1>2, <1>4 DEF SearchInv, LongestKept
<1>11. ScoreOfKept'
  <2>1. score' = 0 /\ phase' # "done"
    BY <1>1, <1>2
  <2> QED
    BY <2>1 DEF ScoreOfKept
<1> QED
  BY <1>5, <1>6, <1>7, <1>8, <1>9, <1>10, <1>11 DEF SearchInv

\* What a node sends is merged into what is kept.
LEMMA MergeKeeps ==
    ASSUME SearchInv, at \in Range(asked),
           NEW g, DOMAIN g \subseteq DOMAIN held[at], \A k \in DOMAIN g : g[k] = held[at][k]
    PROVE  LET a == Merge(accumulated, g)
           IN  /\ DOMAIN a = DOMAIN accumulated \cup DOMAIN g
               /\ DOMAIN a \subseteq Key /\ Range(a) \subseteq Copy
               /\ \A k \in DOMAIN accumulated : Length(accumulated[k]) <= Length(a[k])
               /\ \A k \in DOMAIN g : Length(held[at][k]) <= Length(a[k])
               /\ \A k \in DOMAIN a :
                    \E m \in Range(asked) : k \in DOMAIN held[m] /\ a[k] = held[m][k]
<1> DEFINE a == Merge(accumulated, g)
<1>1. at \in Node /\ Typed
  BY DEF SearchInv, Typed, TypeOK
<1>2. \A k \in DOMAIN accumulated : k \in Key /\ accumulated[k] \in Copy
  BY <1>1 DEF Typed, TypeOK, Range
<1>3. \A k \in DOMAIN g : k \in Key /\ g[k] \in Copy
  BY <1>1, HeldFacts
<1>4. TakenFrom(a, accumulated, g)
  BY <1>2, <1>3, MergeFacts DEF Blocks
<1> HIDE DEF a
<1>5. DOMAIN a \subseteq Key /\ Range(a) \subseteq Copy
  BY <1>2, <1>3, <1>4 DEF Range, TakenFrom
<1>6. \A k \in DOMAIN a : \E m \in Range(asked) : k \in DOMAIN held[m] /\ a[k] = held[m][k]
  <2> SUFFICES ASSUME NEW k \in DOMAIN a
               PROVE  \E m \in Range(asked) : k \in DOMAIN held[m] /\ a[k] = held[m][k]
    OBVIOUS
  <2>1. CASE k \in DOMAIN accumulated /\ a[k] = accumulated[k]
    BY <2>1 DEF SearchInv, KeptIsHeld
  <2>2. CASE k \in DOMAIN g /\ a[k] = g[k]
    BY <2>2
  <2> QED
    BY <1>4, <2>1, <2>2 DEF TakenFrom
<1> QED
  BY <1>4, <1>5, <1>6 DEF TakenFrom, a

LEMMA FetchAllBlocksStep ==
    ASSUME SearchInv, FetchAllBlocks
    PROVE  SearchInv'
<1>1. /\ phase = "blocks" /\ method = "FindBlock with trust" /\ score = 0
      /\ at \in Range(asked) /\ at \in Node
      /\ UNCHANGED <<lists, held, method, maxNodes, visited, exact, allowAll, normal>>
      /\ UNCHANGED <<at, copies, asked>>
  BY DEF FetchAllBlocks, network, queues, SearchInv, TurnSound, Busy, ScoreOfKept, Typed, TypeOK
<1> DEFINE M == Merge(accumulated, held[at])
<1>2. PICK blocks \in {accumulated, M} :
        /\ accumulated' = blocks
        /\ (blocks = M /\ UNCHANGED failed) \/ (blocks = accumulated /\ Fails)
        /\ IF Score(blocks) >= Threshold
           THEN phase' = "done" /\ score' = Score(blocks)
           ELSE phase' = "peers" /\ UNCHANGED score
  BY DEF FetchAllBlocks
<1>3. /\ DOMAIN M = DOMAIN accumulated \cup DOMAIN held[at]
      /\ DOMAIN M \subseteq Key /\ Range(M) \subseteq Copy
      /\ \A k \in DOMAIN accumulated : Length(accumulated[k]) <= Length(M[k])
      /\ \A k \in DOMAIN held[at] : Length(held[at][k]) <= Length(M[k])
      /\ \A k \in DOMAIN M : \E m \in Range(asked) : k \in DOMAIN held[m] /\ M[k] = held[m][k]
  BY <1>1, MergeKeeps
<1> HIDE DEF M
<1>4. /\ Answered' \subseteq Answered /\ failed' \subseteq failed \cup {at}
      /\ at \in Answered' => accumulated' = M
      /\ accumulated' = accumulated \/ accumulated' = M
  BY <1>1, <1>2 DEF Answered, Fails
<1>5. /\ Score(blocks) \in Nat /\ Threshold \in Nat \ {0}
  BY ScoreFacts, DiscoveryAssumption DEF DiscoveryAssumption
<1>6. \/ phase' = "done" /\ score' = Score(blocks) /\ score' >= Threshold
      \/ phase' = "peers" /\ score' = 0
  BY <1>1, <1>2
<1>7. Typed'
  <2>1. DOMAIN accumulated' \subseteq Key /\ Range(accumulated') \subseteq Copy
    BY <1>3, <1>4 DEF SearchInv, Typed, TypeOK
  <2>2. failed' \subseteq Node
    BY <1>1, <1>4 DEF SearchInv, Typed, TypeOK
  <2> QED
    BY <1>1, <1>5, <1>6, <2>1, <2>2 DEF SearchInv, Typed, TypeOK
<1>8. QueuesSound' /\ TurnSound' /\ Len(asked') <= maxNodes' /\ failed' \subseteq Range(asked')
  BY <1>1, <1>4, <1>6 DEF SearchInv, QueuesSound, TurnSound, Busy
<1>9. PeersHeard'
  <2>1. \A n \in Answered' : DOMAIN lists[n] \subseteq visited \/ n = at
    BY <1>4 DEF SearchInv, PeersHeard
  <2>2. Busy' \/ (phase' = "done" /\ score' >= Threshold')
    BY <1>6 DEF Busy
  <2> QED
    BY <1>1, <2>1, <2>2 DEF PeersHeard
<1>10. CopiesHeard' /\ MatchesHeard'
  BY <1>1, <1>4 DEF SearchInv, CopiesHeard, MatchesHeard
<1>11. KeptIsHeld'
  BY <1>1, <1>3, <1>4 DEF SearchInv, KeptIsHeld
<1>12. LongestKept'
  <2> SUFFICES ASSUME NEW n \in Answered', Wanted \in DOMAIN held[n]
               PROVE  /\ Wanted \in DOMAIN accumulated'
                      /\ Length(held[n][Wanted]) <= Length(accumulated'[Wanted])
    BY <1>1 DEF LongestKept
  <2>1. CASE n = at
    BY <1>3, <1>4, <2>1
  <2>2. CASE n # at
    <3>1. Wanted \in DOMAIN accumulated /\ Length(held[n][Wanted]) <= Length(accumulated[Wanted])
      BY <1>1, <1>4, <2>2 DEF SearchInv, LongestKept
    <3>2. CASE accumulated' = accumulated
      BY <3>1, <3>2
    <3>3. CASE accumulated' = M
      <4>1. Wanted \in DOMAIN M /\ Length(accumulated[Wanted]) <= Length(M[Wanted])
        BY <1>3, <3>1
      <4>2. accumulated[Wanted] \in Copy /\ M[Wanted] \in Copy
        BY <1>3, <3>1, <4>1 DEF SearchInv, Typed, TypeOK, Range
      <4>3. held[n][Wanted] \in Copy
        <5>1. n \in Node /\ Typed
          BY <1>4 DEF SearchInv, Typed, TypeOK, Answered, QueuesSound
        <5> QED
          BY <5>1, HeldFacts
      <4>4. /\ Length(accumulated[Wanted]) \in Nat /\ Length(M[Wanted]) \in Nat
            /\ Length(held[n][Wanted]) \in Nat
        BY <4>2, <4>3, LengthIsNat
      <4> QED
        BY <3>1, <3>3, <4>1, <4>4
    <3> QED
      BY <1>4, <3>2, <3>3
  <2> QED
    BY <2>1, <2>2
<1>13. ScoreOfKept'
  <2>1. CASE phase' = "done" /\ score' = Score(blocks) /\ score' >= Threshold
    <3>1. score' = Score(accumulated)' /\ ~(score' < Threshold)
      BY <1>2, <1>5, <2>1
    <3> QED
      BY <1>1, <2>1, <3>1 DEF ScoreOfKept
  <2>2. CASE phase' = "peers" /\ score' = 0
    BY <2>2 DEF ScoreOfKept
  <2> QED
    BY <1>6, <2>1, <2>2
<1> QED
  BY <1>7, <1>8, <1>9, <1>10, <1>11, <1>12, <1>13 DEF SearchInv

LEMMA SearchStep ==
    ASSUME SearchInv, Search
    PROVE  SearchInv'
<1>1. /\ phase = "search" /\ method = "FindBlocksByEmail" /\ score = 0 /\ phase' = "peers"
      /\ at \in Range(asked) /\ at \in Node
      /\ UNCHANGED <<lists, held, method, maxNodes, visited, exact, allowAll, normal>>
      /\ UNCHANGED <<at, copies, score, asked>>
  BY DEF Search, network, queues, SearchInv, TurnSound, Busy, ScoreOfKept, Typed, TypeOK
<1> DEFINE g == [k \in Matching \cap DOMAIN held[at] |-> held[at][k]]
           M == Merge(accumulated, g)
<1>2. \/ accumulated' = M /\ UNCHANGED failed
      \/ accumulated' = accumulated /\ Fails
  BY DEF Search
<1>3. DOMAIN g = Matching \cap DOMAIN held[at] /\ \A k \in DOMAIN g : g[k] = held[at][k]
  OBVIOUS
<1> HIDE DEF g
<1>4. /\ DOMAIN M = DOMAIN accumulated \cup (Matching \cap DOMAIN held[at])
      /\ DOMAIN M \subseteq Key /\ Range(M) \subseteq Copy
      /\ \A k \in DOMAIN M : \E m \in Range(asked) : k \in DOMAIN held[m] /\ M[k] = held[m][k]
  <2>1. DOMAIN g \subseteq DOMAIN held[at]
    BY <1>3
  <2> QED
    BY <1>1, <1>3, <2>1, MergeKeeps
<1> HIDE DEF M
<1>5. /\ Answered' \subseteq Answered /\ failed' \subseteq failed \cup {at}
      /\ at \in Answered' => accumulated' = M
      /\ accumulated' = accumulated \/ accumulated' = M
  BY <1>1, <1>2 DEF Answered, Fails
<1>6. Typed'
  <2>1. DOMAIN accumulated' \subseteq Key /\ Range(accumulated') \subseteq Copy
    BY <1>4, <1>5 DEF SearchInv, Typed, TypeOK
  <2>2. failed' \subseteq Node
    BY <1>1, <1>5 DEF SearchInv, Typed, TypeOK
  <2> QED
    BY <1>1, <2>1, <2>2 DEF SearchInv, Typed, TypeOK
<1>7. QueuesSound' /\ TurnSound' /\ Len(asked') <= maxNodes' /\ failed' \subseteq Range(asked')
  BY <1>1, <1>5 DEF SearchInv, QueuesSound, TurnSound, Busy
<1>8. PeersHeard' /\ CopiesHeard' /\ LongestKept'
  BY <1>1, <1>5 DEF SearchInv, PeersHeard, CopiesHeard, LongestKept, Busy
<1>9. MatchesHeard'
  BY <1>1, <1>4, <1>5 DEF SearchInv, MatchesHeard
<1>10. KeptIsHeld'
  BY <1>1, <1>4, <1>5 DEF SearchInv, KeptIsHeld
<1>11. ScoreOfKept'
  <2>1. score' = 0 /\ phase' # "done"
    BY <1>1
  <2> QED
    BY <2>1 DEF ScoreOfKept
<1> QED
  BY <1>6, <1>7, <1>8, <1>9, <1>10, <1>11 DEF SearchInv

\* The peers that are not visited yet go at the ends of the queues, each in one of them.
LEMMA EnqueuePeersQueues ==
    ASSUME SearchInv, EnqueuePeers, UNCHANGED asked
    PROVE  QueuesSound' /\ visited' = visited \cup DOMAIN lists[at]
<1> DEFINE A == Range(asked)
           E == Range(exact)
           W == Range(allowAll)
           N == Range(normal)
           new == DOMAIN lists[at] \ visited
           class(c) == {n \in new : lists[at][n] = c}
<1>1. /\ ListsOnce(asked, A) /\ ListsOnce(exact, E) /\ ListsOnce(allowAll, W) /\ ListsOnce(normal, N)
      /\ A \cap E = {} /\ A \cap W = {} /\ A \cap N = {}
      /\ E \cap W = {} /\ E \cap N = {} /\ W \cap N = {}
      /\ visited = A \cup E \cup W \cup N /\ Range(Seeds) \subseteq visited
  BY DEF SearchInv, QueuesSound
<1>2. /\ DOMAIN lists[at] \subseteq Node /\ IsFiniteSet(DOMAIN lists[at])
      /\ \A p \in DOMAIN lists[at] : lists[at][p] \in Class
  <2>1. at \in Node /\ Typed
    BY DEF SearchInv, Typed, TypeOK
  <2> QED
    BY <2>1, PeerFacts
<1>3. IsFiniteSet(new) /\ \A c : IsFiniteSet(class(c))
  <2>1. new \subseteq DOMAIN lists[at] /\ \A c : class(c) \subseteq DOMAIN lists[at]
    OBVIOUS
  <2> QED
    BY <1>2, <2>1, FS_Subset
<1>4. new \cap visited = {} /\ new \cup visited = visited \cup DOMAIN lists[at]
  OBVIOUS
<1>5. /\ new = class("exact") \cup class("allowAll") \cup class("normal")
      /\ class("exact") \cap class("allowAll") = {} /\ class("exact") \cap class("normal") = {}
      /\ class("allowAll") \cap class("normal") = {}
  BY <1>2 DEF Class
<1>6. visited' = visited \cup new
  BY DEF EnqueuePeers
<1> HIDE DEF A, E, W, N
<1>7. PICK x, w, n :
        /\ ListsOnce(exact', E \cup x) /\ ListsOnce(allowAll', W \cup w) /\ ListsOnce(normal', N \cup n)
        /\ new = x \cup w \cup n /\ x \cap w = {} /\ x \cap n = {} /\ w \cap n = {}
  <2>1. CASE method = "FindBlocksByEmail"
    <3>1. PICK e \in SetToSeqs(class("exact")), a \in SetToSeqs(class("allowAll")),
               o \in SetToSeqs(class("normal")) :
            exact' = exact \o e /\ allowAll' = allowAll \o a /\ normal' = normal \o o
      BY <2>1 DEF EnqueuePeers
    <3> HIDE DEF new, class
    <3>2. ListsOnce(e, class("exact")) /\ ListsOnce(a, class("allowAll")) /\ ListsOnce(o, class("normal"))
      BY <1>3, SetToSeqsLists
    <3>3. E \cap class("exact") = {} /\ W \cap class("allowAll") = {} /\ N \cap class("normal") = {}
      BY <1>1, <1>4, <1>5
    <3>4. /\ ListsOnce(exact', E \cup class("exact")) /\ ListsOnce(allowAll', W \cup class("allowAll"))
          /\ ListsOnce(normal', N \cup class("normal"))
      BY <1>1, <3>1, <3>2, <3>3, ListConcat
    <3> QED
      BY <1>5, <3>4
  <2>2. CASE method # "FindBlocksByEmail"
    <3>1. PICK o \in SetToSeqs(new) : normal' = normal \o o /\ UNCHANGED <<exact, allowAll>>
      BY <2>2 DEF EnqueuePeers
    <3> HIDE DEF new, class
    <3>2. ListsOnce(o, new) /\ N \cap new = {}
      BY <1>1, <1>3, <1>4, SetToSeqsLists
    <3>3. ListsOnce(normal', N \cup new)
      BY <1>1, <3>1, <3>2, ListConcat
    <3>4. E \cup {} = E /\ W \cup {} = W
      OBVIOUS
    <3>5. ListsOnce(exact', E \cup {}) /\ ListsOnce(allowAll', W \cup {})
      BY <1>1, <3>1, <3>4
    <3>6. /\ new = {} \cup {} \cup new /\ {} \cap {} = {}
          /\ {} \cap new = {}
      OBVIOUS
    <3> QED
      BY <3>3, <3>5, <3>6, Zenon
  <2> QED
    BY <2>1, <2>2
<1> HIDE DEF new, class
<1>8. /\ Range(exact') = E \cup x /\ ListsOnce(exact', Range(exact'))
      /\ Range(allowAll') = W \cup w /\ ListsOnce(allowAll', Range(allowAll'))
      /\ Range(normal') = N \cup n /\ ListsOnce(normal', Range(normal'))
      /\ Range(asked') = A /\ ListsOnce(asked', Range(asked'))
  BY <1>1, <1>7, ListRange DEF A
<1>9. /\ A \cap (E \cup x) = {} /\ A \cap (W \cup w) = {} /\ A \cap (N \cup n) = {}
      /\ (E \cup x) \cap (W \cup w) = {} /\ (E \cup x) \cap (N \cup n) = {}
      /\ (W \cup w) \cap (N \cup n) = {}
      /\ visited' = A \cup (E \cup x) \cup (W \cup w) \cup (N \cup n)
      /\ Range(Seeds) \subseteq visited'
  BY <1>1, <1>4, <1>6, <1>7
<1> QED
  BY <1>4, <1>6, <1>8, <1>9 DEF QueuesSound

LEMMA FetchWellKnownStep ==
    ASSUME SearchInv, FetchWellKnown
    PROVE  SearchInv'
<1>1. /\ phase = "peers" /\ phase' = "next" /\ score = 0 /\ at \in Range(asked) /\ at \in Node
      /\ UNCHANGED <<lists, held, method, maxNodes, at, copies, accumulated, score, asked>>
  BY DEF FetchWellKnown, network, SearchInv, TurnSound, Busy, ScoreOfKept, Typed, TypeOK
<1>2. \/ QueuesSound' /\ visited' = visited \cup DOMAIN lists[at] /\ UNCHANGED failed
      \/ Fails /\ UNCHANGED <<visited, exact, allowAll, normal>>
  <2>1. CASE EnqueuePeers /\ UNCHANGED failed
    BY <1>1, <2>1, EnqueuePeersQueues
  <2>2. CASE Fails /\ UNCHANGED queues
    BY <2>2 DEF queues
  <2> QED
    BY <2>1, <2>2 DEF FetchWellKnown
<1>3. QueuesSound'
  BY <1>1, <1>2 DEF SearchInv, QueuesSound
<1>4. /\ Answered' \subseteq Answered /\ failed' \subseteq failed \cup {at}
      /\ visited \subseteq visited' /\ visited' \subseteq visited \cup DOMAIN lists[at]
      /\ at \in Answered' => DOMAIN lists[at] \subseteq visited'
  BY <1>1, <1>2 DEF Answered, Fails
<1>5. Typed'
  <2>1. visited' \subseteq Node
    <3>1. DOMAIN lists[at] \subseteq Node
      BY <1>1, PeerFacts DEF SearchInv
    <3> QED
      BY <1>4, <3>1 DEF SearchInv, Typed, TypeOK
  <2>2. /\ ListsOnce(exact', Range(exact')) /\ Range(exact') \subseteq Node
        /\ ListsOnce(allowAll', Range(allowAll')) /\ Range(allowAll') \subseteq Node
        /\ ListsOnce(normal', Range(normal')) /\ Range(normal') \subseteq Node
    BY <1>3, <2>1 DEF QueuesSound
  <2>3. {exact, allowAll, normal}' \subseteq Seq(Node)
    BY <2>2, ListWithin
  <2>4. failed' \subseteq Node
    BY <1>1, <1>4 DEF SearchInv, Typed, TypeOK
  <2> QED
    BY <1>1, <2>1, <2>3, <2>4 DEF SearchInv, Typed, TypeOK
<1>6. TurnSound' /\ Len(asked') <= maxNodes' /\ failed' \subseteq Range(asked')
  BY <1>1, <1>4 DEF SearchInv, TurnSound, Busy
<1>7. PeersHeard'
  <2> SUFFICES ASSUME NEW n \in Answered' PROVE DOMAIN lists[n] \subseteq visited'
    BY <1>1 DEF PeersHeard
  <2>1. CASE n = at
    BY <1>4, <2>1
  <2>2. CASE n # at
    BY <1>4, <2>2 DEF SearchInv, PeersHeard
  <2> QED
    BY <2>1, <2>2
<1>8. CopiesHeard' /\ MatchesHeard' /\ LongestKept'
  BY <1>1, <1>4 DEF SearchInv, CopiesHeard, MatchesHeard, LongestKept
<1>9. KeptIsHeld'
  BY <1>1 DEF SearchInv, KeptIsHeld
<1>10. ScoreOfKept'
  <2>1. score' = 0 /\ phase' # "done"
    BY <1>1
  <2> QED
    BY <2>1 DEF ScoreOfKept
<1> QED
  BY <1>3, <1>5, <1>6, <1>7, <1>8, <1>9, <1>10 DEF SearchInv

\* The loop that ends has heard every node that answered.
LEMMA ReturnStep ==
    ASSUME SearchInv, Return
    PROVE  SearchInv'
<1>1. /\ phase = "next" /\ phase' = "done" /\ score = 0 /\ ~GoesOn
      /\ score' = IF method = "FindBlock with trust" /\ copies # <<>> THEN Score(accumulated) ELSE 0
      /\ UNCHANGED <<lists, held, method, maxNodes, visited, exact, allowAll, normal>>
      /\ UNCHANGED <<at, copies, accumulated, asked, failed>>
  BY DEF Return, network, queues, SearchInv, ScoreOfKept
<1>2. Score(accumulated) \in Nat
  BY ScoreFacts
<1>3. Answered' = Answered
  BY <1>1 DEF Answered
<1>4. Typed'
  BY <1>1, <1>2 DEF SearchInv, Typed, TypeOK
<1>5. QueuesSound' /\ TurnSound' /\ Len(asked') <= maxNodes' /\ failed' \subseteq Range(asked')
  BY <1>1 DEF SearchInv, QueuesSound, TurnSound, Busy
<1>6. PeersHeard' /\ CopiesHeard' /\ MatchesHeard' /\ LongestKept'
  BY <1>1, <1>3 DEF SearchInv, PeersHeard, CopiesHeard, MatchesHeard, LongestKept, Busy
<1>7. KeptIsHeld'
  BY <1>1 DEF SearchInv, KeptIsHeld
<1>8. ScoreOfKept'
  <2>1. ~GoesOn'
    BY <1>1 DEF GoesOn, HasQueued
  <2>2. CASE method = "FindBlock with trust" /\ copies # <<>>
    <3>1. score' = Score(accumulated)' /\ method' = "FindBlock with trust"
      BY <1>1, <2>2
    <3> QED
      BY <1>1, <2>1, <3>1 DEF ScoreOfKept
  <2>3. CASE ~(method = "FindBlock with trust" /\ copies # <<>>)
    <3>1. score' = 0
      BY <1>1, <2>3
    <3>2. ~(score' > 0)
      BY <3>1
    <3> QED
      BY <2>1, <3>1, <3>2, Zenon DEF ScoreOfKept
  <2> QED
    BY <2>2, <2>3
<1> QED
  BY <1>4, <1>5, <1>6, <1>7, <1>8 DEF SearchInv

-----------------------------------------------------------------------------
LEMMA SearchInvInit == Init => SearchInv
<1> SUFFICES ASSUME Init PROVE SearchInv
  OBVIOUS
<1>1. Seeds \in Seq(Node) /\ IsInjective(Seeds)
  BY DiscoveryAssumption DEF DiscoveryAssumption
<1>2. Range(Seeds) \subseteq Node
  BY <1>1 DEF Range
<1>3. ListsOnce(Seeds, Range(Seeds))
  <2>1. /\ Len(Seeds) \in Nat /\ DOMAIN Seeds = 1 .. Len(Seeds)
        /\ \A i \in 1 .. Len(Seeds) : Seeds[i] \in Range(Seeds)
    BY <1>1 DEF Range
  <2>2. Seeds \in Seq(Range(Seeds))
    BY <1>1, <2>1
  <2> QED
    BY <1>1, <2>2 DEF ListsOnce
<1>4. ListsOnce(<<>>, Range(<<>>)) /\ Range(<<>>) = {}
  BY NothingListed, ListRange
<1>5. Typed
  <2>1. <<>> \in Seq(Node) /\ <<>> \in Seq(Node \X Copy) /\ DOMAIN <<>> = {}
    OBVIOUS
  <2>2. at \in Node
    BY <1>2 DEF Init
  <2>3. DOMAIN accumulated \subseteq Key /\ Range(accumulated) \subseteq Copy
    BY <1>4, <2>1 DEF Init
  <2> QED
    BY <1>1, <1>2, <2>1, <2>2, <2>3 DEF Init, Typed, TypeOK
<1>6. QueuesSound
  BY <1>3, <1>4 DEF Init, QueuesSound
<1>7. TurnSound
  BY DEF Init, TurnSound, Busy
<1>8. Len(asked) <= maxNodes
  <2>1. Len(asked) = 0 /\ maxNodes \in Nat
    BY DiscoveryAssumption DEF Init, DiscoveryAssumption
  <2> QED
    BY <2>1
<1>9. failed \subseteq Range(asked) /\ Answered = {} /\ DOMAIN accumulated = {}
  <2>1. asked = <<>> /\ failed = {} /\ accumulated = <<>>
    BY DEF Init
  <2>2. DOMAIN <<>> = {}
    OBVIOUS
  <2> QED
    BY <1>4, <2>1, <2>2 DEF Answered
<1>10. PeersHeard /\ CopiesHeard /\ MatchesHeard /\ KeptIsHeld /\ LongestKept
  BY <1>9 DEF PeersHeard, CopiesHeard, MatchesHeard, KeptIsHeld, LongestKept
<1>11. ScoreOfKept
  <2>1. score = 0 /\ phase # "done"
    BY DEF Init
  <2> QED
    BY <2>1 DEF ScoreOfKept
<1> QED
  BY <1>5, <1>6, <1>7, <1>8, <1>9, <1>10, <1>11 DEF SearchInv

LEMMA SearchInvNext == SearchInv /\ [Next]_vars => SearchInv'
<1> SUFFICES ASSUME SearchInv, [Next]_vars PROVE SearchInv'
  OBVIOUS
<1>1. CASE UNCHANGED vars
  <2> USE <1>1 DEF vars, network, queues
  <2>1. Typed' /\ QueuesSound' /\ TurnSound' /\ Len(asked') <= maxNodes' /\ failed' \subseteq Range(asked')
    BY DEF SearchInv, Typed, TypeOK, QueuesSound, TurnSound, Busy
  <2>2. Answered' = Answered
    BY DEF Answered
  <2>3. PeersHeard' /\ CopiesHeard' /\ MatchesHeard' /\ KeptIsHeld' /\ LongestKept'
    BY <2>2 DEF SearchInv, PeersHeard, CopiesHeard, MatchesHeard, KeptIsHeld, LongestKept, Busy
  <2>4. ScoreOfKept'
    BY DEF SearchInv, ScoreOfKept, GoesOn, HasQueued
  <2> QED
    BY <2>1, <2>3, <2>4 DEF SearchInv
<1> QED
  BY <1>1, NextNodeStep, FetchBlockStep, FetchAllBlocksStep, SearchStep, FetchWellKnownStep,
     ReturnStep DEF Next

\* Each visited node is in one place, each node that answered has been heard, and what is
\* kept is the longest copy shown: the bookkeeping of all three searches of discovery.go.
THEOREM SearchInvariant == Spec => []SearchInv
BY SearchInvInit, SearchInvNext, PTL DEF Spec

\* A search keeps its state in the types that its Go structures have, whatever the nodes
\* list and hold.
THEOREM TypeCorrect == Spec => []TypeOK
<1>1. SearchInv => TypeOK
  BY DEF SearchInv, Typed
<1> QED
  BY <1>1, SearchInvariant, PTL

\* FindBlock and FindBlocksByEmail ask no node twice, and no more nodes than maxNodes,
\* although nodes list each other and the seeds.
THEOREM SearchAsksOnce == Spec => []AskedOnce
<1>1. SearchInv => AskedOnce
  BY DEF SearchInv, QueuesSound, ListsOnce, AskedOnce
<1> QED
  BY <1>1, SearchInvariant, PTL

\* What a search that ends within the limit without enough trust has done: the queues are
\* empty, and no request is left.
LEMMA AtTheEnd ==
    ASSUME SearchInv, phase = "done", Cardinality(visited) <= maxNodes, score < Threshold
    PROVE  /\ visited = Range(asked)
           /\ \A n \in Answered : DOMAIN lists[n] \subseteq visited
<1>1. ~(score >= Threshold)
  <2>1. score \in Nat /\ Threshold \in Nat
    BY DiscoveryAssumption DEF SearchInv, Typed, TypeOK, DiscoveryAssumption
  <2> QED
    BY <2>1
<1>2. exact = <<>> /\ allowAll = <<>> /\ normal = <<>>
  BY DEF SearchInv, ScoreOfKept, GoesOn, HasQueued
<1>3. Range(<<>>) = {}
  BY NothingListed, ListRange
<1>4. visited = Range(asked)
  BY <1>2, <1>3 DEF SearchInv, QueuesSound
<1>5. \A n \in Answered : DOMAIN lists[n] \subseteq visited
  BY <1>1 DEF SearchInv, PeersHeard, Busy
<1> QED
  BY <1>4, <1>5

\* A search that ends within the limit and without enough trust has asked the seeds and
\* every node that was listed by one that answered.
THEOREM SearchAsksEverybody == Spec => []AsksEverybody
<1>1. SearchInv => AsksEverybody
  <2> SUFFICES ASSUME SearchInv, phase = "done", Cardinality(visited) <= maxNodes, score < Threshold
               PROVE  Range(Seeds) \cup UNION {DOMAIN lists[n] : n \in Answered} \subseteq Range(asked)
    BY DEF AsksEverybody
  <2>1. Range(Seeds) \subseteq visited
    BY DEF SearchInv, QueuesSound
  <2> QED
    BY <2>1, AtTheEnd
<1> QED
  BY <1>1, SearchInvariant, PTL

\* Such a search has a copy of the block it looks for, or all keys that match the address,
\* when a node that answered holds them.
THEOREM SearchFinds == Spec => []FindsWhatThereIs
<1>1. SearchInv => FindsWhatThereIs
  BY DEF SearchInv, CopiesHeard, MatchesHeard, FindsWhatThereIs
<1> QED
  BY <1>1, SearchInvariant, PTL

\* FindBlock finds trust in a key that a node showed as revoked only when another node
\* showed a copy that is not revoked and has as many signatures.
THEOREM TrustAfterRevocation == Spec => []RevokedUnlessLonger
<1>1. SearchInv => RevokedUnlessLonger
  <2> SUFFICES ASSUME SearchInv, score > 0, Wanted # Root,
                      NEW n \in Answered, Wanted \in DOMAIN held[n], held[n][Wanted].revoked
               PROVE  \E m \in Range(asked) :
                        /\ Wanted \in DOMAIN held[m] /\ ~held[m][Wanted].revoked
                        /\ Length(held[n][Wanted]) <= Length(held[m][Wanted])
    BY DEF RevokedUnlessLonger
  <2>1. phase = "done" /\ method = "FindBlock with trust" /\ score = Score(accumulated)
    <3>1. score # 0
      OBVIOUS
    <3> QED
      BY <3>1 DEF SearchInv, ScoreOfKept
  <2>2. Wanted \in DOMAIN accumulated /\ Length(held[n][Wanted]) <= Length(accumulated[Wanted])
    BY <2>1 DEF SearchInv, LongestKept
  <2>3. ~accumulated[Wanted].revoked
    <3>1. Score(accumulated) > 0
      BY <2>1
    <3> QED
      BY <2>2, <3>1, ScoreFacts
  <2>4. PICK m \in Range(asked) : Wanted \in DOMAIN held[m] /\ accumulated[Wanted] = held[m][Wanted]
    BY <2>2 DEF SearchInv, KeptIsHeld
  <2> QED
    BY <2>2, <2>3, <2>4
<1> QED
  BY <1>1, SearchInvariant, PTL
=============================================================================
