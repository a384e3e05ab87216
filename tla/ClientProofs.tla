----------------------------- MODULE ClientProofs -----------------------------
(***************************************************************************)
(* Endorsing never reaches further than hands did, and with two hops never  *)
(* rests on endorsements, for any people, signatures and thresholds, and    *)
(* any number of runs at once.                                              *)
(*                                                                          *)
(* A listing may be out of date, but signatures are never taken back: the   *)
(* path that decided is still there when the endorsement is stored.         *)
(***************************************************************************)
EXTENDS Client, FiniteSetTheorems, TLAPS

Signed == byHand \cup endorsed

\* Who signed x by hand.
Hands(x) == {u \in Key : <<u, x>> \in byHand}

\* What the client of u is about to endorse it has reason to, by its listing.
Deserved(u, r) ==
    /\ Cardinality(TrustPaths(r, u, r.target)) >= Threshold
    /\ u \notin r.signers[r.target]

RunSound(u, r) ==
    /\ r \in Run
    /\ \A x \in Key : \A k \in r.signers[x] : <<k, x>> \in Signed
    /\ r.pc # "idle" => r.cmd \in {"sign", "endorse"}
    /\ r.pc \in {"list", "consider"} => r.cmd = "endorse"
    /\ r.pc \in {"read", "commit"}
         => r.target \in Key /\ (r.cmd = "endorse" => r.todo # <<>> /\ Deserved(u, r))

\* An entry has a signature that was made.
EntriesSigned ==
    \A x \in Key : \A e \in entries[x] : e # <<>> /\ <<Newest(e), x>> \in Signed

ClientInv ==
    /\ TypeOK /\ EntriesSigned
    /\ \A u \in Key : RunSound(u, run[u])

-----------------------------------------------------------------------------
(* Paths.                                                                   *)

\* There is a least index with a property, if there is any.
LEMMA LeastIndex ==
    ASSUME NEW n \in Nat, NEW T \in SUBSET (1 .. n), T # {}
    PROVE  \E m \in T : \A k \in T : m <= k
<1> DEFINE D == {1 .. m : m \in T}
<1>1. IsWellFoundedOn(StrictSubsetOrdering(1 .. n), FiniteSubsetsOf(1 .. n))
  BY FS_Interval, FS_StrictSubsetOrderingWellFounded
<1>2. D \subseteq FiniteSubsetsOf(1 .. n) /\ D # {}
  <2> SUFFICES ASSUME NEW m \in T PROVE 1 .. m \in FiniteSubsetsOf(1 .. n)
    OBVIOUS
  <2>1. IsFiniteSet(1 .. m) /\ 1 .. m \subseteq 1 .. n
    BY FS_Interval
  <2> QED
    BY <2>1 DEF FiniteSubsetsOf
<1> HIDE DEF D
<1>3. PICK d \in D : \A c \in D : ~(<<c, d>> \in StrictSubsetOrdering(1 .. n))
  BY <1>1, <1>2, WFMin
<1>4. PICK m \in T : d = 1 .. m
  BY <1>3 DEF D
<1>5. ASSUME NEW k \in T, k < m PROVE FALSE
  <2>1. 1 .. k \in D
    BY DEF D
  <2>2. 1 .. k \subseteq 1 .. m /\ 1 .. k # 1 .. m /\ 1 .. m \subseteq 1 .. n
    BY <1>5
  <2>3. <<1 .. k, 1 .. m>> \in StrictSubsetOrdering(1 .. n)
    BY <2>2 DEF StrictSubsetOrdering
  <2> QED
    BY <1>3, <1>4, <2>1, <2>3
<1> QED
  BY <1>5

\* What a trust path is made of.
LEMMA PathFacts ==
    \A r : \A u, x \in Key : \A p \in TrustPaths(r, u, x) :
      \E n \in 2 .. (MaxDepth + 1) :
        /\ p \in [1 .. n -> Key] /\ p[1] = u /\ p[n] = x
        /\ \A i \in 1 .. (n - 1) : p[i] \in r.signers[p[i + 1]]
<1> SUFFICES ASSUME NEW r, NEW u \in Key, NEW x \in Key, NEW p \in TrustPaths(r, u, x)
             PROVE  \E n \in 2 .. (MaxDepth + 1) :
                      /\ p \in [1 .. n -> Key] /\ p[1] = u /\ p[n] = x
                      /\ \A i \in 1 .. (n - 1) : p[i] \in r.signers[p[i + 1]]
  BY Zenon
<1>1. PICK n \in 2 .. (MaxDepth + 1) : p \in [1 .. n -> Key]
  BY DEF TrustPaths
<1>2. n \in Nat /\ p \in Seq(Key) /\ Len(p) = n
  BY <1>1, ClientAssumption DEF ClientAssumption
<1>3. /\ p[1] = u /\ p[Len(p)] = x
      /\ \A i, j \in 1 .. Len(p) : p[i] = p[j] => i = j
      /\ \A i \in 1 .. (Len(p) - 1) : p[i] \in Vouchers(r, p[i + 1])
  BY DEF TrustPaths
<1>4. \A y : Vouchers(r, y) \subseteq r.signers[y]
  BY DEF Vouchers
<1> QED
  BY <1>1, <1>2, <1>3, <1>4

\* A path along signatures does not leave a set closed under them.
LEMMA PathStaysInside ==
    ASSUME NEW r, NEW u \in Key, NEW x \in Key, NEW p \in TrustPaths(r, u, x),
           NEW E, \A y \in Key : \A k \in r.signers[y] : <<k, y>> \in E,
           NEW S, ClosedUnder(E, S), u \in S
    PROVE  x \in S
<1>1. PICK n \in 2 .. (MaxDepth + 1) :
             /\ p \in [1 .. n -> Key] /\ p[1] = u /\ p[n] = x
             /\ \A i \in 1 .. (n - 1) : p[i] \in r.signers[p[i + 1]]
  BY PathFacts, ZenonT(30)
<1>2. n \in Nat /\ n >= 2
  BY ClientAssumption DEF ClientAssumption
<1> DEFINE T == {i \in 1 .. n : p[i] \notin S}
<1>3. T = {}
  <2> SUFFICES ASSUME T # {} PROVE FALSE
    OBVIOUS
  <2>1. PICK m \in T : \A k \in T : m <= k
    BY <1>2, LeastIndex
  <2>2. m \in 2 .. n
    BY <1>1, <1>2, <2>1
  <2>3. m - 1 \in 1 .. (n - 1) /\ (m - 1) + 1 = m /\ m - 1 \notin T
    BY <1>2, <2>1, <2>2
  <2>4. p[m - 1] \in S /\ p[m - 1] \in r.signers[p[m]] /\ p[m] \in Key
    BY <1>1, <1>2, <2>2, <2>3
  <2>5. <<p[m - 1], p[m]>> \in E
    BY <2>4
  <2> QED
    BY <2>1, <2>4, <2>5 DEF ClosedUnder
<1> QED
  BY <1>1, <1>2, <1>3

\* The paths depend on the listing only.
LEMMA SamePaths ==
    ASSUME NEW q, NEW r, q.gone = r.gone, q.signers = r.signers
    PROVE  \A u, x : TrustPaths(q, u, x) = TrustPaths(r, u, x)
BY DEF TrustPaths, Vouchers

\* An endorsement has a path to rest on.
LEMMA DeservedHasPath ==
    ASSUME NEW u, NEW r, Deserved(u, r)
    PROVE  TrustPaths(r, u, r.target) # {}
<1>1. Cardinality({}) = 0
  BY FS_EmptySet
<1>2. ~(0 >= Threshold)
  BY ClientAssumption DEF ClientAssumption
<1>3. Cardinality(TrustPaths(r, u, r.target)) # 0
  BY <1>2, Zenon DEF Deserved
<1> QED
  BY <1>1, <1>3, Zenon

-----------------------------------------------------------------------------
(* The invariant.                                                           *)

\* What is listed of x was signed.
LEMMA ListedIsSigned ==
    ASSUME ClientInv, NEW x \in Key, NEW S \in Listings(x), NEW k \in S
    PROVE  k \in Key /\ <<k, x>> \in Signed
<1>1. PICK V \in Views(entries[x]) : k \in {Newest(e) : e \in V}
  BY DEF Listings
<1>2. V \subseteq entries[x]
  BY <1>1 DEF Views, Walk
<1>3. PICK e \in entries[x] : k = Newest(e)
  BY <1>1, <1>2
<1>4. <<Newest(e), x>> \in Signed
  BY <1>3 DEF ClientInv, EntriesSigned
<1>5. Signed \subseteq Key \X Key
  BY DEF ClientInv, TypeOK, Signed
<1> QED
  BY <1>3, <1>4, <1>5

\* A command that goes on in good order, while the node stays as it is.
LEMMA RunMoves ==
    ASSUME ClientInv, NEW u \in Key, NEW r, RunSound(u, r), Continue(u, r),
           UNCHANGED <<node, byHand, endorsed>>
    PROVE  ClientInv'
<1>1. run \in [Key -> Run] /\ r \in Run
  BY DEF ClientInv, TypeOK, RunSound
<1>2. /\ run' \in [Key -> Run] /\ run'[u] = r
      /\ \A v \in Key \ {u} : run'[v] = run[v]
  BY <1>1 DEF Continue
<1>3. UNCHANGED <<rows, revoked, entries, head, byHand, endorsed>>
  BY DEF node
<1>4. TypeOK'
  BY <1>2, <1>3 DEF ClientInv, TypeOK
<1>5. EntriesSigned'
  BY <1>3 DEF ClientInv, EntriesSigned, Signed
<1>6. \A v \in Key : RunSound(v, run'[v])
  BY <1>2 DEF ClientInv
<1>7. \A v \in Key : RunSound(v, run[v])'
  BY <1>3, <1>6 DEF RunSound, Signed, Deserved
<1> QED
  BY <1>4, <1>5, <1>7 DEF ClientInv

\* The facts about a command.
LEMMA RunFacts ==
    ASSUME ClientInv, NEW u \in Key
    PROVE  /\ run \in [Key -> Run] /\ run[u] \in Run /\ RunSound(u, run[u])
           /\ rows \in Seq(Key) /\ revoked \subseteq Key /\ Signed \subseteq Key \X Key
           /\ entries \in [Key -> SUBSET Seq(Key)] /\ head \in [Key -> Seq(Key)]
BY DEF ClientInv, TypeOK, Signed

LEMMA IdleSound == \A u \in Key : RunSound(u, Idle)
BY DEF RunSound, Run, Idle

\* A command goes on after its post.
LEMMA AfterSound ==
    ASSUME ClientInv, NEW u \in Key, run[u].pc \in {"read", "commit"}
    PROVE  RunSound(u, After(u))
<1>1. CASE run[u].cmd = "sign"
  BY <1>1, IdleSound DEF After
<1>2. CASE run[u].cmd # "sign"
  <2> DEFINE r == [run[u] EXCEPT !.pc = "consider", !.target = "none", !.prev = <<>>,
                                 !.todo = Tail(run[u].todo)]
  <2>1. run[u].cmd = "endorse" /\ run[u].todo # <<>>
    BY <1>2, RunFacts DEF RunSound
  <2>2. Tail(run[u].todo) \in Seq(Key)
    BY <2>1, RunFacts DEF Run
  <2>3. r \in Run /\ r.pc = "consider" /\ r.cmd = "endorse" /\ r.signers = run[u].signers
    <3>1. /\ run[u] \in Run /\ "none" \in Key \cup {"none"} /\ "consider" \in {"idle", "list", "consider", "read", "commit"}
          /\ <<>> \in Seq(Key)
      BY RunFacts
    <3> QED
      BY <2>1, <2>2, <3>1 DEF Run
  <2> HIDE DEF r
  <2>4. RunSound(u, r)
    BY <2>3, RunFacts DEF RunSound
  <2> QED
    BY <1>2, <2>4 DEF After, r
<1> QED
  BY <1>1, <1>2

LEMMA ClientInvInit == Init => ClientInv
<1> SUFFICES ASSUME Init PROVE ClientInv
  OBVIOUS
<1>1. ASSUME NEW k \in Key, NEW i \in 1 .. Len(Given[k])
      PROVE  /\ SubSeq(Given[k], 1, i) \in Seq(Key) /\ SubSeq(Given[k], 1, i) # <<>>
             /\ <<Newest(SubSeq(Given[k], 1, i)), k>> \in byHand
  <2> DEFINE g == Given[k]
             e == SubSeq(g, 1, i)
  <2>1. g \in Seq(Key) /\ i \in 1 .. Len(g) /\ Len(g) \in Nat
    BY ClientAssumption DEF ClientAssumption
  <2> HIDE DEF g
  <2>2. e \in Seq(Key) /\ Len(e) = i /\ e[i] = g[i] /\ i \in DOMAIN g /\ g[i] \in Key
    BY <2>1
  <2>3. Len(e) # 0
    BY <2>1, <2>2
  <2>4. e # <<>> /\ Newest(e) = g[i]
    BY <2>2, <2>3 DEF Newest
  <2>5. g[i] \in Elements(Given[k])
    BY <2>2 DEF Elements, g
  <2>6. <<g[i], k>> \in byHand
    BY <2>2, <2>5 DEF Init
  <2> QED
    BY <2>2, <2>4, <2>6 DEF g
<1>2. rows \in Seq(Key) /\ \A i, j \in 1 .. Len(rows) : rows[i] = rows[j] => i = j
  BY ClientAssumption DEF Init, ClientAssumption
<1>3. entries \in [Key -> SUBSET Seq(Key)] /\ head \in [Key -> Seq(Key)]
  <2>1. Given \in [Key -> Seq(Key)]
    BY ClientAssumption DEF ClientAssumption
  <2>2. \A k \in Key : {SubSeq(Given[k], 1, i) : i \in 1 .. Len(Given[k])} \in SUBSET Seq(Key)
    BY <1>1
  <2>3. /\ entries = [k \in Key |-> {SubSeq(Given[k], 1, i) : i \in 1 .. Len(Given[k])}]
        /\ head = Given
    BY DEF Init
  <2> QED
    BY <2>1, <2>2, <2>3
<1>4. run \in [Key -> Run]
  <2>1. run = [u \in Key |-> Idle]
    BY DEF Init
  <2>2. \A u \in Key : Idle \in Run
    BY IdleSound DEF RunSound
  <2> QED
    BY <2>1, <2>2
<1>5. TypeOK
  BY <1>2, <1>3, <1>4 DEF Init, TypeOK
<1>6. EntriesSigned
  <2>1. \A x \in Key : entries[x] = {SubSeq(Given[x], 1, i) : i \in 1 .. Len(Given[x])}
    BY DEF Init
  <2> SUFFICES ASSUME NEW x \in Key, NEW e \in entries[x]
               PROVE  e # <<>> /\ <<Newest(e), x>> \in Signed
    BY DEF EntriesSigned
  <2>2. PICK i \in 1 .. Len(Given[x]) : e = SubSeq(Given[x], 1, i)
    BY <2>1
  <2> QED
    BY <1>1, <2>2 DEF Signed
<1>7. \A u \in Key : RunSound(u, run[u])
  BY IdleSound DEF Init
<1> QED
  BY <1>5, <1>6, <1>7 DEF ClientInv

\* Rows and revocations are none of the commands' business.
LEMMA RowsStep ==
    ASSUME ClientInv, NEW u \in Key, AddBlock(u) \/ RevokeBlock(u)
    PROVE  ClientInv'
<1>1. UNCHANGED <<entries, head, run, byHand, endorsed>>
  BY DEF AddBlock, RevokeBlock
<1>2. rows' \in Seq(Key) /\ \A i, j \in 1 .. Len(rows') : rows'[i] = rows'[j] => i = j
  <2>1. CASE AddBlock(u)
    <3>1. /\ rows \in Seq(Key) /\ Len(rows) \in Nat
          /\ \A i, j \in 1 .. Len(rows) : rows[i] = rows[j] => i = j
      BY DEF ClientInv, TypeOK
    <3>2. rows' = Append(rows, u) /\ \A i \in 1 .. Len(rows) : rows[i] # u
      BY <2>1, <3>1 DEF AddBlock, Held, Elements
    <3>3. /\ rows' \in Seq(Key) /\ Len(rows') = Len(rows) + 1
          /\ \A i \in 1 .. Len(rows) : rows'[i] = rows[i]
          /\ rows'[Len(rows) + 1] = u
      BY <3>1, <3>2
    <3> QED
      BY <3>1, <3>2, <3>3
  <2>2. CASE RevokeBlock(u)
    BY <2>2 DEF RevokeBlock, ClientInv, TypeOK
  <2> QED
    BY <2>1, <2>2
<1>3. revoked' \subseteq Key
  BY DEF AddBlock, RevokeBlock, ClientInv, TypeOK
<1>4. TypeOK'
  BY <1>1, <1>2, <1>3 DEF ClientInv, TypeOK
<1>5. EntriesSigned' /\ \A v \in Key : RunSound(v, run[v])'
  BY <1>1 DEF ClientInv, EntriesSigned, RunSound, Signed, Deserved
<1> QED
  BY <1>4, <1>5 DEF ClientInv

\* A command begins.
LEMMA CommandStep ==
    ASSUME ClientInv, NEW u \in Key, Endorse(u) \/ \E x \in Key : Sign(u, x)
    PROVE  ClientInv'
<1>1. CASE Endorse(u)
  <2> DEFINE r == [Idle EXCEPT !.pc = "list", !.cmd = "endorse",
                               !.listed = rows, !.gone = revoked, !.todo = rows]
  <2>1. r \in Run /\ r.pc = "list" /\ r.cmd = "endorse" /\ r.signers = [k \in Key |-> {}]
    <3>1. Idle \in Run /\ Idle.signers = [k \in Key |-> {}]
      BY IdleSound DEF RunSound, Idle
    <3> QED
      BY <3>1, RunFacts DEF Run
  <2> HIDE DEF r
  <2>2. RunSound(u, r)
    BY <2>1 DEF RunSound
  <2>3. Continue(u, r) /\ UNCHANGED <<node, byHand, endorsed>>
    BY <1>1 DEF Endorse, r
  <2> QED
    BY <2>2, <2>3, RunMoves
<1>2. ASSUME NEW x \in Key, Sign(u, x) PROVE ClientInv'
  <2> DEFINE r == [Idle EXCEPT !.pc = "read", !.cmd = "sign", !.target = x]
  <2>1. /\ r \in Run /\ r.pc = "read" /\ r.cmd = "sign" /\ r.signers = [k \in Key |-> {}]
        /\ r.target = x
    <3>1. Idle \in Run /\ Idle.signers = [k \in Key |-> {}]
      BY IdleSound DEF RunSound, Idle
    <3> QED
      BY <3>1 DEF Run
  <2> HIDE DEF r
  <2>2. RunSound(u, r)
    BY <2>1 DEF RunSound
  <2>3. Continue(u, r) /\ UNCHANGED <<node, byHand, endorsed>>
    BY <1>2 DEF Sign, r
  <2> QED
    BY <2>2, <2>3, RunMoves
<1> QED
  BY <1>1, <1>2

\* The blocks are listed.
LEMMA ListStep ==
    ASSUME ClientInv, NEW u \in Key, ListEntries(u)
    PROVE  ClientInv'
<1>1. /\ run[u].pc = "list" /\ run[u].cmd = "endorse"
      /\ UNCHANGED <<node, byHand, endorsed>>
  BY RunFacts DEF ListEntries, RunSound
<1>2. CASE Continue(u, [run[u] EXCEPT !.pc = "consider", !.todo = run[u].listed])
  <2> DEFINE r == [run[u] EXCEPT !.pc = "consider", !.todo = run[u].listed]
  <2>1. r \in Run /\ r.pc = "consider" /\ r.cmd = "endorse" /\ r.signers = run[u].signers
    BY <1>1, RunFacts DEF Run
  <2> HIDE DEF r
  <2>2. RunSound(u, r)
    BY <2>1, RunFacts DEF RunSound
  <2> QED
    BY <1>1, <1>2, <2>2, RunMoves DEF r
<1>3. CASE /\ run[u].todo # <<>>
           /\ LET x == Head(run[u].todo) IN \E S \in Listings(x) :
                Continue(u, [run[u] EXCEPT
                             !.todo = Tail(run[u].todo),
                             !.signers = [run[u].signers EXCEPT ![x] = S]])
  <2> DEFINE x == Head(run[u].todo)
  <2>1. x \in Key /\ Tail(run[u].todo) \in Seq(Key)
    BY <1>3, RunFacts DEF Run
  <2>2. PICK S \in Listings(x) :
          Continue(u, [run[u] EXCEPT
                             !.todo = Tail(run[u].todo),
                             !.signers = [run[u].signers EXCEPT ![x] = S]])
    BY <1>3
  <2> HIDE DEF x
  <2> DEFINE g == [run[u].signers EXCEPT ![x] = S]
             r == [run[u] EXCEPT !.todo = Tail(run[u].todo), !.signers = g]
  <2>3. \A k \in S : k \in Key /\ <<k, x>> \in Signed
    BY <2>1, ListedIsSigned
  <2>4. g \in [Key -> SUBSET Key] /\ \A y \in Key : \A k \in g[y] : <<k, y>> \in Signed
    BY <2>1, <2>3, RunFacts, ZenonT(30) DEF Run, RunSound
  <2> HIDE DEF g
  <2>5. r \in Run /\ r.pc = "list" /\ r.cmd = "endorse" /\ r.signers = g
    BY <1>1, <2>1, <2>4, RunFacts DEF Run
  <2>6. Continue(u, r)
    BY <2>2 DEF g
  <2> HIDE DEF r
  <2>7. RunSound(u, r)
    BY <2>4, <2>5 DEF RunSound
  <2> QED
    BY <1>1, <2>6, <2>7, RunMoves
<1> QED
  BY <1>2, <1>3 DEF ListEntries

\* A block is considered.
LEMMA ConsiderStep ==
    ASSUME ClientInv, NEW u \in Key, Consider(u)
    PROVE  ClientInv'
<1>1. /\ run[u].pc = "consider" /\ run[u].cmd = "endorse"
      /\ UNCHANGED <<node, byHand, endorsed>>
  BY RunFacts DEF Consider, RunSound
<1>2. CASE run[u].todo = <<>>
  BY <1>1, <1>2, IdleSound, RunMoves DEF Consider
<1>3. CASE run[u].todo # <<>>
  <2> DEFINE x == Head(run[u].todo)
             q == [run[u] EXCEPT !.todo = Tail(run[u].todo)]
             r == [run[u] EXCEPT !.pc = "read", !.target = x]
  <2>1. x \in Key /\ Tail(run[u].todo) \in Seq(Key)
    BY <1>3, RunFacts DEF Run
  <2>2. q \in Run /\ q.pc = "consider" /\ q.cmd = "endorse" /\ q.signers = run[u].signers
    BY <1>1, <2>1, RunFacts DEF Run
  <2>3. /\ r \in Run /\ r.pc = "read" /\ r.cmd = "endorse" /\ r.todo # <<>> /\ r.target = x
        /\ r.signers = run[u].signers /\ r.gone = run[u].gone
    BY <1>1, <1>3, <2>1, RunFacts DEF Run
  <2>4. Continue(u, IF Wanted(u, x) THEN r ELSE q)
    BY <1>1, <1>3 DEF Consider
  <2> HIDE DEF x, q, r
  <2>5. RunSound(u, q)
    BY <2>2, RunFacts DEF RunSound
  <2>6. CASE Wanted(u, x)
    <3>1. Deserved(u, r)
      BY <2>3, <2>6, SamePaths DEF Wanted, Deserved
    <3>2. RunSound(u, r)
      BY <2>1, <2>3, <3>1, RunFacts DEF RunSound
    <3> QED
      BY <1>1, <2>4, <2>6, <3>2, RunMoves
  <2> QED
    BY <1>1, <2>4, <2>5, <2>6, RunMoves
<1> QED
  BY <1>2, <1>3

\* The post is refused, or the handler reads the block.
LEMMA PostStep ==
    ASSUME ClientInv, NEW u \in Key, Refused(u) \/ SignRead(u)
    PROVE  ClientInv'
<1>1. CASE Refused(u)
  BY <1>1, AfterSound, RunMoves DEF Refused
<1>2. CASE SignRead(u)
  <2> DEFINE r == [run[u] EXCEPT !.pc = "commit", !.prev = head[run[u].target]]
  <2>1. run[u].pc = "read" /\ run[u].target \in Key
    BY <1>2, RunFacts DEF SignRead, RunSound
  <2>2. head[run[u].target] \in Seq(Key)
    BY <2>1, RunFacts
  <2>3. /\ r \in Run /\ r.pc = "commit" /\ r.cmd = run[u].cmd /\ r.target = run[u].target
        /\ r.todo = run[u].todo /\ r.signers = run[u].signers /\ r.gone = run[u].gone
    BY <2>2, RunFacts DEF Run
  <2>4. Continue(u, r) /\ UNCHANGED <<node, byHand, endorsed>>
    BY <1>2 DEF SignRead
  <2> HIDE DEF r
  <2>5. Deserved(u, run[u]) => Deserved(u, r)
    BY <2>3, SamePaths DEF Deserved
  <2>6. RunSound(u, r)
    BY <2>1, <2>3, <2>5, RunFacts DEF RunSound
  <2> QED
    BY <2>4, <2>6, RunMoves
<1> QED
  BY <1>1, <1>2

\* What a commit changes.
LEMMA CommitFacts ==
    ASSUME ClientInv, NEW u \in Key, SignCommit(u)
    PROVE  /\ run[u].target \in Key /\ run[u].pc = "commit"
           /\ Signed' = Signed \cup {<<u, run[u].target>>}
           /\ byHand \subseteq byHand' /\ endorsed \subseteq endorsed'
           /\ \/ byHand' = byHand \cup {<<u, run[u].target>>} /\ endorsed' = endorsed
              \/ /\ byHand' = byHand /\ endorsed' = endorsed \cup {<<u, run[u].target>>}
                 /\ Deserved(u, run[u])
<1>1. run[u].pc = "commit" /\ run[u].target \in Key
      /\ (run[u].cmd # "sign" => Deserved(u, run[u]))
  BY RunFacts DEF SignCommit, RunSound
<1> QED
  BY <1>1 DEF SignCommit, Signed

LEMMA CommitStep ==
    ASSUME ClientInv, NEW u \in Key, SignCommit(u)
    PROVE  ClientInv'
<1> DEFINE x == run[u].target
           e == Append(run[u].prev, u)
           r == After(u)
<1>1. x \in Key /\ Signed' = Signed \cup {<<u, x>>} /\ run[u].pc = "commit"
  BY CommitFacts
<1>2. run[u].prev \in Seq(Key)
  BY RunFacts DEF Run
<1>3. e \in Seq(Key) /\ e # <<>> /\ Newest(e) = u
  BY <1>2 DEF Newest
<1>4. /\ entries' = [entries EXCEPT ![x] = entries[x] \cup {e}]
      /\ head' = [head EXCEPT ![x] = e]
      /\ Continue(u, r) /\ UNCHANGED <<rows, revoked>>
  BY DEF SignCommit
<1>5. RunSound(u, r)
  BY <1>1, AfterSound
<1> HIDE DEF x, e, r
<1>6. /\ run' \in [Key -> Run] /\ run'[u] = r
      /\ \A v \in Key \ {u} : run'[v] = run[v]
  BY <1>4, <1>5, RunFacts DEF Continue, RunSound
<1>7. TypeOK'
  <2>1. entries' \in [Key -> SUBSET Seq(Key)] /\ head' \in [Key -> Seq(Key)]
    BY <1>1, <1>3, <1>4, RunFacts
  <2>2. byHand' \subseteq Key \X Key /\ endorsed' \subseteq Key \X Key
    <3>1. Signed' \subseteq Key \X Key
      BY <1>1, RunFacts
    <3> QED
      BY <3>1 DEF Signed
  <2>3. rows' \in Seq(Key) /\ \A i, j \in 1 .. Len(rows') : rows'[i] = rows'[j] => i = j
    BY <1>4 DEF ClientInv, TypeOK
  <2> QED
    BY <1>4, <1>6, <2>1, <2>2, <2>3 DEF ClientInv, TypeOK
<1>8. EntriesSigned'
  <2> SUFFICES ASSUME NEW y \in Key, NEW d \in entries'[y]
               PROVE  d # <<>> /\ <<Newest(d), y>> \in Signed'
    BY DEF EntriesSigned
  <2>1. d \in entries[y] \/ (y = x /\ d = e)
    BY <1>1, <1>4, RunFacts
  <2> QED
    BY <1>1, <1>3, <2>1 DEF ClientInv, EntriesSigned
<1>9. \A v \in Key : RunSound(v, run[v])'
  <2>1. \A v \in Key : RunSound(v, run'[v])
    BY <1>5, <1>6, RunFacts
  <2> QED
    BY <1>1, <2>1 DEF RunSound, Deserved
<1> QED
  BY <1>7, <1>8, <1>9 DEF ClientInv

LEMMA ClientInvNext == ClientInv /\ [Next]_vars => ClientInv'
<1> SUFFICES ASSUME ClientInv, [Next]_vars PROVE ClientInv'
  OBVIOUS
<1>1. CASE UNCHANGED vars
  BY <1>1 DEF vars, node, ClientInv, TypeOK, EntriesSigned, RunSound, Deserved, Signed
<1>2. ASSUME NEW u \in Key, AddBlock(u) \/ RevokeBlock(u) PROVE ClientInv'
  BY <1>2, RowsStep
<1>3. ASSUME NEW u \in Key, Endorse(u) \/ \E x \in Key : Sign(u, x) PROVE ClientInv'
  BY <1>3, CommandStep
<1>4. ASSUME NEW u \in Key, Work(u) PROVE ClientInv'
  BY <1>4, ListStep, ConsiderStep, PostStep, CommitStep DEF Work
<1>5. Hand \subseteq Key \X Key /\ Revocable \subseteq Key /\ Endorser \subseteq Key
  BY ClientAssumption DEF ClientAssumption
<1>6. ASSUME NEW p \in Hand, Sign(p[1], p[2]) PROVE ClientInv'
  <2>1. p[1] \in Key /\ p[2] \in Key
    BY <1>5
  <2> QED
    BY <1>3, <1>6, <2>1
<1> QED
  BY <1>1, <1>2, <1>3, <1>4, <1>5, <1>6 DEF Next

\* The inductive invariant: entries and listings show only signatures that were made, and
\* an endorsement under way has its reasons in its listing.
THEOREM ClientInvariant == Spec => []ClientInv
<1> QED
  BY ClientInvInit, ClientInvNext, PTL DEF Spec

\* Every variable keeps its type, and a key its one row.
THEOREM ClientTypes == Spec => []TypeOK
<1>1. ClientInv => TypeOK
  BY DEF ClientInv
<1> QED
  BY <1>1, ClientInvariant, PTL

-----------------------------------------------------------------------------
(* What endorsing leads to.                                                 *)

\* Only a commit makes signatures.
LEMMA OnlyCommitSigns ==
    ASSUME [Next]_vars
    PROVE  UNCHANGED <<byHand, endorsed>> \/ \E u \in Key : SignCommit(u)
BY DEF Next, vars, node, AddBlock, RevokeBlock, Sign, Endorse, Work, ListEntries, Consider,
       Refused, SignRead

LEMMA NowhereNext == ClientInv /\ NoTrustFromNowhere /\ [Next]_vars => NoTrustFromNowhere'
<1> SUFFICES ASSUME ClientInv, NoTrustFromNowhere, [Next]_vars,
                    NEW S \in SUBSET Key, ClosedUnder(byHand', S)
             PROVE  ClosedUnder(byHand' \cup endorsed', S)
  BY DEF NoTrustFromNowhere, ClosedUnder
<1>1. CASE UNCHANGED <<byHand, endorsed>>
  BY <1>1 DEF NoTrustFromNowhere
<1>2. ASSUME NEW u \in Key, SignCommit(u) PROVE ClosedUnder(byHand' \cup endorsed', S)
  <2> DEFINE x == run[u].target
  <2>1. x \in Key /\ byHand \subseteq byHand' /\ byHand' \cup endorsed' = Signed \cup {<<u, x>>}
    BY <1>2, CommitFacts DEF Signed
  <2>2. ClosedUnder(Signed, S)
    <3>1. ClosedUnder(byHand, S)
      BY <2>1 DEF ClosedUnder
    <3> QED
      BY <3>1 DEF NoTrustFromNowhere, Signed
  <2>3. u \in S => x \in S
    <3>1. CASE <<u, x>> \in byHand'
      BY <3>1 DEF ClosedUnder
    <3>2. CASE Deserved(u, run[u])
      <4>1. PICK p : p \in TrustPaths(run[u], u, x)
        BY <3>2, DeservedHasPath
      <4>2. \A y \in Key : \A k \in run[u].signers[y] : <<k, y>> \in Signed
        BY RunFacts DEF RunSound
      <4> HIDE DEF x
      <4> QED
        BY <2>1, <2>2, <4>1, <4>2, PathStaysInside
    <3> QED
      BY <1>2, <3>1, <3>2, CommitFacts
  <2> HIDE DEF x
  <2> QED
    BY <2>1, <2>2, <2>3 DEF ClosedUnder
<1> QED
  BY <1>1, <1>2, OnlyCommitSigns

\* Whom anybody reaches along signatures they reach along signatures made by hand
\* (cmdEndorse).
THEOREM EndorsingAddsNoReach == Spec => []NoTrustFromNowhere
<1>1. Init => NoTrustFromNowhere
  BY DEF Init, NoTrustFromNowhere, ClosedUnder
<1> QED
  BY <1>1, NowhereNext, ClientInvariant, PTL DEF Spec

-----------------------------------------------------------------------------
(* What endorsements rest on, with two hops.                                *)

\* With two hops, a way to a key that u has not signed goes through one that has.
LEMMA Middle ==
    ASSUME NEW r, NEW u \in Key, NEW x \in Key, NEW p \in TrustPaths(r, u, x)
    PROVE  MaxDepth <= 2 /\ u \notin r.signers[x]
             => /\ p \in [1 .. 3 -> Key] /\ p[1] = u /\ p[3] = x
                /\ p[2] \in r.signers[x]
<1>1. PICK n \in 2 .. (MaxDepth + 1) :
             /\ p \in [1 .. n -> Key] /\ p[1] = u /\ p[n] = x
             /\ \A i \in 1 .. (n - 1) : p[i] \in r.signers[p[i + 1]]
  BY PathFacts, ZenonT(30)
<1> SUFFICES ASSUME MaxDepth <= 2, u \notin r.signers[x]
             PROVE  /\ p \in [1 .. 3 -> Key] /\ p[1] = u /\ p[3] = x
                    /\ p[2] \in r.signers[x]
  OBVIOUS
<1>2. n = 2 \/ n = 3
  BY ClientAssumption DEF ClientAssumption
<1>3. n # 2
  <2> SUFFICES ASSUME n = 2 PROVE FALSE
    OBVIOUS
  <2>1. 1 \in 1 .. (n - 1) /\ 1 + 1 = 2
    OBVIOUS
  <2>2. p[1] \in r.signers[p[2]]
    BY <1>1, <2>1
  <2> QED
    BY <1>1, <2>2
<1>4. n = 3 /\ 2 \in 1 .. (n - 1) /\ 2 + 1 = 3
  BY <1>2, <1>3
<1>5. p[2] \in r.signers[p[3]]
  BY <1>1, <1>4
<1> QED
  BY <1>1, <1>4, <1>5

\* A way of two hops goes through one signer, and there is no more than one through each.
LEMMA TwoHops ==
    ASSUME MaxDepth <= 2, NEW r, NEW u \in Key, NEW x \in Key, u \notin r.signers[x],
           NEW H, IsFiniteSet(H), \A k \in Key : k \in r.signers[x] => k \in H
    PROVE  /\ IsFiniteSet(TrustPaths(r, u, x))
           /\ Cardinality(TrustPaths(r, u, x)) <= Cardinality(H)
<1>1. ASSUME NEW p \in TrustPaths(r, u, x)
      PROVE  /\ p \in [1 .. 3 -> Key] /\ p[1] = u /\ p[3] = x
             /\ p[2] \in r.signers[x] /\ p[2] \in Key
  <2>1. /\ p \in [1 .. 3 -> Key] /\ p[1] = u /\ p[3] = x
        /\ p[2] \in r.signers[x]
    BY Middle
  <2> QED
    BY <2>1
<1> DEFINE P == TrustPaths(r, u, x)
           f == [p \in P |-> p[2]]
<1> HIDE DEF P
<1>2. \A p \in P : p[2] \in H
  BY <1>1 DEF P
<1>3. ASSUME NEW p \in P, NEW q \in P, p[2] = q[2] PROVE p = q
  <2>1. /\ p \in [1 .. 3 -> Key] /\ q \in [1 .. 3 -> Key]
        /\ p[1] = q[1] /\ p[3] = q[3]
    BY <1>1 DEF P
  <2>2. \A i \in 1 .. 3 : p[i] = q[i]
    <3>1. \A i \in 1 .. 3 : i = 1 \/ i = 2 \/ i = 3
      OBVIOUS
    <3> QED
      BY <2>1, <1>3, <3>1
  <2> QED
    BY <2>1, <2>2
<1>4. f \in Injection(P, H)
  BY <1>2, <1>3 DEF Injection, IsInjective
<1>5. IsFiniteSet(P) /\ Cardinality(P) <= Cardinality(H)
  BY <1>4, FS_Injection
<1> QED
  BY <1>5 DEF P

\* Where nobody has endorsed x yet, those who lead to it have signed it by hand.
LEMMA PathsAreHands ==
    ASSUME ClientInv, MaxDepth <= 2, NEW u \in Key, NEW x \in Key,
           u \notin run[u].signers[x], \A k \in Key : <<k, x>> \notin endorsed
    PROVE  /\ IsFiniteSet(TrustPaths(run[u], u, x))
           /\ Cardinality(TrustPaths(run[u], u, x)) <= Cardinality(Hands(x))
<1>1. \A k \in Key : k \in run[u].signers[x] => k \in Hands(x)
  <2> SUFFICES ASSUME NEW k \in Key, k \in run[u].signers[x] PROVE k \in Hands(x)
    OBVIOUS
  <2>1. <<k, x>> \in Signed
    BY RunFacts DEF RunSound
  <2> QED
    BY <2>1 DEF Hands, Signed
<1>2. IsFiniteSet(Hands(x))
  <2>1. Hands(x) \subseteq Key
    BY DEF Hands
  <2> QED
    BY <2>1, FS_Subset, ClientAssumption DEF ClientAssumption
<1>3. PICK r : r = run[u]
  OBVIOUS
<1>4. PICK H : H = Hands(x)
  OBVIOUS
<1>5. /\ IsFiniteSet(TrustPaths(r, u, x))
      /\ Cardinality(TrustPaths(r, u, x)) <= Cardinality(H)
  <2>1. u \notin r.signers[x] /\ IsFiniteSet(H) /\ \A k \in Key : k \in r.signers[x] => k \in H
    BY <1>1, <1>2, <1>3, <1>4
  <2> QED
    BY <2>1, TwoHops
<1> QED
  BY <1>3, <1>4, <1>5

LEMMA IndependentlyNext ==
    MaxDepth <= 2 /\ ClientInv /\ EndorsedIndependently /\ [Next]_vars => EndorsedIndependently'
<1> SUFFICES ASSUME MaxDepth <= 2, ClientInv, EndorsedIndependently, [Next]_vars
             PROVE  EndorsedIndependently'
  OBVIOUS
<1>1. CASE UNCHANGED <<byHand, endorsed>>
  BY <1>1 DEF EndorsedIndependently
<1>2. ASSUME NEW u \in Key, SignCommit(u) PROVE EndorsedIndependently'
  <2> SUFFICES ASSUME NEW k, NEW y, <<k, y>> \in endorsed'
               PROVE  Cardinality(Hands(y)') >= Threshold
    <3>1. endorsed' \subseteq Key \X Key
      BY <1>2, CommitStep DEF ClientInv, TypeOK
    <3> QED
      BY <3>1 DEF EndorsedIndependently, Hands
  <2>1. /\ \A z : Hands(z) \subseteq Key /\ IsFiniteSet(Hands(z)) /\ IsFiniteSet(Hands(z)')
        /\ \A z : Cardinality(Hands(z)) \in Nat /\ Cardinality(Hands(z)') \in Nat
    <3>1. \A z : Hands(z) \subseteq Key /\ Hands(z)' \subseteq Key
      BY DEF Hands
    <3>2. IsFiniteSet(Key)
      BY ClientAssumption DEF ClientAssumption
    <3> QED
      BY <3>1, <3>2, FS_Subset, FS_CardinalityType
  <2>2. Cardinality(Hands(y)) <= Cardinality(Hands(y)')
    <3>1. Hands(y) \subseteq Hands(y)'
      BY <1>2, CommitFacts DEF Hands
    <3> QED
      BY <2>1, <3>1, FS_Subset
  <2>3. CASE \E z : <<z, y>> \in endorsed
    <3>1. Cardinality(Hands(y)) >= Threshold
      <4>1. PICK z : <<z, y>> \in endorsed
        BY <2>3
      <4>2. y \in {p[2] : p \in endorsed}
        BY <4>1
      <4> QED
        BY <4>2 DEF EndorsedIndependently, Hands
    <3> QED
      BY <2>1, <2>2, <3>1, ClientAssumption DEF ClientAssumption
  <2>4. CASE \A z : <<z, y>> \notin endorsed
    <3>1. /\ y = run[u].target /\ y \in Key /\ Deserved(u, run[u])
      BY <1>2, <2>4, CommitFacts
    <3>2. Cardinality(TrustPaths(run[u], u, y)) >= Threshold /\ u \notin run[u].signers[y]
      BY <3>1 DEF Deserved
    <3>3. /\ IsFiniteSet(TrustPaths(run[u], u, y))
          /\ Cardinality(TrustPaths(run[u], u, y)) <= Cardinality(Hands(y))
      BY <2>4, <3>1, <3>2, PathsAreHands
    <3> QED
      BY <2>1, <2>2, <3>2, <3>3, FS_CardinalityType, ClientAssumption DEF ClientAssumption
  <2> QED
    BY <2>3, <2>4
<1> QED
  BY <1>1, <1>2, OnlyCommitSigns

\* With at most two hops a key that anybody endorsed was signed by Threshold others by
\* hand, whatever the threshold and however many endorse at once (cmdEndorse,
\* main.go:327).
THEOREM EndorsementsAreIndependent == ASSUME MaxDepth <= 2 PROVE Spec => []EndorsedIndependently
<1>1. Init => EndorsedIndependently
  BY DEF Init, EndorsedIndependently
<1>2. ClientInv /\ EndorsedIndependently /\ [Next]_vars => EndorsedIndependently'
  BY IndependentlyNext
<1> QED
  BY <1>1, <1>2, ClientInvariant, PTL DEF Spec

=============================================================================
