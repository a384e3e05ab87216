---------------------------- MODULE PeeringProofs -----------------------------
(***************************************************************************)
(* Peer lists stay within their capacity and free of duplicates, for any    *)
(* number of nodes and of handlers at work.  Nothing about the handlers is  *)
(* needed for it: PeerList.Add looks again, under its lock.                 *)
(***************************************************************************)
EXTENDS Peering, TLAPS

ListInv == peers \in [Node -> Seq(Addr)] /\ ListSound

\* One list: within its capacity, and without duplicates.
Sound(s) ==
    /\ Len(s) <= MaxPeers
    /\ \A i, j \in 1 .. Len(s) : s[i] = s[j] => i = j

\* Appending what is not on a list that has room keeps it sound.
LEMMA AppendSound ==
    ASSUME PeeringAssumption, NEW s \in Seq(Addr), NEW a \in Addr,
           Sound(s), ~(Len(s) >= MaxPeers), ~(\E i \in 1 .. Len(s) : s[i] = a)
    PROVE  Append(s, a) \in Seq(Addr) /\ Sound(Append(s, a))
  <1>1. /\ Append(s, a) \in Seq(Addr) /\ Len(Append(s, a)) = Len(s) + 1
        /\ Append(s, a)[Len(s) + 1] = a
        /\ \A i \in 1 .. Len(s) : Append(s, a)[i] = s[i]
    OBVIOUS
  <1>2. Len(s) \in Nat /\ MaxPeers \in Nat
    BY DEF PeeringAssumption
  <1>3. Len(Append(s, a)) <= MaxPeers
    BY <1>1, <1>2
  <1>4. ASSUME NEW i \in 1 .. Len(s) + 1, NEW j \in 1 .. Len(s) + 1,
               Append(s, a)[i] = Append(s, a)[j]
        PROVE  i = j
    <2>1. CASE i \in 1 .. Len(s) /\ j \in 1 .. Len(s)
      BY <1>1, <1>4, <2>1 DEF Sound
    <2>2. CASE i = Len(s) + 1 \/ j = Len(s) + 1
      BY <1>1, <1>2, <1>4, <2>2
    <2> QED
      BY <1>2, <2>1, <2>2
  <1> QED
    BY <1>1, <1>3, <1>4 DEF Sound

\* ListSound, list by list, before a step and after it.
LEMMA ListSoundMeans ==
    /\ ListSound <=> \A n \in Node : Sound(peers[n])
    /\ ListSound' <=> \A n \in Node : Sound(peers'[n])
  BY DEF ListSound, Sound

\* Add keeps every list sound.
LEMMA AddSound ==
    ASSUME PeeringAssumption, ListInv, NEW n \in Node, NEW a \in Addr, Add(n, a)
    PROVE  ListInv'
  <1>1. CASE UNCHANGED peers
    BY <1>1 DEF ListInv, ListSound
  <1>2. CASE ~Listed(n, a) /\ ~Full(n) /\ AppendTo(n, a)
    <2>1. Append(peers[n], a) \in Seq(Addr) /\ Sound(Append(peers[n], a))
      BY <1>2, AppendSound, ListSoundMeans DEF ListInv, Listed, Full
    <2>2. peers' = [peers EXCEPT ![n] = Append(peers[n], a)]
      BY <1>2 DEF AppendTo
    <2> QED
      BY <2>1, <2>2, ListSoundMeans DEF ListInv
  <1> QED
    BY <1>1, <1>2 DEF Add

\* However registrations race, no peer list outgrows its capacity or names a peer
\* twice (PeerList.Add).
THEOREM ListsStaySound == Spec => []ListSound
  <1>1. Init => ListInv
    BY PeeringAssumption DEF Init, PeeringAssumption, ListInv, ListSound
  <1>2. ListInv /\ [Next]_vars => ListInv'
    <2> SUFFICES ASSUME ListInv, [Next]_vars PROVE ListInv'
      OBVIOUS
    <2>1. CASE UNCHANGED peers
      BY <2>1 DEF ListInv, ListSound
    <2>2. ASSUME NEW n \in Node, NEW a \in Addr, Admit(n, a)
          PROVE  ListInv'
      BY <2>2, PeeringAssumption, AddSound DEF Admit
    <2>3. ASSUME NEW n \in Node, Restart(n)
          PROVE  ListInv'
      <3>1. Boot[n] \in Seq(Addr) /\ Sound(Boot[n])
        BY PeeringAssumption DEF PeeringAssumption, Sound
      <3>2. peers' = [peers EXCEPT ![n] = Boot[n]]
        BY <2>3 DEF Restart
      <3> QED
        BY <3>1, <3>2, ListSoundMeans DEF ListInv
    <2> QED
      BY <2>1, <2>2, <2>3 DEF Next, Work, Ask, Check, Refuse, Lose, vars
  <1>3. ListInv => ListSound
    BY DEF ListInv
  <1> QED
    BY <1>1, <1>2, <1>3, PTL DEF Spec

\* One more or one less of what is counted is a count again.
LEMMA CountsStay ==
    ASSUME NEW f \in [Node -> [Addr -> Nat]], NEW n \in Node, NEW a \in Addr
    PROVE  /\ More(f, n, a) \in [Node -> [Addr -> Nat]]
           /\ f[n][a] > 0 => Less(f, n, a) \in [Node -> [Addr -> Nat]]
  <1>1. f[n] \in [Addr -> Nat] /\ f[n][a] \in Nat
    OBVIOUS
  <1>2. [f[n] EXCEPT ![a] = @ + 1] \in [Addr -> Nat]
    BY <1>1
  <1>3. f[n][a] > 0 => [f[n] EXCEPT ![a] = @ - 1] \in [Addr -> Nat]
    BY <1>1
  <1>4. /\ More(f, n, a) = [f EXCEPT ![n] = [f[n] EXCEPT ![a] = @ + 1]]
        /\ Less(f, n, a) = [f EXCEPT ![n] = [f[n] EXCEPT ![a] = @ - 1]]
    BY DEF More, Less
  <1> QED
    BY <1>2, <1>3, <1>4

\* Lists hold addresses, and no request or handler is counted away that is not there
\* (handleAddPeer, registerSelfWithPeer).
THEOREM PeeringTypes == Spec => []TypeOK
  <1>0. Node \subseteq Addr /\ MaxAsk \in Nat /\ MaxUpset \in Nat /\ Boot \in [Node -> Seq(Addr)]
    BY PeeringAssumption DEF PeeringAssumption
  <1>1. None \in [Node -> [Addr -> Nat]]
    BY DEF None
  <1>2. Init => TypeOK
    BY <1>0, <1>1 DEF Init, TypeOK
  <1>3. TypeOK /\ [Next]_vars => TypeOK'
    <2> SUFFICES ASSUME TypeOK, [Next]_vars PROVE TypeOK'
      OBVIOUS
    <2>1. CASE UNCHANGED vars
      BY <2>1 DEF TypeOK, vars
    <2>2. ASSUME NEW n \in Node, NEW a \in Addr, Ask(n, a) PROVE TypeOK'
      <3>1. wire' \in [Node -> [Addr -> Nat]]
        BY <2>2, CountsStay DEF Ask, TypeOK
      <3>2. asks' \in 0 .. MaxAsk
        BY <1>0, <2>2 DEF Ask, TypeOK
      <3> QED
        BY <2>2, <3>1, <3>2 DEF Ask, TypeOK
    <2>3. ASSUME NEW n \in Node, NEW a \in Addr, Check(n, a) PROVE TypeOK'
      <3>1. wire' \in [Node -> [Addr -> Nat]]
        BY <2>3, CountsStay DEF Check, TypeOK
      <3>2. probing' \in [Node -> [Addr -> Nat]]
        <4>1. More(probing, n, a) \in [Node -> [Addr -> Nat]]
          BY CountsStay DEF TypeOK
        <4>2. probing' = probing \/ probing' = More(probing, n, a)
          BY <2>3 DEF Check
        <4> QED
          BY <4>1, <4>2 DEF TypeOK
      <3> QED
        BY <2>3, <3>1, <3>2 DEF Check, TypeOK
    <2>4. ASSUME NEW n \in Node, NEW a \in Addr, Refuse(n, a) PROVE TypeOK'
      BY <2>4, CountsStay DEF Refuse, TypeOK
    <2>5. ASSUME NEW n \in Node, NEW a \in Addr, Admit(n, a) PROVE TypeOK'
      <3>1. probing' \in [Node -> [Addr -> Nat]]
        BY <2>5, CountsStay DEF Admit, TypeOK
      <3>2. wire' \in [Node -> [Addr -> Nat]]
        <4>1. a \in Node /\ n \in Addr
          BY <1>0, <2>5 DEF Admit
        <4>2. More(wire, a, n) \in [Node -> [Addr -> Nat]]
          BY <4>1, CountsStay DEF TypeOK
        <4> QED
          BY <2>5, <4>2 DEF Admit, TypeOK
      <3>3. peers' \in [Node -> Seq(Addr)]
        <4>1. Append(peers[n], a) \in Seq(Addr)
          BY DEF TypeOK
        <4>2. peers' = peers \/ peers' = [peers EXCEPT ![n] = Append(peers[n], a)]
          BY <2>5 DEF Admit, Add, AppendTo
        <4> QED
          BY <4>1, <4>2 DEF TypeOK
      <3> QED
        BY <2>5, <3>1, <3>2, <3>3 DEF Admit, TypeOK
    <2>6. ASSUME NEW n \in Node, NEW a \in Addr, Lose(n, a) PROVE TypeOK'
      <3>1. wire' \in [Node -> [Addr -> Nat]]
        BY <2>6, CountsStay DEF Lose, TypeOK
      <3>2. upsets' \in 0 .. MaxUpset
        BY <1>0, <2>6 DEF Lose, Upset, TypeOK
      <3> QED
        BY <2>6, <3>1, <3>2 DEF Lose, TypeOK
    <2>7. ASSUME NEW n \in Node, Restart(n) PROVE TypeOK'
      BY <1>0, <1>1, <2>7 DEF Restart, Upset, TypeOK
    <2> QED
      BY <2>1, <2>2, <2>3, <2>4, <2>5, <2>6, <2>7 DEF Next, Work
  <1> QED
    BY <1>2, <1>3, PTL DEF Spec

=============================================================================
