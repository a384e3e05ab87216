----------------------------- MODULE GossipProofs -----------------------------
(***************************************************************************)
(* What gossip never does, for any nodes, peers, events and fan-out.        *)
(*                                                                          *)
(* An event that a node holds, or has marked, got there through a handler   *)
(* and two steps of a goroutine, so the invariants speak of these too: what *)
(* a handler is about to store has its block (and its signer's) at hand,    *)
(* and what a goroutine is about to mark is known.                          *)
(***************************************************************************)
EXTENDS Gossip, TLAPS

USE DEF upsets

\* What a handler of e needs at n.
Ready(n, e) ==
    /\ e \in SigEv \cup RevokeEv => Of[e] \in stored[n]
    /\ e \in SigEv \ Inline => Holds(n, By[e])

HandlersReady == \A n \in Node, e \in Event : receiving[n][e] > 0 => Ready(n, e)

GossipersKnow ==
    \A n \in Node, e \in Event : checking[n][e] > 0 \/ marking[n][e] > 0 => Known(n, e)

GossipInv ==
    /\ TypeOK
    /\ HeldInOrder /\ HandlersReady
    /\ SeenMeansForwarded /\ GossipersKnow

-----------------------------------------------------------------------------
\* One more is counted at n for e and nowhere else.
LEMMA OneMore ==
    \A f \in Counts, n \in Node, e \in Event :
      /\ More(f, n, e) \in Counts
      /\ More(f, n, e)[n][e] > 0
      /\ \A m \in Node, d \in Event :
           /\ f[m][d] > 0 => More(f, n, e)[m][d] > 0
           /\ More(f, n, e)[m][d] > 0 => f[m][d] > 0 \/ (m = n /\ d = e)
BY DEF Counts, More

\* Where there is one, one fewer can be counted.
LEMMA OneLess ==
    ASSUME NEW f \in Counts, NEW n \in Node, NEW e \in Event, f[n][e] > 0
    PROVE  /\ Less(f, n, e) \in Counts
           /\ \A m \in Node, d \in Event : Less(f, n, e)[m][d] > 0 => f[m][d] > 0
BY DEF Counts, Less

\* Rows are only added.
Grows ==
    /\ stored' \in [Node -> SUBSET Event]
    /\ \A m \in Node : stored[m] \subseteq stored'[m]

\* What is known or at hand stays so.
LEMMA Growth ==
    ASSUME Grows
    PROVE  \A m \in Node, d \in Event :
             (Known(m, d) => Known(m, d)') /\ (Ready(m, d) => Ready(m, d)')
BY DEF Grows, Known, Ready, Holds, KeysOf

\* A database in order stays in order with more that is in order with it.
LEMMA OrderGrows ==
    ASSUME NEW S, NEW T, InOrder(S),
           \A e \in T \cap (SigEv \cup RevokeEv) : Of[e] \in S \cup T,
           \A e \in T \cap (SigEv \ Inline) : By[e] \in KeysOf(S \cup T),
           \A b, c \in (S \cup T) \cap BlockEv : Fp[b] = Fp[c] => b = c
    PROVE  InOrder(S \cup T)
<1>1. \A e \in (S \cup T) \cap (SigEv \cup RevokeEv) : Of[e] \in S \cup T
  BY DEF InOrder
<1>2. \A e \in (S \cup T) \cap (SigEv \ Inline) : By[e] \in KeysOf(S \cup T)
  BY DEF InOrder, KeysOf
<1> QED
  BY <1>1, <1>2 DEF InOrder

\* What Store does to the rows of each node.
LEMMA Storing ==
    ASSUME stored \in [Node -> SUBSET Event], NEW n \in Node, NEW S \in SUBSET Event,
           Store(n, S)
    PROVE  /\ Grows
           /\ \A m \in Node : stored'[m] = IF m = n THEN stored[m] \cup S ELSE stored[m]
BY DEF Store, Grows

\* An event that is ready is inserted in order, or known already.
LEMMA Inserting ==
    ASSUME GossipInv, NEW n \in Node, NEW e \in Event, Ready(n, e), Insert(n, e)
    PROVE  Grows /\ HeldInOrder' /\ Known(n, e)'
<1>0. stored \in [Node -> SUBSET Event] /\ HeldInOrder
  BY DEF GossipInv, TypeOK
<1>1. CASE e \in BlockEv /\ Holds(n, Fp[e])
  BY <1>0, <1>1 DEF Insert, Grows, HeldInOrder, Known, Holds
<1>2. CASE ~(e \in BlockEv /\ Holds(n, Fp[e]))
  <2>1. {e} \in SUBSET Event /\ Store(n, {e})
    BY <1>2 DEF Insert
  <2>2. /\ Grows
        /\ \A m \in Node : stored'[m] = IF m = n THEN stored[m] \cup {e} ELSE stored[m]
    BY <1>0, <2>1, Storing
  <2>3. InOrder(stored[n] \cup {e})
    <3>1. InOrder(stored[n])
      BY <1>0 DEF HeldInOrder
    <3>2. \A d \in {e} \cap (SigEv \cup RevokeEv) : Of[d] \in stored[n] \cup {e}
      BY DEF Ready
    <3>3. \A d \in {e} \cap (SigEv \ Inline) : By[d] \in KeysOf(stored[n] \cup {e})
      BY DEF Ready, Holds, KeysOf
    <3>4. \A b, c \in (stored[n] \cup {e}) \cap BlockEv : Fp[b] = Fp[c] => b = c
      BY <1>2, <3>1 DEF InOrder, Holds, KeysOf
    <3> QED
      BY <3>1, <3>2, <3>3, <3>4, OrderGrows
  <2>4. HeldInOrder'
    BY <1>0, <2>2, <2>3 DEF HeldInOrder
  <2>5. Known(n, e)'
    BY <2>2 DEF Known, Holds, KeysOf
  <2> QED
    BY <2>2, <2>4, <2>5
<1> QED
  BY <1>1, <1>2

\* What is taken over from a peer is in order at the node that takes it: the peer has one
\* block of each key, and none of them is of a key that the node has.
LEMMA Taking ==
    ASSUME GossipInv, NEW n \in Node, NEW p \in Node, NEW B, NEW S \in Taken(n, p, B),
           Store(n, S)
    PROVE  Grows /\ HeldInOrder' /\ stored'[n] = stored[n] \cup S
<1>0. stored \in [Node -> SUBSET Event] /\ HeldInOrder
  BY DEF GossipInv, TypeOK
<1>1. /\ S \in SUBSET Event /\ S \subseteq stored[p] \cap Synced
      /\ S \cap BlockEv \subseteq Missing(n, p)
      /\ \A s \in S \cap SigEv :
           /\ Of[s] \in S \cup stored[n]
           /\ s \notin Inline => By[s] \in KeysOf(S \cup stored[n])
  BY DEF Taken, Synced, Event
<1>2. /\ Grows
      /\ \A m \in Node : stored'[m] = IF m = n THEN stored[m] \cup S ELSE stored[m]
  BY <1>0, <1>1, Storing
<1>3. InOrder(stored[n] \cup S)
  <2>1. InOrder(stored[n]) /\ InOrder(stored[p])
    BY <1>0 DEF HeldInOrder
  <2>2. S \cup stored[n] = stored[n] \cup S
    OBVIOUS
  <2>3. \A e \in S \cap (SigEv \cup RevokeEv) : Of[e] \in stored[n] \cup S
    BY <1>1, <2>2, GossipAssumption DEF Synced
  <2>4. \A e \in S \cap (SigEv \ Inline) : By[e] \in KeysOf(stored[n] \cup S)
    BY <1>1, <2>2
  <2>5. \A b, c \in S \cap BlockEv : Fp[b] = Fp[c] => b = c
    BY <1>1, <2>1 DEF InOrder
  <2>6. \A b \in S \cap BlockEv, c \in stored[n] \cap BlockEv : Fp[b] # Fp[c]
    BY <1>1 DEF Missing, Holds, KeysOf
  <2>7. \A b, c \in (stored[n] \cup S) \cap BlockEv : Fp[b] = Fp[c] => b = c
    BY <2>1, <2>5, <2>6 DEF InOrder
  <2> QED
    BY <2>1, <2>3, <2>4, <2>7, OrderGrows
<1> QED
  BY <1>0, <1>2, <1>3 DEF HeldInOrder

-----------------------------------------------------------------------------
(* One lemma per action: it preserves the invariant.                        *)

\* A client's event is stored with what it is about at hand.
LEMMA SubmitStep ==
    ASSUME GossipInv, NEW n \in Node, NEW e \in Event, Submit(n, e)
    PROVE  GossipInv'
<1>0. Ready(n, e) /\ Insert(n, e)
  BY DEF Submit, Acceptable, SignerHeld, Ready, Known, Insert
<1>1. Grows /\ HeldInOrder' /\ Known(n, e)'
  BY <1>0, Inserting
<1>2. checking' \in Counts
      /\ \A m \in Node, d \in Event :
           checking'[m][d] > 0 => checking[m][d] > 0 \/ (m = n /\ d = e)
  <2>1. checking \in Counts /\ checking' = More(checking, n, e)
    BY DEF Submit, GossipInv, TypeOK
  <2> QED
    BY <2>1, OneMore
<1>3. UNCHANGED <<seen, wire, receiving, marking, sent, upsets>>
  BY DEF Submit
<1>4. TypeOK'
  BY <1>1, <1>2, <1>3 DEF Grows, GossipInv, TypeOK
<1>5. HandlersReady' /\ GossipersKnow'
  BY <1>1, <1>2, <1>3, Growth DEF GossipInv, HandlersReady, GossipersKnow
<1>6. SeenMeansForwarded'
  BY <1>1, <1>3, Growth DEF GossipInv, SeenMeansForwarded
<1> QED
  BY <1>1, <1>4, <1>5, <1>6 DEF GossipInv

\* A handler goes on with a post only when all the post needs is at hand.
LEMMA DeliverStep ==
    ASSUME GossipInv, NEW n \in Node, NEW e \in Event, Deliver(n, e)
    PROVE  GossipInv'
<1>0. /\ receiving \in Counts /\ wire \in Counts /\ wire[n][e] > 0
      /\ wire' = Less(wire, n, e)
      /\ stalled' \in BOOLEAN
      /\ UNCHANGED <<seen, checking, marking, sent, spent>>
  BY DEF Deliver, GossipInv, TypeOK
<1>1. Grows /\ HeldInOrder'
  <2>1. CASE UNCHANGED stored
    BY <2>1 DEF GossipInv, TypeOK, Grows, HeldInOrder
  <2>2. ASSUME NEW p \in Peers[n], NEW b, NEW S \in Taken(n, p, {b}), Store(n, S)
        PROVE  Grows /\ HeldInOrder'
    <3>1. p \in Node
      BY <2>2, GossipAssumption DEF GossipAssumption
    <3> QED
      BY <2>2, <3>1, Taking
  <2> QED
    BY <2>1, <2>2 DEF Deliver
<1>2. \/ receiving' = receiving
      \/ receiving' = More(receiving, n, e) /\ Ready(n, e)'
  <2>1. CASE Acceptable(n, e) /\ SignerHeld(n, e)
    <3>1. Ready(n, e)
      BY <2>1 DEF Acceptable, SignerHeld, Ready
    <3> QED
      BY <1>1, <2>1, <3>1, Growth DEF Deliver
  <2>2. ASSUME ~SignerHeld(n, e), Acceptable(n, e),
               NEW p \in Peers[n], NEW b \in Missing(n, p), Fp[b] = By[e],
               NEW S \in Taken(n, p, {b}), Store(n, S)
        PROVE  Ready(n, e)'
    <3>1. p \in Node
      BY <2>2, GossipAssumption DEF GossipAssumption
    <3>2. stored'[n] = stored[n] \cup S
      BY <2>2, <3>1, Taking
    <3>3. b \in S /\ b \in BlockEv
      BY <2>2 DEF Taken, Missing
    <3> QED
      BY <2>2, <3>2, <3>3 DEF Acceptable, SignerHeld, Ready, Holds, KeysOf
  <2> QED
    BY <2>1, <2>2 DEF Deliver
<1>3. receiving' \in Counts
      /\ \A m \in Node, d \in Event :
           receiving'[m][d] > 0 => receiving[m][d] > 0 \/ (m = n /\ d = e /\ Ready(n, e)')
  BY <1>0, <1>2, OneMore
<1>4. wire' \in Counts
  BY <1>0, OneLess
<1>5. TypeOK'
  BY <1>0, <1>1, <1>3, <1>4 DEF Grows, GossipInv, TypeOK
<1>6. HandlersReady' /\ GossipersKnow'
  BY <1>0, <1>1, <1>3, Growth DEF GossipInv, HandlersReady, GossipersKnow
<1>7. SeenMeansForwarded'
  BY <1>0, <1>1, Growth DEF GossipInv, SeenMeansForwarded
<1> QED
  BY <1>1, <1>5, <1>6, <1>7 DEF GossipInv

\* What the handler stores is in order by then, as nothing is ever removed; and what it
\* cannot store is known.
LEMMA AcceptStep ==
    ASSUME GossipInv, NEW n \in Node, NEW e \in Event, Accept(n, e)
    PROVE  GossipInv'
<1>0. /\ receiving \in Counts /\ receiving[n][e] > 0 /\ receiving' = Less(receiving, n, e)
      /\ checking \in Counts /\ checking' = More(checking, n, e)
      /\ Insert(n, e)
      /\ UNCHANGED <<seen, wire, marking, sent, upsets>>
  BY DEF Accept, GossipInv, TypeOK
<1>1. Grows /\ HeldInOrder' /\ Known(n, e)'
  <2>1. Ready(n, e)
    BY <1>0 DEF GossipInv, HandlersReady
  <2> QED
    BY <1>0, <2>1, Inserting
<1>2. receiving' \in Counts
      /\ \A m \in Node, d \in Event : receiving'[m][d] > 0 => receiving[m][d] > 0
  BY <1>0, OneLess
<1>3. checking' \in Counts
      /\ \A m \in Node, d \in Event :
           checking'[m][d] > 0 => checking[m][d] > 0 \/ (m = n /\ d = e)
  BY <1>0, OneMore
<1>4. TypeOK'
  BY <1>0, <1>1, <1>2, <1>3 DEF Grows, TypeOK, GossipInv
<1>5. HandlersReady' /\ GossipersKnow'
  BY <1>0, <1>1, <1>2, <1>3, Growth DEF GossipInv, HandlersReady, GossipersKnow
<1>6. SeenMeansForwarded'
  BY <1>0, <1>1, Growth DEF GossipInv, SeenMeansForwarded
<1> QED
  BY <1>1, <1>4, <1>5, <1>6 DEF GossipInv

\* A goroutine that goes on to mark an event came for one that is known.
LEMMA CheckSeenStep ==
    ASSUME GossipInv, NEW n \in Node, NEW e \in Event, CheckSeen(n, e)
    PROVE  GossipInv'
<1>0. /\ checking \in Counts /\ checking[n][e] > 0 /\ checking' = Less(checking, n, e)
      /\ marking \in Counts /\ marking' \in {marking, More(marking, n, e)}
      /\ UNCHANGED <<stored, seen, wire, receiving, sent, upsets>>
  BY DEF CheckSeen, GossipInv, TypeOK
<1>1. checking' \in Counts
      /\ \A m \in Node, d \in Event : checking'[m][d] > 0 => checking[m][d] > 0
  BY <1>0, OneLess
<1>2. marking' \in Counts
      /\ \A m \in Node, d \in Event :
           marking'[m][d] > 0 => marking[m][d] > 0 \/ checking[m][d] > 0
  BY <1>0, OneMore
<1>3. TypeOK'
  BY <1>0, <1>1, <1>2 DEF TypeOK, GossipInv
<1>4. HeldInOrder' /\ HandlersReady' /\ SeenMeansForwarded' /\ GossipersKnow'
  BY <1>0, <1>1, <1>2
     DEF GossipInv, HeldInOrder, HandlersReady, Ready, SeenMeansForwarded, GossipersKnow,
         Known, Holds
<1> QED
  BY <1>3, <1>4 DEF GossipInv

\* The mark and the posts come in one step.
LEMMA ForwardStep ==
    ASSUME GossipInv, NEW n \in Node, NEW e \in Event, Forward(n, e)
    PROVE  GossipInv'
<1> USE DEF Forward, GossipInv
<1>0. marking \in Counts /\ marking[n][e] > 0 /\ marking' = Less(marking, n, e)
  BY DEF TypeOK
<1>1. marking' \in Counts
      /\ \A m \in Node, d \in Event : marking'[m][d] > 0 => marking[m][d] > 0
  <2> HIDE DEF Forward, GossipInv
  <2> QED
    BY <1>0, OneLess
<1>2. sent' \in Counts /\ sent'[n][e] > 0
      /\ \A m \in Node, d \in Event : sent[m][d] > 0 => sent'[m][d] > 0
  BY OneMore, OneLess DEF TypeOK
<1>3. seen' \in [Node -> SUBSET Event]
      /\ \A m \in Node : seen'[m] = IF m = n THEN seen[m] \cup {e} ELSE seen[m]
  BY DEF TypeOK
<1>4. wire' \in Counts
  BY DEF TypeOK, Counts
<1>5. TypeOK'
  BY <1>1, <1>2, <1>3, <1>4 DEF TypeOK
<1>6. HeldInOrder' /\ HandlersReady' /\ GossipersKnow'
  BY <1>1 DEF HeldInOrder, HandlersReady, Ready, GossipersKnow, Known, Holds
<1>7. SeenMeansForwarded'
  <2>1. \A m \in Node, d \in Event : Known(m, d)' <=> Known(m, d)
    BY DEF Known, Holds
  <2> QED
    BY <1>0, <1>2, <1>3, <2>1 DEF SeenMeansForwarded, GossipersKnow, TypeOK
<1> QED
  BY <1>5, <1>6, <1>7

\* A lost post and an expired mark take nothing the invariant needs.
LEMMA LoseExpireStep ==
    ASSUME GossipInv, NEW n \in Node, NEW e \in Event, Lose(n, e) \/ Expire(n, e)
    PROVE  GossipInv'
<1> USE DEF GossipInv
<1>1. wire' \in Counts
  BY OneMore, OneLess DEF TypeOK, Lose, Expire
<1>2. spent' \in 0 .. MaxUpset /\ stalled' \in BOOLEAN
  <2>1. CASE Lose(n, e)
    BY <2>1, GossipAssumption DEF TypeOK, Lose, Upset, GossipAssumption
  <2>2. CASE Expire(n, e)
    BY <2>2 DEF TypeOK, Expire
  <2> QED
    BY <2>1, <2>2
<1>3. seen' \in [Node -> SUBSET Event] /\ \A m \in Node : seen'[m] \subseteq seen[m]
  BY DEF TypeOK, Lose, Expire
<1>4. UNCHANGED <<stored, receiving, checking, marking, sent>>
  BY DEF Lose, Expire
<1>5. TypeOK'
  BY <1>1, <1>2, <1>3, <1>4 DEF TypeOK
<1>6. HeldInOrder' /\ HandlersReady' /\ SeenMeansForwarded' /\ GossipersKnow'
  BY <1>3, <1>4 DEF HeldInOrder, HandlersReady, Ready, SeenMeansForwarded, GossipersKnow,
               Known, Holds
<1> QED
  BY <1>5, <1>6

\* Sync takes over signatures with their blocks.
LEMMA SyncStep ==
    ASSUME GossipInv, NEW n \in Node, NEW p \in Node, Sync(n, p)
    PROVE  GossipInv'
<1>1. PICK S \in Taken(n, p, Missing(n, p)) : Store(n, S)
  BY DEF Sync
<1>2. Grows /\ HeldInOrder'
  BY <1>1, Taking
<1>3. wire' \in Counts
  BY DEF GossipInv, TypeOK, Counts, Sync
<1>4. UNCHANGED <<seen, receiving, checking, marking, sent>>
  BY DEF Sync
<1>5. spent' \in 0 .. MaxUpset /\ stalled' \in BOOLEAN
  BY GossipAssumption DEF Sync, Upset, GossipAssumption, GossipInv, TypeOK
<1>6. TypeOK'
  BY <1>2, <1>3, <1>4, <1>5 DEF Grows, GossipInv, TypeOK
<1>7. HandlersReady' /\ GossipersKnow'
  BY <1>2, <1>4, Growth DEF GossipInv, HandlersReady, GossipersKnow
<1>8. SeenMeansForwarded'
  BY <1>2, <1>4, Growth DEF GossipInv, SeenMeansForwarded
<1> QED
  BY <1>2, <1>6, <1>7, <1>8 DEF GossipInv

\* A restart forgets marks and counts together, and the goroutines with them.
LEMMA RestartStep ==
    ASSUME GossipInv, NEW n \in Node, Restart(n)
    PROVE  GossipInv'
<1> USE DEF Restart, GossipInv
<1>1. \A f \in Counts : [f EXCEPT ![n] = None[n]] \in Counts
  <2>1. None[n] \in [Event -> Nat]
    BY DEF None
  <2> QED
    BY <2>1 DEF Counts
<1>2. TypeOK'
  <2>1. spent' \in 0 .. MaxUpset /\ stalled' \in BOOLEAN
    BY GossipAssumption DEF TypeOK, Upset, GossipAssumption
  <2>2. seen' \in [Node -> SUBSET Event]
    BY DEF TypeOK
  <2> QED
    BY <1>1, <2>1, <2>2 DEF TypeOK
<1>3. \A d \in Event : None[n][d] = 0
  BY DEF None
<1>4. HeldInOrder' /\ HandlersReady' /\ GossipersKnow'
  BY <1>3 DEF HeldInOrder, HandlersReady, Ready, GossipersKnow, Known, Holds, TypeOK, Counts
<1>5. SeenMeansForwarded'
  BY DEF SeenMeansForwarded, TypeOK, Counts, Known, Holds
<1> QED
  BY <1>2, <1>4, <1>5

-----------------------------------------------------------------------------
\* The inductive invariant holds at the start and survives every step.
LEMMA GossipInvInit ==
    ASSUME GossipAssumption, Init
    PROVE  GossipInv
<1>1. None \in Counts /\ \A n \in Node, e \in Event : ~(None[n][e] > 0)
  BY DEF None, Counts
<1>2. TypeOK
  <2>1. 0 \in 0 .. MaxUpset
    BY DEF GossipAssumption
  <2>2. stored \in [Node -> SUBSET Event] /\ seen \in [Node -> SUBSET Event]
    BY DEF GossipAssumption, Init
  <2> QED
    BY <1>1, <2>1, <2>2 DEF Init, TypeOK
<1>3. HeldInOrder
  BY DEF GossipAssumption, Init, HeldInOrder
<1>4. HandlersReady /\ SeenMeansForwarded /\ GossipersKnow
  BY <1>1 DEF Init, HandlersReady, SeenMeansForwarded, GossipersKnow
<1> QED
  BY <1>2, <1>3, <1>4 DEF GossipInv

\* Every step of the specification preserves it.
LEMMA GossipInvNext ==
    ASSUME GossipInv, [Next]_vars
    PROVE  GossipInv'
<1>1. CASE UNCHANGED vars
  BY <1>1 DEF vars, GossipInv, TypeOK, HeldInOrder, HandlersReady, Ready,
              SeenMeansForwarded, GossipersKnow, Known, Holds
<1>2. ASSUME NEW n \in Node, NEW e \in Event,
             Submit(n, e) \/ Work(n, e) \/ Lose(n, e) \/ Expire(n, e)
      PROVE  GossipInv'
  BY <1>2, SubmitStep, DeliverStep, AcceptStep, CheckSeenStep, ForwardStep, LoseExpireStep
     DEF Work
<1>3. ASSUME NEW n \in Node, NEW p \in Node, Sync(n, p)
      PROVE  GossipInv'
  BY <1>3, SyncStep
<1>4. ASSUME NEW n \in Node, Restart(n)
      PROVE  GossipInv'
  BY <1>4, RestartStep
<1> QED
  BY <1>1, <1>2, <1>3, <1>4 DEF Next

\* Gossip holds to its types, to the order of what builds on what, and to its marks.
THEOREM GossipInvariant == Spec => []GossipInv
<1>1. Init => GossipInv
  BY GossipAssumption, GossipInvInit
<1>2. GossipInv /\ [Next]_vars => GossipInv'
  BY GossipAssumption, GossipInvNext
<1> QED
  BY <1>1, <1>2, PTL DEF Spec

\* Every variable keeps its type: no count of posts, handlers or goroutines goes below
\* zero, for any number of them.
THEOREM GossipTypes == Spec => []TypeOK
<1>1. GossipInv => TypeOK
  BY DEF GossipInv
<1> QED
  BY <1>1, GossipInvariant, PTL

\* No node ever holds a signature or a revocation without the submission it covers, nor a
\* signature that neither carries its signer's key nor has a block of it, nor two
\* submissions of a key, through races, losses, restarts and syncs (Add, validateAndStore,
\* handleP2PReceiveSig, handleP2PReceiveRevoke, applySigEntries).
THEOREM OrderIsHeld == Spec => []HeldInOrder
<1>1. GossipInv => HeldInOrder
  BY DEF GossipInv
<1> QED
  BY <1>1, GossipInvariant, PTL

\* The seen-set never suppresses an event that its node has not forwarded since it started,
\* or would still take: it holds the event, or for a block another submission of its key,
\* to which the marked one lost the race for Add (GossipBlock, GossipSig, GossipRevoke,
\* and handleP2PReceiveBlock, which ignores the error of Add).
THEOREM MarksAreForwarded == Spec => []SeenMeansForwarded
<1>1. GossipInv => SeenMeansForwarded
  BY DEF GossipInv
<1> QED
  BY <1>1, GossipInvariant, PTL

=============================================================================
