--------------------------- MODULE LedgerRefinement ---------------------------
(***************************************************************************)
(* The cluster implements the replicated union, for every cluster and every *)
(* set of keys and signatures: a step adds at most one item to one node,    *)
(* one that exists or one built on what that node holds.                    *)
(***************************************************************************)
EXTENDS LedgerProofs

\* What a step does to the rows of the nodes.
StoreStep ==
    \/ UNCHANGED <<blocks, revoked, entries>>
    \/ \E n \in Node, b \in Block : AddRow(n, b) /\ UNCHANGED <<revoked, entries>>
    \/ \E n \in Node, b \in Block :
         /\ b \in blocks[n] \ revoked[n]
         /\ revoked' = [revoked EXCEPT ![n] = @ \cup {b}]
         /\ UNCHANGED <<blocks, entries>>
    \/ \E n \in Node, b \in Block, c \in Chain :
         /\ b \in blocks[n] /\ AddSig(n, b, c)
         /\ UNCHANGED <<blocks, revoked>>
         /\ Stored(b, c) \/ \E t \in Thread : Mints(t, n, b, c)

\* The steps that call Add do nothing else to the rows.
LEMMA StoreStepAdd ==
    ASSUME TypeOK,
           \/ \E n \in Node, b \in Block : AddBlock(n, b)
           \/ \E t \in Thread : StoreReceived(t) \/ ReceiveSigFetch(t) \/ SyncFetch(t) \/ ApplyFetch(t)
    PROVE  StoreStep
  <1>1. ASSUME NEW t \in Thread, NEW n \in Node, NEW p \in Node, NEW k, Fetch(t, n, p, k)
        PROVE  StoreStep
    BY <1>1 DEF Fetch, StoreStep, TypeOK
  <1>2. ASSUME FetchNothing PROVE StoreStep
    BY <1>2 DEF FetchNothing, StoreStep
  <1>3. ASSUME NEW n \in Node, NEW b \in Block, AddBlock(n, b) PROVE StoreStep
    BY <1>3 DEF AddBlock, StoreStep
  <1>4. ASSUME NEW t \in Thread, StoreReceived(t) PROVE StoreStep
    <2>1. task[t].node \in Node /\ task[t].blk \in Block
      BY <1>4, TaskKinds DEF StoreReceived, StoreTask
    <2> QED
      BY <1>4, <2>1 DEF StoreReceived, StoreStep
  <1>5. ASSUME NEW t \in Thread, ReceiveSigFetch(t) PROVE StoreStep
    <2>1. task[t].node \in Node /\ task[t].ask \subseteq Node
      BY <1>5, TaskKinds DEF ReceiveSigFetch, ReceiveTask
    <2> QED
      BY <1>1, <1>2, <1>5, <2>1 DEF ReceiveSigFetch
  <1>6. ASSUME NEW t \in Thread, SyncFetch(t) PROVE StoreStep
    <2>1. task[t].node \in Node /\ task[t].peer \in Node
      BY <1>6, TaskKinds DEF SyncFetch, SyncTask
    <2> QED
      BY <1>1, <1>2, <1>6, <2>1 DEF SyncFetch
  <1>7. ASSUME NEW t \in Thread, ApplyFetch(t) PROVE StoreStep
    <2>1. Head(stack[t]).node \in Node /\ Head(stack[t]).from \in Node
      BY <1>7, TopFrame DEF ApplyFetch, Frame
    <2> QED
      BY <1>1, <1>7, <2>1 DEF ApplyFetch, StoreStep
  <1> QED
    BY <1>3, <1>4, <1>5, <1>6, <1>7

\* Every step leaves the rows or makes one of three changes to them.
LEMMA StoreSteps ==
    ASSUME LedgerInv, [Next]_vars
    PROVE  StoreStep
  <1>1. TypeOK
    BY DEF LedgerInv
  <1>2. ASSUME NEW n \in Node, NEW b \in Block, Revoke(n, b) PROVE StoreStep
    BY <1>2 DEF Revoke, StoreStep
  <1>3. ASSUME NEW m \in net, ReceiveRevoke(m) PROVE StoreStep
    <2>1. m.to \in Node /\ m.blk \in Block
      BY <1>1 DEF TypeOK, Message
    <2> QED
      BY <1>2, <1>3, <2>1 DEF ReceiveRevoke
  <1>4. ASSUME NEW t \in Thread, SignCommit(t) \/ ReceiveSigCommit(t) \/ ApplyStore(t)
        PROVE  StoreStep
    <2>1. EntryStep
      BY <1>4, EntryStepSign, EntryStepReceive, EntryStepApply
    <2>2. UNCHANGED <<blocks, revoked>>
      BY <1>4 DEF SignCommit, ReceiveSigCommit, ApplyStore
    <2> QED
      BY <2>1, <2>2 DEF EntryStep, StoreStep
  <1>5. ASSUME \/ \E t \in Thread, m \in net : ReceiveBlock(t, m) \/ ReceiveSigRow(t, m)
               \/ \E t \in Thread, n \in Node, s \in Sig : SignRow(t, n, s)
               \/ \E t \in Thread, n, p \in Node : SyncStart(t, n, p)
               \/ \E t \in Thread :
                    \/ SignRead(t) \/ ReceiveSigRead(t) \/ SyncChain(t) \/ SyncPush(t)
                    \/ ApplySkip(t) \/ ApplyReturn(t)
               \/ \E n \in Node : Restart(n)
        PROVE  StoreStep
    BY <1>5 DEF StoreStep, ReceiveBlock, ReceiveSigRow, SignRow, SyncStart, SignRead,
       ReceiveSigRead, SyncChain, SyncPush, ApplySkip, ApplyReturn, Restart
  <1>6. CASE UNCHANGED vars
    BY <1>6 DEF StoreStep, vars
  <1>7. CASE Next
    BY <1>1, <1>2, <1>3, <1>4, <1>5, <1>7, StoreStepAdd DEF Next, Work, RevokeBlock
  <1> QED
    BY <1>6, <1>7

-----------------------------------------------------------------------------
(* The items a node holds.                                                  *)

BlockOf(b) == [kind |-> "block", blk |-> b, chain |-> <<>>]
RevocationOf(b) == [kind |-> "revocation", blk |-> b, chain |-> <<>>]
EntryOf(b, c) == [kind |-> "entry", blk |-> b, chain |-> c]

\* The items a node holds, kind by kind.
LEMMA InHolds ==
    ASSUME NEW n \in Node, NEW i
    PROVE  i \in Holds[n] <=>
             \/ \E b \in blocks[n] : i = BlockOf(b)
             \/ \E b \in revoked[n] : i = RevocationOf(b)
             \/ \E b \in Block : \E c \in entries[n][b] : i = EntryOf(b, c)
  BY DEF Holds, BlockOf, RevocationOf, EntryOf

\* The same of the state after a step.
LEMMA InHoldsNext ==
    ASSUME NEW n \in Node, NEW i
    PROVE  i \in Holds'[n] <=>
             \/ \E b \in blocks'[n] : i = BlockOf(b)
             \/ \E b \in revoked'[n] : i = RevocationOf(b)
             \/ \E b \in Block : \E c \in entries'[n][b] : i = EntryOf(b, c)
  BY DEF Holds, BlockOf, RevocationOf, EntryOf

\* A step that gives one node one item, if any, is a step of the union.
LEMMA GainStep ==
    ASSUME NEW n \in Node, NEW i,
           \A m \in Node : \A j : j \in Holds'[m] <=> j \in Holds[m] \/ (m = n /\ j = i),
           U!Subject(i) \subseteq Holds[n],
           (\E m \in Node : i \in Holds[m]) \/ U!BuildsOn(i) \subseteq Holds[n]
    PROVE  [U!Next]_Holds
  <1>1. DOMAIN Holds = Node /\ DOMAIN Holds' = Node
    BY DEF Holds
  <1>2. Holds = [m \in Node |-> Holds[m]] /\ Holds' = [m \in Node |-> Holds'[m]]
    BY DEF Holds
  <1>3. \A m \in Node : Holds'[m] = IF m = n THEN Holds[m] \cup {i} ELSE Holds[m]
    OBVIOUS
  <1>4. CASE i \in Holds[n]
    <2>1. \A m \in Node : Holds'[m] = Holds[m]
      BY <1>3, <1>4
    <2> QED
      BY <1>2, <2>1
  <1>5. CASE i \notin Holds[n]
    <2>1. i \in Holds'[n] \ Holds[n]
      BY <1>3, <1>5
    <2>2. U!Gain(n, i)
      BY <1>2, <1>3 DEF U!Gain
    <2>3. i \in U!Ledger => U!Copy(n, i)
      BY <2>2 DEF U!Copy
    <2>4. i \notin U!Ledger => U!Create(n, i)
      BY <2>2 DEF U!Create, U!Ledger
    <2> QED
      BY <2>1, <2>3, <2>4 DEF U!Next
  <1> QED
    BY <1>4, <1>5

\* A new row of blocks is an item created or copied.
LEMMA BlockGain ==
    ASSUME TypeOK, NEW n \in Node, NEW b \in Block, AddRow(n, b), UNCHANGED <<revoked, entries>>
    PROVE  [U!Next]_Holds
  <1>1. \A m \in Node : blocks'[m] = IF m = n THEN blocks[m] \cup {b} ELSE blocks[m]
    BY AddRowRows
  <1>2. \A m \in Node : \A j :
          j \in Holds'[m] <=> j \in Holds[m] \/ (m = n /\ j = BlockOf(b))
    <2> SUFFICES ASSUME NEW m \in Node, NEW j
                 PROVE  j \in Holds'[m] <=> j \in Holds[m] \/ (m = n /\ j = BlockOf(b))
      OBVIOUS
    <2>1. (\E a \in blocks'[m] : j = BlockOf(a)) <=>
            (\E a \in blocks[m] : j = BlockOf(a)) \/ (m = n /\ j = BlockOf(b))
      BY <1>1
    <2> QED
      BY <2>1, InHolds, InHoldsNext
  <1>3. U!BuildsOn(BlockOf(b)) = {} /\ U!Subject(BlockOf(b)) = {}
    BY DEF U!BuildsOn, U!Subject, BlockOf
  <1> QED
    BY <1>2, <1>3, GainStep

\* A row that becomes revoked is an item created or copied.
LEMMA RevocationGain ==
    ASSUME TypeOK, NEW n \in Node, NEW b \in blocks[n],
           revoked' = [revoked EXCEPT ![n] = @ \cup {b}], UNCHANGED <<blocks, entries>>
    PROVE  [U!Next]_Holds
  <1>1. \A m \in Node : revoked'[m] = IF m = n THEN revoked[m] \cup {b} ELSE revoked[m]
    BY DEF TypeOK
  <1>2. \A m \in Node : \A j :
          j \in Holds'[m] <=> j \in Holds[m] \/ (m = n /\ j = RevocationOf(b))
    <2> SUFFICES ASSUME NEW m \in Node, NEW j
                 PROVE  j \in Holds'[m] <=> j \in Holds[m] \/ (m = n /\ j = RevocationOf(b))
      OBVIOUS
    <2>1. (\E a \in revoked'[m] : j = RevocationOf(a)) <=>
            (\E a \in revoked[m] : j = RevocationOf(a)) \/ (m = n /\ j = RevocationOf(b))
      BY <1>1
    <2> QED
      BY <2>1, InHolds, InHoldsNext
  <1>3. /\ U!Subject(RevocationOf(b)) = {BlockOf(b)}
        /\ U!BuildsOn(RevocationOf(b)) = {BlockOf(b)}
    BY DEF U!BuildsOn, U!Subject, U!BlockItem, BlockOf, RevocationOf
  <1>4. BlockOf(b) \in Holds[n]
    BY InHolds
  <1> QED
    BY <1>2, <1>3, <1>4, GainStep

\* A new entry is one that exists elsewhere, or one that builds on a held entry.
LEMMA EntryGain ==
    ASSUME TypeOK, NEW n \in Node, NEW b \in blocks[n], NEW c \in Chain, AddSig(n, b, c),
           UNCHANGED <<blocks, revoked>>,
           Stored(b, c) \/ \E t \in Thread : Mints(t, n, b, c)
    PROVE  [U!Next]_Holds
  <1>0. b \in Block
    BY DEF TypeOK
  <1>1. \A m \in Node, a \in Block :
          entries'[m][a] = IF m = n /\ a = b THEN entries[m][a] \cup {c} ELSE entries[m][a]
    BY <1>0, AddSigRows
  <1>2. \A m \in Node : \A j :
          j \in Holds'[m] <=> j \in Holds[m] \/ (m = n /\ j = EntryOf(b, c))
    <2> SUFFICES ASSUME NEW m \in Node, NEW j
                 PROVE  j \in Holds'[m] <=> j \in Holds[m] \/ (m = n /\ j = EntryOf(b, c))
      OBVIOUS
    <2>1. (\E a \in Block : \E d \in entries'[m][a] : j = EntryOf(a, d)) <=>
            \/ \E a \in Block : \E d \in entries[m][a] : j = EntryOf(a, d)
            \/ m = n /\ j = EntryOf(b, c)
      <3>1. ASSUME NEW a \in Block, NEW d
            PROVE  d \in entries'[m][a] <=> d \in entries[m][a] \/ (m = n /\ a = b /\ d = c)
        BY <1>1
      <3> QED
        BY <1>0, <3>1
    <2> QED
      BY <2>1, InHolds, InHoldsNext
  <1>3. U!Subject(EntryOf(b, c)) = {BlockOf(b)}
    BY DEF U!Subject, U!BlockItem, BlockOf, EntryOf
  <1>4. BlockOf(b) \in Holds[n]
    BY InHolds
  <1>5. CASE Stored(b, c)
    <2>1. \E m \in Node : EntryOf(b, c) \in Holds[m]
      BY <1>0, <1>5, InHolds DEF Stored
    <2> QED
      BY <1>2, <1>3, <1>4, <2>1, GainStep
  <1>6. CASE \E t \in Thread : Mints(t, n, b, c)
    <2>1. Parent(c) = <<>> \/ Parent(c) \in entries[n][b]
      BY <1>6, AppendIsEntry DEF Mints
    <2>2. U!BuildsOn(EntryOf(b, c)) \subseteq {BlockOf(b)} \cup
            (IF Parent(c) = <<>> THEN {} ELSE {EntryOf(b, Parent(c))})
      BY DEF U!BuildsOn, U!Subject, U!BlockItem, U!EntryItem, U!Parent, Parent, BlockOf, EntryOf
    <2>3. Parent(c) # <<>> => EntryOf(b, Parent(c)) \in Holds[n]
      BY <1>0, <2>1, InHolds
    <2>4. U!BuildsOn(EntryOf(b, c)) \subseteq Holds[n]
      BY <1>4, <2>2, <2>3
    <2> QED
      BY <1>2, <1>3, <1>4, <2>4, GainStep
  <1> QED
    BY <1>5, <1>6

-----------------------------------------------------------------------------

\* The empty cluster holds the empty union.
LEMMA UnionInit == Init => U!Init
  BY DEF Init, U!Init, Holds

\* Every step of the cluster is a step of the union or changes no item.
LEMMA UnionStep == LedgerInv /\ [Next]_vars => [U!Next]_Holds
  <1> SUFFICES ASSUME LedgerInv, [Next]_vars PROVE [U!Next]_Holds
    OBVIOUS
  <1>1. StoreStep /\ TypeOK
    BY StoreSteps DEF LedgerInv
  <1>2. CASE UNCHANGED <<blocks, revoked, entries>>
    BY <1>2 DEF Holds
  <1> QED
    BY <1>1, <1>2, BlockGain, RevocationGain, EntryGain DEF StoreStep

\* Whatever the interleaving of submissions, signatures, gossip, sync and restarts,
\* the cluster is a replicated union: items are created where what they build on
\* is held, spread unchanged, and never disappear.
THEOREM ClusterImplementsUnion == Spec => ImplementsUnion
  BY UnionInit, UnionStep, LedgerInvariant, PTL DEF Spec, ImplementsUnion, U!Spec

-----------------------------------------------------------------------------
(* What follows for the cluster from the union.                             *)

\* A step of the union adds one item to one node, and that item is closed.
LEMMA ClosedStep ==
    ASSUME U!Closed, DOMAIN Holds = Node, NEW n \in Node, NEW i, U!Create(n, i) \/ U!Copy(n, i)
    PROVE  U!Closed'
  <1>1. \A m \in Node : Holds'[m] = IF m = n THEN Holds[m] \cup {i} ELSE Holds[m]
    BY DEF U!Create, U!Copy, U!Gain
  <1>2. U!Ledger' = U!Ledger \cup {i}
    <2>1. \A x : x \in U!Ledger <=> \E m \in Node : x \in Holds[m]
      BY DEF U!Ledger
    <2>2. \A x : x \in U!Ledger' <=> \E m \in Node : x \in Holds'[m]
      BY DEF U!Ledger
    <2> QED
      BY <1>1, <2>1, <2>2
  <1>3. U!BuildsOn(i) \subseteq U!Ledger
    BY DEF U!Closed, U!Create, U!Copy, U!Ledger
  <1>4. U!Subject(i) \subseteq Holds[n]
    BY DEF U!Create, U!Copy, U!BuildsOn
  <1>5. \A j \in U!Ledger' : U!BuildsOn(j) \subseteq U!Ledger'
    BY <1>2, <1>3 DEF U!Closed
  <1>6. \A m \in Node : \A j \in Holds'[m] : U!Subject(j) \subseteq Holds'[m]
    BY <1>1, <1>4 DEF U!Closed
  <1> QED
    BY <1>5, <1>6 DEF U!Closed

\* The ledger is closed: what an item builds on is on the ledger, and its subject
\* is wherever the item is.
THEOREM LedgerIsClosed == Spec => []U!Closed
  <1>1. U!Init => U!Closed
    BY DEF U!Init, U!Closed, U!Ledger
  <1>2. U!Closed /\ [U!Next]_Holds => U!Closed'
    <2>1. ASSUME U!Closed, U!Next PROVE U!Closed'
      <3>1. DOMAIN Holds = Node
        BY DEF Holds
      <3> QED
        BY <2>1, <3>1, ClosedStep DEF U!Next
    <2>2. ASSUME U!Closed, UNCHANGED Holds PROVE U!Closed'
      BY <2>2 DEF U!Closed, U!Ledger
    <2> QED
      BY <2>1, <2>2
  <1>3. U!Spec => []U!Closed
    BY <1>1, <1>2, PTL DEF U!Spec
  <1> QED
    BY <1>3, ClusterImplementsUnion DEF ImplementsUnion

=============================================================================
