----------------------------- MODULE LedgerProofs -----------------------------
(***************************************************************************)
(* Type correctness and the invariant of Ledger, for every cluster, every   *)
(* set of keys and signatures, and every number of goroutines.              *)
(*                                                                          *)
(* Rows are only ever added, so what a message, a task or a frame refers to *)
(* stays; each action then has to account only for the row it adds and for  *)
(* the one message, task or frame it makes.                                 *)
(***************************************************************************)
EXTENDS Ledger, TLAPS

-----------------------------------------------------------------------------
(* Entries as sequences.                                                    *)

\* Appending a signature to an entry or to a block gives an entry whose parent
\* and newest signature are the two.
LEMMA AppendIsEntry ==
    ASSUME NEW p \in Seq(Sig), NEW s \in Sig
    PROVE  /\ Append(p, s) \in Chain
           /\ Parent(Append(p, s)) = p
           /\ Newest(Append(p, s)) = s
  BY DEF Chain, Parent, Newest

\* The newest signature of an entry is a signature.
LEMMA NewestIsSig ==
    ASSUME NEW c \in Chain
    PROVE  Newest(c) \in Sig
  BY DEF Chain, Newest

\* What Get shows are rows of the store.
LEMMA ViewsAreRows ==
    ASSUME NEW S, NEW view \in Views(S)
    PROVE  view \subseteq S
  BY DEF Views, Walk

-----------------------------------------------------------------------------
(* Types.                                                                   *)

\* The program counter of a goroutine tells what it remembers.
LEMMA TaskKinds ==
    ASSUME TypeOK, NEW t \in Thread
    PROVE  /\ task[t].pc = "receiveBlock" => task[t] \in StoreTask
           /\ task[t].pc \in {"signRow", "signRead"} => task[t] \in SignTask
           /\ task[t].pc \in {"receiveRow", "receiveRead"} => task[t] \in ReceiveTask
           /\ task[t].pc = "sync" => task[t] \in SyncTask
           /\ task[t].pc = "idle" <=> task[t] = Idle
  BY DEF TypeOK, Task, Idle, StoreTask, SignTask, ReceiveTask, SyncTask

\* The innermost call of a goroutine, and those it returns to.
LEMMA TopFrame ==
    ASSUME TypeOK, NEW t \in Thread, stack[t] # <<>>
    PROVE  /\ Head(stack[t]) \in Frame
           /\ Tail(stack[t]) \in Seq(Frame)
  BY DEF TypeOK

\* The entries it looks at are entries of its frame.
LEMMA NextEntriesType ==
    ASSUME TypeOK, NEW t \in Thread, stack[t] # <<>>, NEW c \in NextEntries(t)
    PROVE  /\ c \in Head(stack[t]).todo
           /\ c \in Chain
           /\ Newest(c) \in Sig
  <1>1. Head(stack[t]) \in Frame
    BY TopFrame
  <1>2. c \in Head(stack[t]).todo
    BY DEF NextEntries
  <1>3. c \in Chain
    BY <1>1, <1>2 DEF Frame
  <1> QED
    BY <1>2, <1>3, NewestIsSig

\* The signer of an entry is a key.
LEMMA SignerType ==
    ASSUME NEW c \in Chain
    PROVE  Signer(c) \in Key
  BY NewestIsSig, LedgerAssumption DEF Signer

\* Add leaves the table of blocks a table of blocks.
LEMMA AddRowType ==
    ASSUME TypeOK, NEW n \in Node, NEW b \in Block, AddRow(n, b)
    PROVE  blocks' \in [Node -> SUBSET Block]
  BY DEF TypeOK, AddRow

\* AddSig leaves entries where entries are and heads where heads are.
LEMMA AddSigType ==
    ASSUME TypeOK, NEW n \in Node, NEW b \in Block, NEW c \in Chain, AddSig(n, b, c)
    PROVE  /\ entries' \in [Node -> [Block -> SUBSET Chain]]
           /\ head' \in [Node -> [Block -> Seq(Sig)]]
  <1>1. c \in Seq(Sig)
    BY DEF Chain
  <1>2. CASE c \in entries[n][b]
    BY <1>2 DEF TypeOK, AddSig
  <1>3. CASE c \notin entries[n][b]
    <2>1. entries' = [entries EXCEPT ![n] = [entries[n] EXCEPT ![b] = entries[n][b] \cup {c}]]
      BY <1>3 DEF AddSig
    <2>2. [entries[n] EXCEPT ![b] = entries[n][b] \cup {c}] \in [Block -> SUBSET Chain]
      <3>1. entries[n] \in [Block -> SUBSET Chain]
        BY DEF TypeOK
      <3>2. entries[n][b] \cup {c} \in SUBSET Chain
        BY <3>1
      <3> QED
        BY <3>1, <3>2
    <2>3. head' = [head EXCEPT ![n] = [head[n] EXCEPT ![b] = c]]
      BY <1>3 DEF AddSig
    <2>4. [head[n] EXCEPT ![b] = c] \in [Block -> Seq(Sig)]
      BY <1>1 DEF TypeOK
    <2> QED
      BY <2>1, <2>2, <2>3, <2>4 DEF TypeOK
  <1> QED
    BY <1>2, <1>3

\* What gossip sends are messages: a chain goes with signatures only.
LEMMA GossipType ==
    ASSUME TypeOK, NEW n \in Node, NEW kind, NEW b \in Block, NEW c,
           \/ kind \in {"block", "revoke"} /\ c = <<>>
           \/ kind = "sign" /\ c \in Chain,
           Gossip(n, kind, b, c)
    PROVE  net' \subseteq Message
  <1>1. PICK T \in SUBSET Node :
          net' = net \cup {[kind |-> kind, to |-> p, blk |-> b, chain |-> c] : p \in T}
    BY LedgerAssumption DEF Gossip, Targets
  <1> QED
    BY <1>1 DEF TypeOK, Message

\* A fetch adds a block of the right kind, and a frame for its entries.
LEMMA FetchType ==
    ASSUME TypeOK, NEW t \in Thread, NEW n \in Node, NEW p \in Node, NEW k \in Key,
           Fetch(t, n, p, k)
    PROVE  /\ blocks' \in [Node -> SUBSET Block]
           /\ stack' \in [Thread -> Seq(Frame)]
  <1>0. PICK b \in blocks[p] \cap Allowed[n] :
          /\ AddRow(n, b)
          /\ \E view \in Views(entries[p][b]) :
               stack' = [stack EXCEPT ![t] =
                          <<[node |-> n, from |-> p, blk |-> b, todo |-> view,
                             known |-> {}]>> \o @]
    BY DEF Fetch
  <1>1. PICK view \in Views(entries[p][b]) :
          stack' = [stack EXCEPT ![t] =
                     <<[node |-> n, from |-> p, blk |-> b, todo |-> view,
                        known |-> {}]>> \o @]
    BY <1>0
  <1>2. b \in Block /\ view \subseteq Chain
    BY <1>1, ViewsAreRows DEF TypeOK
  <1>3. blocks' \in [Node -> SUBSET Block]
    BY <1>0, <1>2, AddRowType
  <1>4. [node |-> n, from |-> p, blk |-> b, todo |-> view, known |-> {}] \in Frame
    BY <1>2 DEF Frame
  <1>5. stack[t] \in Seq(Frame)
    BY DEF TypeOK
  <1>6. <<[node |-> n, from |-> p, blk |-> b, todo |-> view, known |-> {}]>> \o stack[t]
          \in Seq(Frame)
    BY <1>4, <1>5
  <1> QED
    BY <1>1, <1>3, <1>6 DEF TypeOK

\* Taking an entry off the innermost call leaves a stack of frames.
LEMMA DropType ==
    ASSUME TypeOK, NEW t \in Thread, stack[t] # <<>>, NEW c,
           NEW known \in SUBSET Key, Drop(t, c, known)
    PROVE  stack' \in [Thread -> Seq(Frame)]
  <1> DEFINE f == Head(stack[t])
             g == [node |-> f.node, from |-> f.from, blk |-> f.blk,
                   todo |-> f.todo \ {c}, known |-> known]
  <1>1. f \in Frame /\ Tail(stack[t]) \in Seq(Frame)
    BY TopFrame
  <1>2. g \in Frame
    BY <1>1 DEF Frame
  <1>3. <<g>> \o Tail(stack[t]) \in Seq(Frame)
    BY <1>1, <1>2
  <1>4. stack' = [stack EXCEPT ![t] = <<g>> \o Tail(stack[t])]
    BY DEF Drop
  <1> QED
    BY <1>3, <1>4 DEF TypeOK

\* Every goroutine's stack and task after a step that changes one of them.
LEMMA TaskType ==
    ASSUME TypeOK, NEW t \in Thread, NEW x \in Task, task' = [task EXCEPT ![t] = x]
    PROVE  task' \in [Thread -> Task]
  BY DEF TypeOK

\* The clients' handlers and the receiving of blocks and revocations keep the types.
LEMMA BlockStepsType ==
    ASSUME TypeOK,
           \/ \E n \in Node, b \in Block : AddBlock(n, b) \/ RevokeBlock(n, b)
           \/ \E m \in net : ReceiveRevoke(m)
           \/ \E t \in Thread, m \in net : ReceiveBlock(t, m)
           \/ \E t \in Thread : StoreReceived(t)
    PROVE  TypeOK'
  <1>1. ASSUME NEW n \in Node, NEW b \in Block, AddBlock(n, b) PROVE TypeOK'
    <2>1. blocks' \in [Node -> SUBSET Block]
      BY <1>1, AddRowType DEF AddBlock
    <2>2. net' \subseteq Message
      BY <1>1, GossipType DEF AddBlock
    <2> QED
      BY <1>1, <2>1, <2>2 DEF TypeOK, AddBlock
  <1>2. ASSUME NEW n \in Node, NEW b \in Block, Revoke(n, b) PROVE TypeOK'
    <2>1. net' \subseteq Message
      BY <1>2, GossipType DEF Revoke
    <2> QED
      BY <1>2, <2>1 DEF TypeOK, Revoke
  <1>3. ASSUME NEW m \in net, ReceiveRevoke(m) PROVE TypeOK'
    <2>1. m.to \in Node /\ m.blk \in Block
      BY DEF TypeOK, Message
    <2> QED
      BY <1>2, <1>3, <2>1 DEF ReceiveRevoke
  <1>4. ASSUME NEW t \in Thread, NEW m \in net, ReceiveBlock(t, m) PROVE TypeOK'
    <2>1. [pc |-> "receiveBlock", node |-> m.to, blk |-> m.blk] \in Task
      BY DEF TypeOK, Message, Task, StoreTask
    <2>2. task' \in [Thread -> Task]
      BY <1>4, <2>1, TaskType DEF ReceiveBlock
    <2> QED
      BY <1>4, <2>2 DEF TypeOK, ReceiveBlock
  <1>5. ASSUME NEW t \in Thread, StoreReceived(t) PROVE TypeOK'
    <2>1. task[t].node \in Node /\ task[t].blk \in Block
      BY <1>5, TaskKinds DEF StoreReceived, StoreTask
    <2>2. blocks' \in [Node -> SUBSET Block]
      BY <1>5, <2>1, AddRowType DEF StoreReceived, TypeOK
    <2>3. net' \subseteq Message
      BY <1>5, <2>1, GossipType DEF StoreReceived
    <2>4. task' \in [Thread -> Task]
      BY <1>5, TaskType DEF StoreReceived, Task
    <2> QED
      BY <1>5, <2>2, <2>3, <2>4 DEF TypeOK, StoreReceived
  <1> QED
    BY <1>1, <1>2, <1>3, <1>4, <1>5 DEF RevokeBlock

\* So do the steps of a signing handler,
LEMMA SignStepsType ==
    ASSUME TypeOK, NEW t \in Thread,
           \/ \E n \in Node, s \in Sig : SignRow(t, n, s)
           \/ SignRead(t)
           \/ SignCommit(t)
    PROVE  TypeOK'
  <1>1. ASSUME NEW n \in Node, NEW s \in Sig, SignRow(t, n, s) PROVE TypeOK'
    <2>1. [pc |-> "signRow", node |-> n, sig |-> s, prev |-> head[n][On[s]]] \in Task
      BY LedgerAssumption DEF TypeOK, Task, SignTask
    <2>2. task' \in [Thread -> Task]
      BY <1>1, <2>1, TaskType DEF SignRow
    <2> QED
      BY <1>1, <2>2 DEF TypeOK, SignRow
  <1>2. CASE SignRead(t)
    <2>1. task[t] \in SignTask
      BY <1>2, TaskKinds DEF SignRead
    <2>2. [pc |-> "signRead", node |-> task[t].node, sig |-> task[t].sig,
           prev |-> task[t].prev] \in Task
      BY <2>1 DEF Task, SignTask
    <2>3. task' \in [Thread -> Task]
      BY <1>2, <2>2, TaskType DEF SignRead, Task
    <2> QED
      BY <1>2, <2>3 DEF TypeOK, SignRead
  <1>3. CASE SignCommit(t)
    <2> DEFINE n == task[t].node
               s == task[t].sig
               c == Append(task[t].prev, s)
    <2>1. /\ n \in Node /\ s \in Sig /\ task[t].prev \in Seq(Sig)
          /\ On[s] \in Block
      BY <1>3, TaskKinds, LedgerAssumption DEF SignCommit, SignTask
    <2>2. c \in Chain
      BY <2>1, AppendIsEntry
    <2>3. /\ entries' \in [Node -> [Block -> SUBSET Chain]]
          /\ head' \in [Node -> [Block -> Seq(Sig)]]
      BY <1>3, <2>1, <2>2, AddSigType DEF SignCommit, TypeOK
    <2>4. net' \subseteq Message
      BY <1>3, <2>1, <2>2, GossipType DEF SignCommit, TypeOK
    <2>5. task' \in [Thread -> Task]
      BY <1>3, TaskType DEF SignCommit, Task
    <2> QED
      BY <1>3, <2>3, <2>4, <2>5 DEF TypeOK, SignCommit
  <1> QED
    BY <1>1, <1>2, <1>3

\* of a handler that receives an entry,
LEMMA ReceiveSigStepsType ==
    ASSUME TypeOK, NEW t \in Thread,
           \/ \E m \in net : ReceiveSigRow(t, m)
           \/ ReceiveSigRead(t)
           \/ ReceiveSigFetch(t)
           \/ ReceiveSigCommit(t)
    PROVE  TypeOK'
  <1>1. ASSUME NEW m \in net, ReceiveSigRow(t, m) PROVE TypeOK'
    <2>1. m.to \in Node /\ m.chain \in Chain
      BY <1>1 DEF TypeOK, Message, ReceiveSigRow
    <2>2. PICK b \in blocks[m.to] :
            task' = [task EXCEPT ![t] =
                      [pc |-> "receiveRow", node |-> m.to, blk |-> b, chain |-> m.chain,
                       known |-> {}, ask |-> {}]]
      BY <1>1 DEF ReceiveSigRow
    <2>3. [pc |-> "receiveRow", node |-> m.to, blk |-> b, chain |-> m.chain,
           known |-> {}, ask |-> {}] \in Task
      BY <2>1, <2>2 DEF TypeOK, Task, ReceiveTask
    <2>4. task' \in [Thread -> Task]
      BY <2>2, <2>3, TaskType
    <2> QED
      BY <1>1, <2>4 DEF TypeOK, ReceiveSigRow
  <1>2. CASE ReceiveSigRead(t)
    <2>1. task[t] \in ReceiveTask
      BY <1>2, TaskKinds DEF ReceiveSigRead
    <2>2. PICK view \in Views(entries[task[t].node][task[t].blk]) :
            task' = [task EXCEPT ![t] =
                      [pc |-> "receiveRead", node |-> task[t].node, blk |-> task[t].blk,
                       chain |-> task[t].chain, known |-> Signers(view),
                       ask |-> Peers[task[t].node]]]
      BY <1>2 DEF ReceiveSigRead
    <2>3. view \subseteq Chain
      BY <2>1, ViewsAreRows DEF TypeOK, ReceiveTask
    <2>4. Signers(view) \subseteq Key
      BY <2>3, SignerType DEF Signers
    <2>5. [pc |-> "receiveRead", node |-> task[t].node, blk |-> task[t].blk,
           chain |-> task[t].chain, known |-> Signers(view),
           ask |-> Peers[task[t].node]] \in Task
      BY <2>1, <2>4, LedgerAssumption DEF Task, ReceiveTask
    <2>6. task' \in [Thread -> Task]
      BY <2>2, <2>5, TaskType
    <2> QED
      BY <1>2, <2>6 DEF TypeOK, ReceiveSigRead
  <1>3. CASE ReceiveSigFetch(t)
    <2>1. task[t] \in ReceiveTask
      BY <1>3, TaskKinds DEF ReceiveSigFetch
    <2>2. PICK p \in task[t].ask :
            /\ task' = [task EXCEPT ![t] = [task[t] EXCEPT !.ask = task[t].ask \ {p}]]
            /\ \/ Fetch(t, task[t].node, p, Signer(task[t].chain))
               \/ FetchNothing
      BY <1>3 DEF ReceiveSigFetch
    <2>3. [task[t] EXCEPT !.ask = task[t].ask \ {p}] \in Task
      BY <2>1 DEF Task, ReceiveTask
    <2>4. task' \in [Thread -> Task]
      BY <2>2, <2>3, TaskType
    <2>5. task[t].node \in Node /\ p \in Node /\ Signer(task[t].chain) \in Key
      BY <2>1, SignerType DEF ReceiveTask
    <2>6. CASE Fetch(t, task[t].node, p, Signer(task[t].chain))
      BY <2>4, <2>5, <2>6, FetchType DEF TypeOK, Fetch
    <2>7. CASE FetchNothing
      BY <2>4, <2>7 DEF TypeOK, FetchNothing
    <2> QED
      BY <2>2, <2>6, <2>7
  <1>4. CASE ReceiveSigCommit(t)
    <2> DEFINE n == task[t].node
               b == task[t].blk
               c == task[t].chain
    <2>1. n \in Node /\ b \in Block /\ c \in Chain
      BY <1>4, TaskKinds DEF ReceiveSigCommit, ReceiveTask
    <2>2. /\ entries' \in [Node -> [Block -> SUBSET Chain]]
          /\ head' \in [Node -> [Block -> Seq(Sig)]]
      BY <1>4, <2>1, AddSigType DEF ReceiveSigCommit, TypeOK
    <2>3. net' \subseteq Message
      BY <1>4, <2>1, GossipType DEF ReceiveSigCommit, TypeOK
    <2>4. task' \in [Thread -> Task]
      BY <1>4, TaskType DEF ReceiveSigCommit, Task
    <2> QED
      BY <1>4, <2>2, <2>3, <2>4 DEF TypeOK, ReceiveSigCommit
  <1> QED
    BY <1>1, <1>2, <1>3, <1>4

\* of applySigEntries,
LEMMA ApplyStepsType ==
    ASSUME TypeOK, NEW t \in Thread,
           ApplySkip(t) \/ ApplyStore(t) \/ ApplyFetch(t) \/ ApplyReturn(t)
    PROVE  TypeOK'
  <1> DEFINE f == Head(stack[t])
  <1>1. stack[t] # <<>>
    BY DEF ApplySkip, ApplyStore, ApplyFetch, ApplyReturn
  <1>2. /\ f \in Frame /\ Tail(stack[t]) \in Seq(Frame)
        /\ f.node \in Node /\ f.from \in Node /\ f.blk \in Block /\ f.known \subseteq Key
    BY <1>1, TopFrame DEF Frame
  <1>3. CASE ApplySkip(t)
    BY <1>1, <1>2, <1>3, DropType DEF ApplySkip, TypeOK
  <1>4. CASE ApplyStore(t)
    <2>1. PICK c \in NextEntries(t) :
            /\ AddSig(f.node, f.blk, c)
            /\ Drop(t, c, IF c \in entries[f.node][f.blk]
                            THEN f.known ELSE f.known \cup {Signer(c)})
      BY <1>4 DEF ApplyStore
    <2>2. c \in Chain /\ Signer(c) \in Key
      BY <1>1, NextEntriesType, SignerType
    <2>3. stack' \in [Thread -> Seq(Frame)]
      BY <1>1, <1>2, <2>1, <2>2, DropType
    <2>4. /\ entries' \in [Node -> [Block -> SUBSET Chain]]
          /\ head' \in [Node -> [Block -> Seq(Sig)]]
      BY <1>2, <2>1, <2>2, AddSigType
    <2> QED
      BY <1>4, <2>3, <2>4 DEF TypeOK, ApplyStore
  <1>5. CASE ApplyFetch(t)
    <2>1. PICK c \in NextEntries(t) :
            \/ Fetch(t, f.node, f.from, Signer(c))
            \/ Drop(t, c, f.known) /\ UNCHANGED <<blocks, entries, head, revoked, net>>
      BY <1>5 DEF ApplyFetch
    <2>2. Signer(c) \in Key
      BY <1>1, NextEntriesType, SignerType
    <2>3. CASE Fetch(t, f.node, f.from, Signer(c))
      BY <1>2, <1>5, <2>2, <2>3, FetchType DEF TypeOK, Fetch, ApplyFetch
    <2>4. CASE Drop(t, c, f.known) /\ UNCHANGED <<blocks, entries, head, revoked, net>>
      BY <1>1, <1>2, <1>5, <2>4, DropType DEF TypeOK, ApplyFetch
    <2> QED
      BY <2>1, <2>3, <2>4
  <1>6. CASE ApplyReturn(t)
    BY <1>2, <1>6 DEF ApplyReturn, TypeOK
  <1> QED
    BY <1>3, <1>4, <1>5, <1>6

\* of a sync,
LEMMA SyncStepsType ==
    ASSUME TypeOK, NEW t \in Thread,
           \/ \E n, p \in Node : SyncStart(t, n, p)
           \/ SyncFetch(t) \/ SyncChain(t) \/ SyncPush(t)
    PROVE  TypeOK'
  <1>1. ASSUME NEW n \in Node, NEW p \in Node, SyncStart(t, n, p) PROVE TypeOK'
    <2> DEFINE x == [pc |-> "sync", node |-> n, peer |-> p,
                     want |-> Keys(p) \ Keys(n),
                     stale |-> {k \in Keys(p) \cap Keys(n) : HeadOf(p, k) # HeadOf(n, k)},
                     push |-> {b \in blocks[n] : Fp[b] \notin Keys(p)}]
    <2>1. Keys(p) \subseteq Key
      BY LedgerAssumption DEF TypeOK, Keys
    <2>2. x \in Task
      BY <2>1 DEF TypeOK, Task, SyncTask
    <2>3. task' \in [Thread -> Task]
      BY <1>1, <2>2, TaskType DEF SyncStart
    <2> QED
      BY <1>1, <2>3 DEF TypeOK, SyncStart
  <1>2. CASE SyncFetch(t)
    <2>1. task[t] \in SyncTask
      BY <1>2, TaskKinds DEF SyncFetch
    <2>2. PICK k \in task[t].want :
            /\ task' = [task EXCEPT ![t] = [task[t] EXCEPT !.want = task[t].want \ {k}]]
            /\ Fetch(t, task[t].node, task[t].peer, k) \/ FetchNothing
      BY <1>2 DEF SyncFetch
    <2>3. [task[t] EXCEPT !.want = task[t].want \ {k}] \in Task
      BY <2>1 DEF Task, SyncTask
    <2>4. task' \in [Thread -> Task]
      BY <2>2, <2>3, TaskType
    <2>5. task[t].node \in Node /\ task[t].peer \in Node /\ k \in Key
      BY <2>1, <2>2 DEF SyncTask
    <2>6. CASE Fetch(t, task[t].node, task[t].peer, k)
      BY <2>4, <2>5, <2>6, FetchType DEF TypeOK, Fetch
    <2>7. CASE FetchNothing
      BY <2>4, <2>7 DEF TypeOK, FetchNothing
    <2> QED
      BY <2>2, <2>6, <2>7
  <1>3. CASE SyncChain(t)
    <2> DEFINE n == task[t].node
               p == task[t].peer
    <2>1. task[t] \in SyncTask /\ n \in Node /\ p \in Node
      BY <1>3, TaskKinds DEF SyncChain, SyncTask
    <2>2. PICK k \in task[t].stale :
            /\ task' = [task EXCEPT ![t] = [task[t] EXCEPT !.stale = task[t].stale \ {k}]]
            /\ \/ \E own \in blocks[n], its \in blocks[p] :
                    /\ Fp[own] = k /\ Fp[its] = k
                    /\ \E view \in Views(entries[p][its]), have \in Views(entries[n][own]) :
                         stack' = [stack EXCEPT ![t] =
                                    <<[node |-> n, from |-> p, blk |-> own, todo |-> view,
                                       known |-> Signers(have)]>>]
               \/ UNCHANGED stack
      BY <1>3 DEF SyncChain
    <2>3. [task[t] EXCEPT !.stale = task[t].stale \ {k}] \in Task
      BY <2>1 DEF Task, SyncTask
    <2>4. task' \in [Thread -> Task]
      BY <2>2, <2>3, TaskType
    <2>5. ASSUME NEW own \in blocks[n], NEW its \in blocks[p],
                 NEW view \in Views(entries[p][its]), NEW have \in Views(entries[n][own])
          PROVE  [node |-> n, from |-> p, blk |-> own, todo |-> view,
                  known |-> Signers(have)] \in Frame
      <3>1. own \in Block /\ view \subseteq Chain /\ have \subseteq Chain
        BY <2>1, ViewsAreRows DEF TypeOK
      <3>2. Signers(have) \subseteq Key
        BY <3>1, SignerType DEF Signers
      <3> QED
        BY <2>1, <3>1, <3>2 DEF Frame
    <2>6. ASSUME NEW f \in Frame PROVE <<f>> \in Seq(Frame)
      OBVIOUS
    <2>7. stack' \in [Thread -> Seq(Frame)]
      <3>1. CASE UNCHANGED stack
        BY <3>1 DEF TypeOK
      <3>2. CASE \E own \in blocks[n], its \in blocks[p] :
                   \E view \in Views(entries[p][its]), have \in Views(entries[n][own]) :
                     stack' = [stack EXCEPT ![t] =
                                <<[node |-> n, from |-> p, blk |-> own, todo |-> view,
                                   known |-> Signers(have)]>>]
        <4>1. PICK own \in blocks[n], its \in blocks[p] :
                \E view \in Views(entries[p][its]), have \in Views(entries[n][own]) :
                  stack' = [stack EXCEPT ![t] =
                             <<[node |-> n, from |-> p, blk |-> own, todo |-> view,
                                known |-> Signers(have)]>>]
          BY <3>2
        <4>2. PICK view \in Views(entries[p][its]), have \in Views(entries[n][own]) :
                stack' = [stack EXCEPT ![t] =
                           <<[node |-> n, from |-> p, blk |-> own, todo |-> view,
                              known |-> Signers(have)]>>]
          BY <4>1
        <4> QED
          BY <2>5, <2>6, <4>2 DEF TypeOK
      <3> QED
        BY <2>2, <3>1, <3>2
    <2> QED
      BY <1>3, <2>4, <2>7 DEF TypeOK, SyncChain
  <1>4. CASE SyncPush(t)
    <2>1. task[t] \in SyncTask
      BY <1>4, TaskKinds DEF SyncPush
    <2>2. net' \subseteq Message
      BY <1>4, <2>1 DEF SyncPush, TypeOK, Message, SyncTask
    <2>3. task' \in [Thread -> Task]
      BY <1>4, TaskType DEF SyncPush, Task
    <2> QED
      BY <1>4, <2>2, <2>3 DEF TypeOK, SyncPush
  <1> QED
    BY <1>1, <1>2, <1>3, <1>4

\* and a restart.
LEMMA RestartType ==
    ASSUME TypeOK, NEW n \in Node, Restart(n)
    PROVE  TypeOK'
  <1>1. task' \in [Thread -> Task]
    BY DEF TypeOK, Restart, Task
  <1>2. stack' \in [Thread -> Seq(Frame)]
    BY DEF TypeOK, Restart
  <1> QED
    BY <1>1, <1>2 DEF TypeOK, Restart

\* Every step of the specification keeps the types.
LEMMA NextType ==
    ASSUME TypeOK, [Next]_vars
    PROVE  TypeOK'
  <1>1. CASE UNCHANGED vars
    BY <1>1 DEF TypeOK, vars
  <1>2. CASE Next
    BY <1>2, BlockStepsType, SignStepsType, ReceiveSigStepsType, ApplyStepsType,
       SyncStepsType, RestartType DEF Next, Work
  <1> QED
    BY <1>1, <1>2

\* Type correctness of the cluster: the rows, messages, tasks and stacks are what
\* the declarations of Ledger say, in every state the handlers reach.
THEOREM TypeCorrect == Spec => []TypeOK
  <1>1. Init => TypeOK
    BY DEF Init, TypeOK, Task
  <1>2. TypeOK /\ [Next]_vars => TypeOK'
    BY NextType
  <1> QED
    BY <1>1, <1>2, PTL DEF Spec

-----------------------------------------------------------------------------
(* What the invariant is made of.                                           *)

\* The rows a step starts from are still there after it.
Grows ==
    /\ \A n \in Node : blocks[n] \subseteq blocks'[n]
    /\ \A n \in Node, b \in Block : entries[n][b] \subseteq entries'[n][b]

\* What every caller of AddSig has made sure of.
Acceptable(n, b, c) ==
    /\ b \in blocks[n] /\ On[Newest(c)] = b
    /\ Verifiable(n, Newest(c))
    /\ Parent(c) = <<>> \/ Stored(b, Parent(c))

-----------------------------------------------------------------------------
(* The rows.                                                                *)

\* The rows of each node after Add.
LEMMA AddRowRows ==
    ASSUME TypeOK, NEW n \in Node, NEW b \in Block, AddRow(n, b), NEW m \in Node
    PROVE  blocks'[m] = IF m = n THEN blocks[m] \cup {b} ELSE blocks[m]
  BY DEF TypeOK, AddRow

\* The entries of each block at each node after AddSig.
LEMMA AddSigRows ==
    ASSUME TypeOK, NEW n \in Node, NEW b \in Block, NEW c \in Chain, AddSig(n, b, c),
           NEW m \in Node, NEW a \in Block
    PROVE  entries'[m][a] = IF m = n /\ a = b THEN entries[m][a] \cup {c} ELSE entries[m][a]
  <1>1. CASE c \in entries[n][b]
    BY <1>1 DEF AddSig
  <1>2. CASE c \notin entries[n][b]
    <2>1. entries' = [entries EXCEPT ![n] = [entries[n] EXCEPT ![b] = entries[n][b] \cup {c}]]
      BY <1>2 DEF AddSig
    <2>2. entries \in [Node -> [Block -> SUBSET Chain]] /\ entries[n] \in [Block -> SUBSET Chain]
      BY DEF TypeOK
    <2> QED
      BY <2>1, <2>2
  <1> QED
    BY <1>1, <1>2

\* After AddSig the entry is there, inserted now or found.
LEMMA AddSigStored ==
    ASSUME TypeOK, NEW n \in Node, NEW b \in Block, NEW c \in Chain, AddSig(n, b, c)
    PROVE  c \in entries'[n][b]
  <1>1. CASE c \in entries[n][b]
    BY <1>1 DEF AddSig
  <1>2. CASE c \notin entries[n][b]
    <2>1. \A m \in Node, a \in Block :
            entries'[m][a] = IF m = n /\ a = b THEN entries[m][a] \cup {c} ELSE entries[m][a]
      BY AddSigRows
    <2> QED
      BY <2>1
  <1> QED
    BY <1>1, <1>2

\* AddSig moves the head of its block only when it inserts the entry.
LEMMA AddSigHead ==
    ASSUME TypeOK, NEW n \in Node, NEW b \in Block, NEW c \in Chain, AddSig(n, b, c),
           NEW m \in Node, NEW a \in Block
    PROVE  head'[m][a] = IF m = n /\ a = b /\ c \notin entries[n][b] THEN c ELSE head[m][a]
  <1>1. CASE c \in entries[n][b]
    BY <1>1 DEF AddSig
  <1>2. CASE c \notin entries[n][b]
    BY <1>2 DEF TypeOK, AddSig
  <1> QED
    BY <1>1, <1>2

\* An entry that is stored stays stored.
LEMMA StoredStays ==
    ASSUME TypeOK, Grows, NEW b \in Block, NEW c, Stored(b, c)
    PROVE  \E m \in Node : c \in entries'[m][b]
  BY DEF Grows, Stored

\* A key whose block a node holds stays checkable there.
LEMMA VerifiableStays ==
    ASSUME TypeOK, Grows, NEW n \in Node, NEW s, Verifiable(n, s)
    PROVE  s \in Inline \/ \E b \in blocks'[n] : By[s] = Fp[b]
  BY DEF Grows, Verifiable, Keys

\* Adding an allowed block keeps the rows sound and removes nothing.
LEMMA RowAdded ==
    ASSUME TypeOK, RowsSound, NEW n \in Node, NEW b \in Allowed[n], AddRow(n, b),
           UNCHANGED <<entries, head, revoked>>
    PROVE  RowsSound' /\ Grows
  <1>1. b \in Block
    BY LedgerAssumption
  <1>2. \A m \in Node : blocks'[m] = IF m = n THEN blocks[m] \cup {b} ELSE blocks[m]
    BY <1>1, AddRowRows
  <1>2a. \A m \in Node : \A a \in blocks'[m] : a \in blocks[m] \/ (m = n /\ a = b)
    BY <1>2
  <1>3. Grows
    BY <1>2 DEF Grows
  <1>4. UnionAnchored' /\ HeadIsHeld'
    BY DEF RowsSound, UnionAnchored, Stored, HeadIsHeld
  <1>5. SignerKnown'
    <2> SUFFICES ASSUME NEW m \in Node, NEW a \in Block, NEW d \in entries[m][a]
                 PROVE  Newest(d) \in Inline \/ \E x \in blocks'[m] : By[Newest(d)] = Fp[x]
      BY DEF SignerKnown, Verifiable, Keys
    <2>1. d \in Chain /\ Verifiable(m, Newest(d))
      BY DEF TypeOK, RowsSound, SignerKnown
    <2> QED
      BY <1>3, <2>1, VerifiableStays
  <1>6. DomainRespected'
    BY <1>2 DEF RowsSound, DomainRespected
  <1>7. EntriesMatchBlock' /\ RevokedIsHeld'
    <2>1. \A m \in Node : blocks[m] \subseteq blocks'[m]
      BY <1>2
    <2> QED
      BY <2>1 DEF RowsSound, EntriesMatchBlock, RevokedIsHeld
  <1>8. OneBlockPerKey'
    <2>1. \A a \in blocks[n] : Fp[a] # Fp[b]
      BY DEF AddRow, Keys
    <2>2. \A m \in Node : \A a, d \in blocks[m] : Fp[a] = Fp[d] => a = d
      BY DEF RowsSound, OneBlockPerKey
    <2> QED
      BY <1>2a, <2>1, <2>2 DEF OneBlockPerKey
  <1> QED
    BY <1>3, <1>4, <1>5, <1>6, <1>7, <1>8 DEF RowsSound

\* Adding an acceptable entry keeps the rows sound and removes nothing.
LEMMA SigAdded ==
    ASSUME TypeOK, RowsSound, NEW n \in Node, NEW b \in Block, NEW c \in Chain,
           Acceptable(n, b, c), AddSig(n, b, c), UNCHANGED <<blocks, revoked>>
    PROVE  RowsSound' /\ Grows
  <1>1. \A m \in Node, a \in Block :
          entries'[m][a] = IF m = n /\ a = b THEN entries[m][a] \cup {c} ELSE entries[m][a]
    BY AddSigRows
  <1>1a. \A m \in Node, a \in Block : \A d \in entries'[m][a] :
           d \in entries[m][a] \/ (m = n /\ a = b /\ d = c)
    <2> SUFFICES ASSUME NEW m \in Node, NEW a \in Block, NEW d \in entries'[m][a]
                 PROVE  d \in entries[m][a] \/ (m = n /\ a = b /\ d = c)
      OBVIOUS
    <2>1. entries'[m][a] = IF m = n /\ a = b THEN entries[m][a] \cup {c} ELSE entries[m][a]
      BY <1>1
    <2> QED
      BY <2>1
  <1>2. \A m \in Node, a \in Block :
          head'[m][a] = IF m = n /\ a = b /\ c \notin entries[n][b] THEN c ELSE head[m][a]
    BY AddSigHead
  <1>3. Grows
    BY <1>1 DEF Grows
  <1>4. UnionAnchored'
    <2> SUFFICES ASSUME NEW m \in Node, NEW a \in Block, NEW d \in entries'[m][a]
                 PROVE  Parent(d) = <<>> \/ \E l \in Node : Parent(d) \in entries'[l][a]
      BY DEF UnionAnchored, Stored
    <2>1. CASE d \in entries[m][a]
      BY <1>3, <2>1, StoredStays DEF RowsSound, UnionAnchored
    <2>2. CASE m = n /\ a = b /\ d = c
      BY <1>3, <2>2, StoredStays DEF Acceptable
    <2> QED
      BY <1>1a, <2>1, <2>2
  <1>5. SignerKnown'
    <2>1. \A m \in Node, s \in Sig : Verifiable(m, s) <=> Verifiable(m, s)'
      BY DEF Verifiable, Keys
    <2>2. \A m \in Node, a \in Block : \A d \in entries[m][a] :
            d \in Chain /\ Verifiable(m, Newest(d))
      BY DEF TypeOK, RowsSound, SignerKnown
    <2>3. Verifiable(n, Newest(c))
      BY DEF Acceptable
    <2>4. \A m \in Node, a \in Block : \A d \in entries'[m][a] :
            d \in Chain /\ Verifiable(m, Newest(d))
      BY <1>1a, <2>2, <2>3
    <2> QED
      BY <2>1, <2>4, NewestIsSig DEF SignerKnown
  <1>6. EntriesMatchBlock'
    <2>1. \A m \in Node, a \in Block : \A d \in entries[m][a] :
            On[Newest(d)] = a /\ a \in blocks[m]
      BY DEF RowsSound, EntriesMatchBlock
    <2>2. On[Newest(c)] = b /\ b \in blocks[n]
      BY DEF Acceptable
    <2>3. \A m \in Node, a \in Block : \A d \in entries'[m][a] :
            On[Newest(d)] = a /\ a \in blocks[m]
      BY <1>1a, <2>1, <2>2
    <2> QED
      BY <2>3 DEF EntriesMatchBlock
  <1>7. HeadIsHeld'
    <2> SUFFICES ASSUME NEW m \in Node, NEW a \in Block
                 PROVE  IF entries'[m][a] = {} THEN head'[m][a] = <<>>
                        ELSE head'[m][a] \in entries'[m][a]
      BY DEF HeadIsHeld
    <2>1. IF entries[m][a] = {} THEN head[m][a] = <<>> ELSE head[m][a] \in entries[m][a]
      BY DEF RowsSound, HeadIsHeld
    <2>2. CASE m = n /\ a = b
      BY <1>1, <1>2, <2>1, <2>2
    <2>3. CASE ~(m = n /\ a = b)
      BY <1>1, <1>2, <2>1, <2>3
    <2> QED
      BY <2>2, <2>3
  <1>8. DomainRespected' /\ OneBlockPerKey' /\ RevokedIsHeld'
    BY DEF RowsSound, DomainRespected, OneBlockPerKey, RevokedIsHeld
  <1> QED
    BY <1>3, <1>4, <1>5, <1>6, <1>7, <1>8 DEF RowsSound

\* Revoking a block that is held keeps the rows sound and removes nothing.
LEMMA RowRevoked ==
    ASSUME TypeOK, RowsSound, NEW n \in Node, NEW b \in Block, Revoke(n, b)
    PROVE  RowsSound' /\ Grows
  <1>1. RevokedIsHeld'
    BY DEF Revoke, TypeOK, RowsSound, RevokedIsHeld
  <1>2. UNCHANGED <<blocks, entries, head>>
    BY DEF Revoke
  <1> QED
    BY <1>1, <1>2 DEF RowsSound, Grows, UnionAnchored, Stored, SignerKnown, Verifiable,
       Keys, DomainRespected, EntriesMatchBlock, OneBlockPerKey, HeadIsHeld

\* Rows that do not change stay sound.
LEMMA RowsSame ==
    ASSUME RowsSound, UNCHANGED <<blocks, entries, head, revoked>>
    PROVE  RowsSound' /\ Grows
  BY DEF RowsSound, Grows, UnionAnchored, Stored, SignerKnown, Verifiable, Keys,
     DomainRespected, EntriesMatchBlock, OneBlockPerKey, HeadIsHeld, RevokedIsHeld

-----------------------------------------------------------------------------
(* What goroutines and messages refer to, over rows given as arguments so   *)
(* that it can be said of the rows after a step as well.                    *)

ExtantIn(E, c) == \E m \in Node : c \in E[m][On[Newest(c)]]

MessageIn(E, m) == m.kind = "sign" => ExtantIn(E, m.chain)

TaskIn(B, E, x) ==
    /\ x.pc = "receiveBlock" => x.blk \in Allowed[x.node]
    /\ x.pc \in {"signRow", "signRead"} =>
        /\ On[x.sig] \in B[x.node]
        /\ x.prev = <<>> \/ x.prev \in E[x.node][On[x.sig]]
    /\ x.pc \in {"receiveRow", "receiveRead"} =>
        x.blk \in B[x.node] /\ ExtantIn(E, x.chain)

FrameIn(B, E, f) == f.blk \in B[f.node] /\ \A c \in f.todo : ExtantIn(E, c)

\* WorkSound, message by message, goroutine by goroutine and frame by frame.
LEMMA WorkSoundMeans ==
    WorkSound <=>
      /\ \A m \in net : MessageIn(entries, m)
      /\ \A u \in Thread : TaskIn(blocks, entries, task[u])
      /\ \A u \in Thread : \A i \in 1 .. Len(stack[u]) : FrameIn(blocks, entries, stack[u][i])
  BY DEF WorkSound, MessagesStored, SignTasksAnchored, ReceiveTasksStored, ReceivedAllowed,
     FramesStored, Extant, Stored, MessageIn, TaskIn, FrameIn, ExtantIn

\* The same of the state after a step.
LEMMA WorkSoundMeansNext ==
    WorkSound' <=>
      /\ \A m \in net' : MessageIn(entries', m)
      /\ \A u \in Thread : TaskIn(blocks', entries', task'[u])
      /\ \A u \in Thread : \A i \in 1 .. Len(stack'[u]) :
            FrameIn(blocks', entries', stack'[u][i])
  BY DEF WorkSound, MessagesStored, SignTasksAnchored, ReceiveTasksStored, ReceivedAllowed,
     FramesStored, Extant, Stored, MessageIn, TaskIn, FrameIn, ExtantIn

\* What is referred to stays, as rows are only added.
LEMMA ExtantGrows ==
    ASSUME TypeOK, Grows, NEW c \in Chain, ExtantIn(entries, c)
    PROVE  ExtantIn(entries', c)
  <1>1. On[Newest(c)] \in Block
    BY NewestIsSig, LedgerAssumption
  <1> QED
    BY <1>1 DEF Grows, ExtantIn

\* What holds of an old task holds when the rows have grown.
LEMMA TaskGrows ==
    ASSUME TypeOK, Grows, NEW u \in Thread, TaskIn(blocks, entries, task[u])
    PROVE  TaskIn(blocks', entries', task[u])
  <1> DEFINE x == task[u]
  <1>1. ASSUME x.pc \in {"signRow", "signRead"}
        PROVE  /\ On[x.sig] \in blocks'[x.node]
               /\ x.prev = <<>> \/ x.prev \in entries'[x.node][On[x.sig]]
    <2>1. x.node \in Node /\ On[x.sig] \in Block
      BY <1>1, TaskKinds, LedgerAssumption DEF SignTask
    <2> QED
      BY <1>1, <2>1 DEF Grows, TaskIn
  <1>2. ASSUME x.pc \in {"receiveRow", "receiveRead"}
        PROVE  x.blk \in blocks'[x.node] /\ ExtantIn(entries', x.chain)
    <2>1. x.node \in Node /\ x.chain \in Chain
      BY <1>2, TaskKinds DEF ReceiveTask
    <2> QED
      BY <1>2, <2>1, ExtantGrows DEF Grows, TaskIn
  <1> QED
    BY <1>1, <1>2 DEF TaskIn

\* What holds of an old frame holds when the rows have grown.
LEMMA FrameGrows ==
    ASSUME TypeOK, Grows, NEW f \in Frame, FrameIn(blocks, entries, f)
    PROVE  FrameIn(blocks', entries', f)
  <1>1. f.node \in Node /\ f.todo \subseteq Chain
    BY DEF Frame
  <1> QED
    BY <1>1, ExtantGrows DEF Grows, FrameIn

\* A step keeps the work sound if what it makes refers to rows that are there.
LEMMA WorkKept ==
    ASSUME TypeOK, WorkSound, Grows,
           \A m \in net' : m \in net \/ MessageIn(entries', m),
           \A u \in Thread : task'[u] = task[u] \/ TaskIn(blocks', entries', task'[u]),
           \A u \in Thread : \A i \in 1 .. Len(stack'[u]) :
             \/ \E j \in 1 .. Len(stack[u]) : stack'[u][i] = stack[u][j]
             \/ FrameIn(blocks', entries', stack'[u][i])
    PROVE  WorkSound'
  <1>1. ASSUME NEW m \in net PROVE MessageIn(entries', m)
    <2>1. m.kind = "sign" => m.chain \in Chain
      BY DEF TypeOK, Message
    <2> QED
      BY <2>1, WorkSoundMeans, ExtantGrows DEF MessageIn
  <1>2. ASSUME NEW u \in Thread PROVE TaskIn(blocks', entries', task[u])
    BY WorkSoundMeans, TaskGrows
  <1>3. ASSUME NEW u \in Thread, NEW j \in 1 .. Len(stack[u])
        PROVE  FrameIn(blocks', entries', stack[u][j])
    <2>1. stack[u][j] \in Frame
      BY DEF TypeOK
    <2> QED
      BY <2>1, WorkSoundMeans, FrameGrows
  <1> QED
    BY <1>1, <1>2, <1>3, WorkSoundMeansNext

\* The messages gossip adds carry an entry that is stored by the time they are sent.
LEMMA GossipSound ==
    ASSUME NEW n \in Node, NEW kind, NEW b \in Block, NEW c, Gossip(n, kind, b, c),
           kind = "sign" => ExtantIn(entries', c)
    PROVE  \A m \in net' : m \in net \/ MessageIn(entries', m)
  <1>1. PICK T \in Targets(n) :
          net' = net \cup {[kind |-> kind, to |-> p, blk |-> b, chain |-> c] : p \in T}
    BY DEF Gossip
  <1> QED
    BY <1>1 DEF MessageIn

\* An entry whose block a node holds and which exists on the ledger is acceptable
\* there once its signature is checked.
LEMMA ExtantAcceptable ==
    ASSUME TypeOK, RowsSound, NEW n \in Node, NEW c \in Chain, ExtantIn(entries, c),
           On[Newest(c)] \in blocks[n], Verifiable(n, Newest(c))
    PROVE  Acceptable(n, On[Newest(c)], c)
  <1>1. On[Newest(c)] \in Block
    BY NewestIsSig, LedgerAssumption
  <1> QED
    BY <1>1 DEF ExtantIn, Acceptable, RowsSound, UnionAnchored

\* The rows of a block, and so what a peer serves of them, exist and match it.
LEMMA ViewExtant ==
    ASSUME TypeOK, RowsSound, NEW p \in Node, NEW b \in Block,
           NEW view \in Views(entries[p][b]), NEW c \in view
    PROVE  c \in Chain /\ ExtantIn(entries, c)
  <1>1. c \in entries[p][b]
    BY ViewsAreRows
  <1>2. c \in Chain
    BY <1>1 DEF TypeOK
  <1>3. On[Newest(c)] = b
    BY <1>1 DEF RowsSound, EntriesMatchBlock
  <1> QED
    BY <1>1, <1>2, <1>3 DEF ExtantIn

\* The frames of a stack with one on top.
LEMMA PushFrames ==
    ASSUME NEW g \in Frame, NEW s \in Seq(Frame), NEW i \in 1 .. Len(<<g>> \o s)
    PROVE  \/ (<<g>> \o s)[i] = g
           \/ \E j \in 1 .. Len(s) : (<<g>> \o s)[i] = s[j]
  <1>1. Len(<<g>> \o s) = Len(s) + 1 /\ Len(s) \in Nat
    OBVIOUS
  <1>2. CASE i = 1
    BY <1>1, <1>2
  <1>3. CASE i # 1
    <2>1. i - 1 \in 1 .. Len(s) /\ (<<g>> \o s)[i] = s[i - 1]
      BY <1>1, <1>3
    <2> QED
      BY <2>1
  <1> QED
    BY <1>2, <1>3

\* The frames below the innermost one keep their order.
LEMMA TailFrames ==
    ASSUME NEW s \in Seq(Frame), s # <<>>, NEW j \in 1 .. Len(Tail(s))
    PROVE  j + 1 \in 1 .. Len(s) /\ Tail(s)[j] = s[j + 1]
  OBVIOUS

\* A fetch adds a sound row and leaves frames that refer to rows that exist.
LEMMA FetchSound ==
    ASSUME TypeOK, RowsSound, WorkSound, NEW t \in Thread, NEW n \in Node, NEW p \in Node,
           NEW k, Fetch(t, n, p, k)
    PROVE  /\ RowsSound' /\ Grows
           /\ \A m \in net' : m \in net
           /\ \A u \in Thread : \A i \in 1 .. Len(stack'[u]) :
                \/ \E j \in 1 .. Len(stack[u]) : stack'[u][i] = stack[u][j]
                \/ FrameIn(blocks', entries', stack'[u][i])
  <1>0. PICK b \in blocks[p] \cap Allowed[n] :
          /\ AddRow(n, b)
          /\ \E view \in Views(entries[p][b]) :
               stack' = [stack EXCEPT ![t] =
                          <<[node |-> n, from |-> p, blk |-> b, todo |-> view,
                             known |-> {}]>> \o stack[t]]
    BY DEF Fetch
  <1>1. PICK view \in Views(entries[p][b]) :
          stack' = [stack EXCEPT ![t] =
                     <<[node |-> n, from |-> p, blk |-> b, todo |-> view,
                        known |-> {}]>> \o stack[t]]
    BY <1>0
  <1> DEFINE g == [node |-> n, from |-> p, blk |-> b, todo |-> view, known |-> {}]
  <1>2. UNCHANGED <<entries, head, revoked, net>> /\ b \in Block
    BY DEF Fetch, TypeOK
  <1>3. RowsSound' /\ Grows
    BY <1>0, <1>2, RowAdded
  <1>4. g \in Frame /\ stack[t] \in Seq(Frame)
    BY <1>2, ViewExtant, ZenonT(30) DEF Frame, TypeOK
  <1>5. FrameIn(blocks', entries', g)
    <2>1. b \in blocks'[n]
      <3>1. blocks'[n] = blocks[n] \cup {b}
        BY <1>0, <1>2, AddRowRows, ZenonT(30)
      <3> QED
        BY <3>1
    <2>2. \A c \in view : ExtantIn(entries', c)
      BY <1>2, ViewExtant DEF ExtantIn
    <2> QED
      BY <2>1, <2>2 DEF FrameIn
  <1>6. ASSUME NEW u \in Thread, NEW i \in 1 .. Len(stack'[u])
        PROVE  \/ \E j \in 1 .. Len(stack[u]) : stack'[u][i] = stack[u][j]
               \/ FrameIn(blocks', entries', stack'[u][i])
    <2>1. CASE u = t
      <3>1. stack'[u] = <<g>> \o stack[t]
        BY <1>1, <2>1 DEF TypeOK
      <3>2. i \in 1 .. Len(<<g>> \o stack[t])
        BY <3>1
      <3>3. \/ (<<g>> \o stack[t])[i] = g
            \/ \E j \in 1 .. Len(stack[t]) : (<<g>> \o stack[t])[i] = stack[t][j]
        BY <1>4, <3>2, PushFrames
      <3> QED
        BY <1>5, <2>1, <3>1, <3>3
    <2>2. CASE u # t
      BY <1>1, <2>2 DEF TypeOK
    <2> QED
      BY <2>1, <2>2
  <1> QED
    BY <1>2, <1>3, <1>6

\* So does passing on to the next entry.
LEMMA DropSound ==
    ASSUME TypeOK, WorkSound, Grows, NEW t \in Thread, stack[t] # <<>>, NEW c,
           NEW known \in SUBSET Key, Drop(t, c, known),
           NEW u \in Thread, NEW i \in 1 .. Len(stack'[u])
    PROVE  \/ \E j \in 1 .. Len(stack[u]) : stack'[u][i] = stack[u][j]
           \/ FrameIn(blocks', entries', stack'[u][i])
  <1> DEFINE f == Head(stack[t])
             g == [node |-> f.node, from |-> f.from, blk |-> f.blk,
                   todo |-> f.todo \ {c}, known |-> known]
  <1>1. f \in Frame /\ Tail(stack[t]) \in Seq(Frame) /\ stack[t] \in Seq(Frame)
    BY TopFrame DEF TypeOK
  <1>2. g \in Frame
    BY <1>1 DEF Frame
  <1>3. 1 \in 1 .. Len(stack[t]) /\ f = stack[t][1]
    BY <1>1
  <1>4. FrameIn(blocks', entries', f)
    BY <1>1, <1>3, WorkSoundMeans, FrameGrows
  <1>5. FrameIn(blocks', entries', g)
    BY <1>4 DEF FrameIn
  <1>6. CASE u = t
    <2>1. stack'[u] = <<g>> \o Tail(stack[t])
      BY <1>6 DEF Drop, TypeOK
    <2>2. i \in 1 .. Len(<<g>> \o Tail(stack[t]))
      BY <2>1
    <2>3. \/ (<<g>> \o Tail(stack[t]))[i] = g
          \/ \E j \in 1 .. Len(Tail(stack[t])) :
               (<<g>> \o Tail(stack[t]))[i] = Tail(stack[t])[j]
      BY <1>1, <1>2, <2>2, PushFrames
    <2> QED
      BY <1>1, <1>5, <1>6, <2>1, <2>3, TailFrames
  <1>7. CASE u # t
    BY <1>7 DEF Drop, TypeOK
  <1> QED
    BY <1>6, <1>7

-----------------------------------------------------------------------------
(* The steps.                                                               *)

\* A stack that does not change has no new frames.
LEMMA SameStack ==
    ASSUME UNCHANGED stack, NEW u \in Thread, NEW i \in 1 .. Len(stack'[u])
    PROVE  \E j \in 1 .. Len(stack[u]) : stack'[u][i] = stack[u][j]
  OBVIOUS

\* A step that gives goroutine t the task x, and leaves the stacks.
LEMMA TaskStep ==
    ASSUME TypeOK, WorkSound, Grows, NEW t \in Thread, NEW x,
           task' = [task EXCEPT ![t] = x], TaskIn(blocks', entries', x), UNCHANGED stack,
           \A m \in net' : m \in net \/ MessageIn(entries', m)
    PROVE  WorkSound'
  <1>1. \A u \in Thread : task'[u] = task[u] \/ TaskIn(blocks', entries', task'[u])
    BY DEF TypeOK
  <1> QED
    BY <1>1, WorkKept, SameStack

\* An idle goroutine remembers nothing that could be wrong.
LEMMA IdleSound == \A B, E : TaskIn(B, E, Idle)
  BY DEF TaskIn, Idle

\* Submitting, receiving and revoking blocks keep rows and work sound.
LEMMA BlockStepsSound ==
    ASSUME LedgerInv,
           \/ \E n \in Node, b \in Block : AddBlock(n, b) \/ RevokeBlock(n, b)
           \/ \E m \in net : ReceiveRevoke(m)
           \/ \E t \in Thread, m \in net : ReceiveBlock(t, m)
           \/ \E t \in Thread : StoreReceived(t)
    PROVE  RowsSound' /\ WorkSound'
  <1> USE DEF LedgerInv
  <1>1. ASSUME NEW n \in Node, NEW b \in Block, AddBlock(n, b)
        PROVE  RowsSound' /\ WorkSound'
    <2>1. RowsSound' /\ Grows
      BY <1>1, RowAdded DEF AddBlock
    <2>2. \A m \in net' : m \in net \/ MessageIn(entries', m)
      BY <1>1, GossipSound DEF AddBlock
    <2> QED
      BY <1>1, <2>1, <2>2, WorkKept, SameStack DEF AddBlock
  <1>2. ASSUME NEW n \in Node, NEW b \in Block, Revoke(n, b)
        PROVE  RowsSound' /\ WorkSound'
    <2>1. RowsSound' /\ Grows
      BY <1>2, RowRevoked
    <2>2. \A m \in net' : m \in net \/ MessageIn(entries', m)
      BY <1>2, GossipSound DEF Revoke
    <2> QED
      BY <1>2, <2>1, <2>2, WorkKept, SameStack DEF Revoke
  <1>3. ASSUME NEW m \in net, ReceiveRevoke(m) PROVE RowsSound' /\ WorkSound'
    <2>1. m.to \in Node /\ m.blk \in Block
      BY DEF TypeOK, Message
    <2> QED
      BY <1>2, <1>3, <2>1 DEF ReceiveRevoke
  <1>4. ASSUME NEW t \in Thread, NEW m \in net, ReceiveBlock(t, m)
        PROVE  RowsSound' /\ WorkSound'
    <2>1. RowsSound' /\ Grows
      BY <1>4, RowsSame DEF ReceiveBlock
    <2> DEFINE x == [pc |-> "receiveBlock", node |-> m.to, blk |-> m.blk]
    <2>2. TaskIn(blocks', entries', x)
      BY <1>4 DEF ReceiveBlock, TaskIn
    <2> QED
      BY <1>4, <2>1, <2>2, TaskStep DEF ReceiveBlock
  <1>5. ASSUME NEW t \in Thread, StoreReceived(t) PROVE RowsSound' /\ WorkSound'
    <2> DEFINE n == task[t].node
               b == task[t].blk
    <2>1. n \in Node /\ b \in Block
      BY <1>5, TaskKinds DEF StoreReceived, StoreTask
    <2>2. b \in Allowed[n]
      BY <1>5 DEF StoreReceived, WorkSound, ReceivedAllowed
    <2>3. RowsSound' /\ Grows
      BY <1>5, <2>1, <2>2, RowAdded, RowsSame DEF StoreReceived
    <2>4. \A m \in net' : m \in net \/ MessageIn(entries', m)
      BY <1>5, <2>1, GossipSound DEF StoreReceived
    <2> QED
      BY <1>5, <2>3, <2>4, TaskStep, IdleSound DEF StoreReceived
  <1> QED
    BY <1>1, <1>2, <1>3, <1>4, <1>5 DEF RevokeBlock

\* A signing handler links to a head that is still stored when it commits.
LEMMA SignStepsSound ==
    ASSUME LedgerInv, NEW t \in Thread,
           \/ \E n \in Node, s \in Sig : SignRow(t, n, s)
           \/ SignRead(t)
           \/ SignCommit(t)
    PROVE  RowsSound' /\ WorkSound'
  <1> USE DEF LedgerInv
  <1>1. ASSUME NEW n \in Node, NEW s \in Sig, SignRow(t, n, s)
        PROVE  RowsSound' /\ WorkSound'
    <2>1. RowsSound' /\ Grows
      BY <1>1, RowsSame DEF SignRow
    <2> DEFINE x == [pc |-> "signRow", node |-> n, sig |-> s, prev |-> head[n][On[s]]]
    <2>2. On[s] \in blocks[n] /\ On[s] \in Block
      BY <1>1, LedgerAssumption DEF SignRow
    <2>3. head[n][On[s]] = <<>> \/ head[n][On[s]] \in entries[n][On[s]]
      BY <2>2 DEF RowsSound, HeadIsHeld
    <2>4. TaskIn(blocks', entries', x)
      BY <1>1, <2>2, <2>3 DEF SignRow, TaskIn
    <2> QED
      BY <1>1, <2>1, <2>4, TaskStep DEF SignRow
  <1>2. CASE SignRead(t)
    <2>1. RowsSound' /\ Grows
      BY <1>2, RowsSame DEF SignRead
    <2> DEFINE x == [pc |-> "signRead", node |-> task[t].node, sig |-> task[t].sig,
                     prev |-> task[t].prev]
    <2>2. TaskIn(blocks, entries, task[t])
      BY WorkSoundMeans
    <2>3. TaskIn(blocks', entries', x)
      BY <1>2, <2>2 DEF SignRead, TaskIn
    <2>4. task' = [task EXCEPT ![t] = Idle] \/ task' = [task EXCEPT ![t] = x]
      BY <1>2 DEF SignRead
    <2> QED
      BY <1>2, <2>1, <2>3, <2>4, TaskStep, IdleSound DEF SignRead
  <1>3. CASE SignCommit(t)
    <2> DEFINE n == task[t].node
               s == task[t].sig
               c == Append(task[t].prev, s)
    <2>1. /\ n \in Node /\ s \in Sig /\ task[t].prev \in Seq(Sig)
          /\ On[s] \in Block
      BY <1>3, TaskKinds, LedgerAssumption DEF SignCommit, SignTask
    <2>2. c \in Chain /\ Parent(c) = task[t].prev /\ Newest(c) = s
      BY <2>1, AppendIsEntry
    <2>3. CASE Verifiable(n, s)
      <3>1. AddSig(n, On[s], c) /\ Gossip(n, "sign", On[s], c)
        BY <1>3, <2>3 DEF SignCommit
      <3>2. Acceptable(n, On[s], c)
        <4>1. On[s] \in blocks[n] /\ (task[t].prev = <<>> \/ Stored(On[s], task[t].prev))
          BY <1>3, <2>1 DEF SignCommit, WorkSound, SignTasksAnchored, Stored
        <4> QED
          BY <2>2, <2>3, <4>1 DEF Acceptable
      <3>3. RowsSound' /\ Grows
        BY <1>3, <2>1, <2>2, <3>1, <3>2, SigAdded DEF SignCommit
      <3>4. ExtantIn(entries', c)
        <4>1. c \in entries'[n][On[s]]
          BY <2>1, <2>2, <3>1, AddSigStored
        <4> QED
          BY <2>1, <2>2, <4>1 DEF ExtantIn
      <3>5. \A m \in net' : m \in net \/ MessageIn(entries', m)
        BY <2>1, <3>1, <3>4, GossipSound
      <3> QED
        BY <1>3, <3>3, <3>5, TaskStep, IdleSound DEF SignCommit
    <2>4. CASE ~Verifiable(n, s)
      <3>1. UNCHANGED <<blocks, entries, head, revoked, net>>
        BY <1>3, <2>4 DEF SignCommit
      <3>2. RowsSound' /\ Grows
        BY <3>1, RowsSame
      <3> QED
        BY <1>3, <3>1, <3>2, TaskStep, IdleSound DEF SignCommit
    <2> QED
      BY <2>3, <2>4
  <1> QED
    BY <1>1, <1>2, <1>3

\* A gossiped entry is stored only when it fits the block and its signer is known.
LEMMA ReceiveSigStepsSound ==
    ASSUME LedgerInv, NEW t \in Thread,
           \/ \E m \in net : ReceiveSigRow(t, m)
           \/ ReceiveSigRead(t)
           \/ ReceiveSigFetch(t)
           \/ ReceiveSigCommit(t)
    PROVE  RowsSound' /\ WorkSound'
  <1> USE DEF LedgerInv
  <1>1. ASSUME NEW m \in net, ReceiveSigRow(t, m) PROVE RowsSound' /\ WorkSound'
    <2>1. RowsSound' /\ Grows
      BY <1>1, RowsSame DEF ReceiveSigRow
    <2>2. PICK b \in blocks[m.to] :
            task' = [task EXCEPT ![t] =
                      [pc |-> "receiveRow", node |-> m.to, blk |-> b, chain |-> m.chain,
                       known |-> {}, ask |-> {}]]
      BY <1>1 DEF ReceiveSigRow
    <2> DEFINE x == [pc |-> "receiveRow", node |-> m.to, blk |-> b, chain |-> m.chain,
                     known |-> {}, ask |-> {}]
    <2>3. ExtantIn(entries, m.chain)
      BY <1>1, WorkSoundMeans DEF ReceiveSigRow, MessageIn
    <2>4. TaskIn(blocks', entries', x)
      BY <1>1, <2>2, <2>3 DEF ReceiveSigRow, TaskIn
    <2> QED
      BY <1>1, <2>1, <2>2, <2>4, TaskStep DEF ReceiveSigRow
  <1>2. ASSUME task[t].pc \in {"receiveRow", "receiveRead"}
        PROVE  /\ task[t] \in ReceiveTask
               /\ task[t].node \in Node /\ task[t].blk \in Block /\ task[t].chain \in Chain
               /\ task[t].blk \in blocks[task[t].node]
               /\ ExtantIn(entries, task[t].chain)
    <2>1. TaskIn(blocks, entries, task[t])
      BY WorkSoundMeans
    <2> QED
      BY <1>2, <2>1, TaskKinds DEF ReceiveTask, TaskIn
  <1>3. CASE ReceiveSigRead(t)
    <2>1. RowsSound' /\ Grows
      BY <1>3, RowsSame DEF ReceiveSigRead
    <2>2. PICK view \in Views(entries[task[t].node][task[t].blk]) :
            task' = [task EXCEPT ![t] =
                      [pc |-> "receiveRead", node |-> task[t].node, blk |-> task[t].blk,
                       chain |-> task[t].chain, known |-> Signers(view),
                       ask |-> Peers[task[t].node]]]
      BY <1>3 DEF ReceiveSigRead
    <2> DEFINE x == [pc |-> "receiveRead", node |-> task[t].node, blk |-> task[t].blk,
                     chain |-> task[t].chain, known |-> Signers(view),
                     ask |-> Peers[task[t].node]]
    <2>3. TaskIn(blocks', entries', x)
      BY <1>2, <1>3 DEF ReceiveSigRead, TaskIn
    <2> QED
      BY <1>3, <2>1, <2>2, <2>3, TaskStep DEF ReceiveSigRead
  <1>4. CASE ReceiveSigFetch(t)
    <2>1. PICK p \in task[t].ask :
            /\ task' = [task EXCEPT ![t] = [task[t] EXCEPT !.ask = task[t].ask \ {p}]]
            /\ \/ Fetch(t, task[t].node, p, Signer(task[t].chain))
               \/ FetchNothing
      BY <1>4 DEF ReceiveSigFetch
    <2> DEFINE x == [task[t] EXCEPT !.ask = task[t].ask \ {p}]
    <2>2. /\ x.pc = "receiveRead" /\ x.node = task[t].node /\ x.blk = task[t].blk
          /\ x.chain = task[t].chain /\ p \in Node
      BY <1>2, <1>4 DEF ReceiveSigFetch, ReceiveTask
    <2>3. ASSUME Grows PROVE TaskIn(blocks', entries', x)
      <3>1. TaskIn(blocks', entries', task[t])
        BY <2>3, WorkSoundMeans, TaskGrows
      <3> QED
        BY <1>4, <2>2, <3>1 DEF TaskIn, ReceiveSigFetch
    <2>4. \A u \in Thread : task'[u] = task[u] \/ task'[u] = x
      BY <2>1 DEF TypeOK
    <2>5. CASE Fetch(t, task[t].node, p, Signer(task[t].chain))
      BY <1>2, <1>4, <2>2, <2>3, <2>4, <2>5, FetchSound, WorkKept DEF ReceiveSigFetch
    <2>6. CASE FetchNothing
      <3>1. RowsSound' /\ Grows
        BY <2>6, RowsSame DEF FetchNothing
      <3> QED
        BY <2>1, <2>3, <2>6, <3>1, TaskStep DEF FetchNothing
    <2> QED
      BY <2>1, <2>5, <2>6
  <1>5. CASE ReceiveSigCommit(t)
    <2> DEFINE n == task[t].node
               b == task[t].blk
               c == task[t].chain
    <2>1. /\ n \in Node /\ b \in Block /\ c \in Chain
          /\ b \in blocks[n] /\ ExtantIn(entries, c)
      BY <1>2, <1>5 DEF ReceiveSigCommit
    <2>2. CASE /\ Verifiable(n, Newest(c)) /\ On[Newest(c)] = b
               /\ Signer(c) \notin task[t].known
      <3>1. AddSig(n, b, c) /\ Gossip(n, "sign", b, c)
        BY <1>5, <2>2 DEF ReceiveSigCommit
      <3>2. Acceptable(n, b, c)
        BY <2>1, <2>2, ExtantAcceptable
      <3>3. RowsSound' /\ Grows
        BY <1>5, <2>1, <3>1, <3>2, SigAdded DEF ReceiveSigCommit
      <3>4. \A m \in net' : m \in net \/ MessageIn(entries', m)
        BY <2>1, <3>1, <3>3, ExtantGrows, GossipSound
      <3> QED
        BY <1>5, <3>3, <3>4, TaskStep, IdleSound DEF ReceiveSigCommit
    <2>3. CASE ~(/\ Verifiable(n, Newest(c)) /\ On[Newest(c)] = b
                 /\ Signer(c) \notin task[t].known)
      <3>1. UNCHANGED <<blocks, entries, head, revoked, net>>
        BY <1>5, <2>3 DEF ReceiveSigCommit
      <3>2. RowsSound' /\ Grows
        BY <3>1, RowsSame
      <3> QED
        BY <1>5, <3>1, <3>2, TaskStep, IdleSound DEF ReceiveSigCommit
    <2> QED
      BY <2>2, <2>3
  <1> QED
    BY <1>1, <1>3, <1>4, <1>5

\* Applying a peer's entries one by one, with fetches in between, keeps them sound.
LEMMA ApplyStepsSound ==
    ASSUME LedgerInv, NEW t \in Thread,
           ApplySkip(t) \/ ApplyStore(t) \/ ApplyFetch(t) \/ ApplyReturn(t)
    PROVE  RowsSound' /\ WorkSound'
  <1> USE DEF LedgerInv
  <1> DEFINE f == Head(stack[t])
  <1>1. stack[t] # <<>>
    BY DEF ApplySkip, ApplyStore, ApplyFetch, ApplyReturn
  <1>2. /\ f \in Frame /\ stack[t] \in Seq(Frame)
        /\ f.node \in Node /\ f.from \in Node /\ f.blk \in Block /\ f.known \subseteq Key
    BY <1>1, TopFrame DEF Frame, TypeOK
  <1>3. FrameIn(blocks, entries, f)
    <2>1. 1 \in 1 .. Len(stack[t]) /\ f = stack[t][1]
      BY <1>1, <1>2
    <2> QED
      BY <2>1, WorkSoundMeans
  <1>4. ASSUME NEW c \in NextEntries(t)
        PROVE  c \in Chain /\ Signer(c) \in Key /\ ExtantIn(entries, c)
    BY <1>1, <1>3, NextEntriesType, SignerType DEF FrameIn
  <1>5. CASE ApplySkip(t)
    <2>1. RowsSound' /\ Grows
      BY <1>5, RowsSame DEF ApplySkip
    <2> QED
      BY <1>1, <1>2, <1>5, <2>1, DropSound, WorkKept DEF ApplySkip
  <1>6. CASE ApplyStore(t)
    <2>1. PICK c \in NextEntries(t) :
            /\ Verifiable(f.node, Newest(c))
            /\ On[Newest(c)] = f.blk
            /\ AddSig(f.node, f.blk, c)
            /\ Drop(t, c, IF c \in entries[f.node][f.blk]
                            THEN f.known ELSE f.known \cup {Signer(c)})
      BY <1>6 DEF ApplyStore
    <2>2. Acceptable(f.node, f.blk, c)
      BY <1>2, <1>3, <1>4, <2>1, ExtantAcceptable DEF FrameIn
    <2>3. RowsSound' /\ Grows
      BY <1>2, <1>4, <1>6, <2>1, <2>2, SigAdded DEF ApplyStore
    <2> QED
      BY <1>1, <1>2, <1>4, <1>6, <2>1, <2>3, DropSound, WorkKept DEF ApplyStore
  <1>7. CASE ApplyFetch(t)
    <2>1. PICK c \in NextEntries(t) :
            \/ Fetch(t, f.node, f.from, Signer(c))
            \/ Drop(t, c, f.known) /\ UNCHANGED <<blocks, entries, head, revoked, net>>
      BY <1>7 DEF ApplyFetch
    <2>2. CASE Fetch(t, f.node, f.from, Signer(c))
      BY <1>2, <1>7, <2>2, FetchSound, WorkKept DEF ApplyFetch
    <2>3. CASE Drop(t, c, f.known) /\ UNCHANGED <<blocks, entries, head, revoked, net>>
      <3>1. RowsSound' /\ Grows
        BY <2>3, RowsSame
      <3> QED
        BY <1>1, <1>2, <1>7, <2>3, <3>1, DropSound, WorkKept DEF ApplyFetch
    <2> QED
      BY <2>1, <2>2, <2>3
  <1>8. CASE ApplyReturn(t)
    <2>1. RowsSound' /\ Grows
      BY <1>8, RowsSame DEF ApplyReturn
    <2>2. ASSUME NEW u \in Thread, NEW i \in 1 .. Len(stack'[u])
          PROVE  \E j \in 1 .. Len(stack[u]) : stack'[u][i] = stack[u][j]
      <3>1. CASE u = t
        <4>1. stack'[u] = Tail(stack[t])
          BY <1>8, <3>1 DEF ApplyReturn, TypeOK
        <4> QED
          BY <1>1, <1>2, <3>1, <4>1, TailFrames
      <3>2. CASE u # t
        BY <1>8, <3>2 DEF ApplyReturn, TypeOK
      <3> QED
        BY <3>1, <3>2
    <2> QED
      BY <1>8, <2>1, <2>2, WorkKept DEF ApplyReturn
  <1> QED
    BY <1>5, <1>6, <1>7, <1>8

\* The steps of SyncWithPeer keep rows and work sound.
LEMMA SyncStepsSound ==
    ASSUME LedgerInv, NEW t \in Thread,
           \/ \E n, p \in Node : SyncStart(t, n, p)
           \/ SyncFetch(t) \/ SyncChain(t) \/ SyncPush(t)
    PROVE  RowsSound' /\ WorkSound'
  <1> USE DEF LedgerInv
  <1>1. ASSUME NEW x, x.pc = "sync" PROVE \A B, E : TaskIn(B, E, x)
    BY <1>1 DEF TaskIn
  <1>2. ASSUME NEW n \in Node, NEW p \in Node, SyncStart(t, n, p)
        PROVE  RowsSound' /\ WorkSound'
    <2>1. RowsSound' /\ Grows
      BY <1>2, RowsSame DEF SyncStart
    <2> DEFINE x == [pc |-> "sync", node |-> n, peer |-> p,
                     want |-> Keys(p) \ Keys(n),
                     stale |-> {k \in Keys(p) \cap Keys(n) : HeadOf(p, k) # HeadOf(n, k)},
                     push |-> {b \in blocks[n] : Fp[b] \notin Keys(p)}]
    <2>2. task' = [task EXCEPT ![t] = x] /\ x.pc = "sync"
      BY <1>2 DEF SyncStart
    <2>3. TaskIn(blocks', entries', x)
      BY <1>1, <2>2
    <2> HIDE DEF x
    <2> QED
      BY <1>2, <2>1, <2>2, <2>3, TaskStep DEF SyncStart
  <1>3. CASE SyncFetch(t)
    <2>1. task[t] \in SyncTask
      BY <1>3, TaskKinds DEF SyncFetch
    <2>2. PICK k \in task[t].want :
            /\ task' = [task EXCEPT ![t] = [task[t] EXCEPT !.want = task[t].want \ {k}]]
            /\ Fetch(t, task[t].node, task[t].peer, k) \/ FetchNothing
      BY <1>3 DEF SyncFetch
    <2> DEFINE x == [task[t] EXCEPT !.want = task[t].want \ {k}]
    <2>3. x.pc = "sync" /\ task[t].node \in Node /\ task[t].peer \in Node
      BY <2>1 DEF SyncTask
    <2>4. TaskIn(blocks', entries', x)
      BY <1>1, <2>3
    <2>5. \A u \in Thread : task'[u] = task[u] \/ task'[u] = x
      BY <2>2 DEF TypeOK
    <2>6. CASE Fetch(t, task[t].node, task[t].peer, k)
      BY <2>3, <2>4, <2>5, <2>6, FetchSound, WorkKept
    <2>7. CASE FetchNothing
      <3>1. RowsSound' /\ Grows
        BY <2>7, RowsSame DEF FetchNothing
      <3> QED
        BY <2>2, <2>4, <2>7, <3>1, TaskStep DEF FetchNothing
    <2> QED
      BY <2>2, <2>6, <2>7
  <1>4. CASE SyncChain(t)
    <2> DEFINE n == task[t].node
               p == task[t].peer
    <2>1. RowsSound' /\ Grows
      BY <1>4, RowsSame DEF SyncChain
    <2>2. task[t] \in SyncTask /\ n \in Node /\ p \in Node
      BY <1>4, TaskKinds DEF SyncChain, SyncTask
    <2>3. PICK k \in task[t].stale :
            /\ task' = [task EXCEPT ![t] = [task[t] EXCEPT !.stale = task[t].stale \ {k}]]
            /\ \/ \E own \in blocks[n], its \in blocks[p] :
                    /\ Fp[own] = k /\ Fp[its] = k
                    /\ \E view \in Views(entries[p][its]), have \in Views(entries[n][own]) :
                         stack' = [stack EXCEPT ![t] =
                                    <<[node |-> n, from |-> p, blk |-> own, todo |-> view,
                                       known |-> Signers(have)]>>]
               \/ UNCHANGED stack
      BY <1>4 DEF SyncChain
    <2> DEFINE x == [task[t] EXCEPT !.stale = task[t].stale \ {k}]
    <2>4. TaskIn(blocks', entries', x)
      BY <1>1, <2>2 DEF SyncTask
    <2>5. CASE UNCHANGED stack
      BY <1>4, <2>1, <2>3, <2>4, <2>5, TaskStep DEF SyncChain
    <2>6. ASSUME NEW own \in blocks[n], NEW its \in blocks[p],
                 NEW view \in Views(entries[p][its]), NEW have \in Views(entries[n][own]),
                 stack' = [stack EXCEPT ![t] =
                            <<[node |-> n, from |-> p, blk |-> own, todo |-> view,
                               known |-> Signers(have)]>>]
          PROVE  WorkSound'
      <3> DEFINE g == [node |-> n, from |-> p, blk |-> own, todo |-> view,
                       known |-> Signers(have)]
      <3>1. its \in Block /\ UNCHANGED <<blocks, entries, net>>
        BY <1>4, <2>2 DEF TypeOK, SyncChain
      <3>2. FrameIn(blocks', entries', g)
        BY <2>2, <3>1, ViewExtant DEF FrameIn
      <3>3. ASSUME NEW u \in Thread, NEW i \in 1 .. Len(stack'[u])
            PROVE  \/ \E j \in 1 .. Len(stack[u]) : stack'[u][i] = stack[u][j]
                   \/ FrameIn(blocks', entries', stack'[u][i])
        <4>1. CASE u = t
          <5>1. stack'[u] = <<g>>
            BY <2>6, <4>1 DEF TypeOK
          <5>2. stack'[u][i] = g
            BY <5>1
          <5> QED
            BY <3>2, <5>2
        <4>2. CASE u # t
          BY <2>6, <4>2 DEF TypeOK
        <4> QED
          BY <4>1, <4>2
      <3>4. \A u \in Thread : task'[u] = task[u] \/ task'[u] = x
        BY <2>3 DEF TypeOK
      <3> HIDE DEF x
      <3> QED
        BY <2>1, <2>4, <3>1, <3>3, <3>4, WorkKept
    <2> QED
      BY <2>1, <2>3, <2>5, <2>6
  <1>5. CASE SyncPush(t)
    <2>1. RowsSound' /\ Grows
      BY <1>5, RowsSame DEF SyncPush
    <2>2. \A m \in net' : m \in net \/ MessageIn(entries', m)
      BY <1>5 DEF SyncPush, MessageIn
    <2> QED
      BY <1>5, <2>1, <2>2, TaskStep, IdleSound DEF SyncPush
  <1> QED
    BY <1>2, <1>3, <1>4, <1>5

\* A restart forgets goroutines and keeps rows and messages.
LEMMA RestartSound ==
    ASSUME LedgerInv, NEW n \in Node, Restart(n)
    PROVE  RowsSound' /\ WorkSound'
  <1> USE DEF LedgerInv
  <1>1. RowsSound' /\ Grows
    BY RowsSame DEF Restart
  <1>2. \A u \in Thread : task'[u] = task[u] \/ task'[u] = Idle
    BY DEF Restart
  <1>3. ASSUME NEW u \in Thread, NEW i \in 1 .. Len(stack'[u])
        PROVE  \E j \in 1 .. Len(stack[u]) : stack'[u][i] = stack[u][j]
    <2>1. stack'[u] = stack[u] \/ stack'[u] = <<>>
      BY DEF Restart
    <2> QED
      BY <2>1
  <1> QED
    BY <1>1, <1>2, <1>3, IdleSound, WorkKept DEF Restart

-----------------------------------------------------------------------------
(* The invariant, and what follows from it.                                 *)

\* The inductive invariant holds of the empty cluster.
LEMMA LedgerInvInit == Init => LedgerInv
  <1> SUFFICES ASSUME Init PROVE LedgerInv
    OBVIOUS
  <1>1. TypeOK
    BY DEF Init, TypeOK, Task
  <1>2. RowsSound
    BY DEF Init, RowsSound, UnionAnchored, SignerKnown, DomainRespected, EntriesMatchBlock,
       OneBlockPerKey, HeadIsHeld, RevokedIsHeld
  <1>3. WorkSound
    BY DEF Init, WorkSound, MessagesStored, SignTasksAnchored, ReceiveTasksStored,
       ReceivedAllowed, FramesStored, Idle
  <1> QED
    BY <1>1, <1>2, <1>3 DEF LedgerInv

\* Every step preserves the inductive invariant.
LEMMA LedgerInvNext == LedgerInv /\ [Next]_vars => LedgerInv'
  <1> SUFFICES ASSUME LedgerInv, [Next]_vars PROVE LedgerInv'
    OBVIOUS
  <1>1. TypeOK'
    BY NextType DEF LedgerInv
  <1>2. CASE UNCHANGED vars
    <2>1. RowsSound' /\ Grows
      BY <1>2, RowsSame DEF LedgerInv, vars
    <2> QED
      BY <1>1, <1>2, <2>1, SameStack, WorkKept DEF LedgerInv, vars
  <1>3. CASE Next
    <2>1. RowsSound' /\ WorkSound'
      BY <1>3, BlockStepsSound, SignStepsSound, ReceiveSigStepsSound, ApplyStepsSound,
         SyncStepsSound, RestartSound DEF Next, Work
    <2> QED
      BY <1>1, <2>1 DEF LedgerInv
  <1> QED
    BY <1>2, <1>3

\* The rows, the messages and the goroutines of a cluster agree in every state the
\* handlers of api.go and the sync of p2p.go reach.
THEOREM LedgerInvariant == Spec => []LedgerInv
  BY LedgerInvInit, LedgerInvNext, PTL DEF Spec

\* No entry's prev_hash names an entry that exists on no node.
THEOREM UnionIsAnchored == Spec => []UnionAnchored
  <1>1. LedgerInv => UnionAnchored
    BY DEF LedgerInv, RowsSound
  <1> QED
    BY <1>1, LedgerInvariant, PTL

\* Every node can check every entry it holds with the keys it holds.
THEOREM SignersAreKnown == Spec => []SignerKnown
  <1>1. LedgerInv => SignerKnown
    BY DEF LedgerInv, RowsSound
  <1> QED
    BY <1>1, LedgerInvariant, PTL

\* No path into a node's store goes around its domain allowlist.
THEOREM DomainsAreRespected == Spec => []DomainRespected
  <1>1. LedgerInv => DomainRespected
    BY DEF LedgerInv, RowsSound
  <1> QED
    BY <1>1, LedgerInvariant, PTL

\* The entries of a block are signatures of that very block, which is there.
THEOREM EntriesAreOfTheirBlock == Spec => []EntriesMatchBlock
  <1>1. LedgerInv => EntriesMatchBlock
    BY DEF LedgerInv, RowsSound
  <1> QED
    BY <1>1, LedgerInvariant, PTL

\* A node holds one submission of a key, and its entries are on that submission.
THEOREM SubmissionsDoNotMix == Spec => [](OneBlockPerKey /\ EntriesMatchBlock)
  <1>1. LedgerInv => OneBlockPerKey /\ EntriesMatchBlock
    BY DEF LedgerInv, RowsSound
  <1> QED
    BY <1>1, LedgerInvariant, PTL

-----------------------------------------------------------------------------
(* What a step does to the entries.                                         *)

\* Goroutine t appends, at node n, the signature it was asked to.
Mints(t, n, b, c) ==
    /\ task[t].pc = "signRead" /\ task'[t] = Idle
    /\ task[t].node = n /\ task[t].sig \in Sig /\ On[task[t].sig] = b
    /\ task[t].prev \in Seq(Sig) /\ c = Append(task[t].prev, task[t].sig)
    /\ task[t].prev = <<>> \/ task[t].prev \in entries[n][b]

EntryStep ==
    \/ UNCHANGED <<entries, head>>
    \/ \E n \in Node, b \in Block, c \in Chain :
         /\ b \in blocks[n] /\ AddSig(n, b, c)
         /\ UNCHANGED <<blocks, revoked>>
         /\ Stored(b, c) \/ \E t \in Thread : Mints(t, n, b, c)

\* A signing handler adds the entry it minted and moves the head to it.
LEMMA EntryStepSign ==
    ASSUME LedgerInv, NEW t \in Thread, SignCommit(t)
    PROVE  EntryStep
  <1> DEFINE n == task[t].node
             s == task[t].sig
             b == On[s]
             c == Append(task[t].prev, s)
  <1>1. /\ n \in Node /\ s \in Sig /\ task[t].prev \in Seq(Sig) /\ b \in Block
    BY TaskKinds, LedgerAssumption DEF LedgerInv, SignCommit, SignTask
  <1>2. c \in Chain
    BY <1>1, AppendIsEntry
  <1>3. b \in blocks[n] /\ (task[t].prev = <<>> \/ task[t].prev \in entries[n][b])
    BY DEF LedgerInv, WorkSound, SignTasksAnchored, SignCommit
  <1>4. task'[t] = Idle
    BY DEF SignCommit, LedgerInv, TypeOK
  <1>5. Mints(t, n, b, c)
    BY <1>1, <1>3, <1>4 DEF Mints, SignCommit
  <1>6. AddSig(n, b, c) \/ UNCHANGED <<entries, head>>
    BY DEF SignCommit
  <1>7. UNCHANGED <<blocks, revoked>>
    BY DEF SignCommit
  <1> HIDE DEF c, b, n
  <1> QED
    BY <1>1, <1>2, <1>3, <1>5, <1>6, <1>7 DEF EntryStep

\* A gossiped entry that is added is stored somewhere already.
LEMMA EntryStepReceive ==
    ASSUME LedgerInv, NEW t \in Thread, ReceiveSigCommit(t)
    PROVE  EntryStep
  <1> DEFINE n == task[t].node
             b == task[t].blk
             c == task[t].chain
  <1>1. n \in Node /\ b \in Block /\ c \in Chain
    BY TaskKinds DEF LedgerInv, ReceiveSigCommit, ReceiveTask
  <1>2. b \in blocks[n] /\ Extant(c)
    BY DEF LedgerInv, WorkSound, ReceiveTasksStored, ReceiveSigCommit
  <1>3. \/ AddSig(n, b, c) /\ On[Newest(c)] = b
        \/ UNCHANGED <<entries, head>>
    BY DEF ReceiveSigCommit
  <1>4. UNCHANGED <<blocks, revoked>>
    BY DEF ReceiveSigCommit
  <1> HIDE DEF c, b, n
  <1> QED
    BY <1>1, <1>2, <1>3, <1>4 DEF EntryStep, Extant

\* An entry applied by sync is stored somewhere already.
LEMMA EntryStepApply ==
    ASSUME LedgerInv, NEW t \in Thread, ApplyStore(t)
    PROVE  EntryStep
  <1> DEFINE f == Head(stack[t])
  <1>1. PICK c \in NextEntries(t) : On[Newest(c)] = f.blk /\ AddSig(f.node, f.blk, c)
    BY DEF ApplyStore
  <1>2. stack[t] # <<>> /\ TypeOK
    BY DEF ApplyStore, LedgerInv
  <1>3. f.node \in Node /\ f.blk \in Block
    BY <1>2, TopFrame DEF Frame
  <1>4. c \in f.todo /\ c \in Chain
    BY <1>2, NextEntriesType
  <1>5. 1 \in 1 .. Len(stack[t]) /\ f = stack[t][1]
    BY <1>2 DEF TypeOK
  <1>6. f.blk \in blocks[f.node] /\ Extant(c)
    BY <1>4, <1>5 DEF LedgerInv, WorkSound, FramesStored
  <1>7. UNCHANGED <<blocks, revoked>>
    BY DEF ApplyStore
  <1> HIDE DEF f
  <1> QED
    BY <1>1, <1>3, <1>4, <1>6, <1>7 DEF EntryStep, Extant

\* Every step leaves the entries, or adds one and moves its head.
LEMMA EntrySteps ==
    ASSUME LedgerInv, [Next]_vars
    PROVE  EntryStep
  <1>1. CASE UNCHANGED vars
    BY <1>1 DEF EntryStep, vars
  <1>2. CASE Next
    BY <1>2, EntryStepSign, EntryStepReceive, EntryStepApply, ZenonT(30)
    DEF Next, Work, EntryStep, AddBlock, RevokeBlock, Revoke, ReceiveRevoke, ReceiveBlock,
        StoreReceived, SignRow, SignRead, ReceiveSigRow, ReceiveSigRead, ReceiveSigFetch,
        ApplySkip, ApplyFetch, ApplyReturn, SyncStart, SyncFetch, SyncChain, SyncPush,
        Fetch, FetchNothing, Restart
  <1> QED
    BY <1>1, <1>2

\* The head of a chain moves only to an entry appended in the same transaction.
THEOREM HeadMovesToNewest == Spec => HeadIsNewest
  <1> DEFINE A == \A n \in Node, b \in Block :
                    \/ entries'[n][b] = entries[n][b] /\ head'[n][b] = head[n][b]
                    \/ /\ head'[n][b] \notin entries[n][b]
                       /\ entries'[n][b] = entries[n][b] \cup {head'[n][b]}
  <1>1. ASSUME LedgerInv, [Next]_vars PROVE A
    <2>1. TypeOK
      BY <1>1 DEF LedgerInv
    <2>2. CASE UNCHANGED <<entries, head>>
      BY <2>2
    <2>3. ASSUME NEW n \in Node, NEW b \in Block, NEW c \in Chain, AddSig(n, b, c),
                 NEW m \in Node, NEW a \in Block
          PROVE  \/ entries'[m][a] = entries[m][a] /\ head'[m][a] = head[m][a]
                 \/ /\ head'[m][a] \notin entries[m][a]
                    /\ entries'[m][a] = entries[m][a] \cup {head'[m][a]}
      <3>1. entries'[m][a] = IF m = n /\ a = b THEN entries[m][a] \cup {c} ELSE entries[m][a]
        BY <2>1, <2>3, AddSigRows
      <3>2. head'[m][a] = IF m = n /\ a = b /\ c \notin entries[n][b] THEN c ELSE head[m][a]
        BY <2>1, <2>3, AddSigHead
      <3> QED
        BY <3>1, <3>2
    <2> QED
      BY <1>1, <2>2, <2>3, EntrySteps DEF EntryStep
  <1>2. LedgerInv /\ [Next]_vars => [A]_vars
    BY <1>1
  <1> QED
    BY <1>2, LedgerInvariant, PTL DEF Spec, HeadIsNewest

\* Entries are made by signing handlers only; gossip and sync hand them on.
THEOREM SigningMints == Spec => OnlySigningMints
  <1> DEFINE A == \A n \in Node, b \in Block : \A c \in entries'[n][b] \ entries[n][b] :
                    \/ Stored(b, c)
                    \/ \E t \in Thread :
                         /\ task[t].pc = "signRead" /\ task'[t] = Idle
                         /\ task[t].node = n /\ c = Append(task[t].prev, task[t].sig)
  <1>1. ASSUME LedgerInv, [Next]_vars PROVE A
    <2>1. TypeOK
      BY <1>1 DEF LedgerInv
    <2>2. CASE UNCHANGED <<entries, head>>
      BY <2>2
    <2>3. ASSUME NEW n \in Node, NEW b \in Block, NEW c \in Chain, AddSig(n, b, c),
                 Stored(b, c) \/ \E t \in Thread : Mints(t, n, b, c)
          PROVE  A
      <3>1. ASSUME NEW m \in Node, NEW a \in Block, NEW d \in entries'[m][a] \ entries[m][a]
            PROVE  m = n /\ a = b /\ d = c
        <4>1. entries'[m][a] = IF m = n /\ a = b THEN entries[m][a] \cup {c} ELSE entries[m][a]
          BY <2>1, <2>3, AddSigRows
        <4> QED
          BY <4>1
      <3> QED
        BY <2>3, <3>1 DEF Mints
    <2> QED
      BY <1>1, <2>2, <2>3, EntrySteps DEF EntryStep
  <1>2. LedgerInv /\ [Next]_vars => [A]_vars
    BY <1>1
  <1> QED
    BY <1>2, LedgerInvariant, PTL DEF Spec, OnlySigningMints

=============================================================================
