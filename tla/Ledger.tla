-------------------------------- MODULE Ledger --------------------------------
(***************************************************************************)
(* A cluster of Go nodes: the SQLite rows each of them keeps, the client    *)
(* and peer-to-peer handlers that change the rows, connect-time sync, and   *)
(* the gossip messages between nodes.                                       *)
(*                                                                          *)
(* Every handler and every sync runs on a goroutine (Thread) and touches    *)
(* the store one call at a time: what it read may be old when it writes.    *)
(* A message once sent stays in net: a receiver may get it late, several    *)
(* times (peers forward it again) or never (nothing is retried).            *)
(***************************************************************************)
EXTENDS SigEntries, FiniteSets

CONSTANTS
    Node,       \* the running nodes
    Key,        \* OpenPGP fingerprints
    Block,      \* signed submissions of keys; a block is named by its hash
    Fp,         \* the fingerprint of a block's key
    Sig,        \* trust signatures made by clients
    By,         \* the fingerprint of the key that made a signature
    On,         \* the block whose hash a signature covers
    Inline,     \* signatures submitted with the signer's key attached
    Allowed,    \* the blocks whose key passes a node's domain allowlist
    Peers,      \* the peers a node knows
    Fanout,     \* peers an event is forwarded to
    MaxChain,   \* bound on the model: longest chain a client still extends
    Thread      \* bound on the model: goroutines at work at once

ASSUME LedgerAssumption ==
    /\ Fp \in [Block -> Key]
    /\ By \in [Sig -> Key]
    /\ On \in [Sig -> Block]
    /\ Inline \subseteq Sig
    /\ Allowed \in [Node -> SUBSET Block]
    /\ Peers \in [Node -> SUBSET Node]
    /\ Fanout \in Nat
    /\ MaxChain \in Nat

VARIABLES
    blocks,     \* blocks[n]: the rows of table blocks
    entries,    \* entries[n][b]: the rows of table sig_entries for block b
    head,       \* head[n][b]: column sig_chain_head, <<>> for ""
    revoked,    \* revoked[n]: the blocks with revoked = 1
    net,        \* messages sent between nodes
    task,       \* task[t]: what goroutine t is doing, with what it has read
    stack       \* stack[t]: the applySigEntries calls t is in, innermost first

store == <<blocks, entries, head, revoked>>
vars == <<blocks, entries, head, revoked, net, task, stack>>

-----------------------------------------------------------------------------
Chain == Seq(Sig) \ {<<>>}

Message ==
    [kind : {"block", "revoke"}, to : Node, blk : Block, chain : {<<>>}] \cup
    [kind : {"sign"}, to : Node, blk : Block, chain : Chain]

Idle == [pc |-> "idle"]

StoreTask == [pc : {"receiveBlock"}, node : Node, blk : Block]
SignTask == [pc : {"signRow", "signRead"}, node : Node, sig : Sig, prev : Seq(Sig)]
ReceiveTask ==
    [pc : {"receiveRow", "receiveRead"}, node : Node, blk : Block, chain : Chain,
     known : SUBSET Key, ask : SUBSET Node]
SyncTask ==
    [pc : {"sync"}, node : Node, peer : Node,
     want : SUBSET Key, stale : SUBSET Key, push : SUBSET Block]
Task == {Idle} \cup StoreTask \cup SignTask \cup ReceiveTask \cup SyncTask

Frame == [node : Node, from : Node, blk : Block, todo : SUBSET Chain, known : SUBSET Key]

\* The type of every variable.
TypeOK ==
    /\ blocks \in [Node -> SUBSET Block]
    /\ entries \in [Node -> [Block -> SUBSET Chain]]
    /\ head \in [Node -> [Block -> Seq(Sig)]]
    /\ revoked \in [Node -> SUBSET Block]
    /\ net \subseteq Message
    /\ task \in [Thread -> Task]
    /\ stack \in [Thread -> Seq(Frame)]

Init ==
    /\ blocks = [n \in Node |-> {}]
    /\ entries = [n \in Node |-> [b \in Block |-> {}]]
    /\ head = [n \in Node |-> [b \in Block |-> <<>>]]
    /\ revoked = [n \in Node |-> {}]
    /\ net = {}
    /\ task = [t \in Thread |-> Idle]
    /\ stack = [t \in Thread |-> <<>>]

-----------------------------------------------------------------------------
(* The store: one operator per call of store/sqlite.go that changes rows.   *)

Keys(n) == {Fp[b] : b \in blocks[n]}
Signer(c) == By[Newest(c)]
Signers(view) == {Signer(c) : c \in view}

\* Whether a node can check the signature of an entry: the signer's key came
\* with it or is on the ledger.
Verifiable(n, s) == s \in Inline \/ By[s] \in Keys(n)

\* (Mutant: the table without its primary key.)
AddRowNoPrimaryKey(n, b) == blocks' = [blocks EXCEPT ![n] = @ \cup {b}]

\* Add: the primary key refuses a second block of one fingerprint.
AddRow(n, b) ==
    /\ Fp[b] \notin Keys(n)
    /\ blocks' = [blocks EXCEPT ![n] = @ \cup {b}]

\* (Mutant: the column takes the signature instead of the hash of the entry.)
AddSigWrongColumn(n, b, c) ==
    IF c \in entries[n][b]
      THEN UNCHANGED <<entries, head>>
      ELSE /\ entries' = [entries EXCEPT ![n][b] = @ \cup {c}]
           /\ head' = [head EXCEPT ![n][b] = Newest(c)]

\* (Mutant: INSERT OR IGNORE, so the head is set although nothing was inserted.)
AddSigOrIgnore(n, b, c) ==
    /\ entries' = [entries EXCEPT ![n][b] = @ \cup {c}]
    /\ head' = [head EXCEPT ![n][b] = c]

\* (Mutant: the head is updated before the insert, and not in one transaction: a
\* crash or an error between the two leaves a head without its row.)
AddSigNoTransaction(n, b, c) ==
    IF c \in entries[n][b]
      THEN UNCHANGED <<entries, head>>
      ELSE /\ head' = [head EXCEPT ![n][b] = c]
           /\ entries' \in {entries, [entries EXCEPT ![n][b] = @ \cup {c}]}

\* AddSig: one transaction; an entry already there fails it and leaves the head.
AddSig(n, b, c) ==
    IF c \in entries[n][b]
      THEN UNCHANGED <<entries, head>>
      ELSE /\ entries' = [entries EXCEPT ![n][b] = @ \cup {c}]
           /\ head' = [head EXCEPT ![n][b] = c]

\* The sets of peers gossip may pick: Fanout of them, or all when fewer.
Targets(n) ==
    {T \in SUBSET Peers[n] :
        Cardinality(T) = IF Fanout < Cardinality(Peers[n])
                           THEN Fanout ELSE Cardinality(Peers[n])}

Gossip(n, kind, b, c) ==
    \E T \in Targets(n) :
        net' = net \cup {[kind |-> kind, to |-> p, blk |-> b, chain |-> c] : p \in T}

-----------------------------------------------------------------------------
(* Blocks and revocations.                                                  *)

\* A client submits a key: a second submission of it is refused, whether the
\* handler's own lookup or the primary key finds the first.
AddBlock(n, b) ==
    /\ b \in Allowed[n]
    /\ AddRow(n, b)
    /\ Gossip(n, "block", b, <<>>)
    /\ UNCHANGED <<entries, head, revoked, task, stack>>

\* A block arrives, by gossip or pushed by a syncing peer, and is not held yet.
ReceiveBlock(t, m) ==
    /\ task[t] = Idle
    /\ m.kind = "block"
    /\ m.blk \in Allowed[m.to]
    /\ Fp[m.blk] \notin Keys(m.to)
    /\ task' = [task EXCEPT ![t] = [pc |-> "receiveBlock", node |-> m.to, blk |-> m.blk]]
    /\ UNCHANGED <<blocks, entries, head, revoked, net, stack>>

\* It is stored unless the key was added meanwhile (the error is ignored) and
\* forwarded either way.
StoreReceived(t) ==
    /\ task[t].pc = "receiveBlock"
    /\ LET n == task[t].node
           b == task[t].blk
       IN  /\ IF Fp[b] \in Keys(n) THEN UNCHANGED blocks ELSE AddRow(n, b)
           /\ Gossip(n, "block", b, <<>>)
    /\ task' = [task EXCEPT ![t] = Idle]
    /\ UNCHANGED <<entries, head, revoked, stack>>

\* (Mutant: a revoked block loses its signatures.)
RevokeForgets(n, b) ==
    /\ b \in blocks[n] \ revoked[n]
    /\ revoked' = [revoked EXCEPT ![n] = @ \cup {b}]
    /\ entries' = [entries EXCEPT ![n][b] = {}]
    /\ head' = [head EXCEPT ![n][b] = <<>>]
    /\ Gossip(n, "revoke", b, <<>>)
    /\ UNCHANGED <<blocks, task, stack>>

\* A client's or a peer's revocation, signed by the key itself, is stored once.
Revoke(n, b) ==
    /\ b \in blocks[n] \ revoked[n]
    /\ revoked' = [revoked EXCEPT ![n] = @ \cup {b}]
    /\ Gossip(n, "revoke", b, <<>>)
    /\ UNCHANGED <<blocks, entries, head, task, stack>>

\* The owner of a key revokes its block at a node.
RevokeBlock(n, b) == Revoke(n, b)

\* A revocation arrives; for a block the node does not hold it is refused.
ReceiveRevoke(m) == m.kind = "revoke" /\ Revoke(m.to, m.blk)

-----------------------------------------------------------------------------
(* Signing at a node: Get is a query for the block row, then one for its    *)
(* entries; the new entry is linked to the head of the row.                 *)

SignRow(t, n, s) ==
    /\ task[t] = Idle
    /\ On[s] \in blocks[n] \ revoked[n]
    /\ Len(head[n][On[s]]) < MaxChain
    /\ task' = [task EXCEPT ![t] =
                 [pc |-> "signRow", node |-> n, sig |-> s, prev |-> head[n][On[s]]]]
    /\ UNCHANGED <<blocks, entries, head, revoked, net, stack>>

SignRead(t) ==
    /\ task[t].pc = "signRow"
    /\ \E view \in Views(entries[task[t].node][On[task[t].sig]]) :
         task' = [task EXCEPT ![t] =
                   IF By[task[t].sig] \in Signers(view)
                     THEN Idle
                     ELSE [pc |-> "signRead", node |-> task[t].node,
                           sig |-> task[t].sig, prev |-> task[t].prev]]
    /\ UNCHANGED <<blocks, entries, head, revoked, net, stack>>

\* AddSig's error is ignored: the entry is gossiped whether it was stored or not.
SignCommit(t) ==
    /\ task[t].pc = "signRead"
    /\ LET n == task[t].node
           s == task[t].sig
           c == Append(task[t].prev, s)
       IN  IF Verifiable(n, s)
             THEN AddSig(n, On[s], c) /\ Gossip(n, "sign", On[s], c)
             ELSE UNCHANGED <<entries, head, net>>
    /\ task' = [task EXCEPT ![t] = Idle]
    /\ UNCHANGED <<blocks, revoked, stack>>

-----------------------------------------------------------------------------
(* Fetching a block from a peer and applying its entries (p2p.go).          *)

\* (Mutant: validateAndStore without the domain allowlist.)
FetchAnyDomain(t, n, p, k) ==
    /\ \E b \in blocks[p] :
         /\ Fp[b] = k
         /\ AddRow(n, b)
         /\ \E view \in Views(entries[p][b]) :
              stack' = [stack EXCEPT ![t] =
                         <<[node |-> n, from |-> p, blk |-> b, todo |-> view,
                            known |-> {}]>> \o @]
    /\ UNCHANGED <<entries, head, revoked, net>>

\* fetchAndStoreBlock, validateAndStore: the peer's block of key k is added if
\* it passes the allowlist, and its entries, as the peer read them, are then
\* applied one at a time.  Its revocation is not looked at.
Fetch(t, n, p, k) ==
    /\ \E b \in blocks[p] \cap Allowed[n] :
         /\ Fp[b] = k
         /\ AddRow(n, b)
         /\ \E view \in Views(entries[p][b]) :
              stack' = [stack EXCEPT ![t] =
                         <<[node |-> n, from |-> p, blk |-> b, todo |-> view,
                            known |-> {}]>> \o @]
    /\ UNCHANGED <<entries, head, revoked, net>>

\* The request fails, the peer has no such block, or the node will not store it.
FetchNothing == UNCHANGED <<blocks, entries, head, revoked, net, stack>>

\* The entries the innermost applySigEntries of t may look at next: the oldest left.
NextEntries(t) ==
    {c \in Head(stack[t]).todo : \A d \in Head(stack[t]).todo : Len(c) <= Len(d)}

\* The innermost call is done with entry c.
Drop(t, c, known) ==
    stack' = [stack EXCEPT ![t] =
               <<[node |-> Head(@).node, from |-> Head(@).from, blk |-> Head(@).blk,
                  todo |-> Head(@).todo \ {c}, known |-> known]>> \o Tail(@)]

\* The peer's entry is by a signer the node already lists, or does not verify
\* against the node's own block.
ApplySkip(t) ==
    /\ stack[t] # <<>>
    /\ \E c \in NextEntries(t) :
         LET f == Head(stack[t])
         IN  /\ \/ Signer(c) \in f.known
                \/ Verifiable(f.node, Newest(c)) /\ On[Newest(c)] # f.blk
             /\ Drop(t, c, f.known)
    /\ UNCHANGED <<blocks, entries, head, revoked, net, task>>

\* (Mutant: the signature's payload is not compared with the node's own block.)
ApplyStoreAnyBlock(t) ==
    /\ stack[t] # <<>>
    /\ \E c \in NextEntries(t) :
         LET f == Head(stack[t])
         IN  /\ Signer(c) \notin f.known
             /\ Verifiable(f.node, Newest(c))
             /\ AddSig(f.node, f.blk, c)
             /\ Drop(t, c, f.known \cup {Signer(c)})
    /\ UNCHANGED <<blocks, revoked, net, task>>

\* (Mutant: an entry whose signer's block cannot be had is stored unverified.)
ApplyStoreUnverified(t) ==
    /\ stack[t] # <<>>
    /\ \E c \in NextEntries(t) :
         LET f == Head(stack[t])
         IN  /\ Signer(c) \notin f.known
             /\ On[Newest(c)] = f.blk
             /\ AddSig(f.node, f.blk, c)
             /\ Drop(t, c, f.known \cup {Signer(c)})
    /\ UNCHANGED <<blocks, revoked, net, task>>

\* The entry is stored; a signer counts as listed once AddSig reports no error.
ApplyStore(t) ==
    /\ stack[t] # <<>>
    /\ \E c \in NextEntries(t) :
         LET f == Head(stack[t])
         IN  /\ Signer(c) \notin f.known
             /\ Verifiable(f.node, Newest(c))
             /\ On[Newest(c)] = f.blk
             /\ AddSig(f.node, f.blk, c)
             /\ Drop(t, c, IF c \in entries[f.node][f.blk]
                             THEN f.known ELSE f.known \cup {Signer(c)})
    /\ UNCHANGED <<blocks, revoked, net, task>>

\* (Mutant: a fetch that brings nothing is tried again.)
ApplyFetchRetries(t) ==
    /\ stack[t] # <<>>
    /\ \E c \in NextEntries(t) :
         LET f == Head(stack[t])
         IN  /\ Signer(c) \notin f.known
             /\ ~Verifiable(f.node, Newest(c))
             /\ \/ Fetch(t, f.node, f.from, Signer(c))
                \/ FetchNothing
    /\ UNCHANGED task

\* The signer's block is missing: it is fetched from the peer being synced, and
\* when that brings nothing the entry is passed over.
ApplyFetch(t) ==
    /\ stack[t] # <<>>
    /\ \E c \in NextEntries(t) :
         LET f == Head(stack[t])
         IN  /\ Signer(c) \notin f.known
             /\ ~Verifiable(f.node, Newest(c))
             /\ \/ Fetch(t, f.node, f.from, Signer(c))
                \/ Drop(t, c, f.known) /\ UNCHANGED <<blocks, entries, head, revoked, net>>
    /\ UNCHANGED task

ApplyReturn(t) ==
    /\ stack[t] # <<>>
    /\ Head(stack[t]).todo = {}
    /\ stack' = [stack EXCEPT ![t] = Tail(@)]
    /\ UNCHANGED <<blocks, entries, head, revoked, net, task>>

-----------------------------------------------------------------------------
(* An entry arrives by gossip, with the fingerprint of the key it is on: it *)
(* is checked against the block the receiver has for that key.  Its         *)
(* prev_hash goes into the hash that is compared, and is not compared with  *)
(* the chain the receiver holds.                                            *)

ReceiveSigRow(t, m) ==
    /\ task[t] = Idle
    /\ m.kind = "sign"
    /\ \E b \in blocks[m.to] \ revoked[m.to] :
         /\ Fp[b] = Fp[m.blk]
         /\ task' = [task EXCEPT ![t] =
                      [pc |-> "receiveRow", node |-> m.to, blk |-> b, chain |-> m.chain,
                       known |-> {}, ask |-> {}]]
    /\ UNCHANGED <<blocks, entries, head, revoked, net, stack>>

ReceiveSigRead(t) ==
    /\ task[t].pc = "receiveRow"
    /\ \E view \in Views(entries[task[t].node][task[t].blk]) :
         task' = [task EXCEPT ![t] =
                   [pc |-> "receiveRead", node |-> @.node, blk |-> @.blk,
                    chain |-> @.chain, known |-> Signers(view), ask |-> Peers[@.node]]]
    /\ UNCHANGED <<blocks, entries, head, revoked, net, stack>>

\* FetchBlockFromPeers: ask the peers for the signer's block until it is there.
ReceiveSigFetch(t) ==
    /\ task[t].pc = "receiveRead"
    /\ stack[t] = <<>>
    /\ ~Verifiable(task[t].node, Newest(task[t].chain))
    /\ \E p \in task[t].ask :
         /\ task' = [task EXCEPT ![t].ask = @ \ {p}]
         /\ \/ Fetch(t, task[t].node, p, Signer(task[t].chain))
            \/ FetchNothing

\* (Mutant: the receiver links the signature to its own head, as signing does.)
ReceiveSigRelinks(t) ==
    /\ task[t].pc = "receiveRead"
    /\ stack[t] = <<>>
    /\ LET n == task[t].node
           c == Append(head[n][task[t].blk], Newest(task[t].chain))
       IN  /\ Verifiable(n, Newest(c)) \/ task[t].ask = {}
           /\ IF /\ Verifiable(n, Newest(c)) /\ On[Newest(c)] = task[t].blk
                 /\ Signer(c) \notin task[t].known
                THEN AddSig(n, task[t].blk, c) /\ Gossip(n, "sign", task[t].blk, c)
                ELSE UNCHANGED <<entries, head, net>>
    /\ task' = [task EXCEPT ![t] = Idle]
    /\ UNCHANGED <<blocks, revoked, stack>>

ReceiveSigCommit(t) ==
    /\ task[t].pc = "receiveRead"
    /\ stack[t] = <<>>
    /\ LET n == task[t].node
           c == task[t].chain
       IN  /\ Verifiable(n, Newest(c)) \/ task[t].ask = {}
           /\ IF /\ Verifiable(n, Newest(c)) /\ On[Newest(c)] = task[t].blk
                 /\ Signer(c) \notin task[t].known
                THEN AddSig(n, task[t].blk, c) /\ Gossip(n, "sign", task[t].blk, c)
                ELSE UNCHANGED <<entries, head, net>>
    /\ task' = [task EXCEPT ![t] = Idle]
    /\ UNCHANGED <<blocks, revoked, stack>>

-----------------------------------------------------------------------------
(* SyncWithPeer.                                                            *)

\* The hash map a node serves: the head of each key's block.
HeadOf(n, k) == {head[n][b] : b \in {x \in blocks[n] : Fp[x] = k}}

\* Compare the peer's hash map with the node's own.
SyncStart(t, n, p) ==
    /\ task[t] = Idle
    /\ p \in Peers[n]
    /\ task' = [task EXCEPT ![t] =
                 [pc |-> "sync", node |-> n, peer |-> p,
                  want |-> Keys(p) \ Keys(n),
                  stale |-> {k \in Keys(p) \cap Keys(n) : HeadOf(p, k) # HeadOf(n, k)},
                  push |-> {b \in blocks[n] : Fp[b] \notin Keys(p)}]]
    /\ UNCHANGED <<blocks, entries, head, revoked, net, stack>>

\* Fetch a block the peer has and the node had not.
SyncFetch(t) ==
    /\ task[t].pc = "sync"
    /\ stack[t] = <<>>
    /\ \E k \in task[t].want :
         /\ task' = [task EXCEPT ![t].want = @ \ {k}]
         /\ Fetch(t, task[t].node, task[t].peer, k) \/ FetchNothing

\* syncSigChain: apply the entries the peer lists for a block whose heads differ.
SyncChain(t) ==
    /\ task[t].pc = "sync"
    /\ stack[t] = <<>>
    /\ LET n == task[t].node
           p == task[t].peer
       IN  \E k \in task[t].stale :
            /\ task' = [task EXCEPT ![t].stale = @ \ {k}]
            /\ \/ \E own \in blocks[n], its \in blocks[p] :
                    /\ Fp[own] = k /\ Fp[its] = k
                    /\ \E view \in Views(entries[p][its]), have \in Views(entries[n][own]) :
                         stack' = [stack EXCEPT ![t] =
                                    <<[node |-> n, from |-> p, blk |-> own, todo |-> view,
                                       known |-> Signers(have)]>>]
               \/ UNCHANGED stack
    /\ UNCHANGED <<blocks, entries, head, revoked, net>>

\* Push the blocks the peer lacked; a pushed block carries no entries.
SyncPush(t) ==
    /\ task[t].pc = "sync"
    /\ stack[t] = <<>>
    /\ task[t].want = {} /\ task[t].stale = {}
    /\ net' = net \cup {[kind |-> "block", to |-> task[t].peer, blk |-> b, chain |-> <<>>] :
                            b \in task[t].push}
    /\ task' = [task EXCEPT ![t] = Idle]
    /\ UNCHANGED <<blocks, entries, head, revoked, stack>>

-----------------------------------------------------------------------------
\* A node stops and comes back with its database; its goroutines are gone.
Restart(n) ==
    /\ \E t \in Thread : task[t] # Idle /\ task[t].node = n
    /\ task' = [t \in Thread |->
                 IF task[t] # Idle /\ task[t].node = n THEN Idle ELSE task[t]]
    /\ stack' = [t \in Thread |->
                  IF task[t] # Idle /\ task[t].node = n THEN <<>> ELSE stack[t]]
    /\ UNCHANGED <<blocks, entries, head, revoked, net>>

Work(t) ==
    \/ StoreReceived(t)
    \/ SignRead(t) \/ SignCommit(t)
    \/ ReceiveSigRead(t) \/ ReceiveSigFetch(t) \/ ReceiveSigCommit(t)
    \/ SyncFetch(t) \/ SyncChain(t) \/ SyncPush(t)
    \/ ApplySkip(t) \/ ApplyStore(t) \/ ApplyFetch(t) \/ ApplyReturn(t)

Next ==
    \/ \E n \in Node, b \in Block : AddBlock(n, b) \/ RevokeBlock(n, b)
    \/ \E m \in net : ReceiveRevoke(m)
    \/ \E t \in Thread, m \in net : ReceiveBlock(t, m) \/ ReceiveSigRow(t, m)
    \/ \E t \in Thread, n \in Node, s \in Sig : SignRow(t, n, s)
    \/ \E t \in Thread, n, p \in Node : SyncStart(t, n, p)
    \/ \E t \in Thread : Work(t)
    \/ \E n \in Node : Restart(n)

Spec == Init /\ [][Next]_vars

-----------------------------------------------------------------------------
Stored(b, c) == \E m \in Node : c \in entries[m][b]

\* Entries spread alone and in any order, so a node may hold an entry without the
\* one before it; but on the ledger as a whole no entry's prev_hash names an entry
\* that exists nowhere (handleSignBlock links to a head its own store holds).
UnionAnchored ==
    \A n \in Node, b \in Block : \A c \in entries[n][b] :
        Parent(c) = <<>> \/ Stored(b, Parent(c))

\* Every entry a node holds can be checked with keys that node holds, whichever
\* way the entry came: signed here, gossiped, or synced with the signer's block
\* fetched in the middle of it (handleP2PReceiveSig, applySigEntries).
SignerKnown ==
    \A n \in Node, b \in Block : \A c \in entries[n][b] : Verifiable(n, Newest(c))

\* No path into the store goes around the domain allowlist: not submission, not
\* gossip, not sync, not a signer's block fetched on the way (operator-guide).
DomainRespected == \A n \in Node : blocks[n] \subseteq Allowed[n]

\* The entries of a block are signatures of this very submission of the key, also
\* when a peer that holds another submission of the key offers its entries, and
\* none is kept for a block that is not there.
EntriesMatchBlock ==
    \A n \in Node, b \in Block : \A c \in entries[n][b] :
        On[Newest(c)] = b /\ b \in blocks[n]

\* A node has one block per fingerprint, however submissions, gossip and fetches
\* of the same key race.
OneBlockPerKey == \A n \in Node : \A a, b \in blocks[n] : Fp[a] = Fp[b] => a = b

\* Spec data-model, sig chain invariant 3: the head moves exactly when an entry is
\* appended, and to that entry; a duplicate delivery or a failed insert never
\* moves it back.
HeadIsNewest ==
    [][\A n \in Node, b \in Block :
        \/ entries'[n][b] = entries[n][b] /\ head'[n][b] = head[n][b]
        \/ /\ head'[n][b] \notin entries[n][b]
           /\ entries'[n][b] = entries[n][b] \cup {head'[n][b]}]_vars

\* Only a signing handler makes an entry nobody had: gossip and sync hand entries
\* on as they were minted, and never re-link them to the receiver's own head.
OnlySigningMints ==
    [][\A n \in Node, b \in Block : \A c \in entries'[n][b] \ entries[n][b] :
        \/ Stored(b, c)
        \/ \E t \in Thread :
             /\ task[t].pc = "signRead" /\ task'[t] = Idle
             /\ task[t].node = n /\ c = Append(task[t].prev, task[t].sig)]_vars

-----------------------------------------------------------------------------
(* The inductive invariant: what holds of the rows, of the entries on their *)
(* way in messages and in the callers of applySigEntries, and of what a     *)
(* signing handler remembers.                                               *)

HeadIsHeld ==
    \A n \in Node, b \in Block :
        IF entries[n][b] = {} THEN head[n][b] = <<>> ELSE head[n][b] \in entries[n][b]

RevokedIsHeld == \A n \in Node : revoked[n] \subseteq blocks[n]

\* The entry is a row of some node.
Extant(c) == Stored(On[Newest(c)], c)

MessagesStored == \A m \in net : m.kind = "sign" => Extant(m.chain)

SignTasksAnchored ==
    \A t \in Thread : task[t].pc \in {"signRow", "signRead"} =>
        LET b == On[task[t].sig]
        IN  /\ b \in blocks[task[t].node]
            /\ task[t].prev = <<>> \/ task[t].prev \in entries[task[t].node][b]

ReceiveTasksStored ==
    \A t \in Thread : task[t].pc \in {"receiveRow", "receiveRead"} =>
        /\ task[t].blk \in blocks[task[t].node]
        /\ Extant(task[t].chain)

ReceivedAllowed ==
    \A t \in Thread :
        task[t].pc = "receiveBlock" => task[t].blk \in Allowed[task[t].node]

FramesStored ==
    \A t \in Thread : \A i \in 1 .. Len(stack[t]) :
        /\ stack[t][i].blk \in blocks[stack[t][i].node]
        /\ \A c \in stack[t][i].todo : Extant(c)

RowsSound ==
    /\ UnionAnchored /\ SignerKnown /\ DomainRespected /\ EntriesMatchBlock
    /\ OneBlockPerKey /\ HeadIsHeld /\ RevokedIsHeld

WorkSound ==
    /\ MessagesStored /\ SignTasksAnchored /\ ReceiveTasksStored /\ ReceivedAllowed
    /\ FramesStored

\* The rows, the messages and the goroutines agree: every entry under way is
\* stored somewhere, every head is held, every remembered link leads to a stored
\* entry, and every block a goroutine works on is there.
LedgerInv == TypeOK /\ RowsSound /\ WorkSound

-----------------------------------------------------------------------------
\* The cluster implements the replicated union: its items are the rows.
Holds ==
    [n \in Node |->
        {[kind |-> "block", blk |-> b, chain |-> <<>>] : b \in blocks[n]} \cup
        {[kind |-> "revocation", blk |-> b, chain |-> <<>>] : b \in revoked[n]} \cup
        UNION {{[kind |-> "entry", blk |-> b, chain |-> c] : c \in entries[n][b]} :
               b \in Block}]

U == INSTANCE ReplicatedUnion WITH holds <- Holds

\* Every step of the code is a step of the union or none of its business: items
\* are created only where what they build on is held, spread unchanged, and never
\* disappear, through crashes included (overview: valid state is the union).
ImplementsUnion == U!Spec

\* Every goroutine that starts work ends it, although applySigEntries calls
\* itself through the blocks of signers who have signed each other.
FairSpec == Spec /\ \A t \in Thread : WF_vars(Work(t))
TasksEnd == \A t \in Thread : task[t] # Idle ~> task[t] = Idle

-----------------------------------------------------------------------------
(* Claims of the documents that the code does not keep.                     *)

\* Spec data-model, sig chain invariants 1, 2 and 4: from the head, prev_hash
\* leads to the block through every entry, without a gap.
ChainIntact ==
    \A n \in Node, b \in Block :
        entries[n][b] = {SubSeq(head[n][b], 1, k) : k \in 1 .. Len(head[n][b])}
=============================================================================
