# GPG Chain in TLA+

A verification project for GPG Chain, a distributed ledger of OpenPGP keys and trust signatures. Every definition is
translated from the source; the documents under `src/docs` and `src/spec` serve as claims to be compared with what the
code does. TLC checks small instances; TLAPS proves every safety property for every value of the constants.

## The system

A *node* serves an HTTP API and keeps a ledger. A *block* is a key submitted with a self-signature, and its hash covers
both. A *signature entry* is a trust signature by one key on the block of another; its hash covers the hash of the entry
before it (`prev_hash`), so a block's entries are meant to form one chain from the block to `sig_chain_head`. A
*revocation* is a flag a key's owner sets on its block. There is no agreement between nodes: the ledger is the union of
what all nodes hold. Clients do the trust evaluation.

There are two implementations, in Go and in Python. This project has the Go node and the commands of the Go client, the
trust evaluation and the search of the clients, which are the same in both, and of the Python node what differs most from
the Go node: its store.

| Component | State | Operations | Talks to | What must hold |
|---|---|---|---|---|
| SQLite store (`store/sqlite.go`) | rows of `blocks`, rows of `sig_entries` | Add, Get, All, AddSig, Revoke, Hashes | called by handlers and sync, from many goroutines | one block per fingerprint; the head names the entry appended last; nothing disappears |
| Ledger handlers (`api/api.go`) | none between requests; each remembers what it read | submit, sign, revoke, for clients and for peers | store, gossip, peers (to fetch a signer's block) | only allowed, verifiable items enter; links lead to entries that exist |
| Connect-time sync (`p2p/p2p.go`) | the hash maps it compared, the entries it is applying | SyncWithPeer, fetchAndStoreBlock, applySigEntries | a peer's read endpoints, the store | what it takes over is as sound as what was submitted; it ends |
| Gossip (`p2p/p2p.go`) | the seen-set | GossipBlock, GossipSig, GossipRevoke | posts to up to K random peers | spreads, dies out, does not suppress what it did not forward |
| Peer list (`p2p/p2p.go`, `api/api.go`) | list of URLs, in memory | POST /peers, return registration | the candidate peer | capacity, no duplicates, both directions |
| Trust (`trust/trust.go`, `trust/graph.py`) | queue or flow network of one evaluation | build, score, disjoint score, trusted set | blocks fetched by a client | counts exactly the trust paths; revoked keys earn nothing; Go and Python agree |
| Discovery (`discovery.go`, `discovery.py`) | queues of one search, copies found | find a block, find blocks by address | many nodes | each node once, within the limit, misses nothing, ends |
| Python node (`gpgchain/`) | a directory of JSON files with an LRU cache | the same API | the same protocol | the same, with one event loop and files |
| Clients (`cmd/client`, `client.py`) | a local key; during a run of endorse, a listing | add, sign, revoke, endorse, check, verify | one node or several | verifies what nodes say; signs by itself only what people's own signatures support |

What makes it hard: handlers touch the store one call at a time and act on what they read; items travel apart, in any
order, through posts that nobody retries; fetching one block leads to fetching others; a restart keeps the database and
forgets goroutines, the seen-set and the peer list. `PROJECT.json` lists these hazards at the lines where they bite.

## Modules

| Module | What it is |
|---|---|
| `SigEntries` | entries as sequences of signatures; how a node reads its rows back (`Views`) |
| `ReplicatedUnion` | abstract specification of the ledger: a grow-only union of items that build on each other |
| `Ledger` | the Go cluster: rows, handlers, sync, messages; implements `ReplicatedUnion` |
| `Gossip` | seen-set, forwarding, loss, expiry, restart, of events as atoms |
| `Peering` | peer registration and the capped list |
| `Trust` | one evaluation of a key: path counts from both ends, the trusted set, the disjoint score |
| `Discovery` | one search over many nodes; evaluates trust with `Trust` |
| `DirStore` | one key in the Python node's directory of files, with its cache, threads and crashes |
| `Client` | the commands that write to the ledger, `endorse` above all, on the listings they act on |
| `MCLedger`, `MCGossip`, `MCPeering`, `MCTrust`, `MCDiscovery`, `MCDirStore`, `MCClient` | instances for TLC |
| `LedgerProofs`, `LedgerRefinement`, `GossipProofs`, `PeeringProofs`, `TrustProofs`, `DiscoveryProofs`, `DirStoreProofs`, `ClientProofs` | theorems and proofs |

`Ledger` and `Gossip` describe the same handlers at two grains. `Ledger` has what a node stores and how each store call
interleaves; there a message once sent can be received any number of times or never, which covers loss, duplication and
reordering but says nothing about how often or whether a node forwards. `Gossip` has exactly that, and takes blocks,
signatures and revocations as atoms, with their dependencies and with what makes a node refuse them.

### SigEntries and Ledger

Hashes are taken as collision free. An entry then *is* the sequence of signatures from the block to it; `Append(p, s)`
is the entry with `prev_hash` p. A block is named by its hash; `Fp` gives the fingerprint of its key, and two blocks with
one fingerprint are two submissions of a key. A signature's payload covers the hash of the block (`On`), so it does not
verify against another submission. A constant says which signatures carry the signer's key with them (`Inline`), which
blocks pass a node's allowlist (`Allowed`) and whom it knows (`Peers`).

| State | Code |
|---|---|
| `blocks[n]`, `revoked[n]` | table `blocks`, with its primary key on the fingerprint, and its column `revoked` |
| `entries[n][b]`, `head[n][b]` | table `sig_entries`, with its primary key on the hash; column `sig_chain_head` |
| `net` | bodies posted to `/p2p/block`, `/p2p/sign`, `/p2p/revoke` |
| `task[t]` | the goroutine of a handler or sync, with the variables it has read |
| `stack[t]` | its nested calls of `applySigEntries` |

Steps are store calls. `Get` is two queries, so signing is `SignRow` (the row with its head), `SignRead` (the entries, as
a view: one branch if the rows fork, and Go's map order picks which), `SignCommit` (`AddSig` and gossip; its error is
ignored). A gossiped entry goes through `ReceiveSigRow`, `ReceiveSigRead`, `ReceiveSigFetch` (peers are asked one at a
time for the signer's block) and `ReceiveSigCommit`. The lookup of the signer's key is merged with the commit: blocks are
never removed, so an earlier lookup that succeeds still would. A block received is looked up (`ReceiveBlock`) and stored
(`StoreReceived`) in two steps because the second ignores the error of `Add` and forwards anyway; a client's submission
is one step because there the primary key refuses the loser of a race. Revocation is one step: revoking twice changes
nothing, and a duplicate gossip is covered by messages staying in `net`. A fetch reads a peer's block with its entries and
stores the block in one step; its entries are then applied one `AddSig` at a time. `SyncStart` merges the two hash maps a
sync compares. `Restart` drops a node's goroutines between any two steps; a transaction (`AddSig`) is not cut in two.

Gossip's choice of peers excludes an origin that no caller sends (`X-Forwarded-For`), so any peer may be picked.

### ReplicatedUnion

Nodes hold items. An item is created at a node that holds what it builds on, or copied to a node that holds its subject;
items are never removed. `Ledger` maps each row to an item (`Holds`), and `ImplementsUnion` states that every step is a
step of the union or changes no item. `Closed` says what that guarantees: on the ledger as a whole no link dangles.

### Gossip

`wire`, `receiving`, `checking` and `marking` count posts, handlers between lookup and store, and goroutines before
`isSeen` and before `markSeen`, which take the lock separately. A post that is refused is gone.

A block is a submission of a key, as in `Ledger`, and the store is asked for a block by its key (`Holds`). So a post of a
block is dropped where another submission of its key is held (`Known`, `api.go:614`) or its key is not allowed
(`api.go:590`), and of two submissions that pass the lookup at once only one is stored (`Insert`); the handler ignores the
error of the other (`api.go:628`) and gossips it all the same (`Accept`). The node then marks and forwards a block that it
does not hold: `SeenMeansForwarded` says that what is marked was forwarded and is *known*, not that it is stored.

A signature is refused unless it covers the submission that is held, and that is not revoked. If it brings its signer's
key (`Inline`, `api.go:673`), no block of the signer is needed; otherwise that block is looked up and, if missing, fetched
from the peers with some of its entries (`Deliver`), also when the signature then turns out to be on another submission or
to be known. `HeldInOrder` says what holds all the same: each signature and revocation has the very submission it covers,
each signature without its key a block of its signer, each key one block. Syncs take over the peer's missing blocks that
are allowed and some of the signatures (module `Ledger` has which), and start no gossip.

What is simplified here: a client's event is posted once and accepted in one step. One signature per signer and block is
assumed, so that a handler's duplicate check is a lookup of the event. A fetch of a signer's block takes one step (`Ledger`
has its requests), and one that fails although a peer has the block is not distinguished from a lost post. A revocation is
of a block, while the code's mark for it has the fingerprint only; a node holds one submission of a key, so it accepts
the revocation of that one only. Attached keys are the signer's. A run may begin with some events in the databases already
(`Kept`).

Not every block reaches everyone even when no post is lost. `BlocksSpread` therefore speaks of one hop: a block that has
come to a node comes to each of its peers, unless the peer does not allow it or holds another submission of its key
(`Takes`), or `stalled` is set. A node that takes a block from a peer, by a sync or because it needs a signer's key, does
not forward it then, and when its post comes the block is known and is not forwarded either; `stalled` records that this
happened, or that a post or a goroutine was lost. A block that some node does not take goes no further through that node.
A mark in the seen-set may expire at any time, but only while a post of the event is still under way: otherwise nothing
would look for it, since the node knows the event.

### Peering

`wire` and `probing` count requests to a node to add a URL, and handlers that passed the capacity check and wait for the
candidate. `Add` looks again, under its lock. `Permitted` stands for the address rules (loopback, private ranges).
`Boot` is the command line. Cached metadata of peers is left out: nothing modelled reads it.

### Trust

A behaviour is one evaluation. `Init` picks the question: who signed whom (`signers`), which keys are `revoked`, the
`target`, the `maxDepth`, and the function that answers (`method`). `Score` and `CountPaths` are the Go search, from the
target back to the root; `PyScore` and `PyCountPaths` the Python search, from the root on. `queue` holds the items of the
queue of the code, one per step: the key at the end, the depth, and the set of keys visited. Neighbours come from a map
or set, so their order is free (`Listings`). `DisjointScore` answers at once or sets up the network `net` of capacities,
with each key between split in two; each `Augment` is one round of Edmonds-Karp along any of the shortest ways, since
which one is found depends on the order of edges. Parallel edges of the code are one entry of `net`.

What the scores are measured against is stated apart, without any search: `TrustPaths` are the sequences of different,
unrevoked keys from root to target in which each signed the next, with at most `maxDepth` hops; `MostDisjoint` is the size
of the largest set of them that share no key between.

**The documents count otherwise.** "Two paths are distinct if they visit a different set of intermediate nodes"
(`src/spec/trust.md:90`, and again `:179`), "paths that visit different sets of intermediate nodes"
(`src/docs/trust-guide.md:49`), "A path is counted once per unique set of intermediate nodes it visits" (`:121`). The code
keeps the set of a path in its queue to avoid cycles (`trust.go:72-86`, `graph.py:205-219`), but compares the sets of no two
paths: where root signed a and b, a and b signed each other and both signed t, r-a-b-t and r-b-a-t count as two in both
clients, beside r-a-t and r-b-t. In the documents' count, which is `RouteSets`, they are one. `PathsCounted` states both
halves: the count is the number of `TrustPaths` at every depth, and the number of `RouteSets` up to a depth of 2, which is
the default, since two paths with one key between or none differ in their sets. From a depth of 3 on the two numbers
differ, and a threshold may be met by fewer sets of people than the documents promise; TLC finds such a ledger in the shapes
of run `trust` when it is asked for equality at depth 3.

The flow is not exact for every question. `DisjointCounted` has two restrictions, and both are needed:

* Root has not signed the target. Otherwise see `trust_direct` below.
* The depth is at most 3. Each arc is on some way that is short enough, but a flow may join arcs of different ways. Up to
  depth 3 a path that is too long has a shorter one through the same keys. At depth 5 it need not: with signatures along
  r-a-b-c-d-e-t and r-f-g-h-t, and f on c and c on h, the network has two disjoint ways, one of six hops, where only one
  trust path can be chosen within depth 5.

Root itself as the target is excluded from the properties: the Go client answers 1 also when root is revoked, the Python
client then answers 0, and the specification of the disjoint score calls it undefined.

### Discovery

A behaviour is one search, for a key with or without trust evaluation or for an address (`method`), over a network that
`Init` picks: whom each node lists, with the queue the entry's metadata puts it in (`lists`), and what it holds (`held`).
`visited`, `exact`, `allowAll` and `normal` are the variables of the loop; `at` is the node in turn, and `phase` the
request to it that is next. Every request may fail, so a node may answer some of them only; a node that is down fails
them all. `accumulated` is the map of the same name, or `best` of the search by address. The trust of what was accumulated
is the number of `TrustPaths` of an instance of `Trust`, which the run `trust` shows to be what `Score` computes (orders told apart, as above). `asked`
and `failed` record what happened, for the properties. What a node holds or lists does not change during a search.

Four things to know of the search are listed as hazards and are not contradicted by the properties, which are exact about
them. The limit is compared with the nodes *queued*, so a seed that lists as many peers as the limit (20; a node has up to
50) ends the search after the seed; the properties speak of searches that end within it. Of two copies the one with more
signatures is kept, revoked or not: `RevokedUnlessLonger` says when a revocation that was shown counts. Two copies with
different signers are not united. And a peer stays in the queue that the first node to list it named.

### DirStore

The Python node keeps a file per block, per signature entry and per revocation, and a copy of each block in an LRU cache.
Handlers are coroutines that await nothing after their request was read, so they run one after the other, on thread
`Loop`; syncs run on threads of their own (`Worker`). Each thread's `task` holds its request, where it is in the code, and
what it has read. The module is about one key and its files.

| State | Code |
|---|---|
| `whole`, `torn` | files that were written and closed; files that were opened and have no text yet |
| `content` | the submission whose text the block file has, `"mixed"` if two threads wrote it at once |
| `cache` | `self._cache[fingerprint]` |
| `task[t].read`, `names` | the local variables of `get` |
| `task[t].copy`, `known`, `todo` | `block`, `existing_sigs` and the entries left of a handler or of `_apply_sig_entries` |
| `spoiled` | history: files that were open when the node stopped |
| `overlapped` | history: a thread wrote and invalidated the cache while another was in `get`, or `add` came past its look for the block file while another `add` had looked and not opened it. Opening a file does not set it |

`get` is eight steps (`Look`, `Take`, `List`, `Read`, `Flag`, `Fill`, and `Return` or `Raise` as part of them), since any
of them may meet another thread's write; the entry files of one listing are read in one step. `_atomic_write` is `Open`,
which leaves the file empty, and `Write`; despite its name it does not rename, although the data model asks for a
temporary file and a rename (`src/spec/data-model.md:217`, `src/docs/architecture.md:66`). `json.loads` of an empty file
raises, which ends a request, and one entry of a sync. A sync's entries come from a peer that has a gap or not (`Listed`).
An entry carries its block here, since two submissions of a key may both get as far as writing the block file.

What the model shows beyond its properties:

* A thread in `get` that has read the files before another writes a revocation and drops the cached copy puts the old copy
  back afterwards (`dir_store.py:136`): the node then shows a revoked block as not revoked, until the next write or
  eviction, although the data model says of `revoked` that it is permanent (`src/spec/data-model.md:20`).
* The block file is opened twice if a sync and a client bring two submissions at once and both look for it before either
  opens it (`dir_store.py:52`), although the module's comment calls
  files write-once (`dir_store.py:8`).
* A file that was open when the node stopped makes `get` raise for its key for good, and nothing writes it again.

### Client

People use one node with the commands of the Go client. `run[u]` is the command that u runs. `endorse` takes a listing of
all blocks (`Endorse`, then `ListEntries` for each, as `All` queries the rows and then the entries of each block), builds
the trust graph, and goes through the blocks (`Consider`): not its own, not revoked, scored high enough, not signed. What
it wants it posts (`SignRead`, `SignCommit`, the handler's two halves, or `Refused`), and goes on whatever the answer. The
listing is never refreshed, so it may show keys that were revoked since, and it may show fewer signatures than there are:
when rows fork only one branch is read, and `Listings` allows any. What is scored is `TrustPaths` of that listing; `Trust`
shows that the Go score is their number. `byHand` and `endorsed` record who signed what by which command, for the
properties: is there anything in what endorsing adds that rests on endorsing alone?

The handler's two queries for a block are one step here (`Ledger` has them apart). `--dry-run` writes nothing.
`--disjoint` is left out: its flaw (`trust_direct`) concerns keys that the endorser signed directly, which it skips;
for others, at the default depth of two, paths that differ are disjoint anyway.

## Runs

All bounds are constants of the instances: goroutines (`Thread`), the length up to which clients extend a chain
(`MaxChain`), requests by operators (`MaxAsk`), and restarts, losses and syncs together (`MaxUpset`).

| Run | Shows |
|---|---|
| `ledger_chain` | Two nodes and chains of two entries: entries overtake each other, so that a node holds the second without the first. `TypeOK`, the inductive invariant `LedgerInv`, `UnionAnchored`, `HeadIsNewest` (an insert that fails does not move the head), `OnlySigningMints`, `ImplementsUnion`. One goroutine at a time, at either node, with restarts between its steps: with two the run does not end in a reasonable time. Goroutines that race are covered by the proofs, which are of all these properties and for any number, and `ledger_fork` has three at one node. |
| `ledger_cluster` | Two keys that signed each other, over two nodes, and a second submission of alice's key that n2 does not allow: fetching a signer's block brings the other's signature, and may bring the submission. `SignerKnown`, `DomainRespected`, `OneBlockPerKey`, `EntriesMatchBlock`, and `TasksEnd` under fairness. One goroutine at a time, with restarts: the first four are also proved, for any number. |
| `gossip` | Three nodes of which each knows the next only. Alice's block is everywhere, and n1 has her revocation and so refuses signatures on it. Bob submits his key at n1 and once more at n2, the second time with an address that n3 does not allow; at n2 come in his signature on alice's block, and one on his second submission by a key that is on no ledger and comes along. One loss, restart or sync. The submissions race at n1 and n2, so that nodes forward what they did not store. `SeenMeansForwarded`, `HeldInOrder`, and under fairness `BlocksSpread` and `Quiesces`. The fan-out covers the peers, since otherwise nothing spreads for certain. |
| `trust` | All ledgers that are part of one of three shapes: two keys between with signatures both ways and from the target back to root, three keys between with signatures both ways, and two layers of two; root, a key between and the target may be revoked; depths 0 to 3. `PathsCounted`: each method's count is the number of trust paths, and up to depth 2 that of the sets of keys between, which the documents count. `CreditHasPath`: at no point more than nothing without one. `TrustedSetAgrees`: the search that `trusted_set` does for a threshold of one. `ThresholdOne` and `DisjointCounted` for the flow. The layers make augmentation go back over a key, three keys between make paths that share keys. |
| `discovery` | Three nodes with every network between them, each declaring another class, holding one of five ledgers (nothing, the key, its signer, a further signature, a revocation); limits of 2 and 3. `AskedOnce`, `AsksEverybody`, `FindsWhatThereIs`, `RevokedUnlessLonger`, and `SearchEnds`. |
| `peering` | Three requests over three nodes with lists of two places, one unreachable URL, and a restart or a loss: `ListSound`, `Reciprocal`. |
| `dir_store` | Two submissions of one key, bob's signature and carol's after it on the first, the event loop and one sync, with crashes and evictions anywhere. `CopiesOnDisk`: nothing is shown that is not on disk, and a list is a whole chain. `TornOrSpoiled`: a file without text has a writer or was open in a crash. `StaleOnlyByOverlap` and `RewrittenOnlyByOverlap`: unless a write invalidated the cache in the middle of a read, or two adds both looked for the block file before either opened it, the cache agrees with the files, and neither the block file nor the revocation is opened again once written. Two threads are the fewest that overlap, and the proofs are for any number. |
| `client` | Four people on the ledger, two of whom (ruth, saul) endorse with threshold and depth of two, while ann and ben sign xena's key by hand, xena adds it and ann's is revoked. Ruth has signed ann and ben, so xena earns her endorsement through them; saul signed ann and ruth, so ruth's endorsements are paths for him. `NoTrustFromNowhere`, `EndorsedIndependently`, and `EndorsingEnds` under fairness. |

Gossip that died out, refused registrations and clients that have done all they may stop, and evaluations and searches
end, so these runs do not check for deadlock; the ledger runs that pass and `dir_store` check it.

Four runs show claims of the documents and comments that the code does not keep (`findings` in `PROJECT.json`):

* `ledger_fork`, `ChainIntact`: two concurrent signing requests read the same head and both commit. The data model asks
  for one chain without gaps at all times. The same check fails when entries arrive in another order than they were made.
* `gossip_same`, `EventuallyTheSame`: a revocation overtakes its block at a peer, is refused, and never comes again.
* `peering_storm`, `RegistrationEnds`: the return registration is also sent to a peer that was known, which answers with
  its own, and so on for ever, with a reachability check and a sync each time.
* `trust_direct`, `DisjointIsMost`: the network has no limit on an arc straight from root to the target, so one direct
  signature scores 2, and one more for each key between: the comment on `DisjointScore` promises the number of disjoint
  paths. With a threshold of two a client then trusts a key on the strength of root's one signature.

`Ledger` also has the two nodes that accept different submissions of one key and keep them, although the overview says
"the first valid submission wins": that holds at each node (`OneBlockPerKey`), and no property asks that they agree.

Where the safety properties come from: those of `Ledger` say what still holds although chains fork and gap. Every entry
links to an entry somebody stores, can be verified where it is stored, is on the right submission, and was minted by a
signing handler.

### Fairness

`TasksEnd` assumes weak fairness of each goroutine's own steps: Go's scheduler runs every goroutine, and requests to
peers return or fail. `BlocksSpread`, `Quiesces` and `EventuallyTheSame` assume weak fairness of delivery and of the
handler's and the gossip goroutine's steps, per node and event; losses are a step of their own, bounded by `MaxUpset`.
`Reciprocal` and `RegistrationEnds` assume it of the steps that answer a registration, and `SearchEnds` of the client's
steps: its requests have a timeout. `EndorsingEnds` assumes it of the steps of a run and of the handler it waits for. Clients, operators, syncs, expiry
and restarts are not fair: they may never happen.

### Mutants

Each property of a passing run has a mutant: a plausible bug in a mapped definition, which TLC finds by that property.
They stand before the definition they change, marked "Mutant".

## Proofs

Nothing is assumed but the named assumptions about constants (`LedgerAssumption`, `GossipAssumption`,
`PeeringAssumption`, `TrustAssumption`, `DiscoveryAssumption`, `DirStoreAssumption`, `ClientAssumption`), which TLC
evaluates in the runs, and, in one theorem, a depth of at most two. The sets of keys and the lists of nodes are finite. Nodes, keys, signatures, goroutines, threads, peers and fan-out are arbitrary.

**Ledger.** `LedgerProofs` proves `TypeOK`, and then `LedgerInv`, which is inductive; the properties by
themselves are not. `UnionAnchored` needs that a signing handler's remembered head is stored (`SignTasksAnchored`), which
needs that heads are stored (`HeadIsHeld`) and rows stay; and that entries in messages and in frames of `applySigEntries`
are stored somewhere (`MessagesStored`, `ReceiveTasksStored`, `FramesStored`), since what arrives is taken on trust as far
as its link goes. `EntriesMatchBlock` needs that the block a task or a frame names is there. `DomainRespected` needs that
a block waiting to be stored passed the allowlist (`ReceivedAllowed`). The proof has one observation at its heart: rows
are only added (`Grows`), so whatever refers to a row keeps referring to one; each action then accounts for the row it
adds (`RowAdded`, `SigAdded`, `RowRevoked`) and for the message, task or frame it makes (`WorkKept`). The theorems
`UnionIsAnchored`, `SignersAreKnown`, `DomainsAreRespected`, `SubmissionsDoNotMix`, `EntriesAreOfTheirBlock`,
`HeadMovesToNewest` and `SigningMints` follow from the invariant and one more case analysis of the steps.

**Refinement.** `LedgerRefinement` proves `ClusterImplementsUnion`: each step leaves the rows alone or adds one
(`StoreSteps`), and each kind of row added is a `Create` or a `Copy` (`BlockGain`, `RevocationGain`, `EntryGain`).
`LedgerIsClosed` draws the
consequence: the union stays `Closed`.

**Gossip and Peering.** `GossipProofs` proves `TypeOK`, `HeldInOrder` and `SeenMeansForwarded`, strengthened by what handlers and
goroutines are about to do: a handler past its lookup has what its event needs (`HandlersReady`), a goroutine before
`isSeen` or `markSeen` has an event that its node knows (`GossipersKnow`): it cannot be said to be stored, since the handler
goes on when `Add` refuses a block. That a node keeps one submission of a key is due to `Insert` alone. `PeeringProofs` proves `TypeOK` and `ListSound`; for the
latter, nothing about the handlers is needed, because `Add` looks again.

**Trust.** `TrustProofs` is for every finite set of keys and any signatures, revocations and depth.

* *What is counted exists.* `WalkInvariant`: an item of the queue stands for a real chain of signers, of as many hops as
  its depth and over just the keys of its set, to the target (Go) or from root (Python). `CreditHasPath` alone is not
  inductive, since whether the next count is deserved depends on the path that the item abbreviates; the invariant keeps a
  witness for each. `CreditIsEarned` follows, and from it `RevokedScoreNothing`.
* *What exists is counted, once.* `AccountsAreKept`: there is a sequence of paths, one for each item of the queue, such
  that the trust paths that go on from them are sets apart, and `count` is the number of the trust paths in none of them
  (`Accounted`). A round replaces the set of its item by one for each neighbour it queues, and by the trust path it counts
  (`LeftSplits`); the queue is empty at the end, so the count is of all (`PathsAreCounted`). The queue's items as sets of
  keys do not tell paths apart, so this could not be said of `queue` alone. Both directions share the proof, by the
  operators `From` and `Longer` that swap the ends. The documents' count up to depth 2 follows because paths with at most
  one key between are told apart by their sets (`ShortPathsBySets`, `ShortPathsAreSets`).
* *Searches by distance find what paths find.* `trusted_set` and the distances of `disjointMaxFlow` are recursive
  functions over sets of keys. What they reach in n rounds are the ends of walks of at most n hops (`ReachHasWalk`), a
  walk that visits a key twice can be cut (`CutWalk`), and one that cannot be cut is a path (`WalkHasPath`, by the
  shortest). So `TrustedSetIsWhatScores`: the set holds exactly the keys that score.
* *Threshold one.* `FlowInvariant`: while the flow runs there is a trust path, and as long as nothing is found the network
  is as it was built. Each hop of a trust path is on the network (`TrustPathFlows`), and breadth-first search, which stops
  extending ways once it has found the sink and never returns to a vertex, comes to each vertex by a shortest way
  (`SearchComesTo`), so that the first round finds one (`FirstSearchFinds`). Later rounds only add to the count
  (`AugmentStep`). `ThresholdOneIsTheSame` follows, and `TypeCorrect`, which has the capacities stay natural numbers.
* *Maximum flow and minimum cut.* `DisjointIsCounted` (`DisjointCounted`), by `UnitFlow`: where root has not signed the
  target, the flow is a set of signatures (`Carried`), of which as many lead to a key between as lead on from it, one if
  its unit is used up and none otherwise, and `count` of which leave root. This is what a round keeps
  (`RoundKeepsFlow`): a path can pass the two vertices of a key between in four ways only (`TrailAt`), each leaves the
  key's balance as it should be (`FlowPasses`), and the second hop has a capacity of one, so that every round sends one
  unit (`TrailBegins`). Then there are at least `count` disjoint trust paths, since up to a depth of 3 a unit's way is a
  trust path (`UnitHasPath`, by `ShortArcs`) and two units share no key (`UnitsApart`). And there are no more: the vertices
  that an open way leads to do not have the sink among them, for which the number of rounds of the search is enough because
  it never returns to a vertex (`SinkNotReached`); so each trust path has a key where they stop (`PathIsCut`), and there are
  at most `count` such keys (`CutIsFlow`), as a way that comes to a used unit leads back along it (`ReachedBack`). The
  depth is needed for the lower bound only.

Induction over numbers is done with sets (`AllNumbers`: a set of numbers with 0 and with n + 1 for each n in it has them
all), since the library's theorems take an operator as parameter, which no backend here instantiates. `Iteration` gives
recursive functions their existence in the same way.

**Discovery.** `DiscoveryProofs` proves `SearchInv`, for any network, seeds, limit and method and any requests that fail.
Its core is `QueuesSound`: each visited node is in exactly one place, among those asked or once in one of the three
queues. `AskedOnce` is not inductive without it. `PeersHeard`, `CopiesHeard` and `MatchesHeard` say for each node that
answered what has been taken over from it so far, which depends on the request its turn is at; at the end of a search they
give `AsksEverybody` and `FindsWhatThereIs` (`SearchAsksEverybody`, `SearchFinds`). `LongestKept` and `KeptIsHeld` relate
what is kept of a key to what was shown; `TrustAfterRevocation` (`RevokedUnlessLonger`) follows, since no trust path of the
instance of `Trust` leads to a key whose kept copy is revoked.

**DirStore.** `DirStoreProofs` proves `StoreInv`, for any number of submissions, signatures and syncs: the files are in
order (`FilesSound`), those without text are accounted for (`TornOrSpoiled`), and each thread's request is (`TaskSound`):
what it has read is on disk, what it is about to write is not written yet or is what it found missing. `CopiesOnDisk` is
not inductive alone, because a copy that is about to be returned was read in pieces. The proof goes by kinds of steps:
those that write no file (`TaskMoves`), and `Open`, `Write`, `Pop` and `Restart`. `StoreTypes`, `CopiesAreOnDisk`
and `SpoiledForGood` follow. `WrittenOnce` (`RewrittenOnlyByOverlap`) needs `AddsInv`: as long as no two adds were let
through, one at most is between its look and its opening, and then the block file is not there; `overlapped` says nothing
of an opening, so this rests on what `add` looks at. `CacheIsFresh` (`StaleOnlyByOverlap`) needs an invariant of its own,
`FreshInv`, beside `AddsInv`, for as long as no two threads have overlapped: one thread at most is writing the block file,
and none that reads has met it (`BlockSteady`); and while nobody is between a write and the `pop` of the cache (`Quiet`), what each
thread has read so far of the entries and the revocation is what is on disk (`Fresh`), as is the cached copy. A cached copy
may be stale between a write and its `pop`, which is why the property alone is not inductive.

**Client.** `ClientProofs` proves `ClientInv`: every entry and every listing has signatures that were made, and what is
being endorsed had paths to deserve it in its run's listing. `EndorsingAddsNoReach` (`NoTrustFromNowhere`) then holds for
any depth and threshold: an endorsement of x by u has a path from u to x behind it, so a set of keys that is closed under
the signatures made before stays closed (`PathStaysInside`, by the first key on the path outside). `EndorsementsAreIndependent`
is for depths up to two: if nobody endorsed x yet, the last key on each path signed x by hand, paths of two hops from u to
x differ in that key, and so there are as many such keys as paths (`TwoHops`, by an injection). At three hops two paths
may meet in their last key, and the property is not true in general.

**Only model-checked.** The liveness properties (`TasksEnd`, `BlocksSpread`, `Quiesces`, `Reciprocal`, `SearchEnds`,
`EndorsingEnds`), because the prover does not do liveness under fairness, and the violations, which need an instance.

## Not modelled

Parsing, encoding, HTTP statuses and logging; OpenPGP itself (a signature verifies exactly when it was made over that
payload by that key, and attached keys are the signer's); read-only endpoints; the in-memory Go store, which no command
uses; `CrossValidate`, which nobody calls; errors of the database other than constraint failures; several HTTP requests
that carry one client action; which of several copies a client prints; the read-only commands of the
clients, among them the chain check of `verify`; `endorse --disjoint`; of the Python node its registration, whose handler
blocks the event loop while it asks the candidate, and its gossip, which follow the Go node otherwise; in `DirStore`, the
blocks of other keys and the signers' blocks, which may or may not be there.

Hazards that `PROJECT.json` lists without a property say there why. Those that would be worth modelling next: whether
repeated syncs let two nodes converge, given that a sync compares heads; two Python nodes that add each other at once and
wait for each other; what a client that is told of an error (`routes.py:207`) leaves undone; the chain check of `verify`.
