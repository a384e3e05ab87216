-------------------------------- MODULE Gossip --------------------------------
(***************************************************************************)
(* How one Go node hands an event on: the handlers that accept a block, a   *)
(* trust signature or a revocation start a goroutine that looks the event   *)
(* up in the seen-set, marks it and posts it to a few peers, once.          *)
(*                                                                          *)
(* Module Ledger says what a node stores; here an event is an atom, and     *)
(* what matters is which nodes it reaches: a post is sent once, may be      *)
(* lost, and is refused by a node that misses what the event is about, does *)
(* not allow the key or holds another submission of it.                     *)
(* Sync brings blocks and signatures, no revocations, and starts no gossip. *)
(***************************************************************************)
EXTENDS Naturals, FiniteSets

CONSTANTS
    Node,
    Peers,      \* the peers of each node
    Fanout,     \* peers an event is forwarded to
    Key,        \* fingerprints
    BlockEv,    \* blocks: submissions of keys
    SigEv,      \* trust signatures
    RevokeEv,   \* revocations
    Fp,         \* the key of a block
    Of,         \* the block whose hash a signature or revocation covers
    By,         \* the key that made a signature
    Inline,     \* the signatures that carry the signer's key with them
    Allowed,    \* the blocks that pass each node's allowlist
    Kept,       \* what each node's database holds when the run begins
    Door,       \* the nodes at which clients submit an event
    MaxUpset    \* bound on the model: syncs, restarts and lost posts together

Event == BlockEv \cup SigEv \cup RevokeEv
Synced == BlockEv \cup SigEv

\* The keys of which the database contents S have a block.
KeysOf(S) == {Fp[b] : b \in S \cap BlockEv}

\* Each event has its block, each signature its signer's key, and each key one block.
InOrder(S) ==
    /\ \A e \in S \cap (SigEv \cup RevokeEv) : Of[e] \in S
    /\ \A e \in S \cap (SigEv \ Inline) : By[e] \in KeysOf(S)
    /\ \A b, c \in S \cap BlockEv : Fp[b] = Fp[c] => b = c

ASSUME GossipAssumption ==
    /\ Peers \in [Node -> SUBSET Node]
    /\ Fanout \in Nat
    /\ BlockEv \cap (SigEv \cup RevokeEv) = {} /\ SigEv \cap RevokeEv = {}
    /\ Fp \in [BlockEv -> Key]
    /\ Of \in [SigEv \cup RevokeEv -> BlockEv]
    /\ By \in [SigEv -> Key] /\ Inline \subseteq SigEv
    /\ Allowed \in [Node -> SUBSET BlockEv]
    /\ Kept \in [Node -> SUBSET Event] /\ \A n \in Node : InOrder(Kept[n])
    /\ Door \in [Event -> SUBSET Node]
    /\ MaxUpset \in Nat

VARIABLES
    stored,     \* stored[n]: the events in node n's database
    seen,       \* seen[n]: its seen-set, in memory
    wire,       \* wire[n][e]: posts of e under way to n
    receiving,  \* receiving[n][e]: handlers at n that looked for e and did not find it
    checking,   \* checking[n][e]: gossip goroutines at n that are to call isSeen
    marking,    \* marking[n][e]: gossip goroutines at n that are to call markSeen
    sent,       \* history: how often n has forwarded e since it last started
    spent,      \* syncs, restarts and lost posts so far
    stalled     \* history: a post was lost, goroutines ended by a restart, or a block was
                \* taken from a peer, which nobody forwards

upsets == <<spent, stalled>>
vars == <<stored, seen, wire, receiving, checking, marking, sent, upsets>>

Counts == [Node -> [Event -> Nat]]

\* The type of every variable.
TypeOK ==
    /\ stored \in [Node -> SUBSET Event] /\ seen \in [Node -> SUBSET Event]
    /\ wire \in Counts /\ receiving \in Counts /\ checking \in Counts
    /\ marking \in Counts /\ sent \in Counts
    /\ spent \in 0 .. MaxUpset /\ stalled \in BOOLEAN

None == [n \in Node |-> [e \in Event |-> 0]]

Init ==
    /\ stored = Kept /\ seen = [n \in Node |-> {}]
    /\ wire = None /\ receiving = None /\ checking = None /\ marking = None /\ sent = None
    /\ spent = 0 /\ stalled = FALSE

-----------------------------------------------------------------------------
More(f, n, e) == [f EXCEPT ![n][e] = @ + 1]
Less(f, n, e) == [f EXCEPT ![n][e] = @ - 1]

Upset == spent < MaxUpset /\ spent' = spent + 1

Store(n, S) == stored' = [stored EXCEPT ![n] = @ \cup S]

\* The store is asked for a block by its key; and a block is revoked or not.
Holds(n, k) == k \in KeysOf(stored[n])
Revoked(n, b) == \E r \in RevokeEv : Of[r] = b /\ r \in stored[n]

\* What node n takes for known: also a block of which it holds another submission.
Known(n, e) == IF e \in BlockEv THEN Holds(n, Fp[e]) ELSE e \in stored[n]

\* What a handler finds in its own database: the event is new, a block is allowed, and a
\* signature or revocation covers the very submission that is there, not yet revoked.
Acceptable(n, e) ==
    /\ ~Known(n, e)
    /\ e \in BlockEv => e \in Allowed[n]
    /\ e \in SigEv \cup RevokeEv => Of[e] \in stored[n] /\ ~Revoked(n, Of[e])

\* The key to verify signature e with: it came along, or is that of a block.
SignerHeld(n, e) == e \in SigEv \ Inline => Holds(n, By[e])

\* The handler of signature e looks for its signer once it has found some submission of
\* the signed key: whether the signature is on that one shows only later.
LooksForSigner(n, e) ==
    /\ e \in SigEv
    /\ \E b \in stored[n] \cap BlockEv : Fp[b] = Fp[Of[e]] /\ ~Revoked(n, b)

\* The blocks of peer p that n lacks and allows.
Missing(n, p) == {b \in stored[p] \cap BlockEv : ~Holds(n, Fp[b]) /\ b \in Allowed[n]}

\* What node n may take over from peer p with the blocks B: signatures and the blocks
\* of their signers as well, though not always all of them (module Ledger: a peer
\* lists one branch of a fork, and equal heads hide a difference).
Taken(n, p, B) ==
    {S \in SUBSET (stored[p] \cap Synced) :
        /\ B \subseteq S /\ S \cap BlockEv \subseteq Missing(n, p)
        /\ \A s \in S \cap SigEv :
             /\ Of[s] \in S \cup stored[n]
             /\ s \notin Inline => By[s] \in KeysOf(S \cup stored[n])}

\* Up to Fanout peers, at random.
Targets(n) ==
    {T \in SUBSET Peers[n] :
        Cardinality(T) = IF Fanout < Cardinality(Peers[n])
                           THEN Fanout ELSE Cardinality(Peers[n])}

-----------------------------------------------------------------------------
(* The handlers.                                                            *)

\* Store.Add refuses a second block of a key, whichever it is.
Insert(n, e) ==
    IF e \in BlockEv /\ Holds(n, Fp[e]) THEN UNCHANGED stored ELSE Store(n, {e})

\* (Mutant: the handler marks the event as seen when it takes it in, so as not to
\* forward it twice.)
SubmitMarks(n, e) ==
    /\ n \in Door[e] /\ Acceptable(n, e) /\ SignerHeld(n, e)
    /\ Store(n, {e})
    /\ checking' = More(checking, n, e)
    /\ seen' = [seen EXCEPT ![n] = @ \cup {e}]
    /\ UNCHANGED <<wire, receiving, marking, sent, upsets>>

\* A client submits an event, and the node accepts it.
Submit(n, e) ==
    /\ n \in Door[e] /\ Acceptable(n, e) /\ SignerHeld(n, e)
    /\ Store(n, {e})
    /\ checking' = More(checking, n, e)
    /\ UNCHANGED <<seen, wire, receiving, marking, sent, upsets>>

\* (Mutant: a revocation or a signature is taken whether its block is there or not.)
DeliverAnyway(n, e) ==
    /\ wire[n][e] > 0
    /\ wire' = Less(wire, n, e)
    /\ IF ~Known(n, e) /\ (e \in BlockEv => e \in Allowed[n])
         THEN receiving' = More(receiving, n, e) ELSE UNCHANGED receiving
    /\ UNCHANGED <<stored, seen, checking, marking, sent, upsets>>

\* (Mutant: a post that is refused is put back and tried again.)
DeliverRetries(n, e) ==
    /\ wire[n][e] > 0
    /\ IF Acceptable(n, e) /\ SignerHeld(n, e)
         THEN wire' = Less(wire, n, e) /\ receiving' = More(receiving, n, e)
         ELSE UNCHANGED <<wire, receiving>>
    /\ UNCHANGED <<stored, seen, checking, marking, sent, upsets>>

\* A post arrives.  What is not acceptable is dropped.  A signer's block that is missing
\* is fetched from the peers first, whatever comes of the signature.
Deliver(n, e) ==
    /\ wire[n][e] > 0
    /\ wire' = Less(wire, n, e)
    /\ \/ /\ Acceptable(n, e) /\ SignerHeld(n, e)
          /\ receiving' = More(receiving, n, e)
          /\ UNCHANGED <<stored, stalled>>
       \/ /\ LooksForSigner(n, e) /\ ~SignerHeld(n, e)
          /\ \E p \in Peers[n] : \E b \in Missing(n, p) :
               /\ Fp[b] = By[e]
               /\ \E S \in Taken(n, p, {b}) : Store(n, S)
          /\ receiving' = IF Acceptable(n, e) THEN More(receiving, n, e) ELSE receiving
          /\ stalled' = TRUE
       \/ /\ \/ ~Acceptable(n, e) /\ (LooksForSigner(n, e) => SignerHeld(n, e))
             \/ ~SignerHeld(n, e) /\ \A p \in Peers[n] : By[e] \notin KeysOf(Missing(n, p))
          /\ UNCHANGED <<stored, receiving, stalled>>
    /\ UNCHANGED <<seen, checking, marking, sent, spent>>

\* (Mutant: what came from a peer is stored and not forwarded.)
AcceptOnly(n, e) ==
    /\ receiving[n][e] > 0
    /\ receiving' = Less(receiving, n, e)
    /\ Insert(n, e)
    /\ UNCHANGED <<seen, wire, checking, marking, sent, upsets>>

\* The handler stores the event and starts the gossip of it, whether it was stored or
\* not: by now it may be there already, or another submission of the key may be.
Accept(n, e) ==
    /\ receiving[n][e] > 0
    /\ receiving' = Less(receiving, n, e)
    /\ Insert(n, e)
    /\ checking' = More(checking, n, e)
    /\ UNCHANGED <<seen, wire, marking, sent, upsets>>

-----------------------------------------------------------------------------
(* GossipBlock, GossipSig, GossipRevoke.                                    *)

\* isSeen and markSeen take the lock one after the other, not together.
CheckSeen(n, e) ==
    /\ checking[n][e] > 0
    /\ checking' = Less(checking, n, e)
    /\ IF e \in seen[n] THEN UNCHANGED marking ELSE marking' = More(marking, n, e)
    /\ UNCHANGED <<stored, seen, wire, receiving, sent, upsets>>

Forward(n, e) ==
    /\ marking[n][e] > 0
    /\ marking' = Less(marking, n, e)
    /\ seen' = [seen EXCEPT ![n] = @ \cup {e}]
    /\ sent' = More(sent, n, e)
    /\ \E T \in Targets(n) :
         wire' = [m \in Node |->
                   IF m \in T THEN [wire[m] EXCEPT ![e] = @ + 1] ELSE wire[m]]
    /\ UNCHANGED <<stored, receiving, checking, upsets>>

\* (Mutant: a post is given up whether it is under way or has arrived.)
LoseAgain(n, e) ==
    /\ Upset /\ stalled' = TRUE
    /\ wire' = Less(wire, n, e)
    /\ UNCHANGED <<stored, seen, receiving, checking, marking, sent>>

\* A post fails; nobody looks at the error.
Lose(n, e) ==
    /\ Upset /\ stalled' = TRUE
    /\ wire[n][e] > 0
    /\ wire' = Less(wire, n, e)
    /\ UNCHANGED <<stored, seen, receiving, checking, marking, sent>>

\* The entry of e in the seen-set is an hour old.  The node knows e by then, so nothing
\* looks for its mark unless posts of e still come.
Expire(n, e) ==
    /\ e \in seen[n] /\ wire[n][e] > 0
    /\ receiving[n][e] = 0 /\ checking[n][e] = 0 /\ marking[n][e] = 0
    /\ seen' = [seen EXCEPT ![n] = @ \ {e}]
    /\ UNCHANGED <<stored, wire, receiving, checking, marking, sent, upsets>>

-----------------------------------------------------------------------------
\* Node n syncs with peer p: it takes the blocks it lacks, and signatures, and posts the
\* blocks of keys that p has not.
Sync(n, p) ==
    /\ Upset
    /\ p \in Peers[n]
    /\ \E S \in Taken(n, p, Missing(n, p)) : Store(n, S)
    /\ stalled' = (stalled \/ Missing(n, p) # {})
    /\ wire' = [wire EXCEPT ![p] =
                 [e \in Event |->
                   IF e \in stored[n] \cap BlockEv /\ ~Holds(p, Fp[e]) THEN @[e] + 1 ELSE @[e]]]
    /\ UNCHANGED <<seen, receiving, checking, marking, sent>>

\* A node restarts: its database is there, its handlers and seen-set are not.
Restart(n) ==
    /\ Upset /\ stalled' = TRUE
    /\ seen' = [seen EXCEPT ![n] = {}]
    /\ receiving' = [receiving EXCEPT ![n] = None[n]]
    /\ checking' = [checking EXCEPT ![n] = None[n]]
    /\ marking' = [marking EXCEPT ![n] = None[n]]
    /\ sent' = [sent EXCEPT ![n] = None[n]]
    /\ UNCHANGED <<stored, wire>>

Work(n, e) == Deliver(n, e) \/ Accept(n, e) \/ CheckSeen(n, e) \/ Forward(n, e)

Next ==
    \/ \E n \in Node, e \in Event : Submit(n, e) \/ Work(n, e) \/ Lose(n, e) \/ Expire(n, e)
    \/ \E n, p \in Node : Sync(n, p)
    \/ \E n \in Node : Restart(n)

Spec == Init /\ [][Next]_vars
FairSpec == Spec /\ \A n \in Node, e \in Event : WF_vars(Work(n, e))

-----------------------------------------------------------------------------
\* An event is marked as seen only by a node that has forwarded it and knows it, so that
\* the mark (isSeen) stops nothing for good.  The node need not hold it: of two submissions
\* of a key that race, the loser is forwarded too, by a node that stored the other.
SeenMeansForwarded ==
    \A n \in Node : seen[n] \subseteq {e \in Event : sent[n][e] > 0 /\ Known(n, e)}

\* No node ever holds a signature or a revocation without the submission it covers, nor a
\* signature that came without its signer's key and without a block of it, nor two
\* submissions of a key: although all of them travel apart and in any order.
HeldInOrder == \A n \in Node : InOrder(stored[n])

Busy(n, e) ==
    wire[n][e] > 0 \/ receiving[n][e] > 0 \/ checking[n][e] > 0 \/ marking[n][e] > 0

\* Forwarding dies out: an event does not go round a cycle of peers for ever, also
\* when its marks expire or a restart forgets them.
Quiesces == <>[](\A n \in Node, e \in Event : ~Busy(n, e))

\* Node n takes block b from a post unless it does not allow it or holds another
\* submission of its key.
Takes(n, b) == b \in Allowed[n] /\ Fp[b] \notin KeysOf(stored[n] \ {b})

\* Where every post arrives and every peer is a target, a block that has come to a node
\* comes to each of its peers that takes it, and so on to their peers: in spite of races
\* between its copies, and with other submissions of its key, and of marks that expire;
\* unless a node got a block by a fetch or a sync: it forwards that neither then nor when
\* the post comes.
BlocksSpread ==
    \A n \in Node, b \in BlockEv : \A m \in Peers[n] :
        b \in stored[n] \ Kept[n] ~> stalled \/ b \in stored[m] \/ ~Takes(m, b)

-----------------------------------------------------------------------------
(* Claims of the documents that the code does not keep.                     *)

\* Newbie guide: nodes gossip what they get, "so eventually every node has the same
\* data".
EventuallyTheSame == <>[](\A n, m \in Node : stored[n] = stored[m])

=============================================================================
