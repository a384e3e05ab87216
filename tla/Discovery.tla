------------------------------- MODULE Discovery -------------------------------
(***************************************************************************)
(* How a client looks for blocks on many nodes (discovery.go): FindBlock    *)
(* for the key Wanted, with or without an evaluation of its trust, and      *)
(* FindBlocksByEmail for the keys in Matching.  It starts from Seeds, asks  *)
(* one node at a time, and learns of others from the lists of peers that    *)
(* nodes publish.                                                           *)
(*                                                                          *)
(* Each request is a step and may fail.  What nodes hold and list does not  *)
(* change while the search goes on.                                         *)
(***************************************************************************)
EXTENDS Naturals, Sequences, FiniteSets, SequencesExt

CONSTANTS Node, Key, Root, Wanted, Matching,
          Seeds,               \* the nodes the client knows, in order
          Limits,              \* values of maxNodes
          Threshold, Depth,    \* of the trust evaluation
          Lists, Holdings      \* what nodes may list, and hold

\* A copy of a block: who signed it, and whether it is revoked.
Copy == [sigs : SUBSET Key, revoked : BOOLEAN]

\* In which queue a listed peer goes when an address is looked for: whether it declares
\* the domain of the address, takes all domains, or neither.
Class == {"exact", "allowAll", "normal"}

ASSUME DiscoveryAssumption ==
    /\ Root \in Key /\ Wanted \in Key /\ Matching \subseteq Key
    /\ Seeds \in Seq(Node) /\ IsInjective(Seeds)
    /\ Limits \subseteq Nat /\ Threshold \in Nat \ {0} /\ Depth \in Nat
    /\ IsFiniteSet(Key)
    /\ \A l \in Lists : \A n \in Node :
         DOMAIN l[n] \subseteq Node /\ IsFiniteSet(DOMAIN l[n]) /\ Range(l[n]) \subseteq Class
    /\ \A h \in Holdings : \A n \in Node : DOMAIN h[n] \subseteq Key /\ Range(h[n]) \subseteq Copy

VARIABLES lists, held,      \* the network
          method, maxNodes, \* what is asked for: "FindBlock", "FindBlock with trust", ...
          visited, exact, allowAll, normal,
          at, phase,        \* the node that is asked, and what for
          copies,           \* copies of Wanted, with the nodes they are from
          accumulated,      \* the copy kept of each key (best, of FindBlocksByEmail)
          score,
          asked, failed     \* for the properties: nodes asked, and those that failed to answer

network == <<lists, held, method, maxNodes>>
queues == <<visited, exact, allowAll, normal>>
vars == <<network, queues, at, phase, copies, accumulated, score, asked, failed>>

TypeOK ==
    /\ method \in {"FindBlock", "FindBlock with trust", "FindBlocksByEmail"}
    /\ maxNodes \in Limits
    /\ visited \subseteq Node /\ failed \subseteq Node /\ at \in Node
    /\ {exact, allowAll, normal, asked} \subseteq Seq(Node)
    /\ phase \in {"next", "block", "search", "blocks", "peers", "done"}
    /\ copies \in Seq(Node \X Copy)
    /\ DOMAIN accumulated \subseteq Key /\ Range(accumulated) \subseteq Copy
    /\ score \in Nat

Init ==
    /\ lists \in Lists /\ held \in Holdings /\ maxNodes \in Limits
    /\ method \in {"FindBlock", "FindBlock with trust", "FindBlocksByEmail"}
    /\ visited = Range(Seeds) /\ exact = <<>> /\ allowAll = <<>> /\ normal = Seeds
    /\ at \in Range(Seeds) /\ phase = "next"
    /\ copies = <<>> /\ accumulated = <<>> /\ score = 0
    /\ asked = <<>> /\ failed = {}

-----------------------------------------------------------------------------
Length(c) == Cardinality(c.sigs)

\* (Mutant: a later copy replaces an earlier one.)
MergeLatest(kept, blocks) ==
    [k \in DOMAIN kept \cup DOMAIN blocks |->
      IF k \in DOMAIN blocks THEN blocks[k] ELSE kept[k]]

\* What is kept of each key when blocks come in: a copy with more signatures replaces
\* the one there is, revoked or not.
Merge(kept, blocks) ==
    [k \in DOMAIN kept \cup DOMAIN blocks |->
      IF k \in DOMAIN kept /\ (k \in DOMAIN blocks => Length(blocks[k]) <= Length(kept[k]))
      THEN kept[k] ELSE blocks[k]]

\* The trust paths in blocks.
Evaluated(blocks) == INSTANCE Trust WITH
    Ledgers <- {}, Revocable <- Key, Targets <- {Wanted}, Depths <- {Depth},
    signers <- [k \in Key |-> IF k \in DOMAIN blocks THEN blocks[k].sigs ELSE {}],
    revoked <- {k \in DOMAIN blocks : blocks[k].revoked},
    target <- Wanted, maxDepth <- Depth, method <- "Score",
    phase <- "done", queue <- <<>>, count <- 0, net <- <<>>

\* trust.Score, as module Trust has found it to be.
Score(blocks) == IF Wanted = Root THEN 1 ELSE Cardinality(Evaluated(blocks)!TrustPaths)

-----------------------------------------------------------------------------
HasQueued == exact # <<>> \/ allowAll # <<>> \/ normal # <<>>
GoesOn == HasQueued /\ Cardinality(visited) <= maxNodes

NextNode ==
    /\ phase = "next" /\ GoesOn
    /\ \/ /\ exact # <<>>
          /\ at' = Head(exact) /\ exact' = Tail(exact) /\ UNCHANGED <<allowAll, normal>>
       \/ /\ exact = <<>> /\ allowAll # <<>>
          /\ at' = Head(allowAll) /\ allowAll' = Tail(allowAll) /\ UNCHANGED <<exact, normal>>
       \/ /\ exact = <<>> /\ allowAll = <<>>
          /\ at' = Head(normal) /\ normal' = Tail(normal) /\ UNCHANGED <<exact, allowAll>>
    /\ phase' = IF method = "FindBlocksByEmail" THEN "search" ELSE "block"
    /\ asked' = Append(asked, at')
    /\ UNCHANGED <<network, visited, copies, accumulated, score, failed>>

Fails == failed' = failed \cup {at}

\* (Mutant: a node without the block yields a copy all the same.)
FetchBlockUnchecked ==
    /\ phase = "block"
    /\ \/ /\ copies' = Append(copies, <<at, IF Wanted \in DOMAIN held[at] THEN held[at][Wanted] ELSE <<>> >>)
          /\ phase' = IF method = "FindBlock with trust" THEN "blocks" ELSE "peers"
          /\ UNCHANGED failed
       \/ phase' = "peers" /\ Fails /\ UNCHANGED copies
    /\ UNCHANGED <<network, queues, at, accumulated, score, asked>>

\* GET /block/{fp}: a copy, or none.
FetchBlock ==
    /\ phase = "block"
    /\ \/ /\ Wanted \in DOMAIN held[at]
          /\ copies' = Append(copies, <<at, held[at][Wanted]>>)
          /\ phase' = IF method = "FindBlock with trust" THEN "blocks" ELSE "peers"
          /\ UNCHANGED failed
       \/ /\ Wanted \notin DOMAIN held[at]
          /\ phase' = "peers" /\ UNCHANGED <<copies, failed>>
       \/ phase' = "peers" /\ Fails /\ UNCHANGED copies
    /\ UNCHANGED <<network, queues, at, accumulated, score, asked>>

\* GET /blocks, from a node with a copy: what is known so far is evaluated, also when
\* this request fails, and the search ends when it is enough.
FetchAllBlocks ==
    /\ phase = "blocks"
    /\ \E blocks \in {accumulated, Merge(accumulated, held[at])} :
         /\ accumulated' = blocks
         /\ \/ blocks = Merge(accumulated, held[at]) /\ UNCHANGED failed
            \/ blocks = accumulated /\ Fails
         /\ IF Score(blocks) >= Threshold
            THEN phase' = "done" /\ score' = Score(blocks)
            ELSE phase' = "peers" /\ UNCHANGED score
    /\ UNCHANGED <<network, queues, at, copies, asked>>

\* (Mutant: what earlier nodes had is lost.)
SearchForgets ==
    /\ phase = "search"
    /\ \/ /\ accumulated' = [k \in Matching \cap DOMAIN held[at] |-> held[at][k]]
          /\ UNCHANGED failed
       \/ Fails /\ UNCHANGED accumulated
    /\ phase' = "peers"
    /\ UNCHANGED <<network, queues, at, copies, score, asked>>

\* GET /search, for an address.
Search ==
    /\ phase = "search"
    /\ \/ /\ accumulated' = Merge(accumulated, [k \in Matching \cap DOMAIN held[at] |-> held[at][k]])
          /\ UNCHANGED failed
       \/ Fails /\ UNCHANGED accumulated
    /\ phase' = "peers"
    /\ UNCHANGED <<network, queues, at, copies, score, asked>>

\* (Mutant: nodes that were visited are enqueued again.)
EnqueuePeersAgain ==
    \E order \in SetToSeqs(DOMAIN lists[at]) :
      /\ visited' = visited \cup Range(order)
      /\ normal' = normal \o order /\ UNCHANGED <<exact, allowAll>>

\* The peers that a node lists, and that are not visited, in the order of the list,
\* which may be any.
EnqueuePeers ==
    LET new == DOMAIN lists[at] \ visited
        of(c) == SetToSeqs({n \in new : lists[at][n] = c})
    IN  /\ visited' = visited \cup new
        \* The client names no domain when it looks for a key.
        /\ IF method = "FindBlocksByEmail"
           THEN \E e \in of("exact"), a \in of("allowAll"), o \in of("normal") :
                  exact' = exact \o e /\ allowAll' = allowAll \o a /\ normal' = normal \o o
           ELSE \E o \in SetToSeqs(new) :
                  normal' = normal \o o /\ UNCHANGED <<exact, allowAll>>

\* (Mutant: a node that does not answer is searched again.)
FetchWellKnownRetries ==
    /\ phase = "peers"
    /\ \/ EnqueuePeers /\ phase' = "next" /\ UNCHANGED failed
       \/ /\ Fails /\ UNCHANGED queues
          /\ phase' = IF method = "FindBlocksByEmail" THEN "search" ELSE "next"
    /\ UNCHANGED <<network, at, copies, accumulated, score, asked>>

\* (Mutant: a node that has the block is not asked for its peers.)
FetchWellKnownOnMiss ==
    /\ phase = "peers"
    /\ \/ EnqueuePeers /\ copies = <<>> /\ UNCHANGED failed
       \/ UNCHANGED <<queues, failed>> /\ copies # <<>>
       \/ Fails /\ UNCHANGED queues
    /\ phase' = "next"
    /\ UNCHANGED <<network, at, copies, accumulated, score, asked>>

\* GET /.well-known/gpgchain.json.
FetchWellKnown ==
    /\ phase = "peers"
    /\ \/ EnqueuePeers /\ UNCHANGED failed
       \/ Fails /\ UNCHANGED queues
    /\ phase' = "next"
    /\ UNCHANGED <<network, at, copies, accumulated, score, asked>>

\* The loop is over without enough trust found.
Return ==
    /\ phase = "next" /\ ~GoesOn
    /\ phase' = "done"
    /\ score' = IF method = "FindBlock with trust" /\ copies # <<>> THEN Score(accumulated) ELSE 0
    /\ UNCHANGED <<network, queues, at, copies, accumulated, asked, failed>>

Next == NextNode \/ FetchBlock \/ FetchAllBlocks \/ Search \/ FetchWellKnown \/ Return

Spec == Init /\ [][Next]_vars

\* Requests have a timeout, so the client always gets on.
FairSpec == Spec /\ WF_vars(Next)

-----------------------------------------------------------------------------
Answered == Range(asked) \ failed

\* No node is asked twice, and no more of them than maxNodes, although nodes list each
\* other and some are seeds.
AskedOnce == IsInjective(asked) /\ Len(asked) <= maxNodes

\* A search that ends within the limit and without enough trust has asked every node
\* that it could hear of: the seeds, and those listed by nodes that answered.
AsksEverybody ==
    (phase = "done" /\ Cardinality(visited) <= maxNodes /\ score < Threshold)
      => Range(Seeds) \cup UNION {DOMAIN lists[n] : n \in Answered} \subseteq Range(asked)

\* Such a search finds Wanted, or what Matching gives, when a node that answered has it.
FindsWhatThereIs ==
    (phase = "done" /\ Cardinality(visited) <= maxNodes /\ score < Threshold)
      => IF method = "FindBlocksByEmail"
         THEN Matching \cap UNION {DOMAIN held[n] : n \in Answered} \subseteq DOMAIN accumulated
         ELSE (\E n \in Answered : Wanted \in DOMAIN held[n]) => copies # <<>>

\* A revocation that was shown takes all trust away, unless another node showed a copy
\* that is not revoked and has as many signatures.
RevokedUnlessLonger ==
    score > 0 /\ Wanted # Root =>
      \A n \in Answered : Wanted \in DOMAIN held[n] /\ held[n][Wanted].revoked =>
        \E m \in Range(asked) :
          /\ Wanted \in DOMAIN held[m] /\ ~held[m][Wanted].revoked
          /\ Length(held[n][Wanted]) <= Length(held[m][Wanted])

\* The search ends, also when nodes list each other in circles.
SearchEnds == <>(phase = "done")
=============================================================================
