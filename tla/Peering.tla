-------------------------------- MODULE Peering -------------------------------
(***************************************************************************)
(* Peer registration between Go nodes: POST /peers, the reachability check,  *)
(* the capped peer list, and the node's registering itself in return.        *)
(*                                                                          *)
(* The handler looks at the length of the list first and appends to it after *)
(* a request to the candidate, and other handlers run in between.  The list  *)
(* is in memory; a restart leaves the peers of the command line.             *)
(*                                                                          *)
(* The sync an admission starts as well is in module Ledger (SyncStart); the *)
(* metadata it fetches for clients is not modelled.                          *)
(***************************************************************************)
EXTENDS Naturals, Sequences

CONSTANTS
    Node,       \* the running nodes; a node's name is also its public URL
    Addr,       \* the URLs one may ask a node to add
    Named,      \* the nodes that were given their own URL (-node-url)
    Permitted,  \* URLs that resolve to an address the node takes peers from
    Boot,       \* the peers of the command line (-peers), as Add leaves them on the list
    MaxPeers,   \* capacity of a peer list
    MaxAsk,     \* bound on the model: requests by operators
    MaxUpset    \* bound on the model: restarts and lost requests together

ASSUME PeeringAssumption ==
    /\ Node \subseteq Addr
    /\ Named \subseteq Node
    /\ Permitted \in [Node -> SUBSET Addr]
    /\ MaxPeers \in Nat
    /\ Boot \in [Node -> Seq(Addr)]
    /\ \A n \in Node :
         /\ Len(Boot[n]) <= MaxPeers
         /\ \A i, j \in 1 .. Len(Boot[n]) : Boot[n][i] = Boot[n][j] => i = j
    /\ MaxAsk \in Nat /\ MaxUpset \in Nat

VARIABLES
    peers,      \* peers[n]: the peer list of n
    wire,       \* wire[n][a]: requests under way that ask n to add a
    probing,    \* probing[n][a]: handlers at n that wait for a to answer GET /peers
    asks, upsets    \* operators' requests, restarts and losses so far

vars == <<peers, wire, probing, asks, upsets>>

Listed(n, a) == \E i \in 1 .. Len(peers[n]) : peers[n][i] = a
Full(n) == Len(peers[n]) >= MaxPeers

\* The type of every variable.
TypeOK ==
    /\ peers \in [Node -> Seq(Addr)]
    /\ wire \in [Node -> [Addr -> Nat]]
    /\ probing \in [Node -> [Addr -> Nat]]
    /\ asks \in 0 .. MaxAsk /\ upsets \in 0 .. MaxUpset

None == [n \in Node |-> [a \in Addr |-> 0]]

Init ==
    /\ peers = Boot
    /\ wire = None /\ probing = None
    /\ asks = 0 /\ upsets = 0

-----------------------------------------------------------------------------
More(f, n, a) == [f EXCEPT ![n][a] = @ + 1]
Less(f, n, a) == [f EXCEPT ![n][a] = @ - 1]

AppendTo(n, a) == peers' = [peers EXCEPT ![n] = Append(@, a)]

\* (Mutant: the list is looked at by the handler alone, before the check.)
AddUnchecked(n, a) == IF Listed(n, a) THEN UNCHANGED peers ELSE AppendTo(n, a)

\* PeerList.Add, under its lock: looks for the URL and at the capacity again.
Add(n, a) == IF Listed(n, a) \/ Full(n) THEN UNCHANGED peers ELSE AppendTo(n, a)

\* An operator or a client asks n to add a.
Ask(n, a) ==
    /\ asks < MaxAsk /\ asks' = asks + 1
    /\ wire' = More(wire, n, a)
    /\ UNCHANGED <<peers, probing, upsets>>

\* handleAddPeer up to its GET: a full list admits nobody new, and some addresses
\* are never taken.
Check(n, a) ==
    /\ wire[n][a] > 0
    /\ wire' = Less(wire, n, a)
    /\ IF (Full(n) /\ ~Listed(n, a)) \/ a \notin Permitted[n]
         THEN UNCHANGED probing ELSE probing' = More(probing, n, a)
    /\ UNCHANGED <<peers, asks, upsets>>

\* The candidate does not answer.
Refuse(n, a) ==
    /\ probing[n][a] > 0 /\ a \notin Node
    /\ probing' = Less(probing, n, a)
    /\ UNCHANGED <<peers, wire, asks, upsets>>

\* (Mutant: the node registers itself only with a peer that is new to it.)
AdmitNew(n, a) ==
    /\ probing[n][a] > 0 /\ a \in Node
    /\ probing' = Less(probing, n, a)
    /\ Add(n, a)
    /\ IF n \in Named /\ peers'[n] # peers[n]
         THEN wire' = More(wire, a, n) ELSE UNCHANGED wire
    /\ UNCHANGED <<asks, upsets>>

\* It answers: the URL is added, unless there is no room any more (the error is
\* ignored), and either way the node registers itself with it.
Admit(n, a) ==
    /\ probing[n][a] > 0 /\ a \in Node
    /\ probing' = Less(probing, n, a)
    /\ Add(n, a)
    /\ IF n \in Named THEN wire' = More(wire, a, n) ELSE UNCHANGED wire
    /\ UNCHANGED <<asks, upsets>>

-----------------------------------------------------------------------------
Upset == upsets < MaxUpset /\ upsets' = upsets + 1

\* (Mutant: a request counts as lost although it was answered.)
LoseAgain(n, a) ==
    /\ Upset
    /\ wire' = Less(wire, n, a)
    /\ UNCHANGED <<peers, probing, asks>>

\* A request does not get through; nobody looks at the error.
Lose(n, a) ==
    /\ Upset
    /\ wire[n][a] > 0
    /\ wire' = Less(wire, n, a)
    /\ UNCHANGED <<peers, probing, asks>>

Restart(n) ==
    /\ Upset
    /\ peers' = [peers EXCEPT ![n] = Boot[n]]
    /\ probing' = [probing EXCEPT ![n] = None[n]]
    /\ UNCHANGED <<wire, asks>>

Work(n, a) == Check(n, a) \/ Refuse(n, a) \/ Admit(n, a)

Next ==
    \/ \E n \in Node, a \in Addr : Ask(n, a) \/ Work(n, a) \/ Lose(n, a)
    \/ \E n \in Node : Restart(n)

Spec == Init /\ [][Next]_vars
FairSpec == Spec /\ \A n \in Node, a \in Addr : WF_vars(Work(n, a))

-----------------------------------------------------------------------------
\* However many registrations race between the handler's look at the list and its
\* append, the list stays within its capacity, and no peer is on it twice (then
\* gossip would post to it twice; p2p-peers.feature: "appears only once").
ListSound ==
    \A n \in Node :
        /\ Len(peers[n]) <= MaxPeers
        /\ \A i, j \in 1 .. Len(peers[n]) : peers[n][i] = peers[n][j] => i = j

\* Registration is bidirectional (spec p2p, Reciprocal Registration): a node that
\* knows its URL gets on the list of each peer an operator had it add, unless that
\* list is full, the peer does not take it, or a restart or a loss came between.
Reciprocal ==
    \A n, m \in Node :
        (n \in Named /\ n \in Permitted[m] /\ probing[n][m] > 0)
            ~> (Listed(m, n) \/ Full(m) \/ upsets > 0)

-----------------------------------------------------------------------------
\* Spec p2p: a node registers itself after accepting a *new* peer, and a duplicate
\* is accepted silently; so registering comes to an end.
RegistrationEnds ==
    <>[](\A n \in Node, a \in Addr : wire[n][a] = 0 /\ probing[n][a] = 0)

=============================================================================
