--------------------------- MODULE ReplicatedUnion ---------------------------
(***************************************************************************)
(* What the ledger promises as a whole: there is no global order and no     *)
(* agreement, each node holds a set of items, and the ledger is the union   *)
(* of these sets.  Items are blocks, trust-signature entries and            *)
(* revocations.  A node either creates an item that builds on items it      *)
(* holds itself, or copies one that exists; nothing is ever removed.        *)
(***************************************************************************)
EXTENDS SigEntries

CONSTANT Node

VARIABLE holds      \* holds[n]: the items node n holds

BlockItem(b) == [kind |-> "block", blk |-> b, chain |-> <<>>]
EntryItem(b, c) == [kind |-> "entry", blk |-> b, chain |-> c]
RevocationItem(b) == [kind |-> "revocation", blk |-> b, chain |-> <<>>]

Ledger == UNION {holds[n] : n \in Node}

\* The block an entry or a revocation is about.
Subject(i) == IF i.kind = "block" THEN {} ELSE {BlockItem(i.blk)}

\* What the author of an item had in front of them.
BuildsOn(i) ==
    Subject(i) \cup
    IF i.kind = "entry" /\ Parent(i.chain) # <<>>
      THEN {EntryItem(i.blk, Parent(i.chain))} ELSE {}

Init == holds = [n \in Node |-> {}]

Gain(n, i) == holds' = [holds EXCEPT ![n] = @ \cup {i}]

\* A new item enters the ledger where all it builds on is at hand.
Create(n, i) ==
    /\ i \notin Ledger
    /\ BuildsOn(i) \subseteq holds[n]
    /\ Gain(n, i)

\* An item spreads, in any order, to a node that holds its subject.
Copy(n, i) ==
    /\ i \in Ledger
    /\ Subject(i) \subseteq holds[n]
    /\ Gain(n, i)

\* (The item of a step is the one the node gains.)
Next == \E n \in Node : \E i \in holds'[n] \ holds[n] : Create(n, i) \/ Copy(n, i)

Spec == Init /\ [][Next]_holds

\* The ledger is closed: what an item builds on is somewhere on it, and a node
\* holds the subject of everything it holds.
Closed ==
    /\ \A i \in Ledger : BuildsOn(i) \subseteq Ledger
    /\ \A n \in Node : \A i \in holds[n] : Subject(i) \subseteq holds[n]

=============================================================================
