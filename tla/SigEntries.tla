------------------------------ MODULE SigEntries ------------------------------
(***************************************************************************)
(* Trust-signature entries and the way a node reads them back.             *)
(*                                                                         *)
(* A SigEntry's hash is SHA-256 over its prev_hash, signer, signature and  *)
(* timestamp, and the first prev_hash is the hash of the signed block      *)
(* (chain/block.go).  Taking the hash as collision free, an entry IS the   *)
(* sequence of signatures from the block to it: appending signature s to   *)
(* the entry p gives Append(p, s), the prev_hash of an entry is its        *)
(* Parent, and <<>> stands for the block itself (sig_chain_head "").       *)
(* Two entries are equal exactly when their hashes are.                    *)
(***************************************************************************)
EXTENDS Naturals, Sequences

\* The entry, or the block, that an entry's prev_hash names.
Parent(c) == SubSeq(c, 1, Len(c) - 1)

\* The signature an entry adds to its parent.
Newest(c) == c[Len(c)]

-----------------------------------------------------------------------------
(* SQLiteStore.getSigEntries: the rows of one block come back as a set; any *)
(* row no other row names as prev_hash can be taken as the head (Go's map   *)
(* order decides which), and the list is the walk from it along prev_hash,  *)
(* for as long as the rows are there.  A fork shows one branch; a gap ends  *)
(* the walk early.                                                          *)

\* The rows that no other row follows.
Leaves(S) == {h \in S : \A c \in S : Parent(c) # h}

\* The rows met on the way back from h.
Walk(S, h) ==
    {c \in S : /\ Len(c) <= Len(h)
               /\ SubSeq(h, 1, Len(c)) = c
               /\ \A k \in Len(c) .. Len(h) : SubSeq(h, 1, k) \in S}

\* What a caller of Get may see of the rows S.
Views(S) == IF S = {} THEN {{}} ELSE {Walk(S, h) : h \in Leaves(S)}

=============================================================================
