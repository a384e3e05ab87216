-------------------------------- MODULE Client --------------------------------
(***************************************************************************)
(* The commands of the Go client that write to the ledger (cmd/client):     *)
(* people add and revoke their keys, sign keys of others by hand, and have  *)
(* the client sign for them whatever the ledger lets them trust (endorse).  *)
(*                                                                          *)
(* They use one node.  A listing of all blocks is a query of the rows and   *)
(* then one for the entries of each block, and is not repeated: endorse     *)
(* decides on it until it ends, while the others go on.  What the node does *)
(* with a signature is in detail in Ledger; here its handler reads the      *)
(* block and then commits the entry.  An entry is the sequence of those who *)
(* signed up to it, as in SigEntries.                                       *)
(***************************************************************************)
EXTENDS SigEntries, FiniteSets

CONSTANTS
    Key,        \* people's keys, named by their fingerprints
    Start,      \* the blocks on the ledger at the start, in the order of their rows
    Given,      \* who signed them by hand until then, oldest first
    Hand,       \* bound on the model: <<u, x>> if u will sign x by hand
    Revocable,  \* bound on the model: the keys that may be revoked
    Endorser,   \* bound on the model: who endorses
    Threshold, MaxDepth     \* the flags of endorse

ASSUME ClientAssumption ==
    /\ IsFiniteSet(Key) /\ "none" \notin Key
    /\ Start \in Seq(Key) /\ \A i, j \in 1 .. Len(Start) : Start[i] = Start[j] => i = j
    /\ Given \in [Key -> Seq(Key)]
    /\ Hand \subseteq Key \X Key /\ Revocable \subseteq Key /\ Endorser \subseteq Key
    /\ Threshold \in Nat \ {0} /\ MaxDepth \in Nat \ {0}

VARIABLES
    rows,       \* the blocks, in the order in which they were inserted
    revoked,    \* those of them that are revoked
    entries,    \* entries[x]: the rows of x's signature entries
    head,       \* sig_chain_head
    run,        \* run[u]: the command that u runs
    byHand,     \* history: <<u, x>> if u signed x with `sign'
    endorsed    \* history: <<u, x>> if u signed x with `endorse'

node == <<rows, revoked, entries, head>>
vars == <<node, run, byHand, endorsed>>

Elements(s) == {s[i] : i \in DOMAIN s}
Held == Elements(rows)

\* The ways the entries of x may be listed, each as the set of those who signed.
Listings(x) == {{Newest(e) : e \in V} : V \in Views(entries[x])}

Idle ==
    [pc |-> "idle", cmd |-> "none", listed |-> <<>>, gone |-> {}, todo |-> <<>>,
     signers |-> [k \in Key |-> {}], target |-> "none", prev |-> <<>>]

Run ==
    [pc : {"idle", "list", "consider", "read", "commit"}, cmd : {"none", "sign", "endorse"},
     listed : Seq(Key), gone : SUBSET Key,      \* the rows of the listing, and its revoked keys
     todo : Seq(Key),                           \* blocks left to list or to consider
     signers : [Key -> SUBSET Key],             \* the entries of the listing
     target : Key \cup {"none"}, prev : Seq(Key)]   \* what is being signed, and prev_hash

\* The type of every variable; a key has one row (the primary key of blocks).
TypeOK ==
    /\ rows \in Seq(Key) /\ \A i, j \in 1 .. Len(rows) : rows[i] = rows[j] => i = j
    /\ revoked \subseteq Key
    /\ entries \in [Key -> SUBSET Seq(Key)] /\ head \in [Key -> Seq(Key)]
    /\ run \in [Key -> Run]
    /\ byHand \subseteq Key \X Key /\ endorsed \subseteq Key \X Key

Init ==
    /\ rows = Start /\ revoked = {}
    /\ entries = [k \in Key |-> {SubSeq(Given[k], 1, i) : i \in 1 .. Len(Given[k])}]
    /\ head = Given
    /\ run = [u \in Key |-> Idle]
    /\ byHand = {p \in Key \X Key : p[1] \in Elements(Given[p[2]])} /\ endorsed = {}

Continue(u, r) == run' = [run EXCEPT ![u] = r]

-----------------------------------------------------------------------------
(* add, sign, revoke.                                                       *)

\* (Mutant: the node stores a key it has once more.)
AddBlockAgain(u) ==
    /\ run[u].pc = "idle"
    /\ Len(rows) < Cardinality(Key)
    /\ rows' = Append(rows, u)
    /\ UNCHANGED <<revoked, entries, head, run, byHand, endorsed>>

\* A key that is there is refused.
AddBlock(u) ==
    /\ run[u].pc = "idle" /\ u \notin Held
    /\ rows' = Append(rows, u)
    /\ UNCHANGED <<revoked, entries, head, run, byHand, endorsed>>

\* The client fetches the block for its hash, and posts a signature of it.  (That u does
\* not sign x again once it has is a bound on the model.)
Sign(u, x) ==
    /\ run[u].pc = "idle" /\ x \in Held /\ <<u, x>> \notin byHand
    /\ Continue(u, [Idle EXCEPT !.pc = "read", !.cmd = "sign", !.target = x])
    /\ UNCHANGED <<node, byHand, endorsed>>

RevokeBlock(u) ==
    /\ run[u].pc = "idle" /\ u \in Held \ revoked
    /\ revoked' = revoked \cup {u}
    /\ UNCHANGED <<rows, entries, head, run, byHand, endorsed>>

-----------------------------------------------------------------------------
(* endorse.                                                                 *)

\* The rows are listed ...
Endorse(u) ==
    /\ run[u].pc = "idle"
    /\ Continue(u, [Idle EXCEPT !.pc = "list", !.cmd = "endorse",
                                !.listed = rows, !.gone = revoked, !.todo = rows])
    /\ UNCHANGED <<node, byHand, endorsed>>

\* ... and then the entries of each; when all are, the blocks are considered in turn.
ListEntries(u) ==
    /\ run[u].pc = "list"
    /\ \/ /\ run[u].todo = <<>>
          /\ Continue(u, [run[u] EXCEPT !.pc = "consider", !.todo = run[u].listed])
       \/ /\ run[u].todo # <<>>
          /\ LET x == Head(run[u].todo) IN \E S \in Listings(x) :
               Continue(u, [run[u] EXCEPT
                             !.todo = Tail(run[u].todo),
                             !.signers = [run[u].signers EXCEPT ![x] = S]])
    /\ UNCHANGED <<node, byHand, endorsed>>

\* trust.Build: nobody vouches for a revoked key, and no revoked key for any.
Vouchers(r, x) == IF x \in r.gone THEN {} ELSE r.signers[x] \ r.gone

\* What trust.Score counts (module Trust): keys from u to x, each of which signed the
\* next, none twice, in at most MaxDepth hops.
TrustPaths(r, u, x) ==
    {p \in UNION {[1 .. n -> Key] : n \in 2 .. (MaxDepth + 1)} :
        /\ p[1] = u /\ p[Len(p)] = x
        /\ \A i, j \in 1 .. Len(p) : p[i] = p[j] => i = j
        /\ \A i \in 1 .. (Len(p) - 1) : p[i] \in Vouchers(r, p[i + 1])}

\* (Mutant: the score is not looked at.)
WantedAll(u, x) == x # u /\ x \notin run[u].gone /\ u \notin run[u].signers[x]

\* (Mutant: a score just below the threshold will do.)
WantedEarly(u, x) ==
    /\ x # u /\ x \notin run[u].gone
    /\ Cardinality(TrustPaths(run[u], u, x)) + 1 >= Threshold
    /\ u \notin run[u].signers[x]

\* A key of another, not revoked, trusted enough, and not signed yet, by the listing.
Wanted(u, x) ==
    /\ x # u /\ x \notin run[u].gone
    /\ Cardinality(TrustPaths(run[u], u, x)) >= Threshold
    /\ u \notin run[u].signers[x]

Consider(u) ==
    /\ run[u].pc = "consider"
    /\ IF run[u].todo = <<>> THEN Continue(u, Idle)
       ELSE LET x == Head(run[u].todo) IN
              Continue(u, IF Wanted(u, x)
                            THEN [run[u] EXCEPT !.pc = "read", !.target = x]
                            ELSE [run[u] EXCEPT !.todo = Tail(run[u].todo)])
    /\ UNCHANGED <<node, byHand, endorsed>>

-----------------------------------------------------------------------------
(* The post, and the node's handler.                                        *)

\* A command to sign one block is over; endorse goes on with the next block, whatever
\* the answer.
After(u) ==
    IF run[u].cmd = "sign" THEN Idle
    ELSE [run[u] EXCEPT !.pc = "consider", !.target = "none", !.prev = <<>>,
                        !.todo = Tail(run[u].todo)]

\* (Mutant: a block that was refused is considered again.)
RefusedAgain(u) ==
    /\ run[u].pc = "read"
    /\ Continue(u, IF run[u].cmd = "sign" THEN Idle ELSE [run[u] EXCEPT !.pc = "consider"])
    /\ UNCHANGED <<node, byHand, endorsed>>

\* The block is revoked by now, the signer has no block, the entries listed have one of
\* the signer already, or the request fails.
Refused(u) ==
    /\ run[u].pc = "read"
    /\ Continue(u, After(u))
    /\ UNCHANGED <<node, byHand, endorsed>>

\* The handler reads the block and finds nothing against the signature.
SignRead(u) ==
    /\ run[u].pc = "read"
    /\ run[u].target \in Held \ revoked /\ u \in Held
    /\ \E S \in Listings(run[u].target) : u \notin S
    /\ Continue(u, [run[u] EXCEPT !.pc = "commit", !.prev = head[run[u].target]])
    /\ UNCHANGED <<node, byHand, endorsed>>

\* The entry is stored after the head that was read, and becomes the head.
SignCommit(u) ==
    /\ run[u].pc = "commit"
    /\ LET x == run[u].target
           e == Append(run[u].prev, u)
       IN  /\ entries' = [entries EXCEPT ![x] = entries[x] \cup {e}]
           /\ head' = [head EXCEPT ![x] = e]
           /\ IF run[u].cmd = "sign"
                THEN byHand' = byHand \cup {<<u, x>>} /\ endorsed' = endorsed
                ELSE byHand' = byHand /\ endorsed' = endorsed \cup {<<u, x>>}
    /\ Continue(u, After(u))
    /\ UNCHANGED <<rows, revoked>>

-----------------------------------------------------------------------------
\* What the client and the node do by themselves once a command was given.
Work(u) == ListEntries(u) \/ Consider(u) \/ Refused(u) \/ SignRead(u) \/ SignCommit(u)

Next ==
    \/ \E u \in Key : AddBlock(u) \/ Work(u)
    \/ \E p \in Hand : Sign(p[1], p[2])
    \/ \E u \in Revocable : RevokeBlock(u)
    \/ \E u \in Endorser : Endorse(u)

Spec == Init /\ [][Next]_vars

\* A command that was given runs on.
FairSpec == Spec /\ \A u \in Key : WF_vars(Work(u))

-----------------------------------------------------------------------------
\* S has whomever a member of S signed.
ClosedUnder(signed, S) == \A p \in signed : p[1] \in S => p[2] \in S

\* Endorsing makes ways through the web of trust shorter, but leads nowhere that hands
\* did not lead: whom u reaches along any signatures, u reaches along those made by hand,
\* in spite of listings that are out of date, or torn, or miss entries.
NoTrustFromNowhere ==
    \A S \in SUBSET Key :
      ClosedUnder(byHand, S) => ClosedUnder(byHand \cup endorsed, S)

\* With two hops at most, as is the default, a key that anybody endorsed was signed by Threshold
\* others by hand (main.go:327: "at least two independent trust paths"): endorsements do
\* not vouch for each other, however they race.
EndorsedIndependently ==
    \A x \in {p[2] : p \in endorsed} : Cardinality({u \in Key : <<u, x>> \in byHand}) >= Threshold

\* A run of endorse ends.
EndorsingEnds == \A u \in Endorser : run[u].cmd = "endorse" ~> run[u].pc = "idle"

=============================================================================
