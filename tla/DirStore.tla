------------------------------- MODULE DirStore -------------------------------
(***************************************************************************)
(* One key in the store of the Python node (dir_store.py): the files of its *)
(* directory, the copy of its block in the LRU cache, and the handlers and  *)
(* syncs that work on them.                                                 *)
(*                                                                          *)
(* The handlers run one after the other on the event loop: none awaits      *)
(* anything once it has its request.  A sync runs on a thread of its own    *)
(* and interleaves with them.  A file is written in place: opening it makes *)
(* it empty, and its text comes later.                                      *)
(*                                                                          *)
(* An entry is the sequence of signatures up to it, as in SigEntries, and   *)
(* here starts with its block, since the block file may come to hold        *)
(* another submission of the key.                                           *)
(***************************************************************************)
EXTENDS SigEntries, FiniteSets

CONSTANTS
    Key,        \* fingerprints
    Block,      \* submissions of the key, named by their hashes
    Sig,        \* trust signatures made by clients
    By,         \* who made a signature
    On,         \* the block whose hash it covers
    Offered,    \* the entries that other nodes have, and send
    Loop,       \* the thread of the event loop
    Worker      \* bound on the model: the threads of syncs

Thread == {Loop} \cup Worker

ASSUME DirStoreAssumption ==
    /\ By \in [Sig -> Key] /\ On \in [Sig -> Block]
    /\ "none" \notin Block /\ "mixed" \notin Block
    /\ Loop \notin Worker
    /\ \A e \in Offered :
         /\ e \in Seq(Block \cup Sig) /\ Len(e) > 1
         /\ \A k \in 2 .. Len(e) : e[k] \in Sig /\ On[e[k]] = e[1]

VARIABLES
    torn,       \* files open for writing, or left so when the node stopped
    whole,      \* files written and closed
    content,    \* the text of the block file
    cache,      \* the cached copy of the block
    task,       \* task[t]: the request thread t works on, with what it has read
    spoiled,    \* history: files that were open when the node stopped
    overlapped  \* history: since the node started, a write invalidated the cache while
                \* a read was under way, or two adds had both found no block file and
                \* neither had opened it yet

files == <<torn, whole, content>>
vars == <<files, cache, task, spoiled, overlapped>>

-----------------------------------------------------------------------------
\* <fp>.block.json and <fp>.revoke.json; <fp>.sig.<hash>.json is named by its entry.
BlockFile == <<>>
RevokeFile == <<"revoke">>

\* A block with signatures on it, or none; a file holds the last of them.
Text == Seq(Block \cup Sig)
Chain == {e \in Text : Len(e) > 0 /\ e[1] \in Block /\ \A k \in 2 .. Len(e) : e[k] \in Sig}
Entry == {e \in Chain : Len(e) > 1}
File == Entry \cup {BlockFile, RevokeFile}
Present == torn \cup whole
SigFiles(F) == F \ {BlockFile, RevokeFile}

\* A block as get returns it: the last of its entries, or the block alone, and the flag.
Copy == [entry : Chain, revoked : BOOLEAN]
NoCopy == <<>>

\* (Mutant: the signature is taken for its signer.)
SignerSig(e) == Newest(e)

Signer(e) == By[Newest(e)]
Signers(e) == {By[e[k]] : k \in 2 .. Len(e)}

\* The entry files that a list ending with e is read from.
Trail(e) == {SubSeq(e, 1, k) : k \in 2 .. Len(e)}

Idle ==
    [pc |-> "idle", op |-> "none", then |-> "none", entry |-> <<>>, todo |-> <<>>,
     copy |-> NoCopy, known |-> {}, read |-> NoCopy, names |-> {}]

Task ==
    [pc : {"idle", "look", "take", "list", "read", "flag", "fill",
           "decide", "exists", "each", "open", "write", "pop"},
     op : {"none", "get", "add", "sign", "receive", "revoke", "apply"},
     then : {"none", "decide", "open", "each", "answer"},    \* where get returns to
     entry : Text,                        \* what the request is about, or is to be written
     todo : Seq(Entry),                   \* entries of a peer that are left
     copy : Copy \cup {NoCopy},           \* the block the caller of get has
     known : SUBSET Key,                  \* existing_sigs
     read : Copy \cup {NoCopy}, names : SUBSET Entry]     \* what get has read, and listed

\* The type of every variable.
TypeOK ==
    /\ torn \subseteq File /\ whole \subseteq File
    /\ content \in Block \cup {"none", "mixed"}
    /\ cache \in Copy \cup {NoCopy}
    /\ task \in [Thread -> Task]
    /\ spoiled \subseteq File /\ overlapped \in BOOLEAN

Init ==
    /\ torn = {} /\ whole = {} /\ content = "none" /\ cache = NoCopy
    /\ task = [t \in Thread |-> Idle]
    /\ spoiled = {} /\ overlapped = FALSE

Goto(t, pc) == task' = [task EXCEPT ![t].pc = pc]
Done(t) == task' = [task EXCEPT ![t] = Idle]

\* Call get and go on at `then'.
Get(t, then) == [task EXCEPT ![t].pc = "look", ![t].then = then]

-----------------------------------------------------------------------------
(* Requests.                                                                *)

Request(t, op, entry, todo) ==
    /\ task[t] = Idle
    /\ task' = [task EXCEPT ![t] =
                 [Idle EXCEPT !.pc = "look", !.op = op, !.entry = entry, !.todo = todo,
                              !.then = IF op = "get" THEN "answer" ELSE "decide"]]
    /\ UNCHANGED <<files, cache, spoiled, overlapped>>

\* A client or a peer asks for the block, or a sync pushes it.
GetBlock(t) == Request(t, "get", <<>>, <<>>)

\* A client submits the key, or a peer sends its block.
AddBlock(b) == Request(Loop, "add", <<b>>, <<>>)

\* A client sends signature s, a peer an entry.
SignBlock(s) == Request(Loop, "sign", <<s>>, <<>>)
ReceiveSig(e) == Request(Loop, "receive", e, <<>>)

\* The owner or a peer sends the revocation of b.
RevokeBlock(b) == Request(Loop, "revoke", <<b>>, <<>>)

\* What a peer lists: the entries up to e, or those after the k-th if it has a gap there.
Listed(e, k) == [i \in 1 .. Len(e) - k |-> SubSeq(e, 1, k + i)]

\* A sync fetches the entries of a block whose head differs, or a block the node lacked
\* together with its entries.
SyncSigChain(t, e, k) == Request(t, "apply", <<>>, Listed(e, k))
FetchAndStore(t, e, k) == Request(t, "add", <<e[1]>>, Listed(e, k))

-----------------------------------------------------------------------------
(* get.                                                                     *)

\* The caller has its block; add_sig and revoke only look whether there is one.
Return(t, copy) ==
    IF task[t].then = "answer"
      THEN Done(t)
      ELSE task' = [task EXCEPT
                     ![t].pc = task[t].then, ![t].then = "none",
                     ![t].copy = IF task[t].then = "open" THEN task[t].copy ELSE copy,
                     ![t].read = NoCopy, ![t].names = {}]

\* An exception, because a file has no text or the copy has left the cache: the request
\* is over.  A sync goes on with its next entry, unless it was only about to begin.
Raise(t) ==
    task' = [task EXCEPT ![t] =
              IF task[t].op = "apply" /\ task[t].then # "decide"
                THEN [Idle EXCEPT !.pc = "each", !.op = "apply", !.todo = task[t].todo,
                                  !.copy = task[t].copy, !.known = task[t].known]
                ELSE Idle]

\* The copy is cached; or there is no block file, which is what add hopes for; or the
\* file is read.
Look(t) ==
    /\ task[t].pc = "look"
    /\ \/ cache # NoCopy /\ Goto(t, "take")
       \/ /\ cache = NoCopy /\ BlockFile \notin Present
          /\ IF task[t].op = "add" THEN Goto(t, "exists") ELSE Done(t)
       \/ /\ cache = NoCopy /\ BlockFile \in whole /\ content \in Block
          /\ task' = [task EXCEPT ![t].pc = "list",
                                  ![t].read = [entry |-> <<content>>, revoked |-> FALSE]]
       \/ /\ cache = NoCopy /\ BlockFile \in Present
          /\ BlockFile \in torn \/ content \notin Block
          /\ Raise(t)
    /\ UNCHANGED <<files, cache, spoiled, overlapped>>

\* `in' and `[]' are two accesses to the cache.
Take(t) ==
    /\ task[t].pc = "take"
    /\ IF cache = NoCopy THEN Raise(t) ELSE Return(t, cache)
    /\ UNCHANGED <<files, cache, spoiled, overlapped>>

\* The directory is listed, and then each entry file read.
List(t) ==
    /\ task[t].pc = "list"
    /\ task' = [task EXCEPT ![t].pc = "read", ![t].names = SigFiles(Present)]
    /\ UNCHANGED <<files, cache, spoiled, overlapped>>

\* The walk along prev_hash from the block b: at a fork it follows any one entry, and
\* what comes after a gap it does not reach.
WalkEnds(b, E) ==
    {e \in E \cup {<<b>>} :
        /\ e[1] = b /\ Trail(e) \subseteq E
        /\ \A c \in E : Parent(c) # e}

\* (Mutant: the list starts at the head that the file names give, as in hashes.)
ReadFromTip(t) ==
    /\ task[t].pc = "read"
    /\ IF task[t].names \cap torn # {}
         THEN Raise(t)
         ELSE \E e \in task[t].names \cup {task[t].read.entry} :
                task' = [task EXCEPT
                          ![t].pc = "flag", ![t].names = {},
                          ![t].read = [entry |-> e, revoked |-> FALSE]]
    /\ UNCHANGED <<files, cache, spoiled, overlapped>>

Read(t) ==
    /\ task[t].pc = "read"
    /\ IF task[t].names \cap torn # {}
         THEN Raise(t)
         ELSE \E e \in WalkEnds(task[t].read.entry[1], task[t].names) :
                task' = [task EXCEPT
                          ![t].pc = "flag", ![t].names = {},
                          ![t].read = [entry |-> e, revoked |-> FALSE]]
    /\ UNCHANGED <<files, cache, spoiled, overlapped>>

Flag(t) ==
    /\ task[t].pc = "flag"
    /\ IF RevokeFile \in torn
         THEN Raise(t)
         ELSE task' = [task EXCEPT ![t].pc = "fill",
                                   ![t].read = [entry |-> task[t].read.entry,
                                                revoked |-> RevokeFile \in whole]]
    /\ UNCHANGED <<files, cache, spoiled, overlapped>>

Fill(t) ==
    /\ task[t].pc = "fill"
    /\ cache' = task[t].read
    /\ Return(t, task[t].read)
    /\ UNCHANGED <<files, spoiled, overlapped>>

-----------------------------------------------------------------------------
(* What the handlers and syncs make of the block.                           *)

\* The signature or revocation is of this block, and new to it.
Acceptable(t) ==
    LET its == task[t].copy
        new == task[t].entry
    IN  /\ ~its.revoked
        /\ IF task[t].op = "revoke"
             THEN new = <<its.entry[1]>>
             ELSE On[Newest(new)] = its.entry[1] /\ Signer(new) \notin Signers(its.entry)

\* A client's signature is linked to the head of the copy.
Linked(t) ==
    IF task[t].op = "sign" THEN task[t].copy.entry \o task[t].entry ELSE task[t].entry

\* A key that is there is not added again; a signature is also refused when its signer's
\* block is not there.
Decide(t) ==
    /\ task[t].pc = "decide"
    /\ \/ task[t].op \in {"add", "sign", "receive"} /\ Done(t)
       \/ task[t].op = "revoke" /\ ~Acceptable(t) /\ Done(t)
       \/ /\ task[t].op \in {"sign", "receive", "revoke"} /\ Acceptable(t)
          /\ task' = [Get(t, "open") EXCEPT ![t].entry = Linked(t)]
       \/ /\ task[t].op = "apply"
          /\ task' = [task EXCEPT ![t].pc = "each",
                                  ![t].known = Signers(task[t].copy.entry)]
    /\ UNCHANGED <<files, cache, spoiled, overlapped>>

\* _apply_sig_entries: an entry is skipped if its signer is listed or not to be found,
\* or signed another submission, and stored otherwise.
Each(t) ==
    /\ task[t].pc = "each"
    /\ \/ task[t].todo = <<>> /\ Done(t)
       \/ task[t].todo # <<>> /\ task' = [task EXCEPT ![t].todo = Tail(task[t].todo)]
       \/ /\ task[t].todo # <<>>
          /\ LET e == Head(task[t].todo) IN
               /\ Signer(e) \notin task[t].known
               /\ On[Newest(e)] = task[t].copy.entry[1]
               /\ task' = [Get(t, "open") EXCEPT ![t].entry = e,
                                                 ![t].todo = Tail(task[t].todo)]
    /\ UNCHANGED <<files, cache, spoiled, overlapped>>

-----------------------------------------------------------------------------
(* add, add_sig, revoke.                                                    *)

\* About to open the block file, having found none.
Adding(u) == task[u].pc = "open" /\ task[u].op = "add"

\* (Mutant: it goes by the look that get had.)
ExistsUnchecked(t) ==
    /\ task[t].pc = "exists" /\ Goto(t, "open")
    /\ overlapped' = (overlapped \/ \E u \in Thread : Adding(u))
    /\ UNCHANGED <<files, cache, spoiled>>

\* add looks once more for the block file.
Exists(t) ==
    /\ task[t].pc = "exists"
    /\ \/ BlockFile \in Present /\ Done(t) /\ UNCHANGED overlapped
       \/ /\ BlockFile \notin Present /\ Goto(t, "open")
          /\ overlapped' = (overlapped \/ \E u \in Thread : Adding(u))
    /\ UNCHANGED <<files, cache, spoiled>>

Target(t) ==
    CASE task[t].op = "add" -> BlockFile
      [] task[t].op = "revoke" -> RevokeFile
      [] OTHER -> task[t].entry

\* (Mutant: a file that is there already is refused, once it has been opened.)
OpenRefuses(t) ==
    /\ task[t].pc = "open"
    /\ torn' = torn \cup {Target(t)} /\ whole' = whole \ {Target(t)}
    /\ content' = IF task[t].op = "add" THEN "none" ELSE content
    /\ IF Target(t) \in Present THEN Done(t) ELSE Goto(t, "write")
    /\ UNCHANGED <<cache, spoiled, overlapped>>

\* The file is opened, and empty, whether or not it was there.
Open(t) ==
    /\ task[t].pc = "open"
    /\ torn' = torn \cup {Target(t)} /\ whole' = whole \ {Target(t)}
    /\ content' = IF task[t].op = "add" THEN "none" ELSE content
    /\ Goto(t, "write")
    /\ UNCHANGED <<cache, spoiled, overlapped>>

\* The text is written and the file closed.  A block file that another thread has opened
\* too gets both texts, and may be a mixture.
Write(t) ==
    /\ task[t].pc = "write"
    /\ torn' = torn \ {Target(t)} /\ whole' = whole \cup {Target(t)}
    /\ IF task[t].op # "add" THEN content' = content
       ELSE content' \in IF content \in {"none", task[t].entry[1]}
                           THEN {task[t].entry[1]} ELSE {task[t].entry[1], "mixed"}
    /\ \/ task[t].op # "add" /\ Goto(t, "pop")
       \/ task[t].op = "add" /\ task[t].todo = <<>> /\ Done(t)
       \/ /\ task[t].op = "add" /\ task[t].todo # <<>>
          /\ task' = [Get(t, "decide") EXCEPT ![t].op = "apply", ![t].entry = <<>>]
    /\ UNCHANGED <<cache, spoiled, overlapped>>

Reading(u) == task[u].pc \in {"read", "flag", "fill"}

\* (Mutant: revoke leaves the copy in the cache.)
PopSigsOnly(t) ==
    /\ task[t].pc = "pop"
    /\ cache' = IF task[t].op = "revoke" THEN cache ELSE NoCopy
    /\ overlapped' = (overlapped \/ \E u \in Thread : Reading(u))
    /\ \/ task[t].op \in {"receive", "revoke"} /\ Done(t)
       \/ task[t].op \in {"sign", "revoke"} /\ task' = Get(t, "answer")
       \/ /\ task[t].op = "apply"
          /\ task' = [Get(t, "each") EXCEPT
                       ![t].entry = <<>>,
                       ![t].known = task[t].known \cup {Signer(task[t].entry)}]
    /\ UNCHANGED <<files, spoiled>>

\* The copy leaves the cache.  A client is answered with the block read again, and a sync
\* reads it again too.
Pop(t) ==
    /\ task[t].pc = "pop"
    /\ cache' = NoCopy
    /\ overlapped' = (overlapped \/ \E u \in Thread : Reading(u))
    /\ \/ task[t].op \in {"receive", "revoke"} /\ Done(t)
       \/ task[t].op \in {"sign", "revoke"} /\ task' = Get(t, "answer")
       \/ /\ task[t].op = "apply"
          /\ task' = [Get(t, "each") EXCEPT
                       ![t].entry = <<>>,
                       ![t].known = task[t].known \cup {Signer(task[t].entry)}]
    /\ UNCHANGED <<files, spoiled>>

-----------------------------------------------------------------------------
\* Blocks of other keys push the copy out of the cache.
Evict ==
    /\ cache # NoCopy
    /\ cache' = NoCopy
    /\ UNCHANGED <<files, task, spoiled, overlapped>>

\* The node stops and starts again, with its files as they are.
Restart ==
    /\ \E t \in Thread : task[t] # Idle
    /\ cache' = NoCopy
    /\ task' = [t \in Thread |-> Idle]
    /\ spoiled' = spoiled \cup torn
    /\ overlapped' = FALSE
    /\ UNCHANGED files

Step(t) ==
    \/ Look(t) \/ Take(t) \/ List(t) \/ Read(t) \/ Flag(t) \/ Fill(t)
    \/ Decide(t) \/ Each(t) \/ Exists(t) \/ Open(t) \/ Write(t) \/ Pop(t)

Next ==
    \/ \E t \in Thread : GetBlock(t) \/ Step(t)
    \/ \E b \in Block : AddBlock(b) \/ RevokeBlock(b)
    \/ \E s \in Sig : SignBlock(s)
    \/ \E e \in Offered : ReceiveSig(e)
    \/ \E t \in Worker, e \in Offered : \E k \in 1 .. Len(e) :
         SyncSigChain(t, e, k) \/ FetchAndStore(t, e, k)
    \/ Evict \/ Restart

Spec == Init /\ [][Next]_vars

-----------------------------------------------------------------------------
\* The copies that are cached, returned, or about to be.
Copies == ({cache} \cup {task[t].copy : t \in Thread} \cup {task[t].read : t \in Thread})
            \ {NoCopy}

\* What get returns, fresh or cached, is never ahead of the disk: the list is the whole
\* chain from the block to its end, each entry from a file that is there, and a block
\* shown as revoked has its revocation on disk.
CopiesOnDisk ==
    \A c \in Copies :
        /\ BlockFile \in Present /\ Trail(c.entry) \subseteq Present
        /\ c.revoked => RevokeFile \in Present

\* A file without its text is one that a thread is writing, or one that was open when the
\* node stopped; the latter stays so for good, since all that could write it again reads
\* the directory first.
TornOrSpoiled ==
    /\ spoiled \subseteq torn
    /\ \A f \in torn \ spoiled : \E t \in Thread : task[t].pc = "write" /\ Target(t) = f

\* The cached copy differs from the files, while nobody is writing, only if an earlier
\* write invalidated the cache in the middle of a read, whose thread then put back what
\* it had read (dir_store.py:136), or two adds were both let through to the block file.
StaleOnlyByOverlap ==
    (cache # NoCopy /\ ~overlapped /\ \A t \in Thread : task[t].pc \notin {"write", "pop"})
      => /\ cache.entry \in WalkEnds(content, SigFiles(whole))
         /\ cache.revoked <=> RevokeFile \in whole

\* The block file and the revocation, once written, are never opened again ("files are
\* write-once"), except after one of two overlaps: two adds had looked for the block file
\* before either opened it (dir_store.py:52, 66), or a revocation was decided on a copy
\* that a read had put back after a write.  What add and the handler of a revocation look
\* at beforehand is enough in every other order of their steps.
RewrittenOnlyByOverlap ==
    [][\A f \in {BlockFile, RevokeFile} : f \in whole \ whole' => overlapped]_vars

=============================================================================
