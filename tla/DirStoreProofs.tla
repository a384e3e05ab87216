---------------------------- MODULE DirStoreProofs ----------------------------
(***************************************************************************)
(* What the directory store keeps through races, crashes and spoiled files, *)
(* for any number of syncs beside the event loop, any submissions of the    *)
(* key, and any signatures on them.                                         *)
(*                                                                          *)
(* Files only ever come to be there, so what a copy was read from stays.    *)
(* What needs an argument is that nobody writes once a file is spoiled:     *)
(* every writer reads the directory first, and cannot.                      *)
(***************************************************************************)
EXTENDS DirStore, TLAPS

OnDisk(c) ==
    /\ BlockFile \in Present /\ Trail(c.entry) \subseteq Present
    /\ c.revoked => RevokeFile \in Present

\* What a request remembers fits what it is about to do ...
TaskFits(x) ==
    /\ x.op = "add" => x.entry # <<>> /\ x.entry[1] \in Block
    /\ x.op = "receive" => x.entry \in Entry
    /\ x.op = "sign" /\ (x.pc = "decide" \/ x.then = "decide")
         => \E s \in Sig : x.entry = <<s>>
    /\ x.pc \in {"look", "take", "list", "read", "flag", "fill"}
         => x.then \in {"decide", "open", "each", "answer"}
    /\ x.then = "answer" => x.op # "apply"
    /\ x.then = "each" => x.op = "apply" /\ x.copy \in Copy
    /\ x.then = "open" => /\ x.op \in {"sign", "receive", "revoke", "apply"}
                          /\ x.op # "revoke" => x.entry \in Entry
                          /\ x.copy \in Copy
    /\ x.pc \in {"open", "write", "pop"}
         => /\ x.op \in {"add", "sign", "receive", "revoke", "apply"}
            /\ x.op \notin {"add", "revoke"} => x.entry \in Entry
            /\ x.op # "add" => x.copy \in Copy
            /\ x.then # "open"
    /\ x.pc = "pop" => x.op # "add"
    /\ x.pc = "exists" => x.op = "add" /\ x.then # "open"
    /\ x.pc = "each" => x.op = "apply"
    /\ x.pc \in {"decide", "each"} => x.copy \in Copy
    /\ x.pc \in {"list", "read", "flag", "fill"} => x.read \in Copy

\* ... and what it has read is there.
TaskOnDisk(x) ==
    /\ x.copy # NoCopy => OnDisk(x.copy)
    /\ x.read # NoCopy => OnDisk(x.read)
    /\ x.names \subseteq Present

\* A request that finds a spoiled file on its way does not get to write anything.
Harmless(x) ==
    /\ x.pc \in {"idle", "look", "list", "read", "flag"}
    /\ x.op = "apply" => x.then = "decide"
    /\ x.pc = "list" => BlockFile \notin spoiled
    /\ x.pc = "read" => BlockFile \notin spoiled /\ SigFiles(spoiled) \subseteq x.names
    /\ x.pc = "flag" => RevokeFile \in spoiled

TaskSound(x) ==
    /\ x \in Task /\ TaskFits(x) /\ TaskOnDisk(x)
    /\ spoiled # {} => Harmless(x)

FilesSound ==
    /\ torn \cap whole = {}
    /\ Present # {} => BlockFile \in Present
    /\ cache # NoCopy => OnDisk(cache)
    /\ spoiled # {} => cache = NoCopy

StoreInv ==
    /\ TypeOK /\ FilesSound /\ TornOrSpoiled
    /\ \A t \in Thread : TaskSound(task[t])

-----------------------------------------------------------------------------
LEMMA NoCopyIsNone == NoCopy \notin Copy
<1>1. \A c \in Copy : DOMAIN c = {"entry", "revoked"}
  BY DEF Copy
<1>2. DOMAIN NoCopy = {}
  BY DEF NoCopy
<1> QED
  BY <1>1, <1>2

\* The parts of a task, by the sets they are in: what follows needs to know that a part
\* is in its set, and seldom what else is.
Pcs == {"idle", "look", "take", "list", "read", "flag", "fill",
        "decide", "exists", "each", "open", "write", "pop"}
Ops == {"none", "get", "add", "sign", "receive", "revoke", "apply"}
Thens == {"none", "decide", "open", "each", "answer"}
CopyOrNone == Copy \cup {NoCopy}

LEMMA TaskIs ==
    Task = [pc : Pcs, op : Ops, then : Thens, entry : Text, todo : Seq(Entry),
            copy : CopyOrNone, known : SUBSET Key, read : CopyOrNone, names : SUBSET Entry]
BY DEF Task, Pcs, Ops, Thens, CopyOrNone

LEMMA Places ==
    /\ "idle" \in Pcs /\ "look" \in Pcs /\ "take" \in Pcs /\ "list" \in Pcs
    /\ "read" \in Pcs /\ "flag" \in Pcs /\ "fill" \in Pcs /\ "decide" \in Pcs
    /\ "exists" \in Pcs /\ "each" \in Pcs /\ "open" \in Pcs /\ "write" \in Pcs
    /\ "pop" \in Pcs
    /\ "none" \in Thens /\ "decide" \in Thens /\ "open" \in Thens
    /\ "each" \in Thens /\ "answer" \in Thens
    /\ "apply" \in Ops
    /\ NoCopy \in CopyOrNone /\ \A c \in Copy : c \in CopyOrNone
BY DEF Pcs, Ops, Thens, CopyOrNone

\* A request that writes no file, goes on in good order, and puts into the cache only
\* what is on disk, keeps the invariant.
LEMMA TaskMoves ==
    ASSUME StoreInv, NEW t \in Thread, NEW x, task' = [task EXCEPT ![t] = x],
           UNCHANGED <<files, spoiled>>, overlapped' \in BOOLEAN,
           \/ UNCHANGED cache
           \/ cache' = NoCopy
           \/ cache' \in Copy /\ OnDisk(cache') /\ spoiled = {},
           TaskSound(x), task[t].pc # "write"
    PROVE  StoreInv'
<1> USE DEF StoreInv, files
<1>1. /\ task' \in [Thread -> Task]
      /\ task'[t] = x /\ \A u \in Thread \ {t} : task'[u] = task[u]
  BY DEF TypeOK, TaskSound
<1>2. TypeOK' /\ FilesSound'
  BY <1>1 DEF TypeOK, FilesSound, Present, OnDisk
<1>3. \A u \in Thread : TaskSound(task[u])'
  <2>1. \A u \in Thread : TaskSound(task'[u])
    BY <1>1
  <2> QED
    BY <2>1 DEF TaskSound, TaskFits, TaskOnDisk, Harmless, OnDisk, Present
<1>4. TornOrSpoiled'
  <2>1. \A f : \A u \in Thread : task[u].pc = "write" /\ Target(u) = f
                               => task'[u].pc = "write" /\ Target(u)' = f
    BY <1>1 DEF Target
  <2> QED
    BY <2>1 DEF TornOrSpoiled
<1> QED
  BY <1>2, <1>3, <1>4

\* A request that is over is in good order.
LEMMA IdleSound == TaskSound(Idle)
BY DEF TaskSound, TaskFits, TaskOnDisk, Harmless, Idle, Task, Text, NoCopy, Copy

-----------------------------------------------------------------------------
(* Requests, and get.                                                       *)

\* An entry that a peer lists is an entry.
LEMMA ListedEntries ==
    ASSUME DirStoreAssumption, NEW e \in Offered, NEW k \in 1 .. Len(e)
    PROVE  e \in Entry /\ Listed(e, k) \in Seq(Entry)
<1>1. e \in Seq(Block \cup Sig) /\ Len(e) > 1 /\ Len(e) \in Nat
  BY DEF DirStoreAssumption
<1>2. \A i \in 2 .. Len(e) : e[i] \in Sig
  BY DEF DirStoreAssumption
<1>3. e[1] \in Block
  <2>1. 2 \in 2 .. Len(e)
    BY <1>1
  <2>2. On[e[2]] = e[1] /\ e[2] \in Sig
    BY <2>1 DEF DirStoreAssumption
  <2> QED
    BY <2>2 DEF DirStoreAssumption
<1>4. e \in Entry
  BY <1>1, <1>2, <1>3 DEF Entry, Chain, Text
<1>5. ASSUME NEW i \in 1 .. Len(e) - k PROVE SubSeq(e, 1, k + i) \in Entry
  <2>1. k + i \in 2 .. Len(e)
    BY <1>1
  <2>2. /\ SubSeq(e, 1, k + i) \in Seq(Block \cup Sig)
        /\ Len(SubSeq(e, 1, k + i)) = k + i
        /\ \A j \in 1 .. k + i : SubSeq(e, 1, k + i)[j] = e[j]
    BY <1>1, <2>1
  <2> DEFINE l == SubSeq(e, 1, k + i)
  <2> HIDE DEF l
  <2>3. l \in Seq(Block \cup Sig) /\ Len(l) > 1 /\ l[1] \in Block
    BY <1>1, <1>3, <2>1, <2>2 DEF l
  <2>4. \A j \in 2 .. Len(l) : l[j] \in Sig
    BY <1>1, <1>2, <2>1, <2>2 DEF l
  <2>5. l \in Entry
    BY <2>3, <2>4 DEF Entry, Chain, Text
  <2> QED
    BY <2>5 DEF l
<1>6. Listed(e, k) \in Seq(Entry)
  BY <1>1, <1>5 DEF Listed
<1> QED
  BY <1>4, <1>6

\* A request begins with a look at the store.
LEMMA RequestStep ==
    ASSUME StoreInv, NEW t \in Thread, NEW op \in {"get", "add", "sign", "receive", "revoke", "apply"},
           NEW entry \in Text, NEW todo \in Seq(Entry),
           op = "add" => entry # <<>> /\ entry[1] \in Block,
           op = "receive" => entry \in Entry,
           op = "sign" => \E s \in Sig : entry = <<s>>,
           Request(t, op, entry, todo)
    PROVE  StoreInv'
<1> DEFINE x == [Idle EXCEPT !.pc = "look", !.op = op, !.entry = entry, !.todo = todo,
                              !.then = IF op = "get" THEN "answer" ELSE "decide"]
<1>1. TaskSound(x)
  BY DEF TaskSound, TaskFits, TaskOnDisk, Harmless, Idle, Task, Text, NoCopy, Copy
<1>2. task[t].pc # "write"
  BY DEF Request, Idle
<1>3. /\ task' = [task EXCEPT ![t] = x] /\ UNCHANGED <<files, cache, spoiled>>
      /\ overlapped' \in BOOLEAN
  BY DEF Request, StoreInv, TypeOK
<1> HIDE DEF x
<1> QED
  BY <1>1, <1>2, <1>3, TaskMoves

\* Where the step is that of one request, these are the facts about its task.
LEMMA TaskFacts ==
    ASSUME StoreInv, NEW t \in Thread
    PROVE  /\ task \in [Thread -> Task] /\ task[t] \in Task
           /\ TaskFits(task[t]) /\ TaskOnDisk(task[t])
           /\ spoiled # {} => Harmless(task[t])
           /\ cache \in Copy \cup {NoCopy} /\ overlapped \in BOOLEAN
BY DEF StoreInv, TypeOK, TaskSound

\* What Return makes of a task.
LEMMA ReturnSound ==
    ASSUME StoreInv, NEW t \in Thread, NEW copy \in Copy, OnDisk(copy), spoiled = {},
           task[t].pc \in {"take", "fill"}, Return(t, copy)
    PROVE  \E x : TaskSound(x) /\ task' = [task EXCEPT ![t] = x]
<1>1. CASE task[t].then = "answer"
  BY <1>1, IdleSound DEF Return, Done
<1>2. CASE task[t].then # "answer"
  <2> DEFINE x == [task[t] EXCEPT
                     !.pc = task[t].then, !.then = "none",
                     !.copy = IF task[t].then = "open" THEN task[t].copy ELSE copy,
                     !.read = NoCopy, !.names = {}]
  <2>1. task' = [task EXCEPT ![t] = x]
    BY <1>2, TaskFacts DEF Return, Task
  <2>2. task[t].then \in {"decide", "open", "each"}
    BY <1>2, TaskFacts DEF TaskFits
  <2>3. x \in Task
    <3>1. task[t].then \in Pcs
      BY <2>2, Places
    <3>2. (IF task[t].then = "open" THEN task[t].copy ELSE copy) \in CopyOrNone
      BY TaskFacts, TaskIs, Places
    <3>3. PICK c \in CopyOrNone : c = IF task[t].then = "open" THEN task[t].copy ELSE copy
      BY <3>2
    <3> QED
      BY <3>1, <3>3, TaskFacts, TaskIs, Places
  <2>4. TaskFits(x)
    BY <2>2, TaskFacts, TaskIs DEF TaskFits
  <2>5. TaskOnDisk(x)
    BY <2>2, TaskFacts, TaskIs DEF TaskOnDisk
  <2> QED
    BY <2>1, <2>3, <2>4, <2>5 DEF TaskSound
<1> QED
  BY <1>1, <1>2

\* What Raise makes of a task.
LEMMA RaiseSound ==
    ASSUME StoreInv, NEW t \in Thread,
           task[t].pc \in {"look", "take", "read", "flag"}, Raise(t)
    PROVE  \E x : TaskSound(x) /\ task' = [task EXCEPT ![t] = x]
<1>1. CASE task[t].op = "apply" /\ task[t].then # "decide"
  <2> DEFINE x == [Idle EXCEPT !.pc = "each", !.op = "apply", !.todo = task[t].todo,
                               !.copy = task[t].copy, !.known = task[t].known]
  <2>1. task' = [task EXCEPT ![t] = x]
    BY <1>1 DEF Raise
  <2>2. task[t].copy \in Copy
    BY <1>1, TaskFacts DEF TaskFits
  <2>3. x \in Task
    BY <2>2, IdleSound, TaskFacts DEF Task, Idle, TaskSound
  <2>4. TaskFits(x)
    BY <2>2 DEF TaskFits, Idle
  <2>5. TaskOnDisk(x)
    BY TaskFacts DEF TaskOnDisk, Idle
  <2>6. spoiled = {}
    BY <1>1, TaskFacts DEF Harmless
  <2> QED
    BY <2>1, <2>3, <2>4, <2>5, <2>6 DEF TaskSound
<1>2. CASE ~(task[t].op = "apply" /\ task[t].then # "decide")
  BY <1>2, IdleSound DEF Raise
<1> QED
  BY <1>1, <1>2

\* A goes-to and nothing else.
LEMMA GotoIs ==
    ASSUME StoreInv, NEW t \in Thread, NEW pc, Goto(t, pc)
    PROVE  task' = [task EXCEPT ![t] = [task[t] EXCEPT !.pc = pc]]
BY TaskFacts DEF Goto, Task

\* Looking into the cache and for the block file.
LEMMA LookStep ==
    ASSUME StoreInv, NEW t \in Thread, Look(t)
    PROVE  StoreInv'
<1>0. task[t].pc = "look" /\ UNCHANGED <<files, cache, spoiled, overlapped>>
  BY DEF Look
<1>1. SUFFICES \E x : TaskSound(x) /\ task' = [task EXCEPT ![t] = x]
  BY <1>0, <1>1, TaskMoves, TaskFacts
<1>2. CASE cache # NoCopy /\ Goto(t, "take")
  <2> DEFINE x == [task[t] EXCEPT !.pc = "take"]
  <2>1. spoiled = {}
    BY <1>2 DEF StoreInv, FilesSound
  <2>2. x \in Task /\ TaskFits(x) /\ TaskOnDisk(x)
    <3>1. x \in Task
      BY <1>0, TaskFacts, TaskIs, Places
    <3>2. TaskFits(x)
      BY <1>0, TaskFacts, TaskIs DEF TaskFits
    <3>3. TaskOnDisk(x)
      BY <1>0, TaskFacts, TaskIs DEF TaskOnDisk
    <3> QED
      BY <3>1, <3>2, <3>3
  <2> QED
    BY <1>2, <2>1, <2>2, GotoIs DEF TaskSound
<1>3. CASE /\ cache = NoCopy /\ BlockFile \notin Present
           /\ IF task[t].op = "add" THEN Goto(t, "exists") ELSE Done(t)
  <2>1. spoiled = {}
    BY <1>3 DEF StoreInv, FilesSound, TornOrSpoiled, Present
  <2>2. CASE task[t].op = "add" /\ Goto(t, "exists")
    <3> DEFINE x == [task[t] EXCEPT !.pc = "exists"]
    <3>1. x \in Task /\ TaskFits(x) /\ TaskOnDisk(x)
      <4>1. x \in Task
        BY <1>0, <2>2, TaskFacts, TaskIs, Places
      <4>2. TaskFits(x)
        BY <1>0, <2>2, TaskFacts, TaskIs DEF TaskFits
      <4>3. TaskOnDisk(x)
        BY <1>0, <2>2, TaskFacts, TaskIs DEF TaskOnDisk
      <4> QED
        BY <4>1, <4>2, <4>3
    <3> QED
      BY <2>1, <2>2, <3>1, GotoIs DEF TaskSound
  <2>3. CASE Done(t)
    BY <2>3, IdleSound DEF Done
  <2> QED
    BY <1>3, <2>2, <2>3
<1>4. CASE /\ cache = NoCopy /\ BlockFile \in whole /\ content \in Block
           /\ task' = [task EXCEPT ![t].pc = "list",
                                   ![t].read = [entry |-> <<content>>, revoked |-> FALSE]]
  <2> DEFINE c == [entry |-> <<content>>, revoked |-> FALSE]
             x == [task[t] EXCEPT !.pc = "list", !.read = c]
  <2>1. task' = [task EXCEPT ![t] = x]
    BY <1>4, TaskFacts DEF Task
  <2>2. <<content>> \in Chain /\ Trail(<<content>>) = {}
    BY <1>4 DEF Chain, Text, Trail
  <2>3. c \in Copy /\ OnDisk(c)
    BY <1>4, <2>2 DEF Copy, OnDisk, Present
  <2>4. x \in Task /\ TaskFits(x) /\ TaskOnDisk(x)
    <3>1. x \in Task
      BY <1>0, <2>3, TaskFacts, TaskIs, Places
    <3>2. TaskFits(x)
      BY <1>0, <2>3, TaskFacts, TaskIs DEF TaskFits
    <3>3. TaskOnDisk(x)
      BY <1>0, <2>3, TaskFacts, TaskIs DEF TaskOnDisk
    <3> QED
      BY <3>1, <3>2, <3>3
  <2>5. spoiled # {} => Harmless(x)
    BY <1>0, <1>4, TaskFacts DEF Harmless, StoreInv, FilesSound, TornOrSpoiled, Task
  <2> QED
    BY <2>1, <2>4, <2>5 DEF TaskSound
<1>5. CASE Raise(t)
  BY <1>0, <1>5, RaiseSound
<1> QED
  BY <1>2, <1>3, <1>4, <1>5 DEF Look

\* Taking the copy out of the cache.
LEMMA TakeStep ==
    ASSUME StoreInv, NEW t \in Thread, Take(t)
    PROVE  StoreInv'
<1>0. task[t].pc = "take" /\ UNCHANGED <<files, cache, spoiled, overlapped>>
  BY DEF Take
<1>1. SUFFICES \E x : TaskSound(x) /\ task' = [task EXCEPT ![t] = x]
  BY <1>0, <1>1, TaskMoves, TaskFacts
<1>2. CASE Raise(t)
  BY <1>0, <1>2, RaiseSound
<1>3. CASE cache # NoCopy /\ Return(t, cache)
  <2>1. spoiled = {} /\ cache \in Copy /\ OnDisk(cache)
    BY <1>3, TaskFacts DEF StoreInv, FilesSound
  <2> QED
    BY <1>0, <1>3, <2>1, ReturnSound
<1> QED
  BY <1>2, <1>3 DEF Take

\* Listing the directory.
LEMMA ListStep ==
    ASSUME StoreInv, NEW t \in Thread, List(t)
    PROVE  StoreInv'
<1> DEFINE x == [task[t] EXCEPT !.pc = "read", !.names = SigFiles(Present)]
<1>0. /\ task[t].pc = "list" /\ UNCHANGED <<files, cache, spoiled, overlapped>>
      /\ task' = [task EXCEPT ![t] = x]
  BY TaskFacts DEF List, Task
<1>1. SigFiles(Present) \subseteq Entry
  BY DEF StoreInv, TypeOK, SigFiles, Present, File
<1>2. x \in Task /\ TaskFits(x)
  <2>1. x \in Task
    BY <1>0, <1>1, TaskFacts, TaskIs, Places
  <2>2. TaskFits(x)
    BY <1>0, <1>1, TaskFacts, TaskIs DEF TaskFits
  <2> QED
    BY <2>1, <2>2
<1>3. TaskOnDisk(x)
  BY <1>0, TaskFacts DEF Task, TaskOnDisk, SigFiles
<1>4. spoiled # {} => Harmless(x)
  BY <1>0, TaskFacts DEF Harmless, Task, StoreInv, TornOrSpoiled, SigFiles, Present
<1> HIDE DEF x
<1> QED
  BY <1>0, <1>2, <1>3, <1>4, TaskMoves, TaskFacts DEF TaskSound

\* Reading the entry files, and walking along them.
LEMMA ReadStep ==
    ASSUME StoreInv, NEW t \in Thread, Read(t)
    PROVE  StoreInv'
<1>0. task[t].pc = "read" /\ UNCHANGED <<files, cache, spoiled, overlapped>>
  BY DEF Read
<1>1. SUFFICES \E x : TaskSound(x) /\ task' = [task EXCEPT ![t] = x]
  BY <1>0, <1>1, TaskMoves, TaskFacts
<1>2. CASE Raise(t)
  BY <1>0, <1>2, RaiseSound
<1>3. ASSUME task[t].names \cap torn = {},
             NEW e \in WalkEnds(task[t].read.entry[1], task[t].names),
             task' = [task EXCEPT
                       ![t].pc = "flag", ![t].names = {},
                       ![t].read = [entry |-> e, revoked |-> FALSE]]
      PROVE  \E x : TaskSound(x) /\ task' = [task EXCEPT ![t] = x]
  <2> DEFINE c == [entry |-> e, revoked |-> FALSE]
             x == [task[t] EXCEPT !.pc = "flag", !.names = {}, !.read = c]
  <2>1. task' = [task EXCEPT ![t] = x]
    BY <1>3, TaskFacts DEF Task
  <2>2. task[t].read \in Copy /\ task[t].read # NoCopy /\ OnDisk(task[t].read)
    BY <1>0, TaskFacts, NoCopyIsNone DEF TaskFits, TaskOnDisk
  <2>3. task[t].names \subseteq Entry /\ task[t].names \subseteq Present
    BY TaskFacts DEF Task, TaskOnDisk
  <2>4. e \in Chain
    <3>1. task[t].read.entry[1] \in Block
      BY <2>2 DEF Copy, Chain
    <3>2. <<task[t].read.entry[1]>> \in Chain
      BY <3>1 DEF Chain, Text
    <3> QED
      BY <1>3, <2>3, <3>2 DEF WalkEnds, Entry
  <2>5. c \in Copy /\ OnDisk(c)
    BY <1>3, <2>2, <2>3, <2>4 DEF Copy, OnDisk, WalkEnds
  <2>6. x \in Task /\ TaskFits(x) /\ TaskOnDisk(x)
    <3>1. x \in Task
      BY <1>0, <2>5, TaskFacts, TaskIs, Places
    <3>2. TaskFits(x)
      BY <1>0, <2>5, TaskFacts, TaskIs DEF TaskFits
    <3>3. TaskOnDisk(x)
      BY <1>0, <2>5, TaskFacts, TaskIs DEF TaskOnDisk
    <3> QED
      BY <3>1, <3>2, <3>3
  <2>7. spoiled # {} => Harmless(x)
    <3> SUFFICES ASSUME spoiled # {} PROVE Harmless(x)
      OBVIOUS
    <3>1. BlockFile \notin spoiled /\ SigFiles(spoiled) = {}
      BY <1>0, <1>3, TaskFacts DEF Harmless, StoreInv, TornOrSpoiled, SigFiles
    <3>2. RevokeFile \in spoiled
      BY <3>1 DEF SigFiles
    <3> QED
      BY <3>2, TaskFacts DEF Harmless, Task
  <2> QED
    BY <2>1, <2>6, <2>7 DEF TaskSound
<1> QED
  BY <1>2, <1>3 DEF Read

\* Looking for the revocation.
LEMMA FlagStep ==
    ASSUME StoreInv, NEW t \in Thread, Flag(t)
    PROVE  StoreInv'
<1>0. task[t].pc = "flag" /\ UNCHANGED <<files, cache, spoiled, overlapped>>
  BY DEF Flag
<1>1. SUFFICES \E x : TaskSound(x) /\ task' = [task EXCEPT ![t] = x]
  BY <1>0, <1>1, TaskMoves, TaskFacts
<1>2. CASE Raise(t)
  BY <1>0, <1>2, RaiseSound
<1>3. CASE /\ RevokeFile \notin torn
           /\ task' = [task EXCEPT ![t].pc = "fill",
                                   ![t].read = [entry |-> task[t].read.entry,
                                                revoked |-> RevokeFile \in whole]]
  <2> DEFINE c == [entry |-> task[t].read.entry, revoked |-> RevokeFile \in whole]
             x == [task[t] EXCEPT !.pc = "fill", !.read = c]
  <2>1. task' = [task EXCEPT ![t] = x]
    BY <1>3, TaskFacts DEF Task
  <2>2. task[t].read \in Copy /\ task[t].read # NoCopy /\ OnDisk(task[t].read)
    BY <1>0, TaskFacts, NoCopyIsNone DEF TaskFits, TaskOnDisk
  <2>3. c \in Copy /\ OnDisk(c)
    BY <2>2 DEF Copy, OnDisk, Present
  <2>4. x \in Task /\ TaskFits(x) /\ TaskOnDisk(x)
    <3>1. x \in Task
      BY <1>0, <2>3, TaskFacts, TaskIs, Places
    <3>2. TaskFits(x)
      BY <1>0, <2>3, TaskFacts, TaskIs DEF TaskFits
    <3>3. TaskOnDisk(x)
      BY <1>0, <2>3, TaskFacts, TaskIs DEF TaskOnDisk
    <3> QED
      BY <3>1, <3>2, <3>3
  <2>5. spoiled = {}
    BY <1>0, <1>3, TaskFacts DEF Harmless, StoreInv, TornOrSpoiled
  <2> QED
    BY <2>1, <2>4, <2>5 DEF TaskSound
<1> QED
  BY <1>2, <1>3 DEF Flag

\* Caching what has been read.
LEMMA FillStep ==
    ASSUME StoreInv, NEW t \in Thread, Fill(t)
    PROVE  StoreInv'
<1>0. task[t].pc = "fill" /\ UNCHANGED <<files, spoiled, overlapped>> /\ cache' = task[t].read
  BY DEF Fill
<1>1. spoiled = {}
  BY <1>0, TaskFacts DEF Harmless
<1>2. task[t].read \in Copy /\ OnDisk(task[t].read)
  BY <1>0, TaskFacts, NoCopyIsNone DEF TaskFits, TaskOnDisk
<1>3. PICK x : TaskSound(x) /\ task' = [task EXCEPT ![t] = x]
  BY <1>0, <1>1, <1>2, ReturnSound DEF Fill
<1> QED
  BY <1>0, <1>1, <1>2, <1>3, TaskMoves, TaskFacts

-----------------------------------------------------------------------------
(* The handlers and syncs.                                                  *)

\* A signature on the copy is an entry, and so is one from a peer.
LEMMA LinkedIsEntry ==
    ASSUME DirStoreAssumption, StoreInv, NEW t \in Thread,
           task[t].pc = "decide", task[t].op \in {"sign", "receive"}
    PROVE  Linked(t) \in Entry
<1>1. CASE task[t].op = "receive"
  BY <1>1, TaskFacts DEF Linked, TaskFits
<1>2. ASSUME task[t].op = "sign", NEW s \in Sig, task[t].entry = <<s>>
      PROVE  Linked(t) \in Entry
  <2> DEFINE c == task[t].copy.entry
             l == c \o <<s>>
  <2>1. task[t].copy \in Copy
    BY TaskFacts DEF TaskFits
  <2>2. /\ c \in Seq(Block \cup Sig) /\ Len(c) > 0 /\ c[1] \in Block
        /\ \A k \in 2 .. Len(c) : c[k] \in Sig
    BY <2>1 DEF Copy, Chain, Text
  <2> HIDE DEF c
  <2>3. /\ l \in Seq(Block \cup Sig) /\ Len(l) = Len(c) + 1 /\ Len(c) \in Nat
        /\ \A k \in 1 .. Len(c) : l[k] = c[k]
        /\ l[Len(c) + 1] = s
    BY <2>2
  <2>4. Linked(t) = l
    BY <1>2 DEF Linked, c
  <2> HIDE DEF l
  <2>5. Len(l) > 1 /\ l[1] \in Block /\ \A k \in 2 .. Len(l) : l[k] \in Sig
    BY <2>2, <2>3
  <2> QED
    BY <2>3, <2>4, <2>5 DEF Entry, Chain, Text
<1> QED
  BY <1>1, <1>2, TaskFacts DEF TaskFits

\* Refusing, or reading once more before the write.
LEMMA DecideStep ==
    ASSUME StoreInv, NEW t \in Thread, Decide(t)
    PROVE  StoreInv'
<1>0. task[t].pc = "decide" /\ UNCHANGED <<files, cache, spoiled, overlapped>>
  BY DEF Decide
<1>1. SUFFICES \E x : TaskSound(x) /\ task' = [task EXCEPT ![t] = x]
  BY <1>0, <1>1, TaskMoves, TaskFacts
<1>2. spoiled = {} /\ task[t].copy \in Copy
  BY <1>0, TaskFacts DEF Harmless, TaskFits
<1>3. CASE Done(t)
  BY <1>3, IdleSound DEF Done
<1>4. CASE /\ task[t].op \in {"sign", "receive", "revoke"}
           /\ task' = [Get(t, "open") EXCEPT ![t].entry = Linked(t)]
  <2> DEFINE e == Linked(t)
             x == [task[t] EXCEPT !.pc = "look", !.then = "open", !.entry = e]
  <2>1. task' = [task EXCEPT ![t] = x]
    BY <1>4, TaskFacts DEF Get, Task
  <2>2. e \in Text /\ (task[t].op # "revoke" => e \in Entry)
    <3>1. CASE task[t].op = "revoke"
      BY <3>1, TaskFacts DEF Linked, Task
    <3>2. CASE task[t].op # "revoke"
      BY <1>0, <1>4, <3>2, DirStoreAssumption, LinkedIsEntry DEF Entry, Chain
    <3> QED
      BY <3>1, <3>2
  <2> HIDE DEF e
  <2>3. x \in Task
    BY <2>2, TaskFacts, TaskIs, Places
  <2>4. TaskFits(x)
    BY <1>2, <1>4, <2>2, TaskFacts DEF Task, TaskFits
  <2>5. TaskOnDisk(x)
    BY TaskFacts DEF Task, TaskOnDisk
  <2> QED
    BY <1>2, <2>1, <2>3, <2>4, <2>5 DEF TaskSound, e
<1>5. CASE /\ task[t].op = "apply"
           /\ task' = [task EXCEPT ![t].pc = "each",
                                   ![t].known = Signers(task[t].copy.entry)]
  <2> DEFINE K == Signers(task[t].copy.entry)
             x == [task[t] EXCEPT !.pc = "each", !.known = K]
  <2>1. task' = [task EXCEPT ![t] = x]
    BY <1>5, TaskFacts DEF Task
  <2>2. K \in SUBSET Key
    BY <1>2, DirStoreAssumption DEF Signers, Copy, Chain, DirStoreAssumption
  <2> HIDE DEF K
  <2>3. x \in Task
    BY <2>2, TaskFacts, TaskIs, Places
  <2>4. TaskFits(x) /\ TaskOnDisk(x)
    BY <1>0, <1>2, <1>5, TaskFacts DEF Task, TaskFits, TaskOnDisk
  <2> QED
    BY <1>2, <2>1, <2>3, <2>4 DEF TaskSound, K
<1> QED
  BY <1>3, <1>4, <1>5 DEF Decide

\* Going through a peer's entries.
LEMMA EachStep ==
    ASSUME StoreInv, NEW t \in Thread, Each(t)
    PROVE  StoreInv'
<1>0. task[t].pc = "each" /\ UNCHANGED <<files, cache, spoiled, overlapped>>
  BY DEF Each
<1>1. SUFFICES \E x : TaskSound(x) /\ task' = [task EXCEPT ![t] = x]
  BY <1>0, <1>1, TaskMoves, TaskFacts
<1>2. /\ spoiled = {} /\ task[t].copy \in Copy /\ task[t].op = "apply"
      /\ task[t].todo \in Seq(Entry)
  BY <1>0, TaskFacts DEF Harmless, TaskFits, Task
<1>3. CASE Done(t)
  BY <1>3, IdleSound DEF Done
<1>4. CASE task[t].todo # <<>> /\ task' = [task EXCEPT ![t].todo = Tail(task[t].todo)]
  <2> DEFINE x == [task[t] EXCEPT !.todo = Tail(task[t].todo)]
  <2>1. task' = [task EXCEPT ![t] = x]
    BY <1>4, TaskFacts DEF Task
  <2>2. Tail(task[t].todo) \in Seq(Entry)
    BY <1>2, <1>4
  <2>3. x \in Task /\ TaskFits(x) /\ TaskOnDisk(x)
    <3>1. x \in Task
      BY <2>2, TaskFacts, TaskIs, Places
    <3>2. TaskFits(x)
      BY <2>2, TaskFacts, TaskIs DEF TaskFits
    <3>3. TaskOnDisk(x)
      BY <2>2, TaskFacts, TaskIs DEF TaskOnDisk
    <3> QED
      BY <3>1, <3>2, <3>3
  <2> QED
    BY <1>2, <2>1, <2>3 DEF TaskSound
<1>5. CASE /\ task[t].todo # <<>>
           /\ task' = [Get(t, "open") EXCEPT ![t].entry = Head(task[t].todo),
                                             ![t].todo = Tail(task[t].todo)]
  <2> DEFINE x == [task[t] EXCEPT !.pc = "look", !.then = "open",
                     !.entry = Head(task[t].todo), !.todo = Tail(task[t].todo)]
  <2>1. task' = [task EXCEPT ![t] = x]
    BY <1>5, TaskFacts DEF Get, Task
  <2>2. /\ Tail(task[t].todo) \in Seq(Entry)
        /\ Head(task[t].todo) \in Entry /\ Head(task[t].todo) \in Text
    BY <1>2, <1>5 DEF Entry, Chain
  <2>3. x \in Task
    BY <2>2, TaskFacts, TaskIs, Places
  <2>4. TaskFits(x) /\ TaskOnDisk(x)
    BY <1>2, <2>2, TaskFacts DEF Task, TaskFits, TaskOnDisk
  <2> QED
    BY <1>2, <2>1, <2>3, <2>4 DEF TaskSound
<1> QED
  BY <1>3, <1>4, <1>5 DEF Each

-----------------------------------------------------------------------------
(* The files.                                                               *)

\* add's second look.
LEMMA ExistsStep ==
    ASSUME StoreInv, NEW t \in Thread, Exists(t)
    PROVE  StoreInv'
<1>0. /\ task[t].pc = "exists" /\ UNCHANGED <<files, cache, spoiled>>
      /\ overlapped' \in BOOLEAN
  BY TaskFacts DEF Exists
<1>1. SUFFICES \E x : TaskSound(x) /\ task' = [task EXCEPT ![t] = x]
  BY <1>0, <1>1, TaskMoves
<1>2. CASE Done(t)
  BY <1>2, IdleSound DEF Done
<1>3. CASE Goto(t, "open")
  <2> DEFINE x == [task[t] EXCEPT !.pc = "open"]
  <2>1. spoiled = {}
    BY <1>0, TaskFacts DEF Harmless
  <2>2. x \in Task /\ TaskFits(x) /\ TaskOnDisk(x)
    <3>1. x \in Task
      BY <1>0, TaskFacts, TaskIs, Places
    <3>2. TaskFits(x)
      BY <1>0, TaskFacts, TaskIs DEF TaskFits
    <3>3. TaskOnDisk(x)
      BY <1>0, TaskFacts, TaskIs DEF TaskOnDisk
    <3> QED
      BY <3>1, <3>2, <3>3
  <2> QED
    BY <1>3, <2>1, <2>2, GotoIs DEF TaskSound
<1> QED
  BY <1>2, <1>3 DEF Exists

\* The copy leaves the cache.
LEMMA PopStep ==
    ASSUME StoreInv, NEW t \in Thread, Pop(t)
    PROVE  StoreInv'
<1>0. /\ task[t].pc = "pop" /\ UNCHANGED <<files, spoiled>> /\ cache' = NoCopy
      /\ overlapped' \in BOOLEAN
  BY TaskFacts DEF Pop
<1>1. SUFFICES \E x : TaskSound(x) /\ task' = [task EXCEPT ![t] = x]
  BY <1>0, <1>1, TaskMoves
<1>2. spoiled = {} /\ task[t].op # "add"
  BY <1>0, TaskFacts DEF Harmless, TaskFits
<1>3. CASE Done(t)
  BY <1>3, IdleSound DEF Done
<1>4. CASE task[t].op \in {"sign", "revoke"} /\ task' = Get(t, "answer")
  <2> DEFINE x == [task[t] EXCEPT !.pc = "look", !.then = "answer"]
  <2>1. task' = [task EXCEPT ![t] = x]
    BY <1>4, TaskFacts DEF Get, Task
  <2>2. x \in Task
    BY TaskFacts, TaskIs, Places
  <2>3. TaskFits(x) /\ TaskOnDisk(x)
    BY <1>0, <1>4, TaskFacts DEF Task, TaskFits, TaskOnDisk
  <2> QED
    BY <1>2, <2>1, <2>2, <2>3 DEF TaskSound
<1>5. CASE /\ task[t].op = "apply"
           /\ task' = [Get(t, "each") EXCEPT
                        ![t].entry = <<>>,
                        ![t].known = task[t].known \cup {Signer(task[t].entry)}]
  <2> DEFINE K == task[t].known \cup {Signer(task[t].entry)}
             x == [task[t] EXCEPT !.pc = "look", !.then = "each", !.entry = <<>>, !.known = K]
  <2>1. task' = [task EXCEPT ![t] = x]
    BY <1>5, TaskFacts DEF Get, Task
  <2>2. task[t].entry \in Entry /\ task[t].copy \in Copy
    BY <1>0, <1>5, TaskFacts DEF TaskFits
  <2>3. Signer(task[t].entry) \in Key
    <3>1. Len(task[t].entry) \in 2 .. Len(task[t].entry)
      BY <2>2 DEF Entry, Chain, Text
    <3> QED
      BY <2>2, <3>1, DirStoreAssumption DEF Entry, Chain, Signer, Newest, DirStoreAssumption
  <2>4. K \in SUBSET Key /\ <<>> \in Text
    BY <2>3, TaskFacts DEF Task, Text
  <2> HIDE DEF K
  <2>5. x \in Task
    BY <2>4, TaskFacts, TaskIs, Places
  <2>6. TaskFits(x) /\ TaskOnDisk(x)
    BY <1>0, <1>5, <2>2, TaskFacts DEF Task, TaskFits, TaskOnDisk
  <2> QED
    BY <1>2, <2>1, <2>5, <2>6 DEF TaskSound, K
<1> QED
  BY <1>3, <1>4, <1>5 DEF Pop

\* What is opened is a file, and not before its block.
LEMMA TargetIsFile ==
    ASSUME StoreInv, NEW t \in Thread, task[t].pc \in {"open", "write"}
    PROVE  Target(t) \in File /\ (Target(t) = BlockFile \/ BlockFile \in Present)
<1>1. CASE task[t].op = "add"
  BY <1>1 DEF Target, File
<1>2. CASE task[t].op # "add"
  <2>1. /\ task[t].copy \in Copy /\ task[t].op \in {"sign", "receive", "revoke", "apply"}
        /\ task[t].op # "revoke" => task[t].entry \in Entry
    BY <1>2, TaskFacts DEF TaskFits
  <2>2. BlockFile \in Present
    BY <2>1, TaskFacts, NoCopyIsNone DEF TaskOnDisk, OnDisk
  <2> QED
    BY <2>1, <2>2 DEF Target, File
<1> QED
  BY <1>1, <1>2

\* Opening a file makes it torn.
LEMMA OpenStep ==
    ASSUME StoreInv, NEW t \in Thread, Open(t)
    PROVE  StoreInv'
<1> DEFINE f == Target(t)
           x == [task[t] EXCEPT !.pc = "write"]
<1>0. /\ task[t].pc = "open" /\ UNCHANGED <<cache, spoiled>> /\ overlapped' \in BOOLEAN
      /\ torn' = torn \cup {f} /\ whole' = whole \ {f}
      /\ content' \in {"none", content}
      /\ task' = [task EXCEPT ![t] = x]
  BY TaskFacts, GotoIs DEF Open
<1>1. spoiled = {}
  BY <1>0, TaskFacts DEF Harmless
<1>2. f \in File /\ (f = BlockFile \/ BlockFile \in Present)
  BY <1>0, TargetIsFile
<1>3. Present' = Present \cup {f}
  BY <1>0 DEF Present
<1>4. TaskSound(x)
  <2>1. x \in Task
    BY TaskFacts, TaskIs, Places
  <2>2. TaskFits(x) /\ TaskOnDisk(x)
    BY <1>0, TaskFacts DEF Task, TaskFits, TaskOnDisk
  <2> QED
    BY <1>1, <2>1, <2>2 DEF TaskSound
<1>5. /\ task' \in [Thread -> Task]
      /\ task'[t] = x /\ \A u \in Thread \ {t} : task'[u] = task[u]
  BY <1>0, <1>4, TaskFacts DEF TaskSound
<1>6. f' = f
  BY <1>5 DEF Target
<1>7. TornOrSpoiled'
  <2>1. \A g : \A u \in Thread : task[u].pc = "write" /\ Target(u) = g
                               => task'[u].pc = "write" /\ Target(u)' = g
    BY <1>0, <1>5 DEF Target
  <2>2. task'[t].pc = "write"
    BY <1>5, TaskFacts DEF Task
  <2> HIDE DEF f, x
  <2>3. \E u \in Thread : task'[u].pc = "write" /\ Target(u)' = f
    BY <1>6, <2>2 DEF f
  <2> QED
    BY <1>0, <1>1, <2>1, <2>3 DEF TornOrSpoiled, StoreInv
<1> HIDE DEF f, x
<1>8. TypeOK'
  BY <1>0, <1>2, <1>5 DEF StoreInv, TypeOK
<1>9. FilesSound'
  BY <1>0, <1>1, <1>2, <1>3 DEF StoreInv, FilesSound, OnDisk
<1>10. \A u \in Thread : TaskSound(task[u])'
  <2>1. \A u \in Thread : TaskSound(task'[u])
    BY <1>4, <1>5 DEF StoreInv
  <2>2. ASSUME NEW u \in Thread PROVE TaskSound(task[u])'
    <3>1. TaskSound(task'[u])
      BY <2>1
    <3> QED
      BY <1>0, <1>1, <1>3, <3>1 DEF TaskSound, TaskFits, TaskOnDisk, OnDisk, Harmless
  <2> QED
    BY <2>2
<1> QED
  BY <1>7, <1>8, <1>9, <1>10 DEF StoreInv

\* Closing it makes it whole, unless somebody has opened it again.
LEMMA WriteStep ==
    ASSUME StoreInv, NEW t \in Thread, Write(t)
    PROVE  StoreInv'
<1> DEFINE f == Target(t)
<1>0. /\ task[t].pc = "write" /\ UNCHANGED <<cache, spoiled, overlapped>>
      /\ torn' = torn \ {f} /\ whole' = whole \cup {f}
  BY DEF Write
<1>1. spoiled = {}
  BY <1>0, TaskFacts DEF Harmless
<1>2. f \in File /\ (f = BlockFile \/ BlockFile \in Present)
  BY <1>0, TargetIsFile
<1>3. Present' = Present \cup {f}
  BY <1>0 DEF Present
<1>4. content' \in Block \cup {"none", "mixed"}
  BY <1>0, TaskFacts DEF Write, StoreInv, TypeOK, TaskFits
<1>5. PICK x : TaskSound(x) /\ task' = [task EXCEPT ![t] = x]
  <2>1. CASE task[t].op # "add" /\ Goto(t, "pop")
    <3> DEFINE x == [task[t] EXCEPT !.pc = "pop"]
    <3>1. x \in Task
      BY TaskFacts, TaskIs, Places
    <3>2. TaskFits(x) /\ TaskOnDisk(x)
      BY <1>0, <2>1, TaskFacts DEF Task, TaskFits, TaskOnDisk
    <3> QED
      BY <1>1, <2>1, <3>1, <3>2, GotoIs DEF TaskSound
  <2>2. CASE Done(t)
    BY <2>2, IdleSound DEF Done
  <2>3. CASE /\ task[t].op = "add"
             /\ task' = [Get(t, "decide") EXCEPT ![t].op = "apply", ![t].entry = <<>>]
    <3> DEFINE x == [task[t] EXCEPT !.pc = "look", !.then = "decide",
                                    !.op = "apply", !.entry = <<>>]
    <3>1. task' = [task EXCEPT ![t] = x]
      BY <2>3, TaskFacts DEF Get, Task
    <3>2. x \in Task
      <4>1. <<>> \in Text
        BY DEF Text
      <4> QED
        BY <4>1, TaskFacts, TaskIs, Places
    <3>3. TaskFits(x)
      <4>1. x.pc = "look" /\ x.op = "apply" /\ x.then = "decide"
        BY TaskFacts, TaskIs
      <4> HIDE DEF x
      <4> QED
        BY <4>1 DEF TaskFits
    <3>4. TaskOnDisk(x)
      BY TaskFacts, TaskIs DEF TaskOnDisk
    <3> QED
      BY <1>1, <3>1, <3>2, <3>3, <3>4 DEF TaskSound
  <2> QED
    BY <2>1, <2>2, <2>3 DEF Write
<1>6. /\ task' \in [Thread -> Task]
      /\ task'[t] = x /\ \A u \in Thread \ {t} : task'[u] = task[u]
  BY <1>5, TaskFacts DEF TaskSound
<1>7. TornOrSpoiled'
  <2>1. ASSUME NEW g \in torn \ {f}
        PROVE  \E u \in Thread : task'[u].pc = "write" /\ Target(u)' = g
    <3>1. PICK u \in Thread : task[u].pc = "write" /\ Target(u) = g
      BY <1>1, <2>1 DEF StoreInv, TornOrSpoiled
    <3>2. u # t
      BY <2>1, <3>1
    <3>3. task'[u] = task[u]
      BY <1>6, <3>2
    <3> QED
      BY <3>1, <3>3 DEF Target
  <2> QED
    BY <1>0, <1>1, <2>1 DEF TornOrSpoiled
<1> HIDE DEF f
<1>8. TypeOK'
  BY <1>0, <1>2, <1>4, <1>6 DEF StoreInv, TypeOK
<1>9. FilesSound'
  BY <1>0, <1>1, <1>2, <1>3 DEF StoreInv, FilesSound, OnDisk
<1>10. \A u \in Thread : TaskSound(task[u])'
  <2>1. \A u \in Thread : TaskSound(task'[u])
    BY <1>5, <1>6 DEF StoreInv
  <2>2. ASSUME NEW u \in Thread PROVE TaskSound(task[u])'
    <3>1. TaskSound(task'[u])
      BY <2>1
    <3> QED
      BY <1>0, <1>1, <1>3, <3>1 DEF TaskSound, TaskFits, TaskOnDisk, OnDisk, Harmless
  <2> QED
    BY <2>2
<1> QED
  BY <1>7, <1>8, <1>9, <1>10 DEF StoreInv

-----------------------------------------------------------------------------
(* The invariant.                                                           *)

\* Nothing is cached and nobody works.
LEMMA EvictStep ==
    ASSUME StoreInv, Evict
    PROVE  StoreInv'
<1>1. UNCHANGED <<files, task, spoiled, overlapped>> /\ cache' = NoCopy
  BY DEF Evict
<1>2. TypeOK' /\ FilesSound' /\ TornOrSpoiled'
  BY <1>1 DEF StoreInv, files, TypeOK, FilesSound, TornOrSpoiled, Present, Target
<1>3. \A u \in Thread : TaskSound(task[u])'
  BY <1>1 DEF StoreInv, files, TaskSound, TaskFits, TaskOnDisk, OnDisk, Present, Harmless
<1> QED
  BY <1>2, <1>3 DEF StoreInv

\* What is torn when the node stops is spoiled, and all requests are gone.
LEMMA RestartStep ==
    ASSUME StoreInv, Restart
    PROVE  StoreInv'
<1>1. /\ UNCHANGED files /\ cache' = NoCopy /\ task' = [t \in Thread |-> Idle]
      /\ spoiled' = spoiled \cup torn /\ overlapped' = FALSE
  BY DEF Restart
<1>2. spoiled' = torn /\ torn' = torn
  BY <1>1 DEF StoreInv, TornOrSpoiled, files
<1>3. Idle \in Task
  BY IdleSound DEF TaskSound
<1>4. TypeOK' /\ FilesSound' /\ TornOrSpoiled'
  BY <1>1, <1>2, <1>3 DEF StoreInv, files, TypeOK, FilesSound, TornOrSpoiled, Present
<1>5. ASSUME NEW u \in Thread PROVE TaskSound(task[u])'
  <2>1. task'[u] = Idle
    BY <1>1
  <2> QED
    BY <1>3, <2>1, IdleSound
       DEF TaskSound, TaskFits, TaskOnDisk, Harmless, Idle
<1> QED
  BY <1>4, <1>5 DEF StoreInv

\* An empty directory.
LEMMA StoreInvInit == Init => StoreInv
<1> SUFFICES ASSUME Init PROVE StoreInv
  OBVIOUS
<1>1. Idle \in Task
  BY IdleSound DEF TaskSound
<1>2. TypeOK /\ FilesSound /\ TornOrSpoiled
  BY <1>1 DEF Init, TypeOK, FilesSound, TornOrSpoiled, Present
<1>3. \A t \in Thread : TaskSound(task[t])
  BY IdleSound DEF Init
<1> QED
  BY <1>2, <1>3 DEF StoreInv

\* Every step keeps the invariant.
LEMMA StoreInvNext == StoreInv /\ [Next]_vars => StoreInv'
<1> SUFFICES ASSUME StoreInv, [Next]_vars PROVE StoreInv'
  OBVIOUS
<1>1. CASE UNCHANGED vars
  <2>1. TypeOK'
    BY <1>1 DEF StoreInv, vars, files, TypeOK
  <2>2. FilesSound'
    BY <1>1 DEF StoreInv, vars, files, FilesSound, OnDisk, Present
  <2>3. TornOrSpoiled'
    BY <1>1 DEF StoreInv, vars, files, TornOrSpoiled, Target
  <2>4. \A u \in Thread : TaskSound(task[u])'
    BY <1>1 DEF StoreInv, vars, files, TaskSound, TaskFits, TaskOnDisk, OnDisk, Present,
                Harmless
  <2> QED
    BY <2>1, <2>2, <2>3, <2>4 DEF StoreInv
<1>2. ASSUME NEW t \in Thread, Step(t) PROVE StoreInv'
  BY <1>2, LookStep, TakeStep, ListStep, ReadStep, FlagStep, FillStep, DecideStep, EachStep,
     ExistsStep, OpenStep, WriteStep, PopStep DEF Step
<1>3. Loop \in Thread /\ Worker \subseteq Thread /\ <<>> \in Text /\ <<>> \in Seq(Entry)
  BY DEF Thread, Text
<1>4. ASSUME NEW t \in Thread, GetBlock(t) PROVE StoreInv'
  BY <1>3, <1>4, RequestStep DEF GetBlock
<1>5. ASSUME NEW b \in Block, AddBlock(b) \/ RevokeBlock(b) PROVE StoreInv'
  <2>1. <<b>> \in Text /\ <<b>> # <<>> /\ <<b>>[1] = b
    BY DEF Text
  <2> QED
    BY <1>3, <1>5, <2>1, RequestStep DEF AddBlock, RevokeBlock
<1>6. ASSUME NEW s \in Sig, SignBlock(s) PROVE StoreInv'
  <2>1. <<s>> \in Text
    BY DEF Text
  <2> QED
    BY <1>3, <1>6, <2>1, RequestStep DEF SignBlock
<1>7. ASSUME NEW e \in Offered, ReceiveSig(e) PROVE StoreInv'
  <2>1. e \in Entry /\ e \in Text
    <3>1. 1 \in 1 .. Len(e)
      BY DirStoreAssumption DEF DirStoreAssumption
    <3>2. e \in Entry
      BY <3>1, DirStoreAssumption, ListedEntries
    <3> QED
      BY <3>2 DEF Entry, Chain
  <2> QED
    BY <1>3, <1>7, <2>1, RequestStep DEF ReceiveSig
<1>8. ASSUME NEW t \in Worker, NEW e \in Offered, NEW k \in 1 .. Len(e),
             SyncSigChain(t, e, k) \/ FetchAndStore(t, e, k)
      PROVE  StoreInv'
  <2>1. Listed(e, k) \in Seq(Entry) /\ e \in Entry
    BY DirStoreAssumption, ListedEntries
  <2>2. <<e[1]>> \in Text /\ <<e[1]>> # <<>> /\ <<e[1]>>[1] \in Block
    BY <2>1 DEF Entry, Chain, Text
  <2> HIDE DEF Listed
  <2> QED
    BY <1>3, <1>8, <2>1, <2>2, RequestStep DEF SyncSigChain, FetchAndStore
<1>9. (\E t \in Thread : Step(t)) => StoreInv'
  BY <1>2
<1> QED
  BY <1>1, <1>4, <1>5, <1>6, <1>7, <1>8, <1>9, EvictStep, RestartStep DEF Next

\* The inductive invariant of the store.
THEOREM StoreInvariant == Spec => []StoreInv
<1> QED
  BY StoreInvInit, StoreInvNext, PTL DEF Spec

\* Every variable keeps its type: a list that get returns begins with a block and goes on
\* with signatures, and existing_sigs names signers.
THEOREM StoreTypes == Spec => []TypeOK
<1>1. StoreInv => TypeOK
  BY DEF StoreInv
<1> QED
  BY <1>1, StoreInvariant, PTL

\* No block that get returns is ahead of the files, whoever writes meanwhile (DirStore.get).
THEOREM CopiesAreOnDisk == Spec => []CopiesOnDisk
<1>1. StoreInv => CopiesOnDisk
  BY DEF StoreInv, FilesSound, TaskSound, TaskOnDisk, OnDisk, CopiesOnDisk, Copies
<1> QED
  BY <1>1, StoreInvariant, PTL

\* A file that was open when the node stopped is never written again, and no other file
\* stays without its text (_atomic_write).
THEOREM SpoiledForGood == Spec => []TornOrSpoiled
<1>1. StoreInv => TornOrSpoiled
  BY DEF StoreInv
<1> QED
  BY <1>1, StoreInvariant, PTL

-----------------------------------------------------------------------------
(* The revocation is written once.                                          *)

\* A handler that has the block knows it is revoked, or is not about to revoke it.
LoopKnows(x) ==
    x.op = "revoke" => /\ x.pc = "decide" => x.copy.revoked
                       /\ x.then # "open" /\ x.pc # "open"

\* It has written the revocation and is about to invalidate the cache.
Popping == task[Loop].pc = "pop" /\ task[Loop].op = "revoke"

\* Once the revocation is whole and the cache has been invalidated, what is cached, or
\* about to be, shows it, unless an overlap was noticed.
Shown ==
    /\ cache # NoCopy => cache.revoked
    /\ \A t \in Thread : task[t].pc = "fill" => task[t].read.revoked

RevokeInv ==
    /\ \A w \in Worker : task[w].op # "revoke"
    /\ RevokeFile \in whole /\ ~overlapped => LoopKnows(task[Loop]) /\ (Popping \/ Shown)

\* The revocation's file is written by the thread that revokes.
LEMMA RevokersTarget ==
    ASSUME StoreInv, NEW t \in Thread, task[t].pc \in {"open", "write"}
    PROVE  /\ Target(t) = RevokeFile => task[t].op = "revoke"
           /\ Target(t) = BlockFile => task[t].op = "add"
<1>1. RevokeFile # BlockFile
  <2>1. Len(RevokeFile) = 1 /\ Len(BlockFile) = 0
    BY DEF RevokeFile, BlockFile
  <2> QED
    BY <2>1
<1>2. ASSUME NEW e \in Entry
      PROVE  e # RevokeFile /\ e # BlockFile
  <2>1. Len(RevokeFile) = 1 /\ Len(BlockFile) = 0
    BY DEF RevokeFile, BlockFile
  <2>2. Len(e) \in Nat /\ Len(e) > 1
    BY DEF Entry, Chain, Text
  <2>3. \A n \in Nat : n > 1 => n # 0 /\ n # 1
    OBVIOUS
  <2> QED
    BY <2>1, <2>2, <2>3, Zenon
<1>3. CASE task[t].op = "add"
  <2>1. Target(t) = BlockFile
    BY <1>3 DEF Target
  <2> QED
    BY <1>1, <1>3, <2>1
<1>4. CASE task[t].op = "revoke"
  <2>1. Target(t) = RevokeFile
    BY <1>4 DEF Target
  <2> QED
    BY <1>1, <1>4, <2>1
<1>5. CASE task[t].op \notin {"add", "revoke"}
  <2>1. Target(t) = task[t].entry /\ task[t].entry \in Entry
    BY <1>5, TaskFacts DEF Target, TaskFits
  <2> QED
    BY <1>2, <2>1
<1> QED
  BY <1>3, <1>4, <1>5

LEMMA LoopIsThread == Loop \in Thread /\ Loop \notin Worker /\ Worker = Thread \ {Loop}
BY DirStoreAssumption DEF DirStoreAssumption, Thread

\* Steps that neither complete the revocation nor invalidate the cache.
LEMMA RevokeMoves ==
    ASSUME StoreInv, RevokeInv, NEW t \in Thread, NEW x, task' = [task EXCEPT ![t] = x],
           x.op = "revoke" => t = Loop, task[t].pc # "pop",
           RevokeFile \in whole' /\ ~overlapped' => RevokeFile \in whole /\ ~overlapped,
           RevokeFile \in whole /\ ~overlapped
             => /\ t = Loop => LoopKnows(x)
                /\ \/ Popping
                   \/ /\ x.pc = "fill" => x.read.revoked
                      /\ cache' = cache \/ cache' = NoCopy \/ cache'.revoked
    PROVE  RevokeInv'
<1>1. task'[t] = x /\ \A u \in Thread \ {t} : task'[u] = task[u]
  BY TaskFacts
<1>2. \A w \in Worker : task'[w].op # "revoke"
  BY <1>1, LoopIsThread DEF RevokeInv
<1>3. ASSUME RevokeFile \in whole, ~overlapped
      PROVE  LoopKnows(task'[Loop]) /\ (Popping' \/ Shown')
  <2>1. LoopKnows(task'[Loop])
    <3>1. CASE t = Loop
      BY <1>1, <1>3, <3>1
    <3>2. CASE t # Loop
      <4>1. task'[Loop] = task[Loop]
        BY <1>1, <3>2, LoopIsThread
      <4> QED
        BY <1>3, <4>1 DEF RevokeInv
    <3> QED
      BY <3>1, <3>2
  <2>2. CASE Popping
    BY <1>1, <2>1, <2>2, LoopIsThread DEF Popping
  <2>3. CASE ~Popping
    BY <1>1, <1>3, <2>1, <2>3 DEF RevokeInv, Shown
  <2> QED
    BY <2>1, <2>2, <2>3
<1> QED
  BY <1>2, <1>3 DEF RevokeInv, LoopKnows

\* The caller of get has its block, which shows the revocation.
LEMMA RevokeReturn ==
    ASSUME StoreInv, RevokeInv, NEW t \in Thread, NEW copy, Return(t, copy),
           task[t].pc # "pop", UNCHANGED <<files, overlapped>>,
           RevokeFile \in whole /\ ~overlapped
             => Popping \/ (copy.revoked /\ (cache' = cache \/ cache'.revoked))
    PROVE  RevokeInv'
<1>1. task[t].op = "revoke" => t = Loop
  BY LoopIsThread DEF RevokeInv
<1>2. CASE task[t].then = "answer"
  <2>1. task' = [task EXCEPT ![t] = Idle]
    BY <1>2 DEF Return, Done
  <2>2. Idle.op # "revoke" /\ Idle.pc # "fill" /\ LoopKnows(Idle)
    BY DEF Idle, LoopKnows
  <2> QED
    BY <2>1, <2>2, RevokeMoves DEF files
<1>3. CASE task[t].then # "answer"
  <2> DEFINE x == [task[t] EXCEPT
                     !.pc = task[t].then, !.then = "none",
                     !.copy = IF task[t].then = "open" THEN task[t].copy ELSE copy,
                     !.read = NoCopy, !.names = {}]
  <2>1. task' = [task EXCEPT ![t] = x]
    BY <1>3, TaskFacts DEF Return, Task
  <2>2. x.op = task[t].op /\ x.pc = task[t].then /\ x.then = "none"
        /\ (x.pc # "open" => x.copy = copy)
    BY TaskFacts DEF Task
  <2>3. x.pc # "fill"
    BY <2>2, TaskFacts DEF Task
  <2> HIDE DEF x
  <2>4. RevokeFile \in whole /\ ~overlapped /\ t = Loop => LoopKnows(x)
    <3> SUFFICES ASSUME RevokeFile \in whole, ~overlapped, t = Loop, task[t].op = "revoke"
                 PROVE  LoopKnows(x)
      BY <2>2 DEF LoopKnows
    <3>1. ~Popping /\ copy.revoked
      BY DEF Popping
    <3>2. task[t].then # "open"
      BY DEF RevokeInv, LoopKnows
    <3> QED
      BY <2>2, <3>1, <3>2 DEF LoopKnows
  <2> QED
    BY <1>1, <2>1, <2>2, <2>3, <2>4, RevokeMoves DEF files
<1> QED
  BY <1>2, <1>3

\* A request ends, or a sync goes on with its next entry.
LEMMA RevokeOver ==
    ASSUME StoreInv, RevokeInv, NEW t \in Thread, Done(t) \/ Raise(t),
           task[t].pc # "pop", UNCHANGED <<cache, overlapped>>,
           RevokeFile \in whole' => RevokeFile \in whole
    PROVE  RevokeInv'
<1>1. PICK x : /\ task' = [task EXCEPT ![t] = x]
               /\ x.op # "revoke" /\ x.pc # "fill"
  <2>1. Idle.op # "revoke" /\ Idle.pc # "fill"
    BY DEF Idle
  <2>2. CASE task[t].op = "apply" /\ task[t].then # "decide" /\ Raise(t)
    <3> DEFINE y == [Idle EXCEPT !.pc = "each", !.op = "apply", !.todo = task[t].todo,
                                 !.copy = task[t].copy, !.known = task[t].known]
    <3>1. y.op = "apply" /\ y.pc = "each" /\ task' = [task EXCEPT ![t] = y]
      BY <2>2 DEF Raise, Idle
    <3> QED
      BY <3>1
  <2>3. CASE task' = [task EXCEPT ![t] = Idle]
    BY <2>1, <2>3
  <2> QED
    BY <2>2, <2>3 DEF Raise, Done
<1> QED
  BY <1>1, RevokeMoves DEF LoopKnows

\* A request goes on without having read anything new, and without a block to revoke.
LEMMA RevokeGoesOn ==
    ASSUME StoreInv, RevokeInv, NEW t \in Thread, NEW x, task' = [task EXCEPT ![t] = x],
           x.op = "revoke" => task[t].op = "revoke" /\ x.then # "open"
                              /\ x.pc \notin {"open", "decide"},
           x.pc # "fill", task[t].pc # "pop", UNCHANGED cache,
           RevokeFile \in whole' /\ ~overlapped' => RevokeFile \in whole /\ ~overlapped
    PROVE  RevokeInv'
<1>1. task[t].op = "revoke" => t = Loop
  BY LoopIsThread DEF RevokeInv
<1> QED
  BY <1>1, RevokeMoves DEF LoopKnows

LEMMA RevokeRequest ==
    ASSUME StoreInv, RevokeInv, NEW t \in Thread, NEW op, NEW entry, NEW todo,
           op = "revoke" => t = Loop, Request(t, op, entry, todo)
    PROVE  RevokeInv'
<1> DEFINE x == [Idle EXCEPT !.pc = "look", !.op = op, !.entry = entry, !.todo = todo,
                              !.then = IF op = "get" THEN "answer" ELSE "decide"]
<1>1. x.op = op /\ x.pc = "look" /\ x.then # "open"
  BY DEF Idle
<1>2. /\ task' = [task EXCEPT ![t] = x] /\ UNCHANGED <<files, cache, overlapped>>
      /\ task[t].pc # "pop"
  BY DEF Request, Idle
<1> HIDE DEF x
<1> QED
  BY <1>1, <1>2, RevokeMoves DEF LoopKnows, files

LEMMA RevokeInvInit == Init => RevokeInv
BY LoopIsThread DEF Init, RevokeInv, Idle

\* The steps of get.
LEMMA RevokeInvGet ==
    ASSUME StoreInv, RevokeInv, NEW t \in Thread,
           Look(t) \/ Take(t) \/ List(t) \/ Read(t) \/ Flag(t) \/ Fill(t)
    PROVE  RevokeInv'
<1>1. CASE Look(t)
  <2>1. task[t].pc = "look" /\ UNCHANGED <<files, cache, overlapped>>
    BY <1>1 DEF Look
  <2>2. CASE Goto(t, "take") \/ (task[t].op = "add" /\ Goto(t, "exists"))
    <3>1. PICK pc \in {"take", "exists"} : Goto(t, pc)
      BY <2>2
    <3> DEFINE x == [task[t] EXCEPT !.pc = pc]
    <3>2. x.op = task[t].op /\ x.pc = pc /\ x.then = task[t].then
      BY TaskFacts DEF Task
    <3>3. t = Loop /\ RevokeFile \in whole /\ ~overlapped => LoopKnows(x)
      BY <3>2 DEF RevokeInv, LoopKnows
    <3>4. task' = [task EXCEPT ![t] = x]
      BY <3>1, GotoIs
    <3>5. x.op = "revoke" => t = Loop
      BY <3>2, LoopIsThread DEF RevokeInv
    <3> HIDE DEF x
    <3> QED
      BY <2>1, <3>2, <3>3, <3>4, <3>5, RevokeMoves DEF files
  <2>3. CASE task' = [task EXCEPT ![t].pc = "list",
                                  ![t].read = [entry |-> <<content>>, revoked |-> FALSE]]
    <3> DEFINE x == [task[t] EXCEPT !.pc = "list",
                                    !.read = [entry |-> <<content>>, revoked |-> FALSE]]
    <3>1. task' = [task EXCEPT ![t] = x]
      BY <2>3, TaskFacts DEF Task
    <3>2. x.op = task[t].op /\ x.pc = "list" /\ x.then = task[t].then
      BY TaskFacts DEF Task
    <3>3. t = Loop /\ RevokeFile \in whole /\ ~overlapped => LoopKnows(x)
      BY <3>2 DEF RevokeInv, LoopKnows
    <3>4. x.op = "revoke" => t = Loop
      BY <3>2, LoopIsThread DEF RevokeInv
    <3> HIDE DEF x
    <3> QED
      BY <2>1, <3>1, <3>2, <3>3, <3>4, RevokeMoves DEF files
  <2>4. CASE Done(t) \/ Raise(t)
    BY <2>1, <2>4, RevokeOver DEF files
  <2> QED
    BY <1>1, <2>2, <2>3, <2>4 DEF Look
<1>2. CASE Take(t)
  <2>1. task[t].pc = "take" /\ UNCHANGED <<files, cache, overlapped>>
    BY <1>2 DEF Take
  <2>2. CASE Raise(t)
    BY <2>1, <2>2, RevokeOver DEF files
  <2>3. CASE cache # NoCopy /\ Return(t, cache)
    <3>1. RevokeFile \in whole /\ ~overlapped => Popping \/ cache.revoked
      BY <2>3 DEF RevokeInv, Shown
    <3> QED
      BY <2>1, <2>3, <3>1, RevokeReturn
  <2> QED
    BY <1>2, <2>2, <2>3 DEF Take
<1>3. CASE List(t) \/ (Read(t) /\ task[t].names \cap torn = {})
  <2> DEFINE Goes(x) == /\ task' = [task EXCEPT ![t] = x] /\ x.op = task[t].op
                        /\ x.pc \in {"read", "flag"} /\ x.then = task[t].then
  <2>1. PICK x : Goes(x)
    <3>1. CASE List(t)
      <4> DEFINE y == [task[t] EXCEPT !.pc = "read", !.names = SigFiles(Present)]
      <4>1. Goes(y)
        BY <3>1, TaskFacts DEF List, Task
      <4> QED
        BY <4>1
    <3>2. CASE Read(t) /\ task[t].names \cap torn = {}
      <4>1. PICK e : task' = [task EXCEPT
                          ![t].pc = "flag", ![t].names = {},
                          ![t].read = [entry |-> e, revoked |-> FALSE]]
        BY <3>2 DEF Read
      <4> DEFINE y == [task[t] EXCEPT !.pc = "flag", !.names = {},
                                      !.read = [entry |-> e, revoked |-> FALSE]]
      <4>2. Goes(y)
        BY <4>1, TaskFacts, TaskIs, Places
      <4> QED
        BY <4>2
    <3> QED
      BY <1>3, <3>1, <3>2
  <2>2. task[t].pc \in {"list", "read"} /\ UNCHANGED <<files, cache, overlapped>>
    BY <1>3 DEF List, Read
  <2>3. t = Loop /\ RevokeFile \in whole /\ ~overlapped => LoopKnows(x)
    BY <2>1 DEF RevokeInv, LoopKnows
  <2>4. x.op = "revoke" => t = Loop
    BY <2>1, LoopIsThread DEF RevokeInv
  <2> QED
    BY <2>1, <2>2, <2>3, <2>4, RevokeMoves DEF files
<1>4. CASE (Read(t) /\ task[t].names \cap torn # {}) \/ (Flag(t) /\ RevokeFile \in torn)
  <2>1. task[t].pc \in {"read", "flag"} /\ UNCHANGED <<files, cache, overlapped>> /\ Raise(t)
    BY <1>4 DEF Read, Flag
  <2> QED
    BY <2>1, RevokeOver DEF files
<1>5. CASE Flag(t) /\ RevokeFile \notin torn
  <2> DEFINE c == [entry |-> task[t].read.entry, revoked |-> RevokeFile \in whole]
             x == [task[t] EXCEPT !.pc = "fill", !.read = c]
  <2>1. task[t].pc = "flag" /\ UNCHANGED <<files, cache, overlapped>>
    BY <1>5 DEF Flag
  <2>2. task' = [task EXCEPT ![t] = x]
    BY <1>5, TaskFacts DEF Flag, Task
  <2>3. x.op = task[t].op /\ x.pc = "fill" /\ x.then = task[t].then /\ x.read = c
    <3>1. \A d : \A y \in Task : LET z == [y EXCEPT !.pc = "fill", !.read = d]
                             IN  /\ z.op = y.op /\ z.pc = "fill"
                                 /\ z.then = y.then /\ z.read = d
      BY DEF Task
    <3> HIDE DEF c
    <3> QED
      BY <3>1, TaskFacts
  <2>4. RevokeFile \in whole => c.revoked
    OBVIOUS
  <2>5. t = Loop /\ RevokeFile \in whole /\ ~overlapped => LoopKnows(x)
    BY <2>3 DEF RevokeInv, LoopKnows
  <2>6. x.op = "revoke" => t = Loop
    BY <2>3, LoopIsThread DEF RevokeInv
  <2> HIDE DEF x, c
  <2> QED
    BY <2>1, <2>2, <2>3, <2>4, <2>5, <2>6, RevokeMoves DEF files
<1>6. CASE Fill(t)
  <2>1. /\ task[t].pc = "fill" /\ UNCHANGED <<files, overlapped>>
        /\ cache' = task[t].read /\ Return(t, task[t].read)
    BY <1>6 DEF Fill
  <2>2. PICK c : c = task[t].read
    OBVIOUS
  <2>3. task[t].pc # "pop" /\ Return(t, c) /\ UNCHANGED <<files, overlapped>> /\ cache' = c
    BY <2>1, <2>2
  <2>4. RevokeFile \in whole /\ ~overlapped => Popping \/ c.revoked
    BY <2>1, <2>2 DEF RevokeInv, Shown
  <2>5. RevokeFile \in whole /\ ~overlapped
          => Popping \/ (c.revoked /\ (cache' = cache \/ cache'.revoked))
    BY <2>3, <2>4
  <2> QED
    BY <2>3, <2>5, RevokeReturn
<1> QED
  BY <1>1, <1>2, <1>3, <1>4, <1>5, <1>6

\* The steps of handlers and syncs that write nothing.
LEMMA RevokeInvDecide ==
    ASSUME StoreInv, RevokeInv, NEW t \in Thread, Decide(t) \/ Each(t) \/ Exists(t)
    PROVE  RevokeInv'
<1>1. CASE Decide(t)
  <2>1. task[t].pc = "decide" /\ UNCHANGED <<files, cache, overlapped>>
    BY <1>1 DEF Decide
  <2>2. CASE Done(t)
    BY <2>1, <2>2, RevokeOver DEF files
  <2>3. CASE /\ task[t].op \in {"sign", "receive", "revoke"} /\ Acceptable(t)
             /\ task' = [Get(t, "open") EXCEPT ![t].entry = Linked(t)]
    <3> DEFINE x == [task[t] EXCEPT !.pc = "look", !.then = "open", !.entry = Linked(t)]
    <3>1. task' = [task EXCEPT ![t] = x]
      BY <2>3, TaskFacts DEF Get, Task
    <3>2. x.op = task[t].op /\ x.pc = "look"
      BY TaskFacts DEF Task
    <3>3. ~(t = Loop /\ RevokeFile \in whole /\ ~overlapped /\ task[t].op = "revoke")
      BY <2>1, <2>3 DEF RevokeInv, LoopKnows, Acceptable
    <3>4. x.op = "revoke" => t = Loop
      BY <3>2, LoopIsThread DEF RevokeInv
    <3> HIDE DEF x
    <3> QED
      BY <2>1, <3>1, <3>2, <3>3, <3>4, RevokeMoves DEF files, LoopKnows
  <2>4. CASE /\ task[t].op = "apply"
             /\ task' = [task EXCEPT ![t].pc = "each",
                                     ![t].known = Signers(task[t].copy.entry)]
    <3> DEFINE x == [task[t] EXCEPT !.pc = "each", !.known = Signers(task[t].copy.entry)]
    <3>1. task' = [task EXCEPT ![t] = x] /\ x.op = "apply" /\ x.pc = "each"
      BY <2>4, TaskFacts DEF Task
    <3> HIDE DEF x
    <3> QED
      BY <2>1, <3>1, RevokeGoesOn DEF files
  <2> QED
    BY <1>1, <2>2, <2>3, <2>4 DEF Decide
<1>2. CASE Each(t)
  <2>1. /\ task[t].pc = "each" /\ task[t].op = "apply"
        /\ UNCHANGED <<files, cache, overlapped>>
    BY <1>2, TaskFacts DEF Each, TaskFits
  <2>2. CASE Done(t)
    BY <2>1, <2>2, RevokeOver DEF files
  <2>3. CASE ~Done(t)
    <3>1. \E x : task' = [task EXCEPT ![t] = x] /\ x.op = "apply" /\ x.pc # "fill"
      <4>1. CASE task' = [task EXCEPT ![t].todo = Tail(task[t].todo)]
        <5> DEFINE x == [task[t] EXCEPT !.todo = Tail(task[t].todo)]
        <5>1. task' = [task EXCEPT ![t] = x] /\ x.op = "apply" /\ x.pc = "each"
          BY <2>1, <4>1, TaskFacts DEF Task
        <5> QED
          BY <5>1
      <4>2. CASE task' = [Get(t, "open") EXCEPT ![t].entry = Head(task[t].todo),
                                                ![t].todo = Tail(task[t].todo)]
        <5> DEFINE x == [task[t] EXCEPT !.pc = "look", !.then = "open",
                                        !.entry = Head(task[t].todo),
                                        !.todo = Tail(task[t].todo)]
        <5>1. task' = [task EXCEPT ![t] = x] /\ x.op = "apply" /\ x.pc = "look"
          BY <2>1, <4>2, TaskFacts DEF Get, Task
        <5> QED
          BY <5>1
      <4> QED
        BY <1>2, <2>3, <4>1, <4>2 DEF Each
    <3> QED
      BY <2>1, <3>1, RevokeGoesOn DEF files
  <2> QED
    BY <2>2, <2>3
<1>3. CASE Exists(t)
  <2>1. /\ task[t].pc = "exists" /\ task[t].op = "add"
        /\ UNCHANGED <<files, cache>> /\ (overlapped => overlapped')
    BY <1>3, TaskFacts DEF Exists, TaskFits
  <2>2. CASE Done(t) /\ UNCHANGED overlapped
    BY <2>1, <2>2, RevokeOver DEF files
  <2>3. CASE Goto(t, "open")
    <3> DEFINE x == [task[t] EXCEPT !.pc = "open"]
    <3>1. task' = [task EXCEPT ![t] = x] /\ x.op = "add" /\ x.pc = "open"
      BY <2>1, <2>3, TaskFacts, GotoIs DEF Task
    <3> HIDE DEF x
    <3> QED
      BY <2>1, <3>1, RevokeGoesOn DEF files
  <2> QED
    BY <1>3, <2>2, <2>3 DEF Exists
<1> QED
  BY <1>1, <1>2, <1>3

\* Opening a file, writing it, and invalidating the cache.
LEMMA RevokeInvWrite ==
    ASSUME StoreInv, RevokeInv, NEW t \in Thread, Open(t) \/ Write(t) \/ Pop(t)
    PROVE  RevokeInv'
<1>1. CASE Open(t)
  <2> DEFINE x == [task[t] EXCEPT !.pc = "write"]
  <2>1. /\ task[t].pc = "open" /\ UNCHANGED cache
        /\ whole' \subseteq whole /\ (overlapped => overlapped')
    BY <1>1, TaskFacts DEF Open
  <2>2. task' = [task EXCEPT ![t] = x]
    BY <1>1, GotoIs DEF Open
  <2>3. x.op = task[t].op /\ x.pc = "write" /\ x.then = task[t].then
    BY TaskFacts DEF Task
  <2>4. task[t].then # "open"
    BY <2>1, TaskFacts DEF TaskFits
  <2> HIDE DEF x
  <2> QED
    BY <2>1, <2>2, <2>3, <2>4, RevokeGoesOn
<1>2. CASE Write(t)
  <2>1. /\ task[t].pc = "write" /\ UNCHANGED <<cache, overlapped>>
        /\ whole' = whole \cup {Target(t)}
    BY <1>2 DEF Write
  <2>2. CASE task[t].op = "revoke"
    <3>1. t = Loop /\ Goto(t, "pop")
      BY <1>2, <2>2, LoopIsThread DEF Write, RevokeInv
    <3> DEFINE x == [task[t] EXCEPT !.pc = "pop"]
    <3>2. task'[t] = x /\ \A u \in Thread \ {t} : task'[u] = task[u]
      BY <3>1, TaskFacts, GotoIs
    <3>3. x.op = "revoke" /\ x.pc = "pop" /\ x.then # "open"
      BY <2>1, <2>2, TaskFacts DEF Task, TaskFits
    <3> HIDE DEF x
    <3>4. Popping' /\ LoopKnows(task[Loop])'
      BY <3>1, <3>2, <3>3 DEF Popping, LoopKnows
    <3>5. \A w \in Worker : task'[w].op # "revoke"
      BY <3>1, <3>2, LoopIsThread DEF RevokeInv
    <3> QED
      BY <3>4, <3>5 DEF RevokeInv
  <2>3. CASE task[t].op # "revoke"
    <3>1. RevokeFile \in whole' => RevokeFile \in whole
      BY <2>1, <2>3, RevokersTarget
    <3>2. CASE Done(t)
      BY <2>1, <3>1, <3>2, RevokeOver
    <3>3. CASE Goto(t, "pop")
      <4> DEFINE x == [task[t] EXCEPT !.pc = "pop"]
      <4>1. task' = [task EXCEPT ![t] = x] /\ x.op # "revoke" /\ x.pc = "pop"
        BY <2>3, <3>3, TaskFacts, GotoIs DEF Task
      <4> HIDE DEF x
      <4> QED
        BY <2>1, <3>1, <4>1, RevokeGoesOn
    <3>4. CASE task' = [Get(t, "decide") EXCEPT ![t].op = "apply", ![t].entry = <<>>]
      <4> DEFINE x == [task[t] EXCEPT !.pc = "look", !.then = "decide",
                                      !.op = "apply", !.entry = <<>>]
      <4>1. task' = [task EXCEPT ![t] = x] /\ x.op = "apply" /\ x.pc = "look"
        BY <3>4, TaskFacts DEF Get, Task
      <4> HIDE DEF x
      <4> QED
        BY <2>1, <3>1, <4>1, RevokeGoesOn
    <3> QED
      BY <1>2, <3>2, <3>3, <3>4 DEF Write
  <2> QED
    BY <2>2, <2>3
<1>3. CASE Pop(t)
  <2>1. /\ task[t].pc = "pop" /\ UNCHANGED whole /\ cache' = NoCopy
        /\ overlapped' = (overlapped \/ \E u \in Thread : Reading(u))
    BY <1>3 DEF Pop, files
  <2>2. PICK x : /\ task' = [task EXCEPT ![t] = x] /\ x.pc # "fill"
                 /\ x.op = "revoke" => task[t].op = "revoke" /\ LoopKnows(x)
    <3>1. CASE Done(t)
      <4>1. Idle.op # "revoke" /\ Idle.pc # "fill"
        BY DEF Idle
      <4> QED
        BY <3>1, <4>1 DEF Done
    <3>2. CASE task' = Get(t, "answer")
      <4> DEFINE y == [task[t] EXCEPT !.pc = "look", !.then = "answer"]
      <4>1. /\ task' = [task EXCEPT ![t] = y]
            /\ y.pc = "look" /\ y.then = "answer" /\ y.op = task[t].op
        BY <3>2, TaskFacts DEF Get, Task
      <4> HIDE DEF y
      <4> QED
        BY <4>1 DEF LoopKnows
    <3>3. CASE task' = [Get(t, "each") EXCEPT
                         ![t].entry = <<>>,
                         ![t].known = task[t].known \cup {Signer(task[t].entry)}]
               /\ task[t].op = "apply"
      <4> DEFINE y == [task[t] EXCEPT !.pc = "look", !.then = "each", !.entry = <<>>,
                         !.known = task[t].known \cup {Signer(task[t].entry)}]
      <4>1. /\ task' = [task EXCEPT ![t] = y]
            /\ y.pc = "look" /\ y.op = "apply"
        BY <3>3, TaskFacts DEF Get, Task
      <4> HIDE DEF y
      <4> QED
        BY <4>1
    <3> QED
      BY <1>3, <3>1, <3>2, <3>3 DEF Pop
  <2>3. task'[t] = x /\ \A u \in Thread \ {t} : task'[u] = task[u]
    BY <2>2, TaskFacts
  <2>4. \A w \in Worker : task'[w].op # "revoke"
    BY <2>2, <2>3, LoopIsThread DEF RevokeInv
  <2>5. ASSUME RevokeFile \in whole, ~overlapped' PROVE LoopKnows(task'[Loop]) /\ Shown'
    <3>1. LoopKnows(task'[Loop])
      BY <2>1, <2>2, <2>3, <2>5, LoopIsThread DEF RevokeInv, LoopKnows
    <3>2. \A u \in Thread : task'[u].pc # "fill"
      BY <2>1, <2>2, <2>3, <2>5 DEF Reading
    <3> QED
      BY <2>1, <3>1, <3>2 DEF Shown
  <2> QED
    BY <2>1, <2>4, <2>5 DEF RevokeInv, LoopKnows
<1> QED
  BY <1>1, <1>2, <1>3

LEMMA RevokeInvNext == StoreInv /\ RevokeInv /\ [Next]_vars => RevokeInv'
<1> SUFFICES ASSUME StoreInv, RevokeInv, [Next]_vars PROVE RevokeInv'
  OBVIOUS
<1>1. CASE UNCHANGED vars
  BY <1>1 DEF vars, files, RevokeInv, Popping, Shown, LoopKnows
<1>2. ASSUME NEW t \in Thread, Step(t) PROVE RevokeInv'
  BY <1>2, RevokeInvGet, RevokeInvDecide, RevokeInvWrite DEF Step
<1>3. ASSUME NEW t \in Thread, GetBlock(t) PROVE RevokeInv'
  BY <1>3, RevokeRequest DEF GetBlock
<1>4. ASSUME NEW b \in Block, AddBlock(b) \/ RevokeBlock(b) PROVE RevokeInv'
  BY <1>4, RevokeRequest, LoopIsThread DEF AddBlock, RevokeBlock
<1>5. ASSUME NEW e, SignBlock(e) \/ ReceiveSig(e) PROVE RevokeInv'
  BY <1>5, RevokeRequest, LoopIsThread DEF SignBlock, ReceiveSig
<1>6. ASSUME NEW t \in Worker, NEW e \in Offered, NEW k \in 1 .. Len(e),
             SyncSigChain(t, e, k) \/ FetchAndStore(t, e, k)
      PROVE  RevokeInv'
  BY <1>6, RevokeRequest, LoopIsThread DEF SyncSigChain, FetchAndStore
<1>7. CASE Evict
  BY <1>7 DEF Evict, files, RevokeInv, Popping, Shown, LoopKnows
<1>8. CASE Restart
  <2>1. UNCHANGED whole /\ cache' = NoCopy /\ \A u \in Thread : task'[u] = Idle
    BY <1>8 DEF Restart, files
  <2>2. Idle.op # "revoke" /\ Idle.pc # "fill"
    BY DEF Idle
  <2> QED
    BY <2>1, <2>2, LoopIsThread DEF RevokeInv, Shown, LoopKnows
<1> QED
  BY <1>1, <1>2, <1>3, <1>4, <1>5, <1>6, <1>7, <1>8 DEF Next

-----------------------------------------------------------------------------
(* The block is added once.                                                 *)

WritesBlock(x) == x.pc = "write" /\ x.op = "add"

\* Who writes the block file has opened it.  Who is about to open it found none, there
\* still is none, and nobody else is about to open it, unless two adds overlapped.
AddsInv ==
    /\ \A t \in Thread : WritesBlock(task[t]) => BlockFile \in Present
    /\ ~overlapped =>
         \A t \in Thread : Adding(t) => /\ BlockFile \notin Present
                                        /\ \A u \in Thread : Adding(u) => u = t

\* Nobody comes to open the block file but by way of add's second look.
LEMMA ComesToAdd ==
    ASSUME StoreInv, NEW t \in Thread, Step(t), ~Exists(t), ~Open(t)
    PROVE  /\ \A u \in Thread \ {t} : task'[u] = task[u]
           /\ ~(task'[t].pc = "open" /\ task'[t].op = "add") /\ task'[t].pc # "write"
<1> DEFINE Elsewhere(x) == ~(x.pc = "open" /\ x.op = "add") /\ x.pc # "write"
<1> SUFFICES \E x : task' = [task EXCEPT ![t] = x] /\ Elsewhere(x)
  BY TaskFacts
<1>0. Elsewhere(Idle)
  BY DEF Idle
<1>1. CASE Done(t)
  BY <1>0, <1>1 DEF Done
<1>2. CASE Raise(t)
  <2>1. CASE task[t].op = "apply" /\ task[t].then # "decide"
    <3> DEFINE y == [Idle EXCEPT !.pc = "each", !.op = "apply", !.todo = task[t].todo,
                                 !.copy = task[t].copy, !.known = task[t].known]
    <3>1. y.pc = "each" /\ task' = [task EXCEPT ![t] = y]
      BY <1>2, <2>1 DEF Raise, Idle
    <3> HIDE DEF y
    <3> QED
      BY <3>1
  <2>2. CASE task' = [task EXCEPT ![t] = Idle]
    BY <1>0, <2>2
  <2> QED
    BY <1>2, <2>1, <2>2 DEF Raise
<1>3. ASSUME NEW pc, pc \notin {"open", "write"}, Goto(t, pc)
      PROVE  \E x : task' = [task EXCEPT ![t] = x] /\ Elsewhere(x)
  <2> DEFINE y == [task[t] EXCEPT !.pc = pc]
  <2>1. y.pc = pc /\ task' = [task EXCEPT ![t] = y]
    BY <1>3, TaskFacts, GotoIs DEF Task
  <2> HIDE DEF y
  <2> QED
    BY <1>3, <2>1
<1>4. ASSUME NEW copy, Return(t, copy), task[t].pc \in {"take", "fill"}
      PROVE  \E x : task' = [task EXCEPT ![t] = x] /\ Elsewhere(x)
  <2>1. CASE task[t].then = "answer"
    BY <1>1, <1>4, <2>1 DEF Return
  <2>2. CASE task[t].then # "answer"
    <3> DEFINE y == [task[t] EXCEPT
                       !.pc = task[t].then, !.then = "none",
                       !.copy = IF task[t].then = "open" THEN task[t].copy ELSE copy,
                       !.read = NoCopy, !.names = {}]
    <3>1. task' = [task EXCEPT ![t] = y]
      BY <1>4, <2>2, TaskFacts DEF Return, Task
    <3>2. y.pc = task[t].then /\ y.op = task[t].op
      BY TaskFacts DEF Task
    <3>3. /\ task[t].then = "open" => task[t].op # "add"
          /\ task[t].then # "write"
      BY TaskFacts DEF TaskFits, Task
    <3> HIDE DEF y
    <3> QED
      BY <3>1, <3>2, <3>3
  <2> QED
    BY <2>1, <2>2
<1>5. ASSUME NEW y, y.pc \notin {"open", "write"}, task' = [task EXCEPT ![t] = y]
      PROVE  \E x : task' = [task EXCEPT ![t] = x] /\ Elsewhere(x)
  BY <1>5
<1>6. CASE Look(t)
  <2>1. CASE task' = [task EXCEPT ![t].pc = "list",
                                  ![t].read = [entry |-> <<content>>, revoked |-> FALSE]]
    <3> DEFINE y == [task[t] EXCEPT !.pc = "list",
                                    !.read = [entry |-> <<content>>, revoked |-> FALSE]]
    <3>1. task' = [task EXCEPT ![t] = y] /\ y.pc = "list"
      BY <2>1, TaskFacts DEF Task
    <3> HIDE DEF y
    <3> QED
      BY <1>5, <3>1
  <2> QED
    BY <1>1, <1>2, <1>3, <1>6, <2>1 DEF Look
<1>7. CASE Take(t)
  BY <1>2, <1>4, <1>7 DEF Take
<1>8. CASE List(t)
  <2> DEFINE y == [task[t] EXCEPT !.pc = "read", !.names = SigFiles(Present)]
  <2>1. task' = [task EXCEPT ![t] = y] /\ y.pc = "read"
    BY <1>8, TaskFacts DEF List, Task
  <2> HIDE DEF y
  <2> QED
    BY <1>5, <2>1
<1>9. CASE Read(t)
  <2>1. CASE Raise(t)
    BY <1>2, <2>1
  <2>2. CASE ~Raise(t)
    <3>1. PICK e : task' = [task EXCEPT ![t].pc = "flag", ![t].names = {},
                                        ![t].read = [entry |-> e, revoked |-> FALSE]]
      BY <1>9, <2>2 DEF Read
    <3> DEFINE y == [task[t] EXCEPT !.pc = "flag", !.names = {},
                                    !.read = [entry |-> e, revoked |-> FALSE]]
    <3>2. task' = [task EXCEPT ![t] = y] /\ y.pc = "flag"
      BY <3>1, TaskFacts DEF Task
    <3> HIDE DEF y
    <3> QED
      BY <1>5, <3>2
  <2> QED
    BY <2>1, <2>2
<1>10. CASE Flag(t)
  <2>1. CASE Raise(t)
    BY <1>2, <2>1
  <2>2. CASE ~Raise(t)
    <3> DEFINE c == [entry |-> task[t].read.entry, revoked |-> RevokeFile \in whole]
               y == [task[t] EXCEPT !.pc = "fill", !.read = c]
    <3>1. task' = [task EXCEPT ![t].pc = "fill", ![t].read = c]
      BY <1>10, <2>2 DEF Flag
    <3> HIDE DEF c
    <3>2. task' = [task EXCEPT ![t] = y] /\ y.pc = "fill"
      BY <3>1, TaskFacts DEF Task
    <3> HIDE DEF y
    <3> QED
      BY <1>5, <3>2
  <2> QED
    BY <2>1, <2>2
<1>11. CASE Fill(t)
  BY <1>4, <1>11 DEF Fill
<1>12. CASE Decide(t)
  <2>1. CASE task' = [Get(t, "open") EXCEPT ![t].entry = Linked(t)]
    <3> DEFINE y == [task[t] EXCEPT !.pc = "look", !.then = "open", !.entry = Linked(t)]
    <3>1. task' = [task EXCEPT ![t] = y] /\ y.pc = "look"
      BY <2>1, TaskFacts DEF Get, Task
    <3> HIDE DEF y
    <3> QED
      BY <1>5, <3>1
  <2>2. CASE task' = [task EXCEPT ![t].pc = "each",
                                  ![t].known = Signers(task[t].copy.entry)]
    <3> DEFINE y == [task[t] EXCEPT !.pc = "each", !.known = Signers(task[t].copy.entry)]
    <3>1. task' = [task EXCEPT ![t] = y] /\ y.pc = "each"
      BY <2>2, TaskFacts DEF Task
    <3> HIDE DEF y
    <3> QED
      BY <1>5, <3>1
  <2> QED
    BY <1>1, <1>12, <2>1, <2>2 DEF Decide
<1>13. CASE Each(t)
  <2>1. task[t].pc = "each"
    BY <1>13 DEF Each
  <2>2. CASE task' = [task EXCEPT ![t].todo = Tail(task[t].todo)]
    <3> DEFINE y == [task[t] EXCEPT !.todo = Tail(task[t].todo)]
    <3>1. task' = [task EXCEPT ![t] = y] /\ y.pc = "each"
      BY <2>1, <2>2, TaskFacts DEF Task
    <3> HIDE DEF y
    <3> QED
      BY <1>5, <3>1
  <2>3. CASE task' = [Get(t, "open") EXCEPT ![t].entry = Head(task[t].todo),
                                            ![t].todo = Tail(task[t].todo)]
    <3> DEFINE y == [task[t] EXCEPT !.pc = "look", !.then = "open",
                                    !.entry = Head(task[t].todo), !.todo = Tail(task[t].todo)]
    <3>1. task' = [task EXCEPT ![t] = y] /\ y.pc = "look"
      BY <2>3, TaskFacts DEF Get, Task
    <3> HIDE DEF y
    <3> QED
      BY <1>5, <3>1
  <2> QED
    BY <1>1, <1>13, <2>2, <2>3 DEF Each
<1>14. CASE Write(t)
  <2>1. CASE task' = [Get(t, "decide") EXCEPT ![t].op = "apply", ![t].entry = <<>>]
    <3> DEFINE y == [task[t] EXCEPT !.pc = "look", !.then = "decide",
                                    !.op = "apply", !.entry = <<>>]
    <3>1. task' = [task EXCEPT ![t] = y] /\ y.pc = "look"
      BY <2>1, TaskFacts DEF Get, Task
    <3> HIDE DEF y
    <3> QED
      BY <1>5, <3>1
  <2> QED
    BY <1>1, <1>3, <1>14, <2>1 DEF Write
<1>15. CASE Pop(t)
  <2>1. CASE task' = Get(t, "answer")
    <3> DEFINE y == [task[t] EXCEPT !.pc = "look", !.then = "answer"]
    <3>1. task' = [task EXCEPT ![t] = y] /\ y.pc = "look"
      BY <2>1, TaskFacts DEF Get, Task
    <3> HIDE DEF y
    <3> QED
      BY <1>5, <3>1
  <2>2. CASE task' = [Get(t, "each") EXCEPT
                       ![t].entry = <<>>,
                       ![t].known = task[t].known \cup {Signer(task[t].entry)}]
    <3> DEFINE y == [task[t] EXCEPT !.pc = "look", !.then = "each", !.entry = <<>>,
                       !.known = task[t].known \cup {Signer(task[t].entry)}]
    <3>1. task' = [task EXCEPT ![t] = y] /\ y.pc = "look"
      BY <2>2, TaskFacts DEF Get, Task
    <3> HIDE DEF y
    <3> QED
      BY <1>5, <3>1
  <2> QED
    BY <1>1, <1>15, <2>1, <2>2 DEF Pop
<1> QED
  BY <1>6, <1>7, <1>8, <1>9, <1>10, <1>11, <1>12, <1>13, <1>14, <1>14, <1>15 DEF Step

\* Steps that bring nobody to the block file, and do not make it appear.
LEMMA AddsKept ==
    ASSUME AddsInv, ~overlapped' => ~overlapped,
           \A u \in Thread : /\ Adding(u)' => Adding(u)
                             /\ WritesBlock(task'[u]) => WritesBlock(task[u]),
           BlockFile \in Present' <=> BlockFile \in Present
    PROVE  AddsInv'
<1>1. \A t \in Thread : WritesBlock(task[t])' => BlockFile \in Present'
  BY DEF AddsInv, WritesBlock
<1>2. ASSUME ~overlapped', NEW t \in Thread, Adding(t)'
      PROVE  BlockFile \notin Present' /\ \A u \in Thread : Adding(u)' => u = t
  BY <1>2 DEF AddsInv
<1> QED
  BY <1>1, <1>2 DEF AddsInv

\* A request comes in.
LEMMA AddsRequest ==
    ASSUME StoreInv, AddsInv, NEW t \in Thread, NEW op, NEW entry, NEW todo,
           Request(t, op, entry, todo)
    PROVE  AddsInv'
<1> DEFINE x == [Idle EXCEPT !.pc = "look", !.op = op, !.entry = entry, !.todo = todo,
                              !.then = IF op = "get" THEN "answer" ELSE "decide"]
<1>1. x.pc = "look"
  BY DEF Idle
<1>2. task' = [task EXCEPT ![t] = x] /\ UNCHANGED <<torn, whole, overlapped>>
  BY DEF Request, files
<1> HIDE DEF x
<1>3. \A u \in Thread : /\ Adding(u)' => Adding(u)
                        /\ WritesBlock(task'[u]) => WritesBlock(task[u])
  BY <1>1, <1>2, TaskFacts DEF Adding, WritesBlock
<1>4. Present' = Present
  BY <1>2 DEF Present
<1> QED
  BY <1>2, <1>3, <1>4, AddsKept

\* Opening a file makes the block file appear only when it is that file, which one thread
\* at most was about to open; other files come after their block.
LEMMA AddsOpen ==
    ASSUME StoreInv, AddsInv, NEW t \in Thread, Open(t)
    PROVE  AddsInv'
<1> DEFINE x == [task[t] EXCEPT !.pc = "write"]
<1>1. /\ task[t].pc = "open" /\ UNCHANGED overlapped
      /\ Present' = Present \cup {Target(t)}
  BY DEF Open, Present
<1>2. task' = [task EXCEPT ![t] = x]
  BY GotoIs DEF Open
<1>3. x.pc = "write" /\ x.op = task[t].op
  BY TaskFacts DEF Task
<1> HIDE DEF x
<1>4. task'[t] = x /\ \A u \in Thread \ {t} : task'[u] = task[u]
  BY <1>2, TaskFacts
<1>5. \A u \in Thread : Adding(u)' => Adding(u) /\ u # t
  BY <1>3, <1>4 DEF Adding
<1>6. BlockFile \in Present'
  BY <1>1, TargetIsFile
<1>7. ASSUME ~overlapped' PROVE \A u \in Thread : ~Adding(u)'
  <2>1. CASE task[t].op = "add"
    <3>1. Adding(t)
      BY <1>1, <2>1 DEF Adding
    <3> QED
      BY <1>1, <1>5, <1>7, <3>1 DEF AddsInv
  <2>2. CASE task[t].op # "add"
    <3>1. Target(t) # BlockFile
      BY <1>1, <2>2, RevokersTarget
    <3>2. BlockFile \in Present
      BY <1>1, <3>1, TargetIsFile
    <3> QED
      BY <1>1, <1>5, <1>7, <3>2 DEF AddsInv
  <2> QED
    BY <2>1, <2>2
<1> QED
  BY <1>6, <1>7 DEF AddsInv

LEMMA AddsStep ==
    ASSUME StoreInv, AddsInv, NEW t \in Thread, Step(t), ~Exists(t), ~Open(t)
    PROVE  AddsInv'
<1>1. \A u \in Thread : /\ Adding(u)' => Adding(u)
                        /\ WritesBlock(task'[u]) => WritesBlock(task[u])
  BY ComesToAdd DEF Adding, WritesBlock
<1>2. overlapped => overlapped'
  BY DEF Step, Look, Take, List, Read, Flag, Fill, Decide, Each, Write, Pop
<1>3. BlockFile \in Present' <=> BlockFile \in Present
  <2>1. CASE Write(t)
    <3>1. /\ task[t].pc = "write"
          /\ torn' = torn \ {Target(t)} /\ whole' = whole \cup {Target(t)}
      BY <2>1 DEF Write
    <3>2. Target(t) = BlockFile => BlockFile \in Present
      BY <3>1, RevokersTarget DEF AddsInv, WritesBlock
    <3> QED
      BY <3>1, <3>2 DEF Present
  <2>2. CASE ~Write(t)
    <3>1. UNCHANGED <<torn, whole>>
      BY <2>2 DEF Step, files, Look, Take, List, Read, Flag, Fill, Decide, Each, Pop
    <3> QED
      BY <3>1 DEF Present
  <2> QED
    BY <2>1, <2>2
<1> QED
  BY <1>1, <1>2, <1>3, AddsKept

\* add's second look: whoever else has had it and found nothing is noticed.
LEMMA AddsExists ==
    ASSUME StoreInv, AddsInv, NEW t \in Thread, Exists(t)
    PROVE  AddsInv'
<1>1. task[t].pc = "exists" /\ UNCHANGED <<torn, whole>>
  BY DEF Exists, files
<1>2. Present' = Present
  BY <1>1 DEF Present
<1>3. CASE Done(t) /\ UNCHANGED overlapped
  <2>1. \A u \in Thread : /\ Adding(u)' => Adding(u)
                          /\ WritesBlock(task'[u]) => WritesBlock(task[u])
    BY <1>3, TaskFacts DEF Done, Idle, Adding, WritesBlock
  <2> QED
    BY <1>2, <1>3, <2>1, AddsKept
<1>4. CASE /\ BlockFile \notin Present /\ Goto(t, "open")
           /\ overlapped' = (overlapped \/ \E u \in Thread : Adding(u))
  <2> DEFINE x == [task[t] EXCEPT !.pc = "open"]
  <2>1. task' = [task EXCEPT ![t] = x] /\ x.pc = "open"
    BY <1>4, TaskFacts, GotoIs DEF Task
  <2> HIDE DEF x
  <2>2. task'[t] = x /\ \A u \in Thread \ {t} : task'[u] = task[u]
    BY <2>1, TaskFacts
  <2>3. \A u \in Thread : ~WritesBlock(task'[u])
    BY <1>4, <2>1, <2>2 DEF AddsInv, WritesBlock
  <2>4. ASSUME ~overlapped' PROVE \A u \in Thread : Adding(u)' => u = t
    BY <1>4, <2>2, <2>4 DEF Adding
  <2> QED
    BY <1>2, <1>4, <2>3, <2>4 DEF AddsInv, WritesBlock
<1> QED
  BY <1>3, <1>4 DEF Exists

LEMMA AddsInvInit == Init => AddsInv
BY DEF Init, AddsInv, Adding, WritesBlock, Idle

LEMMA AddsInvNext == StoreInv /\ AddsInv /\ [Next]_vars => AddsInv'
<1> SUFFICES ASSUME StoreInv, AddsInv, [Next]_vars PROVE AddsInv'
  OBVIOUS
<1>1. CASE UNCHANGED vars \/ Evict
  <2>1. UNCHANGED <<torn, whole, task, overlapped>>
    BY <1>1 DEF vars, files, Evict
  <2> QED
    BY <2>1 DEF AddsInv, Adding, WritesBlock, Present
<1>2. ASSUME NEW t \in Thread, Step(t) PROVE AddsInv'
  BY <1>2, AddsStep, AddsExists, AddsOpen
<1>3. ASSUME NEW t \in Thread, GetBlock(t) PROVE AddsInv'
  BY <1>3, AddsRequest DEF GetBlock
<1>4. ASSUME NEW b \in Block, AddBlock(b) \/ RevokeBlock(b) PROVE AddsInv'
  BY <1>4, AddsRequest, LoopIsThread DEF AddBlock, RevokeBlock
<1>5. ASSUME NEW e, SignBlock(e) \/ ReceiveSig(e) PROVE AddsInv'
  BY <1>5, AddsRequest, LoopIsThread DEF SignBlock, ReceiveSig
<1>6. ASSUME NEW t \in Worker, NEW e \in Offered, NEW k \in 1 .. Len(e),
             SyncSigChain(t, e, k) \/ FetchAndStore(t, e, k)
      PROVE  AddsInv'
  BY <1>6, AddsRequest, LoopIsThread DEF SyncSigChain, FetchAndStore
<1>7. CASE Restart
  <2>1. \A u \in Thread : task'[u].pc = "idle"
    BY <1>7 DEF Restart, Idle
  <2> QED
    BY <2>1 DEF AddsInv, Adding, WritesBlock
<1> QED
  BY <1>1, <1>2, <1>3, <1>4, <1>5, <1>6, <1>7 DEF Next

LEMMA AddsInvariant == Spec => []AddsInv
<1>1. Spec => []StoreInv
  BY StoreInvariant
<1> QED
  BY <1>1, AddsInvInit, AddsInvNext, PTL DEF Spec

\* The block file and the revocation, once whole, are never opened again, unless two adds
\* had both found no block file before either opened it, or a write had invalidated the
\* cache in the middle of a read (dir_store.py:8, add, revoke).
THEOREM WrittenOnce == Spec => RewrittenOnlyByOverlap
<1> DEFINE Kept == \A f \in {BlockFile, RevokeFile} : f \in whole \ whole' => overlapped
<1>1. StoreInv /\ RevokeInv /\ AddsInv /\ [Next]_vars => [Kept]_vars
  <2> SUFFICES ASSUME StoreInv, RevokeInv, AddsInv, Next,
                      NEW f \in {BlockFile, RevokeFile}, f \in whole, f \notin whole'
               PROVE  overlapped
    BY DEF Kept
  <2>1. PICK t \in Thread : Open(t)
    <3>1. ASSUME NEW t \in Thread, GetBlock(t) \/ Step(t) PROVE Open(t)
      BY <3>1 DEF GetBlock, Request, Step, files, Look, Take, List, Read, Flag, Fill,
                  Decide, Each, Exists, Write, Pop
    <3>2. ~(Evict \/ Restart)
      BY DEF Evict, Restart, files
    <3>3. \A b \in Block : ~(AddBlock(b) \/ RevokeBlock(b))
      BY DEF AddBlock, RevokeBlock, Request, files
    <3>4. \A e : ~(SignBlock(e) \/ ReceiveSig(e))
      BY DEF SignBlock, ReceiveSig, Request, files
    <3>5. \A t \in Worker, e \in Offered : \A k \in 1 .. Len(e) :
            ~(SyncSigChain(t, e, k) \/ FetchAndStore(t, e, k))
      BY DEF SyncSigChain, FetchAndStore, Request, files
    <3> QED
      BY <3>1, <3>2, <3>3, <3>4, <3>5 DEF Next
  <2>2. f = Target(t) /\ task[t].pc = "open"
    BY <2>1 DEF Open
  <2>3. CASE f = BlockFile
    <3>1. task[t].op = "add" /\ BlockFile \in Present
      BY <2>2, <2>3, RevokersTarget DEF Present
    <3> QED
      BY <2>2, <3>1 DEF AddsInv, Adding
  <2>4. CASE f = RevokeFile
    <3>1. task[t].op = "revoke" /\ t = Loop
      BY <2>2, <2>4, RevokersTarget, LoopIsThread DEF RevokeInv
    <3> QED
      BY <2>2, <2>4, <3>1 DEF RevokeInv, LoopKnows
  <2> QED
    BY <2>3, <2>4
<1>2. Spec => []StoreInv
  BY StoreInvariant
<1>3. Spec => []RevokeInv
  BY <1>2, RevokeInvInit, RevokeInvNext, PTL DEF Spec
<1> QED
  BY <1>1, <1>2, <1>3, AddsInvariant, PTL DEF Spec, RewrittenOnlyByOverlap

-----------------------------------------------------------------------------
(* What is cached is what is there.                                         *)

Quiet == \A t \in Thread : task[t].pc \notin {"write", "pop"}

Getting(x) == x.pc \in {"list", "read", "flag", "fill"}

\* While a copy is read or cached, the block file stays as it is: it is written once, by
\* one thread, before anybody reads it.
BlockSteady ==
    /\ \A t \in Thread : WritesBlock(task[t]) => BlockFile \in torn
    /\ \A t, u \in Thread : WritesBlock(task[t]) /\ WritesBlock(task[u]) => t = u
    /\ \A t \in Thread : Getting(task[t]) => /\ BlockFile \in whole
                                             /\ task[t].read.entry[1] = content
    /\ cache # NoCopy => BlockFile \in whole

\* What a read has found so far is what is there.
Fresh(x) ==
    /\ x.pc = "read" => x.names = SigFiles(Present)
    /\ x.pc \in {"flag", "fill"} => x.read.entry \in WalkEnds(content, SigFiles(whole))
    /\ x.pc = "fill" => (x.read.revoked <=> RevokeFile \in whole)

\* A writer makes copies stale until it invalidates the cache, which also notices whoever
\* is reading.
FreshInv ==
    ~overlapped =>
      /\ BlockSteady
      /\ Quiet => /\ \A t \in Thread : Fresh(task[t])
                  /\ cache # NoCopy => /\ cache.entry \in WalkEnds(content, SigFiles(whole))
                                       /\ cache.revoked <=> RevokeFile \in whole

\* At a place where nothing of a read is held, and no file is written.
Away(x) == x.pc \notin {"list", "read", "flag", "fill", "write", "pop"}

\* Steps of a request that touch no file.
LEMMA FreshMoves ==
    ASSUME StoreInv, FreshInv, NEW t \in Thread, NEW x, task' = [task EXCEPT ![t] = x],
           UNCHANGED <<files, overlapped>>,
           task[t].pc \notin {"write", "pop"}, x.pc \notin {"write", "pop"},
           \/ cache' = cache \/ cache' = NoCopy
           \/ task[t].pc = "fill" /\ cache' = task[t].read,
           ~overlapped /\ Getting(x) => BlockFile \in whole /\ x.read.entry[1] = content,
           ~overlapped /\ Quiet => Fresh(x)
    PROVE  FreshInv'
<1> SUFFICES ASSUME ~overlapped
             PROVE  /\ BlockSteady'
                    /\ Quiet' => /\ \A u \in Thread : Fresh(task[u])'
                                 /\ cache' # NoCopy =>
                                      /\ cache'.entry \in WalkEnds(content, SigFiles(whole))
                                      /\ cache'.revoked <=> RevokeFile \in whole
  BY DEF FreshInv, files, WalkEnds, SigFiles
<1>1. /\ task'[t] = x /\ \A u \in Thread \ {t} : task'[u] = task[u]
      /\ UNCHANGED <<torn, whole, content>>
  BY TaskFacts DEF files
<1>2. BlockSteady
  BY DEF FreshInv
<1>3. BlockSteady'
  <2>1. \A u \in Thread : WritesBlock(task'[u]) => WritesBlock(task[u])
    BY <1>1 DEF WritesBlock
  <2>2. \A u \in Thread : Getting(task'[u]) => /\ BlockFile \in whole
                                               /\ task'[u].read.entry[1] = content
    BY <1>1, <1>2 DEF BlockSteady
  <2>3. cache' # NoCopy => BlockFile \in whole
    BY <1>2 DEF BlockSteady, Getting
  <2>4. \A u \in Thread : WritesBlock(task'[u]) => BlockFile \in torn'
    BY <1>1, <1>2, <2>1 DEF BlockSteady
  <2>5. \A u, v \in Thread : WritesBlock(task'[u]) /\ WritesBlock(task'[v]) => u = v
    BY <1>2, <2>1 DEF BlockSteady
  <2> QED
    BY <1>1, <2>2, <2>3, <2>4, <2>5 DEF BlockSteady, WritesBlock, Getting
<1>4. ASSUME Quiet'
      PROVE  /\ \A u \in Thread : Fresh(task[u])'
             /\ cache' # NoCopy => /\ cache'.entry \in WalkEnds(content, SigFiles(whole))
                                   /\ cache'.revoked <=> RevokeFile \in whole
  <2>1. Quiet
    BY <1>1, <1>4 DEF Quiet
  <2>2. \A u \in Thread : Fresh(task[u])
    BY <2>1 DEF FreshInv
  <2>3. \A u \in Thread : Fresh(task'[u])
    BY <1>1, <2>1, <2>2
  <2>4. \A u \in Thread : Fresh(task[u])'
    BY <1>1, <2>3 DEF Fresh, Present, SigFiles, WalkEnds
  <2>5. cache # NoCopy => /\ cache.entry \in WalkEnds(content, SigFiles(whole))
                          /\ cache.revoked <=> RevokeFile \in whole
    BY <2>1 DEF FreshInv
  <2>6. task[t].pc = "fill" => /\ task[t].read.entry \in WalkEnds(content, SigFiles(whole))
                               /\ task[t].read.revoked <=> RevokeFile \in whole
    BY <2>2 DEF Fresh
  <2> QED
    BY <2>4, <2>5, <2>6
<1> QED
  BY <1>3, <1>4

LEMMA FreshAway ==
    ASSUME StoreInv, FreshInv, NEW t \in Thread,
           \E x : Away(x) /\ task' = [task EXCEPT ![t] = x],
           UNCHANGED <<files, overlapped>>, task[t].pc \notin {"write", "pop"},
           \/ cache' = cache \/ cache' = NoCopy
           \/ task[t].pc = "fill" /\ cache' = task[t].read
    PROVE  FreshInv'
<1>1. PICK x : Away(x) /\ task' = [task EXCEPT ![t] = x]
  OBVIOUS
<1>2. ~Getting(x) /\ Fresh(x) /\ x.pc \notin {"write", "pop"}
  BY <1>1 DEF Away, Getting, Fresh
<1> QED
  BY <1>1, <1>2, FreshMoves

\* Where a request goes when it calls get, returns from it, or is over.
LEMMA GoesAway ==
    ASSUME StoreInv, NEW t \in Thread,
           \/ Done(t) \/ Raise(t)
           \/ \E pc \in {"take", "exists", "open"} : Goto(t, pc)
           \/ task[t].pc \in {"take", "fill"} /\ \E copy : Return(t, copy)
    PROVE  \E x : Away(x) /\ task' = [task EXCEPT ![t] = x]
<1>1. Away(Idle)
  BY DEF Away, Idle
<1>2. CASE Done(t)
  BY <1>1, <1>2 DEF Done
<1>3. CASE Raise(t)
  <2>1. CASE task[t].op = "apply" /\ task[t].then # "decide"
    <3> DEFINE y == [Idle EXCEPT !.pc = "each", !.op = "apply", !.todo = task[t].todo,
                                 !.copy = task[t].copy, !.known = task[t].known]
    <3>1. y.pc = "each" /\ task' = [task EXCEPT ![t] = y]
      BY <1>3, <2>1 DEF Raise, Idle
    <3> HIDE DEF y
    <3> QED
      BY <3>1 DEF Away
  <2>2. CASE ~(task[t].op = "apply" /\ task[t].then # "decide")
    BY <1>1, <1>3, <2>2 DEF Raise
  <2> QED
    BY <2>1, <2>2
<1>4. CASE \E pc \in {"take", "exists", "open"} : Goto(t, pc)
  <2>1. PICK pc \in {"take", "exists", "open"} : Goto(t, pc)
    BY <1>4
  <2> DEFINE y == [task[t] EXCEPT !.pc = pc]
  <2>2. y.pc = pc /\ task' = [task EXCEPT ![t] = y]
    BY <2>1, TaskFacts, GotoIs DEF Task
  <2> HIDE DEF y
  <2> QED
    BY <2>2 DEF Away
<1>5. CASE task[t].pc \in {"take", "fill"} /\ \E copy : Return(t, copy)
  <2>1. PICK copy : Return(t, copy)
    BY <1>5
  <2>2. task[t].then \in {"decide", "open", "each", "answer"}
    BY <1>5, TaskFacts DEF TaskFits
  <2>3. CASE task[t].then = "answer"
    BY <1>1, <2>1, <2>3 DEF Return, Done
  <2>4. CASE task[t].then # "answer"
    <3> DEFINE y == [task[t] EXCEPT
                       !.pc = task[t].then, !.then = "none",
                       !.copy = IF task[t].then = "open" THEN task[t].copy ELSE copy,
                       !.read = NoCopy, !.names = {}]
    <3>1. task' = [task EXCEPT ![t] = y]
      BY <2>1, <2>4, TaskFacts DEF Return, Task
    <3>2. y.pc = task[t].then
      BY TaskFacts DEF Task
    <3> HIDE DEF y
    <3> QED
      BY <2>2, <2>4, <3>1, <3>2 DEF Away
  <2> QED
    BY <2>3, <2>4
<1> QED
  BY <1>2, <1>3, <1>4, <1>5

LEMMA FreshRequest ==
    ASSUME StoreInv, FreshInv, NEW t \in Thread, NEW op, NEW entry, NEW todo,
           Request(t, op, entry, todo)
    PROVE  FreshInv'
<1> DEFINE x == [Idle EXCEPT !.pc = "look", !.op = op, !.entry = entry, !.todo = todo,
                              !.then = IF op = "get" THEN "answer" ELSE "decide"]
<1>1. x.pc = "look"
  BY DEF Idle
<1>2. /\ task' = [task EXCEPT ![t] = x] /\ UNCHANGED <<files, cache, overlapped>>
      /\ task[t].pc \notin {"write", "pop"}
  BY DEF Request, Idle
<1> HIDE DEF x
<1> QED
  BY <1>1, <1>2, FreshAway DEF Away

\* The steps of get.
LEMMA FreshInvGet ==
    ASSUME StoreInv, FreshInv, NEW t \in Thread,
           Look(t) \/ Take(t) \/ List(t) \/ Read(t) \/ Flag(t) \/ Fill(t)
    PROVE  FreshInv'
<1>1. CASE Look(t)
  <2>1. task[t].pc = "look" /\ UNCHANGED <<files, cache, overlapped>>
    BY <1>1 DEF Look
  <2>2. CASE Goto(t, "take") \/ Goto(t, "exists") \/ Done(t) \/ Raise(t)
    <3>1. \E x : Away(x) /\ task' = [task EXCEPT ![t] = x]
      BY <2>2, GoesAway
    <3> QED
      BY <2>1, <3>1, FreshAway
  <2>3. CASE /\ BlockFile \in whole
             /\ task' = [task EXCEPT ![t].pc = "list",
                                     ![t].read = [entry |-> <<content>>, revoked |-> FALSE]]
    <3> DEFINE x == [task[t] EXCEPT !.pc = "list",
                                    !.read = [entry |-> <<content>>, revoked |-> FALSE]]
    <3>1. task' = [task EXCEPT ![t] = x]
      BY <2>3, TaskFacts DEF Task
    <3>2. x.pc = "list" /\ x.read.entry[1] = content
      BY TaskFacts DEF Task
    <3> HIDE DEF x
    <3>3. Fresh(x)
      BY <3>2 DEF Fresh
    <3> QED
      BY <2>1, <2>3, <3>1, <3>2, <3>3, FreshMoves
  <2> QED
    BY <1>1, <2>2, <2>3 DEF Look
<1>2. CASE Take(t)
  <2>1. task[t].pc = "take" /\ UNCHANGED <<files, cache, overlapped>>
    BY <1>2 DEF Take
  <2>2. \E x : Away(x) /\ task' = [task EXCEPT ![t] = x]
    BY <1>2, <2>1, GoesAway DEF Take
  <2> QED
    BY <2>1, <2>2, FreshAway
<1>3. CASE List(t)
  <2> DEFINE x == [task[t] EXCEPT !.pc = "read", !.names = SigFiles(Present)]
  <2>1. task[t].pc = "list" /\ UNCHANGED <<files, cache, overlapped>>
    BY <1>3 DEF List
  <2>2. task' = [task EXCEPT ![t] = x]
    BY <1>3, TaskFacts DEF List, Task
  <2>3. x.pc = "read" /\ x.read = task[t].read /\ x.names = SigFiles(Present)
    BY TaskFacts DEF Task
  <2> HIDE DEF x
  <2>4. Fresh(x)
    BY <2>3 DEF Fresh
  <2>5. ~overlapped => BlockFile \in whole /\ x.read.entry[1] = content
    BY <2>1, <2>3 DEF FreshInv, BlockSteady, Getting
  <2> QED
    BY <2>1, <2>2, <2>3, <2>4, <2>5, FreshMoves
<1>4. CASE (Read(t) /\ task[t].names \cap torn # {}) \/ (Flag(t) /\ RevokeFile \in torn)
  <2>1. task[t].pc \in {"read", "flag"} /\ UNCHANGED <<files, cache, overlapped>> /\ Raise(t)
    BY <1>4 DEF Read, Flag
  <2>2. \E x : Away(x) /\ task' = [task EXCEPT ![t] = x]
    BY <2>1, GoesAway
  <2> QED
    BY <2>1, <2>2, FreshAway
<1>5. CASE Read(t) /\ task[t].names \cap torn = {}
  <2>1. task[t].pc = "read" /\ UNCHANGED <<files, cache, overlapped>>
    BY <1>5 DEF Read
  <2>2. PICK e \in WalkEnds(task[t].read.entry[1], task[t].names) :
               task' = [task EXCEPT
                          ![t].pc = "flag", ![t].names = {},
                          ![t].read = [entry |-> e, revoked |-> FALSE]]
    BY <1>5 DEF Read
  <2> DEFINE x == [task[t] EXCEPT !.pc = "flag", !.names = {},
                                  !.read = [entry |-> e, revoked |-> FALSE]]
  <2>3. task' = [task EXCEPT ![t] = x] /\ x.pc = "flag" /\ x.read.entry = e
    BY <2>2, TaskFacts, TaskIs, Places
  <2> HIDE DEF x
  <2>4. ~overlapped => BlockFile \in whole /\ x.read.entry[1] = content
    <3>1. e[1] = task[t].read.entry[1]
      BY <2>2 DEF WalkEnds
    <3> QED
      BY <2>1, <2>3, <3>1 DEF FreshInv, BlockSteady, Getting
  <2>5. ~overlapped /\ Quiet => Fresh(x)
    <3> SUFFICES ASSUME ~overlapped, Quiet
                 PROVE  x.read.entry \in WalkEnds(content, SigFiles(whole))
      BY <2>3 DEF Fresh
    <3>1. task[t].names = SigFiles(Present) /\ task[t].read.entry[1] = content
      BY <2>1 DEF FreshInv, BlockSteady, Getting, Fresh
    <3>2. SigFiles(Present) = SigFiles(whole)
      BY <1>5, <3>1 DEF SigFiles, Present
    <3> QED
      BY <2>2, <2>3, <3>1, <3>2
  <2> QED
    BY <2>1, <2>3, <2>4, <2>5, FreshMoves
<1>6. CASE Flag(t) /\ RevokeFile \notin torn
  <2> DEFINE c == [entry |-> task[t].read.entry, revoked |-> RevokeFile \in whole]
             x == [task[t] EXCEPT !.pc = "fill", !.read = c]
  <2>1. task[t].pc = "flag" /\ UNCHANGED <<files, cache, overlapped>>
    BY <1>6 DEF Flag
  <2>2. task' = [task EXCEPT ![t] = x]
    BY <1>6, TaskFacts DEF Flag, Task
  <2>3. x.pc = "fill" /\ x.read = c
    <3>1. \A d : \A y \in Task : LET z == [y EXCEPT !.pc = "fill", !.read = d]
                             IN  z.pc = "fill" /\ z.read = d
      BY DEF Task
    <3> HIDE DEF c
    <3> QED
      BY <3>1, TaskFacts
  <2>4. c.entry = task[t].read.entry /\ (c.revoked <=> RevokeFile \in whole)
    OBVIOUS
  <2> HIDE DEF x, c
  <2>5. ~overlapped => BlockFile \in whole /\ x.read.entry[1] = content
    BY <2>1, <2>3, <2>4 DEF FreshInv, BlockSteady, Getting
  <2>6. ~overlapped /\ Quiet => Fresh(x)
    BY <2>1, <2>3, <2>4 DEF FreshInv, Fresh
  <2> QED
    BY <2>1, <2>2, <2>3, <2>5, <2>6, FreshMoves
<1>7. CASE Fill(t)
  <2>1. /\ task[t].pc = "fill" /\ UNCHANGED <<files, overlapped>>
        /\ cache' = task[t].read /\ Return(t, task[t].read)
    BY <1>7 DEF Fill
  <2>2. \E x : Away(x) /\ task' = [task EXCEPT ![t] = x]
    BY <2>1, GoesAway
  <2> QED
    BY <2>1, <2>2, FreshAway
<1> QED
  BY <1>1, <1>2, <1>3, <1>4, <1>5, <1>6, <1>7

\* The steps of handlers and syncs that write nothing.
LEMMA FreshInvDecide ==
    ASSUME StoreInv, FreshInv, NEW t \in Thread, Decide(t) \/ Each(t) \/ Exists(t)
    PROVE  FreshInv'
<1> SUFFICES ASSUME ~overlapped' PROVE FreshInv'
  BY DEF FreshInv
<1>1. task[t].pc \notin {"write", "pop"} /\ UNCHANGED <<files, cache, overlapped>>
  BY TaskFacts DEF Decide, Each, Exists
<1>2. SUFFICES \E x : Away(x) /\ task' = [task EXCEPT ![t] = x]
  BY <1>1, <1>2, FreshAway
<1>3. CASE Done(t) \/ Goto(t, "open")
  BY <1>3, GoesAway
<1>4. CASE task' = [Get(t, "open") EXCEPT ![t].entry = Linked(t)]
  <2> DEFINE y == [task[t] EXCEPT !.pc = "look", !.then = "open", !.entry = Linked(t)]
  <2>1. task' = [task EXCEPT ![t] = y] /\ y.pc = "look"
    BY <1>4, TaskFacts DEF Get, Task
  <2> HIDE DEF y
  <2> QED
    BY <2>1 DEF Away
<1>5. CASE task' = [task EXCEPT ![t].pc = "each", ![t].known = Signers(task[t].copy.entry)]
  <2> DEFINE y == [task[t] EXCEPT !.pc = "each", !.known = Signers(task[t].copy.entry)]
  <2>1. task' = [task EXCEPT ![t] = y] /\ y.pc = "each"
    BY <1>5, TaskFacts DEF Task
  <2> HIDE DEF y
  <2> QED
    BY <2>1 DEF Away
<1>6. CASE task[t].pc = "each" /\ task' = [task EXCEPT ![t].todo = Tail(task[t].todo)]
  <2> DEFINE y == [task[t] EXCEPT !.todo = Tail(task[t].todo)]
  <2>1. task' = [task EXCEPT ![t] = y] /\ y.pc = "each"
    BY <1>6, TaskFacts DEF Task
  <2> HIDE DEF y
  <2> QED
    BY <2>1 DEF Away
<1>7. CASE task' = [Get(t, "open") EXCEPT ![t].entry = Head(task[t].todo),
                                          ![t].todo = Tail(task[t].todo)]
  <2> DEFINE y == [task[t] EXCEPT !.pc = "look", !.then = "open",
                                  !.entry = Head(task[t].todo), !.todo = Tail(task[t].todo)]
  <2>1. task' = [task EXCEPT ![t] = y] /\ y.pc = "look"
    BY <1>7, TaskFacts DEF Get, Task
  <2> HIDE DEF y
  <2> QED
    BY <2>1 DEF Away
<1> QED
  BY <1>3, <1>4, <1>5, <1>6, <1>7 DEF Decide, Each, Exists

\* Opening a file, writing it, and invalidating the cache.
LEMMA FreshInvOpen ==
    ASSUME StoreInv, FreshInv, AddsInv, NEW t \in Thread, Open(t)
    PROVE  FreshInv'
<1> DEFINE x == [task[t] EXCEPT !.pc = "write"]
<1>1. /\ task[t].pc = "open" /\ UNCHANGED cache
      /\ torn' = torn \cup {Target(t)} /\ whole' = whole \ {Target(t)}
      /\ content' = IF task[t].op = "add" THEN "none" ELSE content
      /\ ~overlapped' => ~overlapped /\ (task[t].op = "add" => BlockFile \notin Present)
  BY TaskFacts DEF Open, AddsInv, Adding
<1>2. task' = [task EXCEPT ![t] = x]
  BY GotoIs DEF Open
<1>3. x.pc = "write" /\ x.op = task[t].op
  BY TaskFacts DEF Task
<1> HIDE DEF x
<1>4. task'[t] = x /\ \A u \in Thread \ {t} : task'[u] = task[u]
  BY <1>2, TaskFacts
<1>5. ~Quiet'
  BY <1>3, <1>4 DEF Quiet
<1>6. ASSUME ~overlapped' PROVE BlockSteady'
  <2>1. BlockSteady
    BY <1>1, <1>6 DEF FreshInv
  <2>2. CASE task[t].op = "add"
    <3>1. Target(t) = BlockFile /\ BlockFile \in torn' /\ BlockFile \notin torn \cup whole
      BY <1>1, <1>6, <2>2 DEF Target, Present
    <3>2. \A u \in Thread : ~WritesBlock(task[u]) /\ ~Getting(task[u])
      BY <2>1, <3>1 DEF BlockSteady
    <3>3. cache = NoCopy
      BY <2>1, <3>1 DEF BlockSteady
    <3>4. \A u \in Thread : ~Getting(task'[u]) /\ (WritesBlock(task'[u]) => u = t)
      BY <1>3, <1>4, <3>2 DEF Getting
    <3> QED
      BY <1>1, <3>1, <3>3, <3>4 DEF BlockSteady, WritesBlock, Getting
  <2>3. CASE task[t].op # "add"
    <3>1. Target(t) # BlockFile
      BY <1>1, <2>3, RevokersTarget
    <3>2. content' = content /\ torn \subseteq torn' /\ (BlockFile \in whole => BlockFile \in whole')
      BY <1>1, <2>3, <3>1
    <3>3. \A u \in Thread : /\ WritesBlock(task'[u]) => WritesBlock(task[u])
                            /\ Getting(task'[u]) => Getting(task[u]) /\ task'[u] = task[u]
      BY <1>3, <1>4, <2>3 DEF WritesBlock, Getting
    <3>4. \A u \in Thread : WritesBlock(task'[u]) => BlockFile \in torn'
      BY <2>1, <3>2, <3>3 DEF BlockSteady
    <3>5. \A u, v \in Thread : WritesBlock(task'[u]) /\ WritesBlock(task'[v]) => u = v
      BY <2>1, <3>3 DEF BlockSteady
    <3>6. \A u \in Thread : Getting(task'[u]) => /\ BlockFile \in whole'
                                                 /\ task'[u].read.entry[1] = content'
      BY <2>1, <3>2, <3>3 DEF BlockSteady
    <3>7. cache' # NoCopy => BlockFile \in whole'
      BY <1>1, <2>1, <3>2 DEF BlockSteady
    <3> QED
      BY <3>4, <3>5, <3>6, <3>7 DEF BlockSteady, WritesBlock, Getting
  <2> QED
    BY <2>2, <2>3
<1> QED
  BY <1>5, <1>6 DEF FreshInv

LEMMA FreshInvWrite ==
    ASSUME StoreInv, FreshInv, NEW t \in Thread, Write(t)
    PROVE  FreshInv'
<1>1. /\ task[t].pc = "write" /\ UNCHANGED <<cache, overlapped>>
      /\ torn' = torn \ {Target(t)} /\ whole' = whole \cup {Target(t)}
  BY DEF Write
<1> SUFFICES ASSUME ~overlapped PROVE FreshInv'
  BY <1>1 DEF FreshInv
<1>2. BlockSteady
  BY DEF FreshInv
<1>3. CASE task[t].op = "add"
  <2>1. /\ WritesBlock(task[t]) /\ BlockFile \in torn /\ BlockFile \notin whole
    BY <1>1, <1>2, <1>3 DEF BlockSteady, WritesBlock, StoreInv, FilesSound
  <2>2. cache = NoCopy /\ \A u \in Thread : ~Getting(task[u]) /\ (WritesBlock(task[u]) => u = t)
    BY <1>2, <2>1 DEF BlockSteady
  <2>3. PICK x : Away(x) /\ task' = [task EXCEPT ![t] = x]
    <3>1. CASE Done(t)
      BY <3>1, GoesAway
    <3>2. CASE task' = [Get(t, "decide") EXCEPT ![t].op = "apply", ![t].entry = <<>>]
      <4> DEFINE y == [task[t] EXCEPT !.pc = "look", !.then = "decide",
                                      !.op = "apply", !.entry = <<>>]
      <4>1. task' = [task EXCEPT ![t] = y] /\ y.pc = "look"
        BY <3>2, TaskFacts DEF Get, Task
      <4> HIDE DEF y
      <4> QED
        BY <4>1 DEF Away
    <3> QED
      BY <1>3, <3>1, <3>2 DEF Write
  <2>4. task'[t] = x /\ \A u \in Thread \ {t} : task'[u] = task[u]
    BY <2>3, TaskFacts
  <2>5. \A u \in Thread : ~Getting(task'[u]) /\ ~WritesBlock(task'[u])
    BY <2>2, <2>3, <2>4 DEF Away, Getting, WritesBlock
  <2>6. cache' = NoCopy
    BY <1>1, <2>2
  <2>7. BlockSteady'
    BY <2>5, <2>6 DEF BlockSteady, Getting, WritesBlock
  <2>8. \A u \in Thread : task'[u].pc \notin {"read", "flag", "fill"}
    BY <2>5 DEF Getting
  <2> QED
    BY <2>6, <2>7, <2>8 DEF FreshInv, Fresh
<1>4. CASE task[t].op # "add"
  <2> DEFINE x == [task[t] EXCEPT !.pc = "pop"]
  <2>1. task' = [task EXCEPT ![t] = x] /\ x.pc = "pop" /\ content' = content
    BY <1>4, TaskFacts, GotoIs DEF Write, Task
  <2> HIDE DEF x
  <2>2. task'[t] = x /\ \A u \in Thread \ {t} : task'[u] = task[u]
    BY <2>1, TaskFacts
  <2>3. ~Quiet'
    BY <2>1, <2>2 DEF Quiet
  <2>4. Target(t) # BlockFile
    BY <1>1, <1>4, RevokersTarget
  <2>5. (BlockFile \in torn => BlockFile \in torn') /\ (BlockFile \in whole => BlockFile \in whole')
    BY <1>1, <2>4
  <2>6. \A u \in Thread : /\ WritesBlock(task'[u]) => WritesBlock(task[u])
                          /\ Getting(task'[u]) => Getting(task[u]) /\ task'[u] = task[u]
    BY <2>1, <2>2 DEF WritesBlock, Getting
  <2>7. \A u \in Thread : WritesBlock(task'[u]) => BlockFile \in torn'
    BY <1>2, <2>5, <2>6 DEF BlockSteady
  <2>8. \A u, v \in Thread : WritesBlock(task'[u]) /\ WritesBlock(task'[v]) => u = v
    BY <1>2, <2>6 DEF BlockSteady
  <2>9. \A u \in Thread : Getting(task'[u]) => /\ BlockFile \in whole'
                                               /\ task'[u].read.entry[1] = content'
    BY <1>2, <2>1, <2>5, <2>6 DEF BlockSteady
  <2>10. cache' # NoCopy => BlockFile \in whole'
    BY <1>1, <1>2, <2>5 DEF BlockSteady
  <2>11. BlockSteady'
    BY <2>7, <2>8, <2>9, <2>10 DEF BlockSteady, WritesBlock, Getting
  <2> QED
    BY <2>3, <2>11 DEF FreshInv
<1> QED
  BY <1>3, <1>4

\* Whoever is in the middle of a read now is noticed.
LEMMA FreshInvPop ==
    ASSUME StoreInv, FreshInv, NEW t \in Thread, Pop(t)
    PROVE  FreshInv'
<1>1. /\ task[t].pc = "pop" /\ UNCHANGED <<torn, whole, content>> /\ cache' = NoCopy
      /\ ~overlapped' => ~overlapped /\ \A u \in Thread : ~Reading(u)
  BY DEF Pop, files
<1>2. PICK x : Away(x) /\ task' = [task EXCEPT ![t] = x]
  <2>1. CASE Done(t)
    BY <2>1, GoesAway
  <2>2. CASE task' = Get(t, "answer")
    <3> DEFINE y == [task[t] EXCEPT !.pc = "look", !.then = "answer"]
    <3>1. task' = [task EXCEPT ![t] = y] /\ y.pc = "look"
      BY <2>2, TaskFacts DEF Get, Task
    <3> HIDE DEF y
    <3> QED
      BY <3>1 DEF Away
  <2>3. CASE task' = [Get(t, "each") EXCEPT
                       ![t].entry = <<>>,
                       ![t].known = task[t].known \cup {Signer(task[t].entry)}]
    <3> DEFINE y == [task[t] EXCEPT !.pc = "look", !.then = "each", !.entry = <<>>,
                       !.known = task[t].known \cup {Signer(task[t].entry)}]
    <3>1. task' = [task EXCEPT ![t] = y] /\ y.pc = "look"
      BY <2>3, TaskFacts DEF Get, Task
    <3> HIDE DEF y
    <3> QED
      BY <3>1 DEF Away
  <2> QED
    BY <2>1, <2>2, <2>3 DEF Pop
<1>3. task'[t] = x /\ \A u \in Thread \ {t} : task'[u] = task[u]
  BY <1>2, TaskFacts
<1> SUFFICES ASSUME ~overlapped' PROVE FreshInv'
  BY DEF FreshInv
<1>4. BlockSteady
  BY <1>1 DEF FreshInv
<1>5. \A u \in Thread : /\ WritesBlock(task'[u]) => WritesBlock(task[u])
                        /\ Getting(task'[u]) => Getting(task[u]) /\ task'[u] = task[u]
                        /\ task'[u].pc \notin {"read", "flag", "fill"}
  BY <1>1, <1>2, <1>3 DEF WritesBlock, Getting, Away, Reading
<1>6. BlockSteady'
  <2>1. \A u \in Thread : WritesBlock(task'[u]) => BlockFile \in torn'
    BY <1>1, <1>4, <1>5 DEF BlockSteady
  <2>2. \A u, v \in Thread : WritesBlock(task'[u]) /\ WritesBlock(task'[v]) => u = v
    BY <1>4, <1>5 DEF BlockSteady
  <2>3. \A u \in Thread : Getting(task'[u]) => /\ BlockFile \in whole'
                                               /\ task'[u].read.entry[1] = content'
    BY <1>1, <1>4, <1>5 DEF BlockSteady
  <2> QED
    BY <1>1, <2>1, <2>2, <2>3 DEF BlockSteady, WritesBlock, Getting
<1> QED
  BY <1>1, <1>5, <1>6 DEF FreshInv, Fresh

LEMMA FreshInvInit == Init => FreshInv
<1> SUFFICES ASSUME Init PROVE FreshInv
  OBVIOUS
<1>1. cache = NoCopy /\ \A u \in Thread : task[u].pc = "idle"
  BY DEF Init, Idle
<1> QED
  BY <1>1 DEF FreshInv, BlockSteady, Fresh, WritesBlock, Getting

LEMMA FreshInvNext == StoreInv /\ AddsInv /\ FreshInv /\ [Next]_vars => FreshInv'
<1> SUFFICES ASSUME StoreInv, AddsInv, FreshInv, [Next]_vars PROVE FreshInv'
  OBVIOUS
<1>1. CASE UNCHANGED vars \/ Evict
  <2>1. UNCHANGED <<torn, whole, content, task, overlapped>> /\ (cache' = cache \/ cache' = NoCopy)
    BY <1>1 DEF vars, files, Evict
  <2>2. ~overlapped => BlockSteady'
    BY <2>1 DEF FreshInv, BlockSteady, WritesBlock, Getting
  <2>3. Quiet' = Quiet /\ (Quiet /\ ~overlapped => \A u \in Thread : Fresh(task[u])')
    BY <2>1 DEF FreshInv, Quiet, Fresh, Present, SigFiles, WalkEnds
  <2>4. ~overlapped /\ Quiet /\ cache' # NoCopy
          => /\ cache'.entry \in WalkEnds(content, SigFiles(whole))'
             /\ cache'.revoked <=> RevokeFile \in whole'
    BY <2>1 DEF FreshInv, SigFiles, WalkEnds
  <2> QED
    BY <2>1, <2>2, <2>3, <2>4 DEF FreshInv
<1>2. ASSUME NEW t \in Thread, Step(t) PROVE FreshInv'
  BY <1>2, FreshInvGet, FreshInvDecide, FreshInvOpen, FreshInvWrite, FreshInvPop DEF Step
<1>3. ASSUME NEW t \in Thread, GetBlock(t) PROVE FreshInv'
  BY <1>3, FreshRequest DEF GetBlock
<1>4. ASSUME NEW b \in Block, AddBlock(b) \/ RevokeBlock(b) PROVE FreshInv'
  BY <1>4, FreshRequest, LoopIsThread DEF AddBlock, RevokeBlock
<1>5. ASSUME NEW e, SignBlock(e) \/ ReceiveSig(e) PROVE FreshInv'
  BY <1>5, FreshRequest, LoopIsThread DEF SignBlock, ReceiveSig
<1>6. ASSUME NEW t \in Worker, NEW e \in Offered, NEW k \in 1 .. Len(e),
             SyncSigChain(t, e, k) \/ FetchAndStore(t, e, k)
      PROVE  FreshInv'
  BY <1>6, FreshRequest, LoopIsThread DEF SyncSigChain, FetchAndStore
<1>7. CASE Restart
  <2>1. cache' = NoCopy /\ \A u \in Thread : task'[u].pc = "idle"
    BY <1>7 DEF Restart, Idle
  <2> QED
    BY <2>1 DEF FreshInv, BlockSteady, Fresh, WritesBlock, Getting
<1> QED
  BY <1>1, <1>2, <1>3, <1>4, <1>5, <1>6, <1>7 DEF Next

\* When nobody is writing, the cached block is what a read of the files would give, unless
\* a write invalidated the cache while a read was under way (dir_store.py:136), or two
\* adds were both let through to the block file.
THEOREM CacheIsFresh == Spec => []StaleOnlyByOverlap
<1>1. FreshInv => StaleOnlyByOverlap
  BY DEF FreshInv, Quiet, StaleOnlyByOverlap
<1>2. Spec => []StoreInv
  BY StoreInvariant
<1>3. Spec => []FreshInv
  BY <1>2, AddsInvariant, FreshInvInit, FreshInvNext, PTL DEF Spec
<1> QED
  BY <1>1, <1>3, PTL
=============================================================================
