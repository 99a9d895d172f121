------------------------------ MODULE Tickets ------------------------------
(***************************************************************************)
(* The tickets of one namespace on disk, and the commands of               *)
(* .agents/cli/src/ticket that number, scaffold, index and roll back:      *)
(* `new`, `new-chain`, `sync` and `sync --check`.  A step is one file      *)
(* operation; each may fail, and a command may die between any two.        *)
(*                                                                         *)
(* A ticket folder is bare, holds its task.md, or holds one whose          *)
(* frontmatter does not parse.  An index lists what it was rendered from,  *)
(* or was cut while it was written.  The memories are one category.        *)
(***************************************************************************)
EXTENDS Naturals, Sequences, FiniteSetsExt

CONSTANTS
    Commands,     \* the processes
    MaxNumber,    \* bound on ticket numbers
    ShardSize,    \* TASK_SHARD_SIZE
    ChainLength,  \* the tickets of a chain
    MaxRuns,      \* bound on commands started
    MaxEdits      \* bound on what else changes the files

VARIABLES
    tickets,      \* what is in each ticket folder
    memory,       \* the memory files: their version, unreadable, or none
    shards,       \* the index.yaml of each chunk, empty when there is none
    router,       \* tasks/index.yaml
    recall,       \* the memory index
    cmd,          \* the commands
    runs, edits,  \* bounds
    cut           \* history: a rollback stopped halfway

vars == <<tickets, memory, shards, router, recall, cmd, runs, edits, cut>>

files == <<tickets, memory, shards, router, recall>>
indexes == <<shards, router, recall>>

Numbers == 1..MaxNumber
ChunkOf(n) == (n - 1) \div ShardSize + 1
Chunks == 1..ChunkOf(MaxNumber)
Existing == DOMAIN tickets
Gapless(numbers) == \A n \in numbers : 1..n \subseteq numbers

(* alone: no other command or edit came in between since it began; fresh:  *)
(* since it collected what it is about to index; before: what it found.    *)
Idle == [kind |-> "none", pc |-> "idle", ids |-> <<>>, todo |-> <<>>, entries |-> {},
         memory |-> "v0", drift |-> FALSE, result |-> "none", alone |-> FALSE,
         fresh |-> FALSE, before |-> {}]

Scaffolds(c) == cmd[c].kind \in {"new", "chain"}

(* The command's own step; it disturbs every other. *)
Set(c, r) == cmd' = [d \in Commands |->
    IF d = c THEN r ELSE [cmd[d] EXCEPT !.alone = FALSE, !.fresh = FALSE]]
To(c, pc) == [cmd[c] EXCEPT !.pc = pc]
Ended(c, result) == [cmd[c] EXCEPT !.pc = "done", !.result = result, !.todo = <<>>,
                                   !.entries = {}, !.memory = "v0", !.drift = FALSE]

(* What the indexes list of a set of entries. *)
Listing(entries, chunk) == {e \in entries : ChunkOf(e[1]) = chunk}
Entries == {<<n, tickets[n]>> : n \in Existing}
Shards(entries) == [chunk \in Chunks |-> Listing(entries, chunk)]

-----------------------------------------------------------------------------
(* Numbering and scaffolding.                                              *)

Begin(c, kind) ==
    /\ cmd[c].pc \in {"idle", "done"} /\ runs < MaxRuns
    /\ runs' = runs + 1
    /\ Set(c, [Idle EXCEPT !.kind = kind, !.alone = TRUE, !.before = Existing,
                           !.pc = IF kind \in {"new", "chain"} THEN "number" ELSE "collect"])
    /\ UNCHANGED <<files, edits, cut>>

(* next_ticket_number: a gap refuses; then build_chain's consecutive ids. *)
Number(c) ==
    LET first == Max(Existing \cup {0}) + 1
        length == IF cmd[c].kind = "chain" THEN ChainLength ELSE 1
        ids == [i \in 1..length |-> first + i - 1]
    IN
    /\ cmd[c].pc = "number"
    /\ IF ~Gapless(Existing) THEN Set(c, Ended(c, "refused"))
       ELSE /\ first + length - 1 <= MaxNumber
            /\ Set(c, [cmd[c] EXCEPT !.ids = ids, !.todo = ids,
                         !.pc = IF cmd[c].kind = "chain" THEN "exists" ELSE "folder"])
    /\ UNCHANGED <<files, runs, edits, cut>>

(* A chain refuses a folder in its way; `new` does not look. *)
Exists(c) ==
    /\ cmd[c].pc = "exists"
    /\ IF \E i \in DOMAIN cmd[c].ids : cmd[c].ids[i] \in Existing
       THEN Set(c, Ended(c, "refused")) ELSE Set(c, To(c, "folder"))
    /\ UNCHANGED <<files, runs, edits, cut>>

With(n, content) == [m \in Existing \cup {n} |-> IF m = n THEN content ELSE tickets[m]]

Folder(c) ==
    /\ cmd[c].pc = "folder" /\ cmd[c].todo # <<>>
    /\ tickets' = IF Head(cmd[c].todo) \in Existing THEN tickets
                  ELSE With(Head(cmd[c].todo), "bare")
    /\ Set(c, To(c, "task"))
    /\ UNCHANGED <<memory, indexes, runs, edits, cut>>

Task(c) ==
    /\ cmd[c].pc = "task"
    /\ tickets' = With(Head(cmd[c].todo), "task")
    /\ Set(c, [To(c, "folder") EXCEPT !.todo = Tail(@)])
    /\ UNCHANGED <<memory, indexes, runs, edits, cut>>

(* All written: announced at once with --no-sync, or the sync runs. *)
Scaffolded(c) ==
    /\ cmd[c].pc = "folder" /\ cmd[c].todo = <<>>
    /\ Set(c, Ended(c, "ok")) \/ Set(c, To(c, "collect"))
    /\ UNCHANGED <<files, runs, edits, cut>>

(* Faulty variant: the ids that were not reached yet are taken for all. *)
GiveUpWritten(c) == [To(c, "rollback") EXCEPT !.todo = Tail(cmd[c].ids)]

(* sync_or_rollback, or a chain's failed write: every folder goes. *)
GiveUp(c) == [To(c, "rollback") EXCEPT !.todo = cmd[c].ids]

(* A write that fails may leave part of the file.  `new` keeps it. *)
WriteFails(c) ==
    /\ cmd[c].pc \in {"folder", "task"} /\ cmd[c].todo # <<>>
    /\ tickets' \in {tickets} \cup IF cmd[c].pc = "task"
                                   THEN {With(Head(cmd[c].todo), "broken")} ELSE {}
    /\ Set(c, IF cmd[c].kind = "chain" THEN GiveUp(c) ELSE Ended(c, "failed"))
    /\ UNCHANGED <<memory, indexes, runs, edits, cut>>

Without(n) == [m \in Existing \ {n} |-> tickets[m]]

(* remove_scaffold_dirs, one folder at a time. *)
Rollback(c) ==
    /\ cmd[c].pc = "rollback"
    /\ IF cmd[c].todo = <<>> THEN Set(c, Ended(c, "rolled_back")) /\ UNCHANGED tickets
       ELSE /\ tickets' = Without(Head(cmd[c].todo))
            /\ Set(c, [cmd[c] EXCEPT !.todo = Tail(@)])
    /\ UNCHANGED <<memory, indexes, runs, edits, cut>>

RollbackFails(c) ==
    /\ cmd[c].pc = "rollback" /\ cmd[c].todo # <<>>
    /\ cut' = TRUE
    /\ Set(c, Ended(c, "failed"))
    /\ UNCHANGED <<files, runs, edits>>

-----------------------------------------------------------------------------
(* sync.                                                                   *)

(* A sync that cannot finish: the scaffold it belongs to is undone. *)
SyncFails(c) == IF Scaffolds(c) THEN GiveUp(c) ELSE Ended(c, "failed")

(* Everything is read before anything is written. *)
Collect(c) ==
    /\ cmd[c].pc = "collect"
    /\ IF memory = "broken" \/ \E n \in Existing : tickets[n] = "broken"
       THEN Set(c, SyncFails(c))
       ELSE Set(c, [To(c, "shard") EXCEPT !.entries = Entries, !.memory = memory,
                                          !.todo = [i \in Chunks |-> i], !.fresh = TRUE])
    /\ UNCHANGED <<files, runs, edits, cut>>

(* update_generated: only a file that differs. *)
Drifts(old, new) == old # new

Writes(c, drifts) == drifts /\ cmd[c].kind # "check"
Noted(c, pc, drifts) == [To(c, pc) EXCEPT !.drift = @ \/ drifts]

Shard(c) ==
    LET chunk == Head(cmd[c].todo)
        new == Listing(cmd[c].entries, chunk)
        drifts == new # {} /\ Drifts(shards[chunk], new)
    IN
    /\ cmd[c].pc = "shard"
    /\ IF cmd[c].todo = <<>> THEN Set(c, To(c, "stale")) /\ UNCHANGED shards
       ELSE /\ shards' = IF Writes(c, drifts) THEN [shards EXCEPT ![chunk] = new] ELSE shards
            /\ Set(c, [Noted(c, "shard", drifts) EXCEPT !.todo = Tail(@)])
    /\ UNCHANGED <<tickets, memory, router, recall, runs, edits, cut>>

(* The index of a chunk that holds no ticket any more is removed; a check  *)
(* counts it and goes on.                                                  *)
Stale(c) ==
    LET old == {chunk \in Chunks : shards[chunk] # {} /\ Listing(cmd[c].entries, chunk) = {}}
    IN
    /\ cmd[c].pc = "stale"
    /\ \/ \E chunk \in old : /\ Writes(c, TRUE)
                             /\ shards' = [shards EXCEPT ![chunk] = {}]
                             /\ Set(c, Noted(c, "stale", TRUE))
       \/ /\ ~Writes(c, TRUE) \/ old = {}
          /\ Set(c, Noted(c, "router", old # {}))
          /\ UNCHANGED shards
    /\ UNCHANGED <<tickets, memory, router, recall, runs, edits, cut>>

Router(c) ==
    LET new == Shards(cmd[c].entries) IN
    /\ cmd[c].pc = "router"
    /\ router' = IF Writes(c, router # new) THEN new ELSE router
    /\ Set(c, Noted(c, "memory", router # new))
    /\ UNCHANGED <<tickets, memory, shards, recall, runs, edits, cut>>

(* A category without a memory renders no index: the one there is stays.   *)
Renders(c) == cmd[c].memory # "none"

Memory(c) ==
    LET drifts == Renders(c) /\ recall # cmd[c].memory IN
    /\ cmd[c].pc = "memory"
    /\ recall' = IF Writes(c, drifts) THEN cmd[c].memory ELSE recall
    /\ Set(c, Ended(c, IF cmd[c].kind = "check" /\ (cmd[c].drift \/ drifts)
                       THEN "drift" ELSE "ok"))
    /\ UNCHANGED <<tickets, memory, shards, router, runs, edits, cut>>

Cut == {<<0, "cut">>}

(* A write that ends halfway leaves part of the index it replaces.         *)
CutIndex(c) ==
    \/ UNCHANGED indexes
    \/ /\ cmd[c].pc = "shard" /\ cmd[c].todo # <<>> /\ cmd[c].kind # "check"
       /\ LET chunk == Head(cmd[c].todo)
              new == Listing(cmd[c].entries, chunk)
          IN new # {} /\ shards[chunk] # new /\ shards' = [shards EXCEPT ![chunk] = Cut]
       /\ UNCHANGED <<router, recall>>
    \/ /\ cmd[c].pc = "router" /\ cmd[c].kind # "check"
       /\ router # Shards(cmd[c].entries) /\ router' = [chunk \in Chunks |-> Cut]
       /\ UNCHANGED <<shards, recall>>
    \/ /\ cmd[c].pc = "memory" /\ cmd[c].kind # "check"
       /\ Renders(c) /\ recall # cmd[c].memory /\ recall' = "cut"
       /\ UNCHANGED <<shards, router>>

(* An index cannot be read, written or removed.                            *)
IndexFails(c) ==
    /\ cmd[c].pc \in {"shard", "stale", "router", "memory"}
    /\ CutIndex(c)
    /\ Set(c, SyncFails(c))
    /\ UNCHANGED <<tickets, memory, runs, edits, cut>>

-----------------------------------------------------------------------------
(* The command dies; a file it was writing may be cut. *)
Crash(c) ==
    /\ cmd[c].pc \notin {"idle", "done"}
    /\ tickets' \in {tickets} \cup IF cmd[c].pc = "task"
                                   THEN {With(Head(cmd[c].todo), "broken")} ELSE {}
    /\ CutIndex(c)
    /\ cut' = (cut \/ cmd[c].pc = "rollback")
    /\ Set(c, Ended(c, "crashed"))
    /\ UNCHANGED <<memory, runs, edits>>

(* An editor or git: a ticket goes, breaks or is mended; a memory changes, *)
(* or the last one goes.                                                   *)
Edit ==
    /\ edits < MaxEdits
    /\ edits' = edits + 1
    /\ \/ /\ \E n \in Existing : tickets' \in {Without(n), With(n, "broken"), With(n, "task")}
          /\ UNCHANGED memory
       \/ memory' \in {"v0", "v1", "broken", "none"} \ {memory} /\ UNCHANGED tickets
    /\ cmd' = [c \in Commands |-> [cmd[c] EXCEPT !.alone = FALSE, !.fresh = FALSE]]
    /\ UNCHANGED <<indexes, runs, cut>>

Step(c) ==
    \/ \E kind \in {"new", "chain", "sync", "check"} : Begin(c, kind)
    \/ Number(c) \/ Exists(c) \/ Folder(c) \/ Task(c) \/ Scaffolded(c)
    \/ WriteFails(c) \/ Rollback(c) \/ RollbackFails(c)
    \/ Collect(c) \/ Shard(c) \/ Stale(c) \/ Router(c) \/ Memory(c) \/ IndexFails(c)
    \/ Crash(c)

Init ==
    /\ tickets \in {<<>>, <<"task">>} /\ memory = "v0"
    /\ shards = Shards(Entries) /\ router = shards /\ recall = "v0"
    /\ cmd = [c \in Commands |-> Idle] /\ runs = 0 /\ edits = 0 /\ cut = FALSE

Next == Edit \/ \E c \in Commands : Step(c)

Spec == Init /\ [][Next]_vars

-----------------------------------------------------------------------------
(* Properties.                                                             *)

(* A command that nothing came between: told that nothing was consumed     *)
(* (new.rs, new_chain.rs), the user has the folders there were; told of    *)
(* tickets, the user has them whole; and the numbers stay without a gap    *)
(* for the next command unless a rollback was cut.                         *)
NothingConsumed ==
    \A c \in Commands : cmd[c].alone /\ cmd[c].pc = "done" =>
        /\ cmd[c].result = "rolled_back" => Existing = cmd[c].before
        /\ cmd[c].result = "ok" => \A i \in DOMAIN cmd[c].ids : tickets[cmd[c].ids[i]] = "task"
        /\ Gapless(cmd[c].before) /\ ~cut => Gapless(Existing)

(* A sync that ends well has indexed exactly what is there, whatever       *)
(* earlier commands left half done or cut; and a check finds nothing only  *)
(* when that is so (sync.rs, update_generated).  Of a category that lost   *)
(* its last memory neither says anything: its old index stays.             *)
SyncedMeansListed ==
    \A c \in Commands : cmd[c].fresh /\ cmd[c].pc = "done" /\ cmd[c].result \in {"ok", "drift"} =>
        LET listed == /\ shards = Shards(Entries) /\ router = shards
                      /\ memory # "none" => recall = memory
        IN IF cmd[c].result = "ok" THEN listed ELSE ~listed
=============================================================================
