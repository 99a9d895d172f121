------------------------------ MODULE Changes ------------------------------
(***************************************************************************)
(* The workspace's changed files, crates/gritt-harness/src/changes.rs, and *)
(* the tasks of tui/run.rs that use it: a rescan after whatever may have   *)
(* changed files, which nobody cancels, and the diff of one file, which    *)
(* the user may stop waiting for.                                          *)
(*                                                                         *)
(* Git and the file system are reached by blocking workers.  A worker is   *)
(* not stopped by the end of the task that waits for it, and at most       *)
(* MaxWorkers run at once.  Of a change only its path is modelled.         *)
(***************************************************************************)
EXTENDS Naturals, FiniteSets

CONSTANTS
    Tasks,         \* the tasks alive at once
    Paths,
    MaxWorkers     \* MAX_CONCURRENT_SCANS

VARIABLES
    changed,       \* the paths git lists now
    unreported,    \* writes a turn observed, not yet given to a rescan
    baseline,      \* {paths}, or {} while it was not captured
    observed,      \* writes recorded, for a workspace without git
    repository,    \* is_repository
    permits,       \* the semaphore's free permits
    task,          \* each task: see TypeOK
    strays,        \* workers whose task is gone
    shown          \* the last rescan to end: {paths with a mark, true if pre-existing}

service == <<baseline, observed, repository>>
world   == <<changed, unreported>>
vars == <<world, service, permits, task, strays, shown>>

NoAnswer == {}

Idle == [pc |-> "idle", work |-> "none", todo |-> {}, base |-> {}, seen |-> NoAnswer]

Set(t, r) == task' = [task EXCEPT ![t] = r]

(* blocking: from where it stands a task asks for a worker. *)
Ask(t, pc) == [task[t] EXCEPT !.pc = pc, !.work = "queued", !.seen = NoAnswer]

Running == {t \in Tasks : task[t].work = "running"}

-----------------------------------------------------------------------------
(* The workers.                                                            *)

Acquire(t) ==
    /\ task[t].work = "queued" /\ permits > 0
    /\ permits' = permits - 1
    /\ task' = [task EXCEPT ![t].work = "running"]
    /\ UNCHANGED <<world, service, strays, shown>>

(* The worker ends and the permit it owns with it.  Git answers, or is not *)
(* there; a file is read or not.                                           *)
WorkerEnds(t) ==
    /\ task[t].work = "running"
    /\ permits' = permits + 1
    /\ \E seen \in {{changed}, NoAnswer} :
         task' = [task EXCEPT ![t].work = "done", ![t].seen = seen]
    /\ UNCHANGED <<world, service, strays, shown>>

StrayEnds ==
    /\ strays > 0
    /\ strays' = strays - 1 /\ permits' = permits + 1
    /\ UNCHANGED <<world, service, task, shown>>

(* Faulty variant: the permit is held by the waiting task and dropped with *)
(* it.                                                                     *)
AbandonReleasing(t) ==
    /\ task[t].pc \in {"diff 1", "diff 2", "file"} /\ task[t].work \in {"queued", "running"}
    /\ strays' = strays + IF task[t].work = "running" THEN 1 ELSE 0
    /\ permits' = permits + IF task[t].work = "running" THEN 1 ELSE 0
    /\ Set(t, Idle)
    /\ UNCHANGED <<world, service, shown>>

(* The user stops waiting for a diff: the task is dropped where it waits.  *)
Abandon(t) ==
    /\ task[t].pc \in {"diff 1", "diff 2", "file"} /\ task[t].work \in {"queued", "running"}
    /\ strays' = strays + IF task[t].work = "running" THEN 1 ELSE 0
    /\ Set(t, Idle)
    /\ UNCHANGED <<world, service, permits, shown>>

-----------------------------------------------------------------------------
(* A rescan: record_and_scan.                                              *)

(* capture_baseline looks, and captures when nobody has. *)
Look(t, r) == IF baseline # {} THEN [r EXCEPT !.pc = "scan", !.work = "none"]
              ELSE [r EXCEPT !.pc = "capture", !.work = "queued", !.seen = NoAnswer]

Rescan(t) ==
    /\ task[t].pc = "idle"
    /\ unreported' = {}
    /\ IF unreported = {} THEN Set(t, Look(t, Idle))
       ELSE Set(t, [Idle EXCEPT !.pc = "record", !.work = "queued", !.todo = unreported])
    /\ UNCHANGED <<changed, service, permits, strays, shown>>

(* record_write: the path is looked at, then recorded; then the next one. *)
RecordWrite(t) ==
    /\ task[t].pc = "record" /\ task[t].work = "done"
    /\ \E p \in task[t].todo :
         LET rest == [task[t] EXCEPT !.todo = @ \ {p}] IN
         /\ observed' = observed \cup {p}
         /\ Set(t, IF rest.todo = {} THEN Look(t, rest)
                   ELSE [rest EXCEPT !.work = "queued", !.seen = NoAnswer])
    /\ UNCHANGED <<world, baseline, repository, permits, strays, shown>>

(* The baseline is set by whoever captured, also when another has set it   *)
(* since; without git it is empty.                                         *)
Capture(t) ==
    /\ task[t].pc = "capture" /\ task[t].work = "done"
    /\ repository' = (task[t].seen # NoAnswer)
    /\ baseline' = IF task[t].seen = NoAnswer THEN {{}} ELSE task[t].seen
    /\ Set(t, [task[t] EXCEPT !.pc = "scan", !.work = "none"])
    /\ UNCHANGED <<world, observed, permits, strays, shown>>

(* scan reads the baseline first, and compares what git lists with it. *)
ReadBaseline(t) ==
    /\ task[t].pc = "scan"
    /\ Set(t, [Ask(t, "compare") EXCEPT !.base = baseline])
    /\ UNCHANGED <<world, service, permits, strays, shown>>

Compare(t) ==
    /\ task[t].pc = "compare" /\ task[t].work = "done"
    /\ repository' = (task[t].seen # NoAnswer)
    /\ LET files == IF task[t].seen = NoAnswer THEN observed ELSE UNION task[t].seen IN
       shown' = {<<p, p \in UNION task[t].base>> : p \in files}
    /\ Set(t, Idle)
    /\ UNCHANGED <<world, baseline, observed, permits, strays>>

-----------------------------------------------------------------------------
(* diff: the worktree, the index, then the file itself.                    *)

Diff(t) ==
    /\ task[t].pc = "idle"
    /\ Set(t, Ask(t, IF repository THEN "diff 1" ELSE "file"))
    /\ UNCHANGED <<world, service, permits, strays, shown>>

NextDiff(t) ==
    /\ task[t].work = "done"
    /\ \/ task[t].pc = "diff 1" /\ Set(t, Ask(t, "diff 2"))
       \/ task[t].pc = "diff 2" /\ Set(t, Ask(t, "file"))
       \/ task[t].pc \in {"diff 1", "diff 2"} /\ task[t].seen # NoAnswer /\ Set(t, Idle)
       \/ task[t].pc = "file" /\ Set(t, Idle)
    /\ UNCHANGED <<world, service, permits, strays, shown>>

-----------------------------------------------------------------------------
(* The session writes a file, which the turn's end reports; the user and   *)
(* git change the list as they like.                                       *)
Write(p) ==
    /\ changed' = changed \cup {p} /\ unreported' = unreported \cup {p}
    /\ UNCHANGED <<service, permits, task, strays, shown>>

Toggle(p) ==
    /\ changed' = IF p \in changed THEN changed \ {p} ELSE changed \cup {p}
    /\ UNCHANGED <<unreported, service, permits, task, strays, shown>>

Init ==
    /\ changed \in SUBSET Paths /\ unreported = {}
    /\ baseline = {} /\ observed = {} /\ repository = FALSE
    /\ permits = MaxWorkers
    /\ task = [t \in Tasks |-> Idle]
    /\ strays = 0 /\ shown = {}

Next ==
    \/ \E t \in Tasks :
         \/ Acquire(t) \/ WorkerEnds(t) \/ Abandon(t)
         \/ Rescan(t) \/ RecordWrite(t) \/ Capture(t) \/ ReadBaseline(t) \/ Compare(t)
         \/ Diff(t) \/ NextDiff(t)
    \/ StrayEnds
    \/ \E p \in Paths : Write(p) \/ Toggle(p)

Spec == Init /\ [][Next]_vars

-----------------------------------------------------------------------------
(* Properties.                                                             *)

TypeOK ==
    /\ changed \subseteq Paths /\ unreported \subseteq Paths /\ observed \subseteq Paths
    /\ repository \in BOOLEAN /\ permits \in Nat /\ strays \in Nat
    /\ task \in [Tasks -> [pc : {"idle", "record", "capture", "scan", "compare", "diff 1",
                                 "diff 2", "file"},
                           work : {"none", "queued", "running", "done"},
                           todo : SUBSET Paths, base : SUBSET SUBSET Paths,
                           seen : SUBSET SUBSET Paths]]
    /\ shown \subseteq Paths \X BOOLEAN

(* However often the user asks for a diff and stops waiting for it, no     *)
(* more than the bound's number of workers run at once, and no permit is   *)
(* lost: each is free or owned by a worker that runs.                      *)
WorkersBounded ==
    /\ Cardinality(Running) + strays <= MaxWorkers
    /\ permits + Cardinality(Running) + strays = MaxWorkers

=============================================================================
