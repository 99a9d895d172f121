------------------------------ MODULE Discovery ------------------------------
(***************************************************************************)
(* What gritt finds out about an external agent before it runs one: who     *)
(* installed it and its newest version (check_version_inner), the models it *)
(* lists (discover_models_inner), and the update it runs when the user       *)
(* agrees (update_inner); gritt-connector/src/supervise.rs, versions.rs,     *)
(* models.rs and install.rs.                                                 *)
(*                                                                          *)
(* Checks run side by side and share a cache file; the two kinds share        *)
(* nothing, so a behaviour is of one kind.  A file that is half written reads *)
(* as a missing one.  What is published, which installer owns the program,   *)
(* and the program itself change at any time.                                *)
(***************************************************************************)
EXTENDS Naturals, FiniteSets, Sequences

CONSTANTS
    Checks,         \* bound: checks at a time
    None,
    Interval,       \* ModelListPolicy::refresh_interval_secs
    StaleFallback,  \* ModelListPolicy::stale_fallback
    MaxClock,       \* bound: the time
    MaxNewest,      \* bound: versions published
    MaxBegun,       \* bound: checks and updates the user begins
    Evidence,       \* sets of installers whose traces may be found
    MaxReinstalls   \* bound: changes of the owner

Kinds   == {"version", "models"}
Modes   == {"offline", "cached", "refresh"}
Queried == {"brew", "npm"}                \* owners with a LatestQuery
Owners  == Queried \cup {"vendor"}

VARIABLES
    kind,     \* what is asked for
    clock,
    program,  \* the installers with evidence that it is theirs, and its version
    born,     \* when each version, or list, became the newest
    file,     \* the cache file
    check,    \* each check
    update,   \* the update
    begun,    \* bounded counter
    moves     \* bounded counter

world == <<kind, clock, program, born, moves>>
vars == <<world, file, check, update, begun>>

\* A cache file; at is 0 when nothing was ever read, tried when nothing was tried.
Record(owner, at, tried, value) == [owner |-> owner, at |-> at, tried |-> tried, value |-> value]
Missing == Record(None, 0, 0, None)
Entry(owner, number) == [of |-> owner, number |-> number]

NoResult == [mark |-> "none", value |-> None, at |-> 0]
Idle  == [step |-> "idle", mode |-> "cached", installed |-> 0,
          owner |-> "unknown", offer |-> FALSE, now |-> 0, cached |-> Missing,
          answer |-> None, result |-> NoResult]
NoUpdate == [step |-> "none", child |-> "none", cancel |-> FALSE, check |-> None]

Newest == Len(born)

Init ==
    /\ kind \in Kinds /\ clock = 1 /\ born = <<1>>
    /\ program = [evidence |-> {"brew"}, version |-> 1]
    /\ file \in {Missing, Record(IF kind = "version" THEN "brew" ELSE None, 1, 1, Entry("brew", 1))}
    /\ begun = 0 /\ moves = 0
    /\ check = [c \in Checks |-> Idle]
    /\ update = NoUpdate

-------------------------------------------------------------------------------
(* The world *)

WorldTurns == UNCHANGED <<kind, file, check, update, begun>>

Tick    == clock < MaxClock /\ clock' = clock + 1 /\ UNCHANGED <<program, born, moves>> /\ WorldTurns
Publish == /\ Newest < MaxNewest /\ born' = Append(born, clock)
           /\ UNCHANGED <<clock, program, moves>> /\ WorldTurns
\* Another installer, or a second one: evidence of both is ambiguous.
Reinstall ==
    /\ moves < MaxReinstalls /\ moves' = moves + 1
    /\ \E evidence \in Evidence \ {program.evidence} :
          program' = [evidence |-> evidence, version |-> Newest]
    /\ UNCHANGED <<clock, born>> /\ WorldTurns

-------------------------------------------------------------------------------
(* Checks *)

\* detect_install_source: one owner with evidence, or none is named.
Owner(evidence) == IF Cardinality(evidence) = 1 THEN CHOOSE o \in evidence : TRUE
                   ELSE IF evidence = {} THEN "unknown" ELSE "ambiguous"

Fresh(r, now)  == r.at # 0 /\ now - r.at < Interval
Failed(r)      == r.tried > r.at
Recent(r, now) == r.tried # 0 /\ now - r.tried < Interval

Move(c, r) == check' = [check EXCEPT ![c] = r]
CheckKeeps == UNCHANGED <<world, update>>

\* stale_or_unavailable, stale_or_failure: what was read when the check began.
Found(mark, value, at) == [mark |-> mark, value |-> value, at |-> at]
Fallback(r) == IF StaleFallback /\ r.at # 0 THEN Found("stale", r.value, r.at)
                                            ELSE Found("none", None, 0)

\* A current install has nothing to update.
Done(c, owner, offer, found) ==
    Move(c, [check[c] EXCEPT
        !.step = "done", !.owner = owner, !.cached = Missing, !.answer = None,
        !.now = IF check[c].step = "looking" THEN clock ELSE @,
        !.offer = offer /\ (found.value = None \/ check[c].installed < found.value.number),
        !.result = found])

\* The version check first asks the program for its version.
Started(mode) == [Idle EXCEPT !.mode = mode, !.step = "looking", !.installed = program.version]

Begin(c, mode) ==
    /\ begun < MaxBegun /\ begun' = begun + 1
    /\ check[c].step \in {"idle", "done"} /\ c # update.check
    /\ kind = "models" => mode # "offline"
    /\ Move(c, Started(mode))
    /\ UNCHANGED file /\ CheckKeeps

(* Faulty variant: the cache is not asked which installation it is about. *)
CachedAny(owner) == file

\* A version belongs to one installation; a list of models to the connector.
Cached(owner) == IF kind = "version" /\ file.owner # owner THEN Missing ELSE file

\* update_action; npm_update_action asks whether npm's own global root holds it.
Action(owner, mode) == CASE owner \in Owners \ {"npm"}           -> {TRUE}
                         [] owner = "npm" /\ mode # "offline"   -> BOOLEAN
                         [] OTHER                               -> {FALSE}

\* Who owns the program, then what the cache says: an answer, or a reason not to ask.
Good(mode, r)   == mode # "refresh" /\ ~Failed(r) /\ Fresh(r, clock)
Spared(mode, r) == \/ mode = "offline"
                   \/ mode = "cached" /\ Recent(r, clock) /\ (kind = "version" => Failed(r))

Look(c) ==
    /\ check[c].step = "looking"
    /\ LET o    == Owner(program.evidence)
           r    == Cached(o)
           mode == check[c].mode IN
       \E offer \in IF kind = "version" THEN Action(o, mode) ELSE {FALSE} :
         \/ /\ kind = "version" /\ o \notin Queried
            /\ Done(c, o, offer, Found("none", None, 0))
         \/ /\ kind = "version" => o \in Queried
            /\ \/ Good(mode, r) /\ Done(c, o, offer, Found("current", r.value, r.at))
               \/ ~Good(mode, r) /\ Spared(mode, r) /\ Done(c, o, offer, Fallback(r))
               \/ /\ ~Good(mode, r) /\ ~Spared(mode, r)
                  /\ Move(c, [check[c] EXCEPT !.step = "asking", !.now = clock, !.owner = o,
                                              !.offer = offer, !.cached = r])
    /\ UNCHANGED <<file, begun>> /\ CheckKeeps

\* The manager, or the agent, is asked; it may fail, time out or not make sense.
Answer(c) ==
    /\ check[c].step = "asking"
    /\ \E good \in BOOLEAN :
          Move(c, [check[c] EXCEPT
              !.step = "writing",
              !.answer = IF good THEN Entry(IF kind = "version" THEN check[c].owner
                                            ELSE Owner(program.evidence), Newest)
                         ELSE None])
    /\ file' = Missing     \* write truncates
    /\ UNCHANGED begun /\ CheckKeeps

\* record_attempt keeps what the check read when it began.
Write(c) ==
    /\ check[c].step = "writing"
    /\ LET ch == check[c]  r == ch.cached  good == ch.answer # None IN
       /\ file' = IF good THEN Record(ch.owner, ch.now, ch.now, ch.answer)
                          ELSE Record(ch.owner, r.at, ch.now, r.value)
       /\ Done(c, ch.owner, ch.offer,
               IF good THEN Found("current", ch.answer, ch.now) ELSE Fallback(r))
    /\ UNCHANGED begun /\ CheckKeeps

\* Nobody waits for the check any more, so it is dropped at an await.
Drop(c) ==
    /\ check[c].step \in {"looking", "asking"} /\ c # update.check
    /\ Move(c, Idle)
    /\ UNCHANGED <<file, begun>> /\ CheckKeeps

CheckStep(c) == Look(c) \/ Answer(c) \/ Write(c)

-------------------------------------------------------------------------------
(* An update *)

UpdateKeeps == UNCHANGED <<kind, clock, born, file, begun, moves>>
Updating(step, child) == update' = [update EXCEPT !.step = step, !.child = child, !.check = None]

Ended == {"cancelled", "timed_out", "failed", "updated"}

\* A check has offered it, and the user agrees.
Agree ==
    /\ begun < MaxBegun /\ begun' = begun + 1 /\ update.step \in {"none"} \cup Ended
    /\ \E c \in Checks : check[c].step = "done" /\ check[c].offer
    /\ \E found \in BOOLEAN :      \* the installer's program, when the update begins
          update' = [step   |-> IF found THEN "running" ELSE "failed",
                     child  |-> IF found THEN "running" ELSE "none",
                     cancel |-> FALSE, check |-> None]
    /\ UNCHANGED <<world, check, file>>

CancelUpdate ==
    /\ update.step \notin {"none"} \cup Ended /\ ~update.cancel
    /\ update' = [update EXCEPT !.cancel = TRUE]
    /\ UNCHANGED <<program, check>> /\ UpdateKeeps

\* The installer replaces the program, and may be stopped before or after.
Install ==
    /\ update.child = "running" /\ program.version # Newest
    /\ program' = [program EXCEPT !.version = Newest]
    /\ UNCHANGED <<check, update>> /\ UpdateKeeps

\* Its output ends; it may yet run.
Silent ==
    /\ update.step = "running" /\ ~update.cancel /\ Updating("waiting", update.child)
    /\ UNCHANGED <<program, check>> /\ UpdateKeeps

\* A cancellation, silence or the cap; or closed output and no exit in thirty seconds.
Stopped == (IF update.cancel THEN {"cancelled"} ELSE {})
           \cup (IF update.step = "running" THEN {"timed_out"} ELSE {"failed"})

\* run_update kills the tree.
Stop ==
    /\ update.step \in {"running", "waiting"}
    /\ \E how \in Stopped : Updating(how, "killed")
    /\ UNCHANGED <<program, check>> /\ UpdateKeeps

ExitFails ==
    /\ update.step = "waiting" /\ ~update.cancel
    /\ Updating("failed", "exited")
    /\ UNCHANGED <<program, check>> /\ UpdateKeeps

\* What is installed now is looked up afresh.
ExitsWell ==
    /\ update.step = "waiting" /\ ~update.cancel
    /\ \E c \in Checks :
          /\ check[c].step \in {"idle", "done"}
          /\ update' = [update EXCEPT !.child = "exited", !.step = "rechecking", !.check = c]
          /\ Move(c, Started("refresh"))
    /\ UNCHANGED program /\ UpdateKeeps

\* The recheck is dropped when the user cancels, though the update is in place.
Rechecked ==
    /\ update.step = "rechecking"
    /\ LET c == update.check IN
       \/ /\ ~update.cancel /\ check[c].step = "done"
          /\ Updating("updated", update.child) /\ UNCHANGED check
       \/ /\ update.cancel /\ check[c].step # "writing"
          /\ Updating("cancelled", update.child)
          /\ Move(c, Idle)
    /\ UNCHANGED program /\ UpdateKeeps

\* The process dies and another starts.
Crash ==
    /\ check' = [c \in Checks |-> Idle]
    /\ update' = NoUpdate
    /\ UNCHANGED <<world, file, begun>>

UpdateStep == \/ Agree \/ CancelUpdate \/ Install \/ Silent \/ Stop \/ ExitFails \/ ExitsWell
              \/ Rechecked

Next ==
    \/ Tick \/ Publish \/ Reinstall \/ UpdateStep \/ Crash
    \/ \E c \in Checks : CheckStep(c) \/ Drop(c)
    \/ \E c \in Checks, mode \in Modes : Begin(c, mode)

Spec == Init /\ [][Next]_vars

-------------------------------------------------------------------------------
(* Properties *)

\* The value was the newest at some moment from `at` on.
NewestSince(value, at) == value.number = Newest \/ born[value.number + 1] >= at

(* What a check shows is what it says, whatever other checks, crashes and    *)
(* failures went through the cache: a version that was read from the very     *)
(* installation it examined and was the newest at the time shown; one marked  *)
(* current was asked for just now or, without a refresh, is not older than    *)
(* the interval, which may be 0.  An update is offered only to a sole owner's *)
(* install that is not known to be current.                                   *)
ShownIsHonest ==
    \A c \in Checks : LET ch == check[c]  r == ch.result IN
        ch.step = "done" /\ r.value # None =>
           /\ NewestSince(r.value, r.at)
           /\ kind = "version" => r.value.of = ch.owner
           /\ r.mark = "current" =>
                 r.at = ch.now \/ (ch.mode # "refresh" /\ ch.now < r.at + Interval)
           /\ ch.offer => ch.owner \in Owners /\ ch.installed < r.value.number

(* An update whose outcome is known has no installer left running, or it     *)
(* could replace the program under the next agent (run_update).              *)
NoInstallerLeft ==
    update.step \in Ended \cup {"rechecking"} => update.child # "running"
=============================================================================
