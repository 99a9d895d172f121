------------------------------ MODULE Sessions ------------------------------
(* The database of sessions: its schema and migrations, the rows of a          *)
(* session, and how the control plane opens one again for a driver.  One        *)
(* process holds the file at a time; it may die between any two statements,     *)
(* and any statement may fail.  Timestamps are abstracted to `recent`, the      *)
(* sessions by their last update, the newest first; an effort to whether it is *)
(* an explicit level, which the model must take, or none, which is not sent.   *)
EXTENDS Integers, Sequences, SequencesExt, FiniteSets

CONSTANTS
    Migrations,     \* the migrations in order, each named after what it adds
    Columns,        \* those that add a column, which cannot be added twice
    Ids, Names,     \* sessions a behaviour may create, names a user gives
    ProfileNames, Agents,
    Protocol,       \* the protocol of a profile's adapter
    Workspaces,
    Configs,        \* the profiles a process may find configured
    Wishes,         \* what a draft may insist on
    MaxRuns,        \* bound: processes
    MaxTroubles,    \* bound: failed statements and crashes
    MaxEvents,      \* bound: events of a session
    None

ASSUME KindsAssumption == "native" \notin Agents /\ None \notin Ids
ASSUME BoundsAssumption == {MaxTroubles, MaxEvents} \subseteq Nat
ASSUME ConfigsAssumption == /\ \A config \in Configs : config \subseteq ProfileNames
                            /\ Migrations \in Seq(ToSet(Migrations))

ASSUME WishesAssumption ==
    Wishes \subseteq [profile : ProfileNames \cup {None}, other : BOOLEAN, effort : BOOLEAN \cup {None}]

VARIABLES
    schema,         \* what is committed: the ledger of migrations, and the objects
    sessions,       \* the rows of gritt_sessions
    recent,         \* their order by updated_at
    events,         \* the number of rows of gritt_session_events, by session
    conts,          \* the owner of the continuation row, by session, or None
    process,        \* the process that holds the file
    opener,         \* the session it is opening, or None
    driver,         \* the driver it has, or None
    outcome,        \* how the open ended that ended last, until something else is done
    troubles

vars == <<schema, sessions, recent, events, conts, process, opener, driver, outcome, troubles>>
rows == <<sessions, recent, events, conts>>
user == <<opener, driver, outcome>>

Row == [name : Names \cup Ids, kind : {"native"} \cup Agents,
        profile : ProfileNames \cup {None}, effort : BOOLEAN, workspace : Workspaces]

(* effort_support: the verdicts on a level, as the list of models may stand.   *)
(* None that is sent is always taken, an explicit one never by Messages.       *)
Verdicts(profile, explicit) ==
    IF ~explicit THEN {TRUE} ELSE IF Protocol[profile] = "messages" THEN {FALSE} ELSE BOOLEAN

Off == [at |-> "off", runs |-> 0]

TypeOK ==
    /\ schema \in [ledger : SUBSET ToSet(Migrations), objects : SUBSET ToSet(Migrations)]
    /\ DOMAIN sessions \subseteq Ids /\ \A id \in DOMAIN sessions : sessions[id] \in Row
    /\ ToSet(recent) = DOMAIN sessions /\ IsInjective(recent)
    /\ events \in [Ids -> 0 .. MaxEvents]
    /\ conts \in [Ids -> {Protocol[p] : p \in ProfileNames} \cup {None}]
    /\ process.at \in {"off", "starting", "migrating", "failed", "ready", "removing"}
    /\ driver # None => driver.id \in DOMAIN sessions
    /\ troubles \in 0 .. MaxTroubles

(* A new file, one of an earlier release, and one an earlier release left      *)
(* between a column and its row in the ledger.                                *)
Init ==
    /\ \E n \in 0 .. Len(Migrations), ahead \in SUBSET Columns :
           LET done == {Migrations[i] : i \in 1 .. n}
           IN  /\ ahead \subseteq IF n < Len(Migrations) THEN {Migrations[n + 1]} ELSE {}
               /\ schema = [ledger |-> done, objects |-> done \cup ahead]
    /\ sessions = <<>> /\ recent = <<>>
    /\ events = [id \in Ids |-> 0]
    /\ conts = [id \in Ids |-> None]
    /\ process = Off
    /\ opener = None /\ driver = None /\ outcome = None
    /\ troubles = 0

Trouble == troubles < MaxTroubles /\ troubles' = troubles + 1
Here(row) == row.workspace = process.workspace

------------------------------------------------------------------------------
(* Starting: the pending migrations, each in a transaction with its row in the *)
(* ledger.                                                                     *)

Start(workspace, config) ==
    /\ process.at = "off" /\ process.runs < MaxRuns
    /\ process' = [at |-> "starting", runs |-> process.runs + 1,
                   workspace |-> workspace, config |-> config]
    /\ UNCHANGED <<schema, rows, user, troubles>>

(* The statements of a migration: a column that exists is not added again.     *)
RecoverableStatements(migration) ==
    {migration} \ (Columns \cap schema.objects)

\* The place of the first migration that is not in the ledger; 0 for none.
Pending == SelectInSeq(Migrations, LAMBDA m : m \notin schema.ledger)

Migrate ==
    /\ process.at = "starting"
    /\ process' = IF Pending = 0 THEN [process EXCEPT !.at = "ready"]
                  ELSE [at |-> "migrating", runs |-> process.runs, workspace |-> process.workspace,
                        config |-> process.config, migration |-> Migrations[Pending],
                        statements |-> RecoverableStatements(Migrations[Pending])]
    /\ UNCHANGED <<schema, rows, user, troubles>>

(* COMMIT makes the statements and the row in the ledger visible together.      *)
Commit ==
    /\ process.at = "migrating"
    /\ process.statements \cap Columns \cap schema.objects = {}
    /\ schema' = [ledger  |-> schema.ledger \cup {process.migration},
                  objects |-> schema.objects \cup process.statements]
    /\ process' = [at |-> "starting", runs |-> process.runs, workspace |-> process.workspace,
                   config |-> process.config]
    /\ UNCHANGED <<rows, user, troubles>>

(* ROLLBACK: a statement failed, of itself or because its column is there.     *)
Rollback ==
    /\ process.at = "migrating"
    /\ \/ Trouble /\ process' = [at |-> "failed", runs |-> process.runs, fault |-> TRUE]
       \/ /\ process.statements \cap Columns \cap schema.objects # {}
          /\ process' = [at |-> "failed", runs |-> process.runs, fault |-> FALSE]
          /\ UNCHANGED troubles
    /\ UNCHANGED <<schema, rows, user>>

(* The process ends, or dies wherever it is; what it had in memory is gone.    *)
Forget == /\ process' = [at |-> "off", runs |-> process.runs]
          /\ opener' = None /\ driver' = None /\ outcome' = None
          /\ UNCHANGED <<schema, rows>>

Exit  == process.at \in {"ready", "failed"} /\ opener = None /\ Forget /\ UNCHANGED troubles
Crash == process.at # "off" /\ Trouble /\ Forget

------------------------------------------------------------------------------
(* The rows.                                                                   *)

Touched(id) == <<id>> \o RemoveFirst(recent, id)
FindByName(name) == LET place == SelectInSeq(recent, LAMBDA id : sessions[id].name = name)
                    IN  IF place = 0 THEN None ELSE recent[place]
\* An identifier that nothing remembers is as good as one never used.
Unused == {id \in Ids : id \notin DOMAIN sessions /\ events[id] = 0 /\ conts[id] = None}

(* `gritt session rename`, which asks nobody whether the name is taken.         *)
Rename(name, new) ==
    /\ process.at = "ready" /\ opener = None /\ driver = None /\ name # new
    /\ FindByName(name) # None
    /\ sessions' = [sessions EXCEPT ![FindByName(name)].name = new]
    /\ recent' = Touched(FindByName(name))
    /\ outcome' = None
    /\ UNCHANGED <<schema, events, conts, process, opener, driver, troubles>>

(* `gritt session remove`: three statements, the session's own row the last.   *)
Removal == <<"events", "continuation", "session">>

StartRemove(name) ==
    /\ process.at = "ready" /\ opener = None /\ driver = None
    /\ FindByName(name) # None
    /\ process' = [at |-> "removing", runs |-> process.runs, workspace |-> process.workspace,
                   config |-> process.config, id |-> FindByName(name), left |-> Removal]
    /\ outcome' = None
    /\ UNCHANGED <<schema, rows, opener, driver, troubles>>

Deleted(id, table) ==
    /\ events' = IF table = "events" THEN [events EXCEPT ![id] = 0] ELSE events
    /\ conts' = IF table = "continuation" THEN [conts EXCEPT ![id] = None] ELSE conts
    /\ IF table = "session"
       THEN /\ sessions' = [i \in DOMAIN sessions \ {id} |-> sessions[i]]
            /\ recent' = RemoveFirst(recent, id)
       ELSE UNCHANGED <<sessions, recent>>

RemoveStep ==
    /\ process.at = "removing"
    /\ Deleted(process.id, Head(process.left))
    /\ process' = IF Len(process.left) > 1 THEN [process EXCEPT !.left = Tail(@)]
                  ELSE [at |-> "off", runs |-> process.runs]
    /\ UNCHANGED <<schema, user, troubles>>

RemoveFails == process.at = "removing" /\ Trouble /\ Forget

------------------------------------------------------------------------------
(* Opening a session.  `opener` is where the call is: what was asked, and the   *)
(* row it found or made.                                                       *)

Idle == process.at = "ready" /\ opener = None

(* What a user asks for: a session by name, by the row picked from a list, or  *)
(* a new one; the profile and the effort a draft insists on, and whether it    *)
(* names a model other than the stored one; the agent of a new session.        *)
Nothing == [profile |-> None, other |-> FALSE, effort |-> None]
Asked(route, name, id, wish, agent, picked) ==
    opener' = [at |-> "find", route |-> route, name |-> name, id |-> id,
               profile |-> wish.profile, other |-> wish.other, effort |-> wish.effort,
               agent |-> agent, picked |-> picked, created |-> FALSE]

(* The print and REPL modes: by name or a new one, perhaps with an agent.      *)
OpenNamed(name, agent) ==
    /\ Idle /\ driver = None
    /\ Asked("open", name, None, Nothing, agent, None)
    /\ outcome' = None
    /\ UNCHANGED <<schema, rows, process, driver, troubles>>

(* The draft of the full-screen interface, which has no session yet.           *)
OpenDraft(name, wish) ==
    /\ Idle /\ driver = None
    /\ Asked("draft", name, None, wish, None, None)
    /\ outcome' = None
    /\ UNCHANGED <<schema, rows, process, driver, troubles>>

(* A row picked from the list: a native session is opened by its name.          *)
ResumeById(id) ==
    /\ Idle /\ id \in DOMAIN sessions
    /\ IF sessions[id].kind = "native"
       THEN Asked("draft", sessions[id].name, None, Nothing, None, id)
       ELSE Asked("open", None, id, Nothing, None, id)
    /\ outcome' = None
    /\ UNCHANGED <<schema, rows, process, driver, troubles>>

Ended(result, found, fault) ==
    /\ opener' = None
    /\ outcome' = [result |-> result, id |-> found, fault |-> fault, picked |-> opener.picked,
                   profile |-> opener.profile, other |-> opener.other, effort |-> opener.effort]
Refuse(found) == Ended("refused", found, FALSE) /\ UNCHANGED <<schema, rows, process, driver, troubles>>
To(at, found) == /\ opener' = [opener EXCEPT !.at = at, !.id = found]
                 /\ UNCHANGED <<schema, process, driver, outcome, troubles>>

Found == IF opener.id # None THEN IF opener.id \in DOMAIN sessions THEN opener.id ELSE None
         ELSE IF opener.name # None THEN FindByName(opener.name) ELSE None

(* find_session and what open_inner makes of it.  A requested phase is written *)
(* before the agent is looked at.                                              *)
FindSession ==
    /\ opener # None /\ opener.at = "find" /\ opener.route = "open"
    /\ IF Found = None
       THEN \/ opener.agent = None /\ To("resolve", None) /\ UNCHANGED rows
            \/ opener.agent # None /\ To("create", None) /\ UNCHANGED rows
            \/ opener.agent # None /\ Refuse(None)              \* not installed
       ELSE LET row == sessions[Found] IN
            \/ ~Here(row) /\ Refuse(Found)
            \/ /\ Here(row)
               /\ recent' \in {recent, Touched(Found)}
               /\ UNCHANGED <<sessions, events, conts>>
               /\ IF opener.agent # None /\ row.kind \in Agents /\ opener.agent # row.kind
                  THEN Ended("refused", Found, FALSE) /\ UNCHANGED <<schema, process, driver, troubles>>
                  ELSE To("attach", Found)

(* validate_draft: a session of that name is resumed as it is stored, or        *)
(* refused; also when its own effort is not what the model takes.              *)
ValidateDraft ==
    /\ opener # None /\ opener.at = "find" /\ opener.route = "draft"
    /\ IF Found = None THEN To("resolve", None) /\ UNCHANGED rows
       ELSE LET row == sessions[Found] IN
            IF /\ Here(row) /\ row.kind = "native" /\ row.profile \in process.config
               /\ opener.profile \in {None, row.profile} /\ ~opener.other
            THEN LET level == IF opener.effort = None THEN row.effort ELSE opener.effort IN
                 \E taken \in Verdicts(row.profile, level) :
                     IF taken THEN /\ opener' = [opener EXCEPT !.at = "again", !.id = Found,
                                                               !.effort = level]
                                   /\ UNCHANGED <<schema, rows, process, driver, outcome, troubles>>
                     ELSE Refuse(Found)
            ELSE Refuse(Found)

(* open_draft looks the session up again after the list of models was warmed.  *)
FindAgain ==
    /\ opener # None /\ opener.at = "again"
    /\ IF Found = None THEN Refuse(None)
       ELSE /\ recent' \in {recent, Touched(Found)}
            /\ UNCHANGED <<sessions, events, conts>>
            /\ To("attach", Found)

(* resolve_startup, see Startup: a configured profile and an effort its model  *)
(* takes, asked for or remembered; or a refusal.                               *)
Resolve ==
    /\ opener # None /\ opener.at = "resolve"
    /\ \/ \E profile \in process.config, level \in BOOLEAN :
              /\ opener.profile \in {None, profile} /\ opener.effort \in {None, level}
              /\ TRUE \in Verdicts(profile, level)
              /\ opener' = [opener EXCEPT !.at = "create", !.profile = profile, !.effort = level]
              /\ UNCHANGED <<schema, rows, process, driver, outcome, troubles>>
       \/ Refuse(None)

(* The row of a new session.                                                   *)
Create ==
    /\ opener # None /\ opener.at = "create"
    /\ Unused # {}
    /\ LET id == CHOOSE i \in Unused : TRUE
       IN  /\ sessions' = [i \in DOMAIN sessions \cup {id} |->
                  IF i # id THEN sessions[i]
                  ELSE [name |-> IF opener.name = None THEN id ELSE opener.name,
                        kind |-> IF opener.agent = None THEN "native" ELSE opener.agent,
                        profile |-> IF opener.agent = None THEN opener.profile ELSE None,
                        effort |-> opener.agent = None /\ opener.effort,
                        workspace |-> process.workspace]]
           /\ recent' = Touched(id)
           /\ opener' = [opener EXCEPT !.at = "attach", !.id = id, !.created = TRUE]
    /\ UNCHANGED <<schema, events, conts, process, driver, outcome, troubles>>

(* Faulty variant: every continuation is given to the adapter.                 *)
ReadableAll(owner, profile) == owner # None

(* Whether agent_for may read a continuation: another protocol's, left by a     *)
(* change of the provider that no turn followed, is passed over.               *)
Readable(owner, profile) == owner = Protocol[profile]

Opened ==
    LET row == sessions[opener.id] IN
    /\ driver' = [id |-> opener.id, profile |-> row.profile, at |-> "idle", next |-> events'[opener.id],
                  restored |-> row.kind = "native" /\ Readable(conts[opener.id], row.profile)]
    /\ Ended("opened", opener.id, FALSE)
    /\ UNCHANGED <<schema, process, troubles>>

(* agent_for and ConnectorSession::open: the driver of a stored session.  An    *)
(* adapter refuses a state that is not its own.                                *)
Attach ==
    /\ opener # None /\ opener.at = "attach"
    /\ LET row == sessions[opener.id]
           restored == Readable(conts[opener.id], row.profile)
       IN  IF row.kind = "native"
              /\ (row.profile \notin process.config \/ restored # (conts[opener.id] = Protocol[row.profile]))
           THEN Refuse(opener.id)
           ELSE /\ UNCHANGED rows
                /\ IF opener.route = "draft" /\ opener.effort # row.effort
                   THEN To("effort", opener.id) ELSE Opened

(* set_effort for the draft's level: ignored when the list no longer lets it   *)
(* be, else stored, and then told as an event.                                 *)
SetDraftEffort ==
    /\ opener # None /\ opener.at = "effort"
    /\ \E taken \in Verdicts(sessions[opener.id].profile, opener.effort) :
           IF taken
           THEN /\ sessions' = [sessions EXCEPT ![opener.id].effort = opener.effort]
                /\ recent' = Touched(opener.id)
                /\ To("tell", opener.id)
                /\ UNCHANGED <<events, conts>>
           ELSE UNCHANGED rows /\ Opened

TellEffort ==
    /\ opener # None
    /\ \/ /\ opener.at = "tell" /\ events[opener.id] < MaxEvents
          /\ events' = [events EXCEPT ![opener.id] = @ + 1]
          /\ To("stamp", opener.id)
          /\ UNCHANGED recent
       \/ /\ opener.at = "stamp"
          /\ recent' = Touched(opener.id)
          /\ UNCHANGED events
          /\ Opened
    /\ UNCHANGED <<sessions, conts>>

(* A statement of the open fails, or the list of models cannot be read.  A row *)
(* of an agent's session that this call made is removed again, as far as the   *)
(* store lets it; an earlier driver stays.                                     *)
OpenFails ==
    /\ opener # None /\ Trouble
    /\ Ended("refused", opener.id, TRUE)
    /\ IF opener.created /\ opener.agent # None
       THEN \/ Deleted(opener.id, "session")
            \/ UNCHANGED rows
       ELSE UNCHANGED rows
    /\ UNCHANGED <<schema, process, driver>>

(* The task of an open is dropped, with whatever it has written.                *)
Abandon ==
    /\ opener # None /\ opener.route = "draft"
    /\ opener' = None
    /\ UNCHANGED <<schema, rows, process, driver, outcome, troubles>>

------------------------------------------------------------------------------
(* The driver at work, as far as the rows show it.                             *)

HasDriver == opener = None /\ driver # None

(* append_events: the row, then the time stamp of its session.                 *)
AppendEvent ==
    /\ HasDriver /\ driver.at = "idle" /\ events[driver.id] < MaxEvents
    /\ events' = [events EXCEPT ![driver.id] = @ + 1]
    /\ driver' = [driver EXCEPT !.at = "stamp", !.next = @ + 1]
    /\ outcome' = None
    /\ UNCHANGED <<schema, sessions, recent, conts, process, opener, troubles>>

Stamp ==
    /\ HasDriver /\ driver.at = "stamp"
    /\ recent' = Touched(driver.id)
    /\ driver' = [driver EXCEPT !.at = "idle"]
    /\ outcome' = None
    /\ UNCHANGED <<schema, sessions, events, conts, process, opener, troubles>>

(* A finished turn of a native session leaves its continuation.                *)
SaveContinuation ==
    /\ HasDriver /\ driver.at = "idle" /\ driver.profile # None /\ driver.next > 0
    /\ conts' = [conts EXCEPT ![driver.id] = Protocol[driver.profile]]
    /\ driver' = [driver EXCEPT !.restored = TRUE]
    /\ outcome' = None
    /\ UNCHANGED <<schema, sessions, recent, events, process, opener, troubles>>

(* set_effort between two turns; its event is the next to be appended.         *)
SetEffort(level) ==
    /\ HasDriver /\ driver.at = "idle" /\ driver.profile # None
    /\ sessions[driver.id].effort # level /\ TRUE \in Verdicts(driver.profile, level)
    /\ sessions' = [sessions EXCEPT ![driver.id].effort = level]
    /\ recent' = Touched(driver.id)
    /\ outcome' = None
    /\ UNCHANGED <<schema, events, conts, process, opener, driver, troubles>>

(* switch_native: the effort is carried, or one remembered is taken, when the  *)
(* new model takes it.                                                         *)
Carried(profile) == {level \in BOOLEAN : TRUE \in Verdicts(profile, level)}

(* apply_switch: another profile for the next turn, on the same row.  The old   *)
(* continuation stays until a turn replaces it.                                *)
SetNativeProvider(profile) ==
    /\ HasDriver /\ driver.at = "idle" /\ driver.profile \notin {None, profile}
    /\ profile \in process.config
    /\ \E level \in Carried(profile) :
           sessions' = [sessions EXCEPT ![driver.id].profile = profile, ![driver.id].effort = level]
    /\ recent' = Touched(driver.id)
    /\ driver' = [driver EXCEPT !.profile = profile, !.restored = FALSE]
    /\ outcome' = None
    /\ UNCHANGED <<schema, events, conts, process, opener, troubles>>

Next ==
    \/ \E workspace \in Workspaces, config \in Configs : Start(workspace, config)
    \/ Migrate \/ Commit \/ Rollback \/ Exit \/ Crash
    \/ \E name \in Names \cup Ids, new \in Names : Rename(name, new)
    \/ \E name \in Names \cup Ids : StartRemove(name)
    \/ RemoveStep \/ RemoveFails
    \/ \E name \in Names \cup {None}, agent \in Agents \cup {None} : OpenNamed(name, agent)
    \/ \E name \in Names \cup {None}, wish \in Wishes : OpenDraft(name, wish)
    \/ \E id \in Ids : ResumeById(id)
    \/ FindSession \/ ValidateDraft \/ FindAgain \/ Resolve \/ Create \/ Attach
    \/ SetDraftEffort \/ TellEffort
    \/ OpenFails \/ Abandon
    \/ AppendEvent \/ Stamp \/ SaveContinuation
    \/ \E level \in BOOLEAN : SetEffort(level)
    \/ \E profile \in ProfileNames : SetNativeProvider(profile)

Spec == Init /\ [][Next]_vars

------------------------------------------------------------------------------
(* No event and no continuation outlives the session it belongs to, although a *)
(* removal is three statements and may be cut between any two: what is left is *)
(* still listed, and can be removed again.                                     *)
NoOrphanRows ==
    \A id \in Ids : events[id] > 0 \/ conts[id] # None => id \in DOMAIN sessions

(* A migration in the ledger has left its objects, a process that went past     *)
(* its start has them all, and none fails to start but for the store: a column *)
(* that an earlier release added without its row is not added again.           *)
SchemaBehindLedger ==
    /\ schema.ledger \subseteq schema.objects
    /\ process.at \in {"ready", "removing"} => schema.objects = ToSet(Migrations)
    /\ process.at = "failed" => process.fault

(* A native session of this workspace whose profile is configured opens again  *)
(* whenever the user asks for no other profile, model or level of effort, and  *)
(* the store does not fail, whatever changes of provider and effort, crashes   *)
(* and aborted opens it went through.  The one exception is a stored level the *)
(* list of models does not give (any more); a session on a protocol that knows *)
(* no levels is never left with one (control.rs validate_resume).              *)
OpensAgain ==
    outcome # None /\ outcome.result = "refused" /\ ~outcome.fault /\ outcome.id # None =>
        LET row == sessions[outcome.id]
        IN  \/ ~Here(row)
            \/ row.kind # "native"
            \/ row.profile \notin process.config
            \/ outcome.profile \notin {None, row.profile} \/ outcome.other
            \/ outcome.effort = TRUE
            \/ outcome.effort = None /\ row.effort /\ Protocol[row.profile] # "messages"

(* A driver continues from a conversation of its own protocol, numbers its      *)
(* events after the stored ones, and keeps the profile of its row.             *)
DriverMatchesRow ==
    driver # None =>
        /\ driver.profile = sessions[driver.id].profile
        /\ driver.next = events[driver.id]
        /\ driver.restored => conts[driver.id] = Protocol[driver.profile]

(* What the store keeps for the sessions through failed statements, crashes,    *)
(* migrations, removals and changes of provider: the four above.               *)
SessionsKept == TypeOK /\ NoOrphanRows /\ SchemaBehindLedger /\ OpensAgain /\ DriverMatchesRow
=============================================================================
