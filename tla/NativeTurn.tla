------------------------------ MODULE NativeTurn ------------------------------
(***************************************************************************)
(* One native session driven by `NativeAgent` (gritt-harness/src/agent.rs): *)
(* the turn loop that streams a provider reply, gates every tool call       *)
(* through the phase, the path bound, the policy and the user's approval,   *)
(* runs it, answers the provider and records each step in the event table.  *)
(*                                                                          *)
(* A step of the model is the code between two awaits, so a cancellation, a *)
(* late kill task, a failed write or the death of the process can fall      *)
(* between any two of them.  The provider, the user, the children and the   *)
(* store are the environment.                                               *)
(***************************************************************************)
EXTENDS Naturals, Sequences, FiniteSets

CONSTANTS
    NoCall,           \* the call column of events about no call
    Calls,            \* tool calls a provider may ask for; ids are unique
    Tool,             \* [Calls -> Tools]: the tool a call names
    Policy,           \* [Calls -> Outcomes]: PolicyEngine::evaluate of it
    Target,           \* [Calls -> Targets]: what resource_for makes of it
    Previewable,      \* [Calls -> BOOLEAN]: tools.preview succeeds
    LaunchApprovals,  \* approval modes the command line may start with
    MaxTurns,         \* bound: prompts submitted
    MaxCancels,       \* bound: uses of the cancel handle
    MaxModeChanges,   \* bound: uses of set_mode
    MaxCrashes        \* bound: deaths of the process

Tools     == {"file_read", "file_write", "shell", "mcp"}
Outcomes  == {"allow", "ask", "deny"}
Targets   == {"inside", "outside", "invalid"}
Phases    == {"planning", "coding"}
Approvals == {"ask", "approve_all", "full_access", "deny_all"}
Modes     == {"planning", "supervised", "auto_approve", "full_access"}
Statuses  == {"completed", "cancelled", "failed"}

ASSUME CallsAssumption ==
    /\ NoCall \notin Calls
    /\ Tool \in [Calls -> Tools]
    /\ Policy \in [Calls -> Outcomes]
    /\ Target \in [Calls -> Targets]
    /\ Previewable \in [Calls -> BOOLEAN]

ASSUME BoundsAssumption ==
    /\ LaunchApprovals \subseteq Approvals
    /\ {MaxTurns, MaxCancels, MaxModeChanges, MaxCrashes} \subseteq Nat

Kinds == {"progress", "tool_call", "requested", "approved", "denied",
          "tool_result", "cancelled_event", "error",
          "finished", "idle_status", "failed_status"}

(* The places where the turn waits.  "down" is a dead process; "queued" is a *)
(* prompt handed to a task that has not run yet.                             *)
EmittingPlaces == {"connecting", "denying", "waiting", "requesting", "deciding",
                   "starting", "result", "cancelling", "failing", "closing",
                   "streaming"}
Places == EmittingPlaces \cup
          {"idle", "queued", "down", "sending", "reading", "telling", "gate",
           "asking", "exec", "shell", "mcp", "remote", "check", "submitting",
           "stopping", "saving"}

VARIABLES
    pc,           \* where run_turn is
    turn,         \* number of prompts submitted so far
    todo,         \* calls of this round not yet handled, current one first
    verdict,      \* the answer to the current approval, or "none"
    status,       \* TurnOutcome::status
    phase,        \* session.phase in memory
    storedPhase,  \* session.phase in the session row
    approval,     \* NativeAgent::approval
    toolsFull,    \* NativeTools::full_access
    cut,          \* the stream in hand is the adapter's cancelled_stream
    cancelled,    \* the CancellationToken
    killTasks,    \* kill_all tasks spawned by CancelHandle, not yet run
    tracked,      \* ProcessRegistry::pids, a child named by its call
    alive,        \* children of this process that are running
    events,       \* the rows of gritt_session_events
    nextSeq,      \* NativeAgent::next_sequence
    asked,        \* calls the provider has already asked for
    executed,     \* history: effects begun, see Effect
    broken,       \* history: turns ended by a failed write, output or crash
    cancels, modeChanges, crashes   \* bounded counters

roundVars   == <<turn, todo, verdict, status, asked, cut>>
sessionVars == <<phase, storedPhase, approval, toolsFull>>
childVars   == <<cancelled, killTasks, tracked, alive>>
logVars     == <<events, nextSeq>>
ghostVars   == <<executed, broken>>
counters    == <<cancels, modeChanges, crashes>>
vars == <<pc, roundVars, sessionVars, childVars, logVars, ghostVars, counters>>

-------------------------------------------------------------------------------
(* Modes *)

PhaseOf(m) == IF m = "planning" THEN "planning" ELSE "coding"

ApprovalOf(m) == CASE m \in {"planning", "supervised"} -> "ask"
                   [] m = "auto_approve"               -> "approve_all"
                   [] OTHER                            -> "full_access"

ModeOf(p, a) == CASE p = "planning"           -> "planning"
                  [] p # "planning" /\ a \in {"ask", "deny_all"} -> "supervised"
                  [] p # "planning" /\ a = "approve_all" -> "auto_approve"
                  [] OTHER                    -> "full_access"

Mode == ModeOf(phase, approval)

FullFor(p, a) == p = "coding" /\ a = "full_access"

(* Events *)

Row(seq, kind, c) == [seq |-> seq, turn |-> turn, kind |-> kind, call |-> c]

\* harness_event numbers the event; emit persists it.
Emit(kind, c) == /\ events' = events \cup {Row(nextSeq, kind, c)}
                 /\ nextSeq' = nextSeq + 1

Effect(c) == [call |-> c, turn |-> turn, mode |-> Mode,
              late |-> cancelled, at |-> nextSeq]

Call == Head(todo)

Init == /\ pc = "idle" /\ turn = 0 /\ todo = <<>> /\ verdict = "none"
        /\ status = "completed" /\ asked = {}
        /\ phase \in Phases /\ storedPhase = phase
        /\ approval \in LaunchApprovals
        /\ toolsFull = FullFor(phase, approval)
        /\ cut = FALSE
        /\ cancelled = FALSE /\ killTasks = 0 /\ tracked = {} /\ alive = {}
        /\ events = {} /\ nextSeq = 0
        /\ executed = {} /\ broken = {}
        /\ cancels = 0 /\ modeChanges = 0 /\ crashes = 0

(* The two shapes most steps have: code that only moves on, and code that     *)
(* emits one event.  EmittingPlaces are where the second kind waits.          *)

Move(from, to) ==
    /\ pc = from /\ pc' = to
    /\ UNCHANGED <<roundVars, sessionVars, childVars, logVars, ghostVars, counters>>

Record(from, to, kind, c) ==
    /\ pc = from /\ pc' = to
    /\ Emit(kind, c)
    /\ UNCHANGED <<roundVars, sessionVars, childVars, ghostVars, counters>>

-------------------------------------------------------------------------------
(* The user between turns *)

\* A driver publishes the cancel handle and calls or spawns run_turn.
Submit ==
    /\ pc = "idle" /\ turn < MaxTurns
    /\ pc' = "queued" /\ turn' = turn + 1
    /\ UNCHANGED <<todo, verdict, status, asked, cut, sessionVars, childVars,
                   logVars, ghostVars, counters>>

Failures == {"nothing", "phase_column", "phase_event", "phase_stamp",
             "mode_event", "mode_stamp"}

\* set_mode, with the write that fails, if any: the phase column, the event of
\* the phase change, or the event of the mode change.  The phase has moved when
\* its event fails, and the approval mode has not.  An event is a row and then
\* a stamp on the session, so when the stamp fails the row is there.
SetMode(m, failure) ==
    LET changes  == PhaseOf(m) # phase
        step     == IF changes THEN 1 ELSE 0
        phaseRow == IF changes THEN {Row(nextSeq, "progress", NoCall)} ELSE {}
        modeRow  == IF failure \in {"nothing", "mode_stamp"}
                      THEN {Row(nextSeq + step, "progress", NoCall)} ELSE {}
    IN
    /\ pc = "idle" /\ modeChanges < MaxModeChanges
    /\ modeChanges' = modeChanges + 1
    /\ \/ /\ failure = "phase_column" /\ changes
          /\ UNCHANGED <<sessionVars, logVars>>
       \/ /\ failure \in {"phase_event", "phase_stamp"} /\ changes
          /\ phase' = PhaseOf(m) /\ storedPhase' = PhaseOf(m)
          /\ toolsFull' = FullFor(PhaseOf(m), approval)
          /\ nextSeq' = nextSeq + 1
          /\ events' = IF failure = "phase_stamp" THEN events \cup phaseRow ELSE events
          /\ UNCHANGED approval
       \/ /\ failure \in {"mode_event", "mode_stamp", "nothing"}
          /\ phase' = PhaseOf(m) /\ storedPhase' = PhaseOf(m)
          /\ approval' = ApprovalOf(m)
          /\ toolsFull' = FullFor(PhaseOf(m), ApprovalOf(m))
          /\ nextSeq' = nextSeq + step + 1
          /\ events' = events \cup phaseRow \cup modeRow
    /\ UNCHANGED <<pc, roundVars, childVars, ghostVars, cancels, crashes>>

(* Cancellation *)

KillTracked == /\ alive' = alive \ tracked
               /\ tracked' = {}

\* CancelHandle::cancel, from the signal handler or the interface, whenever the
\* handle is published.  The kill runs later, in a task of its own.
Cancel ==
    /\ turn > 0 /\ pc # "down" /\ cancels < MaxCancels
    /\ cancels' = cancels + 1
    /\ cancelled' = TRUE
    /\ killTasks' = killTasks + 1
    /\ UNCHANGED <<pc, roundVars, sessionVars, tracked, alive, logVars,
                   executed, broken, modeChanges, crashes>>

RunKillTask ==
    /\ killTasks > 0
    /\ killTasks' = killTasks - 1
    /\ KillTracked
    /\ UNCHANGED <<pc, roundVars, sessionVars, cancelled, logVars, ghostVars, counters>>

-------------------------------------------------------------------------------
(* The request *)

\* run_turn clears the token before anything else.
BeginTurn ==
    /\ pc = "queued" /\ pc' = "connecting"
    /\ cancelled' = FALSE
    /\ status' = "completed"
    /\ UNCHANGED <<turn, todo, verdict, asked, cut, sessionVars, killTasks, tracked,
                   alive, logVars, ghostVars, counters>>

Connect == Record("connecting", "sending", "progress", NoCall)

\* A stream opened on a token that is already set only says so.
Open(from, to) ==
    /\ pc = from /\ pc' = to
    /\ cut' = cancelled
    /\ UNCHANGED <<turn, todo, verdict, status, asked, sessionVars, childVars,
                   logVars, ghostVars, counters>>

\* adapter.send and adapter.submit_tool_results.  A status that is no success is
\* read to the end of its body before the request fails, and that read does not
\* race the token.  The told phase is written when it differs from the last one;
\* what the request tells the model is the subject of Conversation.
SendAccepted == \E to \in {"telling", "streaming"} : Open("sending", to)
SendRefused  == Move("sending", "failing")
BadStatus    == Move("sending", "reading") \/ Move("submitting", "reading")
BodyRead     == Move("reading", "failing")

\* store.set_told_phase succeeds; its failure is StoreFails.
Tell == Move("telling", "streaming")

(* The stream.  An event parsed before the cancellation is still delivered,   *)
(* so apart from StreamCancelled nothing here looks at the token.             *)

StreamToolCall(c) ==
    /\ pc = "streaming" /\ ~cut /\ c \notin asked
    /\ asked' = asked \cup {c}
    /\ todo' = Append(todo, c)
    /\ Emit("tool_call", c)
    /\ UNCHANGED <<pc, turn, verdict, status, cut, sessionVars, childVars,
                   ghostVars, counters>>

\* A completed reply with no call ends the turn; one with calls starts the tool
\* phase, whatever its stop reason.
StreamCompleted ==
    /\ ~cut
    /\ Record("streaming", IF todo = <<>> THEN "saving" ELSE "gate", "progress", NoCall)

StreamEnds(to, outcome, kind) ==
    /\ pc = "streaming" /\ pc' = to
    /\ status' = outcome
    /\ Emit(kind, NoCall)
    /\ UNCHANGED <<turn, todo, verdict, asked, cut, sessionVars, childVars,
                   ghostVars, counters>>

StreamError     == ~cut /\ StreamEnds("saving", "failed", "error")
StreamCancelled == cancelled /\ StreamEnds("stopping", "cancelled", "cancelled_event")

-------------------------------------------------------------------------------
(* handle_call *)

Resolves(c) == Target[c] = "inside" \/ (Target[c] = "outside" /\ toolsFull)

\* Faulty variant: the phase is left to the tool list the model was shown.
RefusedByPathOnly(c) == ~Resolves(c)

Refused(c) == \/ phase = "planning" /\ Tool[c] # "file_read"
              \/ ~Resolves(c)

\* PolicyEngine::evaluate_mode
Outcome(c) == IF Mode = "full_access" THEN "allow" ELSE Policy[c]

\* A preview is built only for a user who will read it, and its failure refuses
\* the call before anything is recorded.
Unshowable(c) == approval = "ask" /\ ~Previewable[c]

\* Faulty variant: a refused call is dropped without a result.
RouteDroppingRefusals(c) ==
    IF Refused(c) THEN "check"
    ELSE CASE Outcome(c) = "allow" -> "starting"
           [] Outcome(c) = "deny"  -> "denying"
           [] Outcome(c) = "ask"   -> IF Unshowable(c) THEN "result" ELSE "waiting"

\* The place the gate sends the current call to.
Route(c) == IF Refused(c) THEN "result"
            ELSE CASE Outcome(c) = "allow" -> "starting"
                   [] Outcome(c) = "deny"  -> "denying"
                   [] Outcome(c) = "ask"   -> IF Unshowable(c) THEN "result" ELSE "waiting"

Gate == Move("gate", Route(Call))

Deny    == Record("denying", "result", "progress", NoCall)
Wait    == Record("waiting", "requesting", "progress", NoCall)
Request == Record("requesting", "asking", "requested", Call)

Decide(answer) ==
    /\ pc = "asking" /\ pc' = "deciding"
    /\ verdict' = answer
    /\ UNCHANGED <<turn, todo, status, asked, cut, sessionVars, childVars, logVars,
                   ghostVars, counters>>

\* Unattended modes answer at once.
AutoAnswer ==
    /\ approval # "ask"
    /\ Decide(IF approval = "deny_all" THEN "denied" ELSE "approved")

\* Faulty variants: the cancelled wait returns without recording its answer, or
\* does not race the token at all.
CancelDeniesSilently == approval = "ask" /\ cancelled /\ Move("asking", "result")
CancelDeniesNever    == FALSE

\* The wait races the token, and the token is polled first.
CancelDenies == approval = "ask" /\ cancelled /\ Decide("denied")

UserAnswers(answer) == approval = "ask" /\ ~cancelled /\ Decide(answer)

RecordDecision ==
    Record("deciding", IF verdict = "approved" THEN "starting" ELSE "result",
           verdict, Call)

Start == Record("starting", "exec", "progress", NoCall)

(* execute_call *)

Begin(from, to) ==
    /\ pc = from /\ pc' = to
    /\ executed' = executed \cup {Effect(Call)}
    /\ UNCHANGED <<roundVars, sessionVars, logVars, broken, counters>>

\* File tools never look at the token.
RunFile ==
    /\ Begin("exec", "result")
    /\ Tool[Call] \in {"file_read", "file_write"}
    /\ UNCHANGED childVars

\* The child is spawned and tracked before the token is first looked at.
SpawnShell ==
    /\ Begin("exec", "shell")
    /\ Tool[Call] = "shell"
    /\ tracked' = tracked \cup {Call} /\ alive' = alive \cup {Call}
    /\ UNCHANGED <<cancelled, killTasks>>

SpawnFails == Move("exec", "result") /\ Tool[Call] = "shell"

ChildExits(c) ==
    /\ c \in alive
    /\ alive' = alive \ {c}
    /\ UNCHANGED <<pc, roundVars, sessionVars, cancelled, killTasks, tracked, logVars,
                   ghostVars, counters>>

\* Faulty variant: the child is forgotten but not killed.
ReleaseShellAlive ==
    /\ pc = "shell" /\ pc' = "result"
    /\ tracked' = tracked \ {Call}
    /\ UNCHANGED <<roundVars, sessionVars, cancelled, killTasks, alive, logVars,
                   ghostVars, counters>>

\* The end of run_shell: the child is dead, by its own end or by kill_tree, and
\* is no longer tracked.
ReleaseShell ==
    /\ pc = "shell" /\ pc' = "result"
    /\ alive' = alive \ {Call} /\ tracked' = tracked \ {Call}
    /\ UNCHANGED <<roundVars, sessionVars, cancelled, killTasks, logVars, ghostVars,
                   counters>>

\* run_shell's select looks at the token first, then at the child.
ShellCancelled == cancelled /\ ReleaseShell
ShellDone      == ~cancelled /\ ReleaseShell /\ Call \notin alive

\* McpRuntime::call refuses a stale or unavailable tool.  A token that is set
\* keeps the request out of the connection's queue.
McpRefused == Move("exec", "result") /\ Tool[Call] = "mcp"
McpQueue   == ~cancelled /\ Move("exec", "mcp") /\ Tool[Call] = "mcp"

\* The task of the transport writes the request unless its caller has given it
\* up; it knows nothing of the token.
McpDeliver == Begin("mcp", "remote") /\ UNCHANGED childVars

\* An answer, the deadline or a lost connection; and the caller, when it next
\* runs, giving up.
McpLeaves    == Move("mcp", "result") \/ Move("remote", "result")
McpReturns   == ~cancelled /\ McpLeaves
McpCancelled == cancelled /\ McpLeaves

Answer == Record("result", "check", "tool_result", Call)

-------------------------------------------------------------------------------
(* The rest of the round *)

\* Faulty variant: the token is not looked at between two calls.
NextCallUnchecked ==
    /\ pc = "check"
    /\ todo' = Tail(todo) /\ verdict' = "none"
    /\ pc' = IF Tail(todo) = <<>> THEN "submitting" ELSE "gate"
    /\ UNCHANGED <<turn, status, asked, cut, sessionVars, childVars, logVars,
                   ghostVars, counters>>

NextCall ==
    /\ pc = "check" /\ ~cancelled
    /\ todo' = Tail(todo) /\ verdict' = "none"
    /\ pc' = IF Tail(todo) = <<>> THEN "submitting" ELSE "gate"
    /\ UNCHANGED <<turn, status, asked, cut, sessionVars, childVars, logVars,
                   ghostVars, counters>>

StopRound ==
    /\ pc = "check" /\ cancelled
    /\ pc' = "cancelling" /\ status' = "cancelled"
    /\ UNCHANGED <<turn, todo, verdict, asked, cut, sessionVars, childVars, logVars,
                   ghostVars, counters>>

EmitCancelled == Record("cancelling", "stopping", "cancelled_event", NoCall)

SubmitResults == Open("submitting", "streaming")
SubmitRefused == Move("submitting", "failing")

(* The end of the turn *)

StopChildren ==
    /\ pc = "stopping" /\ pc' = "saving"
    /\ KillTracked
    /\ UNCHANGED <<roundVars, sessionVars, cancelled, killTasks, logVars, ghostVars,
                   counters>>

SaveContinuation == Move("saving", "closing")

FinalKind == CASE status = "completed" -> "finished"
               [] status = "cancelled" -> "idle_status"
               [] status = "failed"    -> "failed_status"

Return(from, kind) ==
    /\ pc = from /\ pc' = "idle"
    /\ todo' = <<>> /\ verdict' = "none"
    /\ Emit(kind, NoCall)
    /\ UNCHANGED <<turn, status, asked, cut, sessionVars, childVars, ghostVars, counters>>

\* The final status; fail() instead emits an error and no final status.
Close == Return("closing", FinalKind)
Fail  == Return("failing", "error")

-------------------------------------------------------------------------------
(* Failures *)

Abort == /\ pc' = "idle" /\ todo' = <<>> /\ verdict' = "none"
         /\ broken' = broken \cup {turn}

\* The interface cannot deliver the event: emit cancels, kills, returns early.
OutputBreaks ==
    /\ pc \in EmittingPlaces
    /\ Abort
    /\ nextSeq' = nextSeq + 1
    /\ cancelled' = TRUE
    /\ KillTracked
    /\ UNCHANGED <<turn, status, asked, cut, sessionVars, killTasks, events,
                   executed, counters>>

\* What the place the turn waits in is about to record.
Due == CASE pc = "streaming" /\ cut  -> {<<"cancelled_event", NoCall>>}
         [] pc = "streaming" /\ ~cut ->
              {<<"tool_call", c>> : c \in Calls \ asked}
                \cup {<<"progress", NoCall>>, <<"error", NoCall>>}
                \cup (IF cancelled THEN {<<"cancelled_event", NoCall>>} ELSE {})
         [] pc = "requesting" -> {<<"requested", Call>>}
         [] pc = "deciding"   -> {<<verdict, Call>>}
         [] pc = "result"     -> {<<"tool_result", Call>>}
         [] pc = "cancelling" -> {<<"cancelled_event", NoCall>>}
         [] pc = "failing"    -> {<<"error", NoCall>>}
         [] pc = "closing"    -> {<<FinalKind, NoCall>>}
         [] OTHER             -> {<<"progress", NoCall>>}

\* The event cannot be written.  Its row may be there all the same: the stamp
\* on the session is a second statement (append_events).
EventFails ==
    /\ pc \in EmittingPlaces
    /\ Abort
    /\ \/ events' = events /\ nextSeq' = nextSeq + 1
       \/ \E due \in Due : Emit(due[1], due[2])
    /\ UNCHANGED <<turn, status, asked, cut, sessionVars, childVars, executed, counters>>

\* The told phase or the continuation cannot be written.
RowFails ==
    /\ pc \in {"telling", "saving"}
    /\ Abort
    /\ UNCHANGED <<turn, status, asked, cut, sessionVars, childVars, logVars, executed,
                   counters>>

StoreFails == EventFails \/ RowFails

\* The process dies.  Its children are no longer in any registry.
Crash ==
    /\ pc # "down" /\ crashes < MaxCrashes
    /\ crashes' = crashes + 1
    /\ pc' = "down" /\ todo' = <<>> /\ verdict' = "none"
    /\ broken' = IF pc = "idle" THEN broken ELSE broken \cup {turn}
    /\ cancelled' = FALSE /\ killTasks' = 0 /\ tracked' = {} /\ alive' = {}
    /\ UNCHANGED <<turn, status, asked, cut, sessionVars, logVars, executed,
                   cancels, modeChanges>>

\* Faulty variant: the highest number is handed out again.
NextFreeAtLast(n) == /\ \A e \in events : e.seq <= n
                     /\ n > 0 => \E e \in events : e.seq = n

\* Store::next_sequence: one above the highest stored number.
NextFree(n) == /\ \A e \in events : e.seq < n
               /\ n > 0 => \E e \in events : e.seq = n - 1

\* find_session and agent_for on the stored session: the phase and the next
\* number come from the store, unless the command line asks for a phase; the
\* authority comes only from this run's command line.
Restart ==
    /\ pc = "down" /\ pc' = "idle"
    /\ storedPhase' \in Phases   \* kept, or the one asked for
    /\ phase' = storedPhase'
    /\ approval' \in LaunchApprovals
    /\ toolsFull' = FullFor(phase', approval')
    /\ \E n \in 0..nextSeq : NextFree(n) /\ nextSeq' = n
    /\ UNCHANGED <<roundVars, childVars, events, ghostVars, counters>>

-------------------------------------------------------------------------------
\* What the agent and the runtime do on their own.
AgentStep ==
    \/ BeginTurn \/ Connect \/ Tell \/ StreamCancelled
    \/ Gate \/ Deny \/ Wait \/ Request \/ AutoAnswer \/ CancelDenies
    \/ RecordDecision \/ Start
    \/ RunFile \/ SpawnShell \/ SpawnFails \/ ShellCancelled \/ ShellDone
    \/ McpRefused \/ McpQueue \/ McpCancelled \/ Answer
    \/ NextCall \/ StopRound \/ EmitCancelled
    \/ StopChildren \/ SaveContinuation \/ Close \/ Fail

AdapterStep == SendAccepted \/ SendRefused \/ SubmitResults \/ SubmitRefused

UserStep ==
    \/ Submit \/ Cancel
    \/ \E m \in Modes, f \in Failures : SetMode(m, f)
    \/ \E a \in {"approved", "denied"} : UserAnswers(a)

WorldStep ==
    \/ \E c \in Calls : StreamToolCall(c) \/ ChildExits(c)
    \/ StreamCompleted \/ StreamError \/ BadStatus \/ BodyRead
    \/ McpDeliver \/ McpReturns
    \/ OutputBreaks \/ StoreFails \/ Crash \/ Restart

Next == AgentStep \/ AdapterStep \/ RunKillTask \/ UserStep \/ WorldStep

Spec == Init /\ [][Next]_vars

(* The agent's task and the kill tasks are scheduled.  The adapter is only    *)
(* known to answer once the token is set: its waits for the connection, the   *)
(* headers and the stream race the token.  Nothing is known of how long the   *)
(* body of an error answer takes (BodyRead).                                  *)
Fairness == /\ WF_vars(AgentStep)
            /\ WF_vars(RunKillTask)
            /\ WF_vars(cancelled /\ AdapterStep)

FairSpec == Spec /\ Fairness

-------------------------------------------------------------------------------
(* Properties *)

EventRows == [seq : Nat, turn : Nat, kind : Kinds, call : Calls \cup {NoCall}]
Effects   == [call : Calls, turn : Nat, mode : Modes, late : BOOLEAN, at : Nat]

(* Every variable keeps its type, a turn that is handling a call has one, and *)
(* one that records a decision has that.                                      *)
HandlingPlaces == {"gate", "denying", "waiting", "requesting", "asking", "deciding",
                   "starting", "exec", "shell", "mcp", "remote", "result", "check"}

TypeOK ==
    /\ pc \in Places /\ turn \in Nat /\ todo \in Seq(Calls)
    /\ pc \in HandlingPlaces => todo # <<>>
    /\ verdict \in {"none", "approved", "denied"}
    /\ pc = "deciding" => verdict # "none"
    /\ status \in Statuses /\ asked \subseteq Calls /\ cut \in BOOLEAN
    /\ phase \in Phases /\ storedPhase \in Phases /\ approval \in Approvals
    /\ toolsFull \in BOOLEAN
    /\ cancelled \in BOOLEAN /\ killTasks \in Nat
    /\ tracked \subseteq Calls /\ alive \subseteq Calls
    /\ events \subseteq EventRows /\ nextSeq \in Nat
    /\ executed \subseteq Effects
    /\ broken \subseteq Nat
    /\ cancels \in Nat /\ modeChanges \in Nat /\ crashes \in Nat

(* No tool takes effect without its permission.  In the planning phase only   *)
(* file_read runs; outside Full Access a call the policy denies never runs    *)
(* and a file tool never leaves the workspace; and a call the policy asks     *)
(* about runs only after an approval of that very call, in that turn, is in   *)
(* the event table (handle_call: every emit is awaited before execute_call).  *)
Gated ==
    \A x \in executed :
       /\ x.mode = "planning" => Tool[x.call] = "file_read"
       /\ x.mode # "full_access" =>
             /\ Policy[x.call] # "deny"
             /\ Target[x.call] = "inside"
             /\ Policy[x.call] = "ask" =>
                   \E e \in events : /\ e.kind = "approved"
                                     /\ e.call = x.call /\ e.turn = x.turn
                                     /\ e.seq < x.at

(* A cancellation is felt by the next check of the token: of all the calls    *)
(* the provider asked for in a turn, at most the one already past its last    *)
(* check begins after the token is set, be it a file tool, a child, or a      *)
(* request the task of an MCP connection still writes (run_turn looks at the  *)
(* token between two calls, the connection only when it takes the request).   *)
OneLateEffect ==
    \A x, y \in executed :
       x.late /\ y.late /\ x.turn = y.turn => x.call = y.call

(* A shell child lives, and is tracked, only while its own call waits for it: *)
(* whichever way a turn ends, no child of it is left behind (run_shell,       *)
(* emit's kill_all and the late kill task of CancelHandle).                   *)
NoStrayChild ==
    alive \cup tracked \subseteq IF pc = "shell" THEN {Call} ELSE {}

(* A turn recorded as finished answered every tool call it was asked for,     *)
(* after the call and before its final status.                                *)
FinishedMeansAnswered ==
    \A f, e \in events :
       f.kind = "finished" /\ e.kind = "tool_call" /\ e.turn = f.turn =>
          \E r \in events : /\ r.kind = "tool_result"
                            /\ r.call = e.call /\ r.turn = e.turn
                            /\ e.seq < r.seq /\ r.seq < f.seq

(* Unless a write or the interface failed or the process died in that turn,   *)
(* every approval request of a turn that is over has exactly one decision     *)
(* after it: a cancellation, a refusal or a preview that cannot be built      *)
(* leaves no unmatched request.                                               *)
Decides(d, e) == /\ d.kind \in {"approved", "denied"}
                 /\ d.call = e.call /\ d.turn = e.turn

TurnIsOver(t) == t < turn \/ pc = "idle"

NoUnmatchedRequest ==
    \A e \in events :
       e.kind = "requested" /\ e.turn \notin broken /\ TurnIsOver(e.turn) =>
          \E d \in events : /\ Decides(d, e) /\ e.seq < d.seq
                            /\ \A o \in events : Decides(o, e) => o = d

(* Reading the table by sequence number gives the turns in the order they     *)
(* were run: numbers are never reused, although a failed write burns one and  *)
(* a restart starts again from the highest one stored.                        *)
LogOrdered ==
    /\ \A a, b \in events : a.seq = b.seq => a = b
    /\ \A a, b \in events : a.turn < b.turn => a.seq < b.seq

(* Once the token is set under a running turn, the turn ends, whatever the    *)
(* user, the children and the servers do; the one exception is a provider     *)
(* that never ends the body of an error answer (send_unchecked).              *)
CancelEndsTurn ==
    (cancelled /\ pc \notin {"idle", "queued", "down"})
       ~> (pc \in {"idle", "down"} \/ [](pc = "reading"))
===============================================================================
