# A verification project for gritt-cli

gritt is a coding agent for the terminal: it drives a language model through
tool calls, either with its own agent (a *native* session) or by supervising
another vendor's agent process (a *connector* session). This directory holds
TLA+ modules translated from the Rust sources, the TLC configurations that check
them on small instances, and proofs for TLAPS. `PROJECT.json` lists components,
runs, mutants, hazards and theorems, and maps each definition to source lines.

## 1. Inventory

| Component | Sources (under `src/crates`) | State | Operations | Talks to |
|---|---|---|---|---|
| Native turn loop | `gritt-harness/src/agent.rs`, `driver.rs` | phase, approval mode, `next_sequence`, cancel token, `started`, `sent_phase`, `pending_replay` | `run_turn`, `handle_call`, `execute_call`, `set_mode`, `switch_native`, `set_effort`, `fail`, `CancelHandle::cancel` | adapter (await), tools, MCP, store, interface callbacks |
| Provider adapters | `gritt-provider/src/{adapter,chat_completions,messages,responses,sse}.rs` | the conversation or the id of one; the answer being read | `send`, `submit_tool_results`, `history`, `continuation`, `restore`, the normalizers, `SseParser` | provider over HTTP and SSE |
| Tools and process registry | `gritt-harness/src/tools.rs` | set of child process ids, Full Access flag | `resolve`, `preview`, `execute`, `run_shell`, `kill_all` | workspace, children |
| Policy engine | `policy.rs` | rules (immutable in a run) | `evaluate_mode` | called by the turn |
| Session store | `store/` | schema and ledger, sessions, events, continuations, last choices, trust | migrations, numbered inserts, phase columns, find, rename, remove | SQLite |
| MCP runtime | `mcp/mod.rs`, `registry.rs`, `trust.rs` | per server: state, generation, connection, tools; launches under way | open, reload, decide, start, restart, stop, refresh, call, shutdown | connections, trust table |
| MCP connections | `mcp/connection.rs`, `stdio.rs`, `http.rs` | queue, pending table, stop flag, budget | request, abort, notify, shutdown | server process or endpoint |
| Connector supervision | `gritt-connector/src/supervise.rs`, `process.rs`, `pty.rs` | sessions table, driver task, agent process | create, run, cancel, inspect, deadlines | agent process, event channel |
| Connector protocols | `gritt-connector/src/protocols` | thread, tools in use, whether the agent ended | one normalizer per agent | driver |
| Connector discovery | `health.rs`, `install.rs`, `versions.rs`, `models.rs` | two caches | check, list, update | package managers |
| Connector session runner | `gritt-harness/src/connector_session.rs` | turn state, continuation | run a turn over the event channel | supervision, store, interface |
| Native connector | `native_connector.rs` | slots with idle agents | start, resume, answer, cancel | agent, store |
| Startup, control plane, drafts | `startup.rs`, `control.rs`, `draft.rs`, `setup.rs` | candidates, draft, configuration | probe, fail over, validate, open | providers, connectors, store |
| Workspace changes | `changes.rs` | baseline, permits | scan, diff, cancel | Git, workspace |
| Interfaces | `modes/`, `tui/` | input, view, generations, idle agent, reservation | print, REPL, full-screen run loop, model choice | everything above |
| Core types | `gritt-core/src` | none | phases, modes, events | all |
| Command line | `gritt/src` | none | arguments, signal handler, doctor, keys | all |
| Model lists | `gritt-provider/src/models.rs` ... | cache files | load or fetch | disk, provider |
| Maintenance crate | `.agents/cli` | ticket files, index | new, new-chain, sync | disk |

Interaction. A driver (print mode, the REPL, or the full-screen loop) submits a
prompt and publishes a cancel handle. `run_turn` sends a request, reads the
stream, gates and runs each tool call, answers the provider and loops. Every
event is numbered in memory, written to the store and handed to the interface
before the turn goes on. Cancellation is a token that any thread may set; who
sets it also spawns a task that kills the tracked children. The full-screen loop
never waits itself: whatever waits is a task whose answer comes back through one
channel, possibly after the user has moved on.

Hard behaviours: a cancellation between any two awaits; kill tasks that run
late; writes that fail halfway; a process that dies and restarts from the store;
conversations handed from one provider to another; answers in pieces, cut
anywhere; connection tasks whose caller has gone; launches overtaken by
decisions; drivers and runners that share a row; answers that arrive after the
session they belong to. Each is listed at its line under `hazards` in
`PROJECT.json`, with the properties that watch it.

What makes each component correct:

- turn loop: no effect without permission; bounded damage after a cancellation;
  every call answered, every request for approval decided; every turn ends;
- tools: no child outlives the call it belongs to;
- store: event numbers are unique and in the order of the turns; the ledger
  never runs ahead of the schema; no row without its session;
- adapters: a prompt reaches the provider once and in order; the model was told
  the mode it is gated by; a hand-over loses nothing it could keep; a completed
  answer is the one the server sent;
- MCP: every caller is answered; a call reaches the tool that was offered; a
  connection is installed only for the entry it was launched for; no child
  without an owner, none after a shutdown;
- connectors: no agent process outlives its driver; a turn reported as finished
  succeeded and can be continued; lines are read as they were meant;
- run loop: one driver per session; the screen says what is; no approval is
  granted unseen;
- startup and choice: a session starts only with a model that passed its probe
  and is its provider's;
- caches, tickets, changes: nothing shown that is not so, nothing consumed
  twice, workers bounded.

## 2. Plan

One module per component, the most important behaviour first; each brings its
run, its mutants and, where the prover reaches, its proofs. All of the table is
written and checked; the last column says what is proved.

| # | Module | Component | Composes / refines | Proved |
|---|---|---|---|---|
| 1 | `NativeTurn` | turn loop, tools, registry, policy outcome, event rows, cancel handle | stands alone | all its safety |
| 2 | `Conversation` | the three adapters' memory, request building, continuation, provider switch | the provider's side of 1 (`Send*`, `Submit*`) | all its safety |
| 3 | `McpCalls`, `McpConnection` | one MCP connection over stdio | the second implements the first | safety and the refinement |
| 4 | `ConnectorTurn` | supervision driver, session runner, session table | external agent process as environment | all its safety |
| 5 | `McpRegistry`, `McpRuntime` | launch, reload, restart, stop, refresh, calls, shutdown, trust | a connection as 3 promises it | all its safety |
| 6 | `RunLoop` | full-screen loop: generations, reservation, queue, session changes | turns of 1 and 4 as tasks | all its safety and its action property |
| 7 | `EventStream`, `ProviderStream` | one request's stream, normalizers, retries | the second implements the first | safety and the refinement |
| 8 | `SseFraming` | event-stream parser beside its budget | stands alone | its safety |
| 9 | `Sessions` | schema, migrations, rows, routes that open a session | rows as in 1 | its safety |
| 10 | `McpHttp`, `NativeSlots`, `Startup`, `Changes`, `Selection`, `Tickets` | one component each | side by side in `MCParts` | the safety of each |
| 11 | `Protocols`, `Discovery` | external agents' lines; what is found out about them | beside 7 in `MCOutside` | their safety |

Left of the plan: the evaluation of policy rules, the validators of the
maintenance crate.

## 3. The modules and the code

In every module a step is the code between two awaits (or, where threads are
involved, between a read and the use of what was read), so that whatever may
happen at an await is a step of its own that falls between any two of them.
History variables are named as such; no action reads them.

### NativeTurn

The state of `NativeAgent` (`agent.rs`), of the `ProcessRegistry` (`tools.rs`),
of the event table and of the cancel token, for one session. `pc` says where
`run_turn` is.

| Code | Actions |
|---|---|
| `run_turn`, request and stream | `Submit`, `BeginTurn`, `Connect`, `SendAccepted`, `SendRefused`, `BadStatus`, `BodyRead`, `Tell`, `StreamToolCall`, `StreamCompleted`, `StreamError`, `StreamCancelled` |
| `handle_call` | `Gate`, `Deny`, `Wait`, `Request`, `AutoAnswer`, `UserAnswers`, `CancelDenies`, `RecordDecision`, `Start` |
| `execute_call`, `run_shell`, an MCP call | `RunFile`, `SpawnShell`, `SpawnFails`, `ChildExits`, `ShellDone`, `ShellCancelled`, `McpRefused`, `McpQueue`, `McpDeliver`, `McpReturns`, `McpCancelled`, `Answer` |
| the rest of the round and of the turn | `NextCall`, `StopRound`, `EmitCancelled`, `SubmitResults`, `SubmitRefused`, `StopChildren`, `SaveContinuation`, `Close`, `Fail` |
| `set_mode` with a failure at any of its writes | `SetMode(m, f)` |
| `CancelHandle::cancel` and its spawned `kill_all` | `Cancel`, `RunKillTask` |
| errors of `emit` and of the store | `OutputBreaks`, `StoreFails` (`EventFails`, `RowFails`) |
| the process | `Crash`, `Restart` |

An MCP call looks at the token when it is queued (`McpQueue`,
`connection.rs:212`). The transport task writes it later (`McpDeliver`) and
looks only at the request's own flag, which is raised when its caller is next
polled, so a request may reach the server after the token is set;
`OneLateEffect` counts it as the one call that may still begin. An event is
stored by two statements, so a failed append may leave its row (`EventFails`).

A call is a model value; the constants say which tool it names, what the policy
rules make of it, whether its path leaves the workspace and whether its preview
can be built. Telemetry rows are left out: their only effect on the turn, a
failed write that ends it, is `StoreFails`. `kill_tree` is taken to succeed, and
the death of the process to take its shell children with it, which
`process::exit` after a second Ctrl-C (`main.rs:649`) does not do.

### Conversation

What the provider is shown. A message is its role, its turn and the mode it
speaks of. `items` is the conversation held by the Chat Completions and Messages
adapters, or kept by the provider behind the response id of the Responses
adapter; `request` is what has been built and is not yet in it. `Prompt`,
`Send*`, `Created`, `Completed`, `Submit*`, `Save`, `Finish` follow one turn
through `request`, the adapter's `send` and `submit_tool_results`,
`continuation` and `save_continuation`; `Switch` is `apply_switch` with
`history`; `Restart` is `agent_for` with `restore`. It shares no variable with
`NativeTurn`: there the provider is an environment that may accept or refuse,
here the gate and the tools are. A body that ends before its last element is
taken for a completed turn by both `finish` functions (`responses.rs:368`,
`messages.rs:504`): `EndsUnfinished` lets the turn go on and finish, with nothing
of that request and its reply kept. Every reply is taken to have text.

### EventStream and ProviderStream

`EventStream` is what a turn is promised of one request: it is refused or it
streams, a call is reported once, one terminal event ends it. `ProviderStream`
is an adapter with its three normalizers: `Send` and `SubmitToolResults` with
the capability gate, `Connect`, `Refused`, `StreamCancelled` for the races with
the token (`adapter.rs`), and one action per kind of wire element: `Created`,
`TextPiece`, `OpenCall`, `ArgumentPiece`, `CloseCall`, `Whole`, `CutShort`,
`Broken`. What an element produces waits in `pending` until the turn takes it
(`Deliver`). The three protocols differ in who interleaves pieces, when a call
is whole, what a cut leaves in the adapter and what the next request builds on.

### SseFraming

The parser of server-sent events (`sse.rs`) beside the budget that the MCP
client counts on its own (`http.rs`), fed the same bytes of three kinds
(content, CR, LF). `Line` and `Dispatch` are the parser's, `Admit` the budget's.
A line is decoded with `from_utf8_lossy` (`sse.rs:79`) after it was counted: each
byte of it becomes one to three (`Replacement`), so what the parser holds is
bounded by three times the limit and by nothing less.

### McpCalls and McpConnection

`McpCalls` is what a connection promises: a call reaches the server at most once
and only while its caller waits, and is answered only with what the server said
to that very call. `McpConnection` is `connection.rs` and the transport task of
`stdio.rs`: the bounded command channel, the abort flag a request carries, the
pending table, the write that a stop flag interrupts, the shutdown protocol with
its two `Notify`s. The refinement maps a call to `open` while its caller has not
raised the flag, and `delivered` to the requests whose frame was begun.
`Arm` splits `stopped()` and `Register`/`Recheck` split `wait_finished()` where
the flag is read and where the wait is registered, because the caller of
`shutdown` runs on another thread. The server may answer as soon as a write
began, twice, late, or say things that are no protocol. Left out: the
acknowledged notification that ends the handshake (`notify_delivered`), the
tools-changed flag and stderr.

### McpHttp

The same commands over Streamable HTTP (`http.rs`): `Loop` takes commands in
order and holds requests behind the handshake's barrier, each request is a task
(`Post`, `ServerAsks`, `Replied`, `Unwind`), and the client's own POSTs are
tasks with permits of their own (`PostAux`, `AuxEnds`).

### McpRegistry and McpRuntime

`McpRegistry` turns the tool lists of connected servers into the frozen set a
turn is offered (`Inserting`, `Relisting`, names pushed on by a collision).
`McpRuntime` is the shared runtime of one workspace. Every operation of
`mcp/mod.rs` (`open`, `reload`, `approve`, `deny`, `restart`, `stop`, `refresh`,
`call`, `shutdown`) is a process `o \in Ops`, `Begin(o, kind)` starts it and
`Step(o)` takes it from one await to the next; a launch is a process of its own
(`Launching(c)`) with its child, which may break, change its tools or end at any
time. The generation of an entry says whether what an operation read still
holds. A connection whose entry drops it (`Install` over another, `MarkLost`) is
`dropped`: its task is told to stop when the last handle goes (`LetGo`), and a
call that waits or a refresh on its way may hold one (`Handles`). `open` and
`reload` read the file (`ReadFile`) and then one decision at a time
(`ReadDecision`); each of these reads, and a record, may fail (`ReadFails`).
`Check` sends the tool of the frozen reference, as the code does.

### ConnectorTurn

A session on an external agent. `pc` says where `run_turn` of
`connector_session.rs` is; each turn has a driver (`Driver::drive`) with a
process and a stream of its own, because a driver outlives its turn when the
runner lets go of the stream. `external` and `handle` are the row of the session
table both sides write.

| Code | Actions |
|---|---|
| `run_turn`, `fail` | `Begin`, `Connect`, `Start`, `StartFails`, `Relay`, `Read`, `StreamEnds`, `Inspect`, `InspectFails`, `Close` |
| an error of `emit`, with `cancel` when the output is broken | `Abandon(shown)` |
| `Driver::drive`, `emit`, `finish_after_terminal` | `Send`, `SeeCancel`, `Line`, `Deadline`, `OutputClosed` |
| `update`, in the task that `run` spawns | `Update`, with the turns a late write overtakes (`Missed`) |
| the cancel handle; the process | `Cancel`; `Restart` |

The stream is bounded and a driver waits on it (`Send`), so that a cancellation
meets drivers that cannot look at it. The channel of lines is folded into the
driver's step: only the driver reads it and it is in order, so a line may as
well be printed when it is taken, and an exit happen when it is seen. What the
table calls the task's state is left out: nothing in the harness reads it. So
are relayed approvals (external agents take no answer), `send_input` and
`resume` (the harness never calls them), and the agent's children that keep its
output open. `Inspect` saves in the same step what it copied from the table
before its probes, which touch nothing that is modelled. Threads are named by
the turn that opened them, and an agent may answer a resumption with the same
thread or a fork of it.

### Protocols and Discovery

`Protocols` is how the driver reads the four agents: each documented kind of
line and what the normalizer (`protocols/*.rs`) makes of it, the calls in use
and the last end among the events. `Discovery` is `check_version_inner`,
`discover_models_inner` and `update_inner`: checks side by side that share a
cache file, each with a mode (offline, cached, refresh), an installer process that may
outlive its update, a clock, and a world that publishes and reinstalls.

### Sessions

The database: `Start`, `Migrate`, `Commit`, `Rollback` for the migrations of a
new, older or half-migrated file; `Rename`, `StartRemove`, `RemoveStep` row by
row; the routes that open a session (`OpenNamed`, `OpenDraft`, `ResumeById`, then
`FindSession`, `ValidateDraft`, `FindAgain`, `Resolve`, `Create`, `Attach`) of
`control.rs`; and the writes of the session's driver (`AppendEvent`, `Stamp`,
`SaveContinuation`, `SetNativeProvider`, `SetEffort`). A draft's wish is a
profile, another model than the row's, a level of effort (`Wishes`);
`ValidateDraft` refuses as `validate_resume` does, for another profile or model
and for a level, asked or stored, that protocol and list of models do not
support (`Verdicts`: no level is always supported, Messages never supports one,
elsewhere the list decides). `SetDraftEffort` and `TellEffort` are the writes of
`open_draft` behind `Attach`. Any statement may fail and the process may die
between any two. The mode of a draft is not modelled.

### NativeSlots, Startup, Changes, Selection, Tickets

`NativeSlots`: the slot that lends the native agent to one turn at a time
(`native_connector.rs`), with the calls other tasks make on it meanwhile.
`Startup`: `resolve_startup` with its candidates, probes and model lists
(`startup.rs`, `models.rs`), several at once on the same cache. `Changes`: the
rescans and diffs of `changes.rs` with the blocking workers they leave behind.
`Selection`: the drafted provider, model and agent of the interface, its picker
and its setup form (`app.rs`, `run.rs`, `control.rs`) against answers that come
late. `Tickets`: one file operation per step of `new`, `new-chain` and `sync`
(`.agents/cli/src/ticket`), each of which may fail, and a write of an index may
leave the file cut (`CutIndex`). A memory category may be empty (`"none"`):
`collect_memory_indexes` then renders no index for it (`Renders`).

### RunLoop

`Scheduler::step` of `tui/run.rs` with the state of `tui/app.rs` it drives: a
frame, one key or one message, the action it produced, then a bounded drain of
the queue. `Tasks` are the turns, opens, switches, lists and MCP actions the
loop spawned; their answers stand in one FIFO channel. A driver is the session
it runs and the mode it is in; it is idle in the loop, lent to a turn, in a
message, or reserved for an open that is on its way (`Reservations`, `Works`).

### Compositions

`MCParts` puts the components that share no state side by side in one run: a
behaviour is one component's from beginning to end, so their state spaces add up
and are not multiplied, and all but the two it extends keep their state in the
same variables. `MCOutside` does the same for what faces providers and external
agents, `MCConversation` for two sets of bounds. The abstract modules
(`McpCalls`, `EventStream`) are instanced by the detailed ones with a refinement
mapping.

## 4. Runs

All bounds are constants in the guards, and name what they bound. Deadlock
checking is off in every run because every instance stops: prompts, calls,
operations and crashes are bounded, and a connection ends.

| Run | Question and properties | Instance | States |
|---|---|---|---|
| `turn_gate` | Does any call take effect without its permission, does a finished turn answer all its calls, how much happens after a cancellation? `Gated`, `FinishedMeansAnswered`, `OneLateEffect` | calls: one remote, one outside the workspace, one denied; every launch mode, one mode change that fails anywhere, one cancellation | 1 296 390 |
| `turn_cancel` | Can a child outlive its call, do event numbers keep their order, is every request decided, does the turn end? `NoStrayChild`, `LogOrdered`, `NoUnmatchedRequest`, `CancelEndsTurn` | a preview that cannot be built and a shell over two turns, one cancellation, one crash, an error answer whose body may not end; fairness | 600 184 |
| `conv_both` | Was the model that answers told the mode its calls are gated by; do prompts reach the provider once and in order; do finished turns stay? `ModelKnowsMode`, `PromptsInOrder`, `FinishedRemembered` | two sets of bounds: both adapters that hold the conversation, three turns, two mode changes of which one fails halfway, a switch, a crash; all protocols, three turns with a round of calls, two switches, a crash | 5 781 176 |
| `conv_blind` | violated: `NewProviderNotBlind` | two turns, two switches | 46 083 |
| `mcp_calls` | Does the connection keep its promise to every caller, and is the server gone after a shutdown? `NoServerAfterShutdown`, `KeepsPromise` | two callers, one of the handshake, one shutdown; queue, lines and pending of one place | 2 109 896 |
| `mcp_stop` | Do shutdown and calls return? `ShutdownReturns`, `CallReturns` | one caller, one shutdown; fairness | 48 199 |
| `rt_decide` | Whatever decisions, edits of the file, restarts and launches meet, is a connection installed only for its entry, and do two decisions persist and apply in one order? `OnlyCurrentInstalled`, `DecisionsSerial` | one server with two definitions, one edit, the background open and two of reload, approve, deny, restart, stop, one launch | 1 364 271 |
| `rt_use` | Does a call reach the definition it was offered, has every child an owner, is nothing left after a shutdown? `CallReachesFrozen`, `EveryChildOwned`, `ShutdownDrains` | one server with two definitions and two tool lists that collide, one edit, three of reload, refresh, call, shutdown, two launches | 851 914 |
| `loop` | One driver per session? Is the screen true? Is a prompt run once, an approval seen, a late answer ignored? Does a cancellation give the interface back? `OneDriverPerSession`, `ScreenAccounts`, `NothingUnasked`, `AdoptsWhatWasAsked`, `CancelFrees` | two sessions of which one is stored, one prompt, one approval, three operations, two new sessions, a drain of one message; fairness | 602 878 |
| `conn_turn` | Can an agent outlive its turn, a failed agent pass for success, a race cost more of a thread than the turns it overtakes, a cancellation be stuck? `EndsWithItsAgent`, `ContinuesThread`, `CancelEndsTurn` | two turns, any agent, a stream of one place, one restart; fairness | 1 070 803 |
| `parts` | Eight components, a property each: `BudgetIsExact`, `SessionsKept`, `HttpEndsClean`, `OneAgentOneTurn`, `FailoverIsHonest`, `WorkersBounded`, `AgentGetsItsModel`, `NothingConsumed` | see below | 2 970 572 |
| `outside` | Is a completed answer the server's, do results answer the calls on record, are an agent's lines read as meant, is what is shown of it so? `AnswerArrivesWhole`, `RequestsKeptApart`, `KeepsPromise`, `ReadAsMeant`, `ShownIsHonest` | three requests, two calls of two pieces, one piece of text; two calls over four lines; two checks, one update | 1 662 618 |

The instances of `parts`: events of at most 4 bytes in a stream of 9 (`MaxEvent`,
`MaxStream`); three migrations, two sessions, one name, two profiles, one agent,
two workspaces, two configurations, two processes, one failure and one event
(`MaxRuns`, `MaxTroubles`, `MaxEvents`); two requests, one permit of each kind
(`Posts`, `Permits`, `AuxPermits`); two turns with one approval each (`Turns`,
`MaxAsks`); two profiles, two models and one qualified name, two resolutions, cache files
that are missing, old or new, one change of an endpoint (`Flows`, `Kept`,
`MaxChanges`); two tasks on one path with one worker (`Tasks`,
`Paths`, `MaxWorkers`); two providers, two agents, three models, two selections
(`MaxSelection`); one command after another, numbers to 3, shards of 2, a chain
of 2, three commands and one edit, which may remove the last memory. A draft asks
for nothing, another profile, another model or a level of effort (`OneWish`).
Workspaces are symmetric.

Why the bounds are enough. The hazards are about one or two neighbouring turns
(a token reset, a late kill task, a number burnt and used again, a note lost and
sent again), one round of a few calls of different kinds, one switch after
another, two operations on one entry. Two turns and one crash show the numbers
of a failed write, a dead process and a restart; three turns and two switches
show a hand-over of a hand-over; calls of each kind are one each because calls
do not interact except through the order in `todo`; a third operation shows what
two that race leave behind. A channel of one place makes a full queue, and a
table of one entry a full table, ordinary states of the run. One bound did hide
something: with a second half-failed change of mode `ModelKnowsMode` is false,
which the attempt to prove it showed (section 7). What the theorems of section 6
state holds for every bound.

## 5. Fairness

- `NativeTurn`: weak fairness of `AgentStep` and of `RunKillTask`, which are
  tasks tokio schedules, and of `cancelled /\ AdapterStep`: an adapter is only
  known to answer once the token is set, because every wait of its own races the
  token (`adapter.rs:145-175`, `425-491`). One read does not: the body of an
  error answer at `adapter.rs:180`, where a server that stalls holds the turn.
  It is a place of its own (`pc = "reading"`): no fairness is assumed of
  `BodyRead`, and `CancelEndsTurn` says that a cancelled turn ends or stays in
  that place for ever. Nothing is assumed of the user, the children, the server
  or the store.
- `McpConnection`: weak fairness of each caller (its deadline and the queue
  timeouts are timers), of each closer and of the task; strong fairness of `Arm`
  and `StopSeen`, because `tokio::select!` without `biased` polls its branches
  in random order, so a server that never stops talking cannot keep the task
  from looking at the flag. Nothing is assumed of the server, and
  `HARD_SHUTDOWN_TIMEOUT` is left out: shutdown returns without it.
- `ConnectorTurn`: weak fairness of the runner and of every driver, which are
  tokio tasks. A driver always has a step: its deadlines are timers. Nothing is
  assumed of the agent, so it may print for ever, and `CancelEndsTurn` holds
  because the select of `drive` is biased towards the cancellation
  (`supervise.rs:1306`).
- `RunLoop`: weak fairness of the loop taking its messages, of a spawned turn
  beginning, and of a cancelled turn deciding its approval and finishing, which
  `CancelEndsTurn` of the two kinds of turn gives, but for the stalled body of an
  error answer. Nothing is assumed of the user or of a turn nobody cancelled.

## 6. Proofs

Every theorem holds for all values of the constants under the assumptions named
in the module that declares them. Those give the constants their types and say
that model values differ from the ordinary ones (`CallsAssumption`,
`BoundsAssumption`, `ConnectionAssumption`, `SizesAssumption`,
`ConversationAssumption`, `ProtocolsAssumption`, `LimitsAssumption`,
`PrintsAssumption`, `SessionsAssumption`, ...); TLC evaluates all of them. The
components that run side by side take theirs from the modules that instance
them: a turn is a positive number (`TurnsAssumption`), there may be no permit at
all (`PermitsAssumption`), the tasks are finitely many (`TasksAssumption`), the
fallback order names configured profiles, each once, and a cache file holds a
list or none (`BootAssumption`), a shard has room for a ticket
(`TicketsAssumption`), a line announces finitely many calls and `None` is neither
a thread nor a tool (`ToolsAssumption`), a refresh interval may be 0
(`ChecksAssumption`), a wish asks for a configured profile or none and for a
level or none (`WishesAssumption`), `None` is no session (`KindsAssumption`). Where
an invariant is not inductive, the strengthening was first checked by TLC as an
invariant of a run and then proved.

| Module | Theorem | Property | Inductive invariant |
|---|---|---|---|
| `NativeTurnProofs` | `TypeCorrect` | `TypeOK` | `TypeOK` |
| | `LogIsOrdered` | `LogOrdered` | `LogInv` |
| | `NoChildLeftBehind` | `NoStrayChild` | itself, with the types |
| | `NothingRunsUngated` | `Gated` | `GateInv` |
| | `CancelledLetsOneThrough` | `OneLateEffect` | see the module |
| | `FinishedAnsweredAll` | `FinishedMeansAnswered` | see the module |
| | `EveryRequestDecided` | `NoUnmatchedRequest` | see the module |
| `ConversationProofs` | `TypeCorrect` | `TypeOK` | `ConversationInv` |
| | `PromptsStayInOrder` | `PromptsInOrder` | `ConversationInv` |
| | `FinishedStayRemembered` | `FinishedRemembered` | `ConversationInv` |
| | `ModelAlwaysKnowsMode` | `ModelKnowsMode` | `ConversationInv` |
| `ProviderStreamProofs` | `AnswersArriveWhole` | `AnswerArrivesWhole` | see the module |
| | `RequestsAreKeptApart` | `RequestsKeptApart` | see the module |
| | `StreamKeepsPromise` | `KeepsPromise` (refines `EventStream`) | see the module |
| | `ShownStaysHonest` | `ShownIsHonest` | `FoundInv` |
| | `LinesAreReadAsMeant` | `ReadAsMeant` | `LinesInv` |
| `McpConnectionProofs` | `TypeCorrect` | `TypeOK` | `TypeOK` |
| | `ShutdownEndsServer` | `NoServerAfterShutdown` | `ShutdownInv` |
| | `ConnectionKeepsPromise` | `KeepsPromise` (refines `McpCalls`) | `PromiseInv` |
| `McpRuntimeProofs` | `CurrentIsInstalled` | `OnlyCurrentInstalled` | `RuntimeInv` |
| | `CallsReachFrozen` | `CallReachesFrozen` | `RuntimeInv` |
| | `DecisionsAreSerial` | `DecisionsSerial` | `RuntimeInv` |
| | `ChildrenAreOwned` | `EveryChildOwned` | `RuntimeInv` |
| | `ShutdownHasDrained` | `ShutdownDrains` | `RuntimeInv` |
| `ConnectorTurnProofs` | `EndsAsItsAgentDid` | `EndsWithItsAgent` | `TurnInv` |
| | `ThreadContinues` | `ContinuesThread` | `TurnInv` |
| `RunLoopProofs` | `OneDriver` | `OneDriverPerSession` | `LoopInv` |
| | `ScreenAlwaysAccounts` | `ScreenAccounts` | `LoopInv` |
| | `NothingIsUnasked` | `NothingUnasked` | `LoopInv` |
| | `AdoptedWasAsked` | `AdoptsWhatWasAsked` (action property) | `LoopInv` |
| `PartsProofs` | `BudgetStaysExact` | `BudgetIsExact` | `FramingInv` |
| | `SessionsAreKept` | `SessionsKept` | `StoreInv` |
| | `AgentsAreLentOnce` | `OneAgentOneTurn` | `SlotsInv` |
| | `HttpAlwaysEndsClean` | `HttpEndsClean` | `HttpInv` |
| | `WorkersStayBounded` | `WorkersBounded` | `FilesInv` |
| | `AgentsGetTheirModels` | `AgentGetsItsModel` | `ChoiceInv` |
| | `FailoverStaysHonest` | `FailoverIsHonest` | `BootInv` |
| | `TicketsAreNotConsumed` | `NothingConsumed` | `TicketsInv` |

The arguments:

- `NativeTurn`. A step could reuse a number that is in the table, so
  `LogOrdered` is not inductive: `LogInv` adds that every stored number is below
  `next_sequence` and every stored turn is not above the current one; a lemma
  (`LogStep`) reduces every step to five things it may do to the table.
  `GateInv` says why a call about to run may: the Full Access flag of the tools
  follows phase and approval at every step, half-done mode changes included
  (`Authority`); a call being asked about has passed the path bound and asks; a
  call that starts has passed the gate or has its approval in the event table
  (`Cleared`).
- `Conversation`. `ConversationInv` says what a request is made of where there
  is one (`Asking`), that what the adapter, the stored row and the pending
  replay hold is in order and up to the turn they are of (`InTurn`), that a
  finished turn is in the one of them the next request is built on, or was
  dropped by a hand-over (`Remembering`), and what the model was told last
  (`Telling`). What a hand-over carries is a recursive function; that it keeps
  order and prompts is proved by the least number at which it would not
  (`Least`, from the well-foundedness of the naturals).
- `ProviderStream`. What the adapter has put together so far is a prefix of what
  the server has said, piece by piece and call by call, whatever was interleaved;
  a retry and a refusal leave the earlier answer in place.
- `McpConnection`. A finished task has ended the child, and a closer returned
  only after it saw that (`ShutdownInv`). A request in the channel is there once,
  was never written, has no answer, and belongs to a caller who waits or has
  raised the flag; what is pending or being written was begun; an answer on its
  way was said by the server (`PromiseInv`). Every step then is a step of the
  promise or a stutter (`CallerRefines`, `TaskRefines`, `StepRefines`).
- `McpRuntime`. `RuntimeInv` ties each operation to where it stands: what it
  read, which generation it read it under, who holds the launch slot and the
  decision lock, that an outcome under an older generation cannot install, and
  that a dropped connection nobody holds has been told to stop.
  The registry's folds are proved about by the least index.
- `ConnectorTurn`. `TurnInv`: what runner, driver, stream, agent and table say of
  a turn at each of its stages (`Starting`, `Supervising`, `Reporting`), and
  that every thread a driver has or resumed, and so the table whichever driver
  writes it and the continuation, knows the finished turns before it that raced
  with nothing (`Safe`, `Continuing`).
- `RunLoop`. `LoopInv`: where the driver of each session is, which message or
  task will answer each reservation, and that every live turn and every message
  of one carries the generation it was started under. The last part shows that
  the branches for stale generations of turns are unreachable.
- `SseFraming`. The budget is never behind the parser, both agree on the line
  ending just seen, and the line that ends an event for the budget is blank for
  the parser (`InStep`).
- `Sessions`. `StoreInv`: what a process, a migration, a removal and an opening
  have done so far at each of their statements; what a draft still asks for once
  it was validated (`Drafted`); and that no session is left with a level of
  effort its protocol does not know (`Fitting`), without which a stored effort
  could refuse a session whatever the list of models says.
- `NativeSlots`. `SlotsInv`: which of slot, turn and stream holds each agent that
  was built, and that a handle still in the table is that of the turn that runs.
- `McpHttp`. `HttpInv`: the handles of the client's own POSTs that are still held
  are never more than their permits, and an abort or a notice is under way only
  for a request its caller gave up.
- `Changes`. `FilesInv`: free permits, workers with a task and workers whose task
  was aborted add up to the bound.
- `Selection`. `ChoiceInv`: a list on screen is the chosen agent's, and an answer
  under way for another agent or an earlier session cannot replace it.
- `Startup`. `BootInv`: a chain has each profile once, so a profile is probed once
  in a resolution; what a resolution holds of a list is what its endpoint
  answered or `disturbed`; every candidate before the current one has its cause.
- `Tickets`. `TicketsInv`: the folders an undisturbed command sees are those it
  found and exactly the consecutive numbers it has written so far, or has not yet
  removed again; and the shards up to the one in hand list what was collected
  (`CutKeepsShards`: a write that is cut spoils one index and no entry of
  another).
- `Discovery`. `FoundInv`: every stored version was the newest at the time stored
  with it and belongs to the owner stored with it, wherever a copy of it is held;
  what was the newest at a time stays so while versions come out (`HonestStays`).
- `Protocols`. `LinesInv`: the events sent and pending together contain, for each
  call, none of its two events, the first, or the first before the second,
  according to how far the agent is with it, and the name the normalizer keeps
  is the call's while it is open; an end is the last event of its line. What
  was sent is a prefix of that, whatever is still pending or dropped.

Only model-checked:

- the liveness properties (`CancelEndsTurn` twice, `ShutdownReturns`,
  `CallReturns`, `CancelFrees`), which are out of the prover's reach. Every
  invariant and every safety property of the passing runs is proved.

What a recursive definition computes for every input is proved only where a
theorem needed it (`Inserting`, `Relisting`, `Carrying`), through least elements
instead of the induction theorems of the library, which take operators.

## 7. Where code and documents part

Shown by a run (quoted under `findings` in `PROJECT.json`):

- `conv_blind`: a second switch before the next turn drops what the first one
  carried (`agent.rs:381`).

Found by a proof:

- Two `set_mode` calls that fail halfway, with a failed send between them, leave
  the model untold of its mode: the send records the new phase as told, the
  second failure moves back to it, and the note is not sent again
  (`agent.rs:469-487`, `582`, `683`). `ModelKnowsMode` excludes it by
  `modeFailures <= 1`.
- A stored effort may refuse a session: `validate_resume` applies the effort
  check to the stored level too (`control.rs:519-525`), so a session with an
  explicit effort on Chat Completions or Responses does not open from a draft,
  nor by its id ("keeps the stored profile, model, and effort", above
  `resume_by_id` in `run.rs`), while the list of models is unavailable or no
  longer gives that level; print mode opens the same session. `OpensAgain`
  excludes exactly that.
- A cached entry may be called current in the very second it was checked even
  though the interval is 0 (`config.rs:41` allows it): `ShownIsHonest` speaks of
  the interval only for an answer that was not asked for just now.

Met while modelling, without a run of their own. Turns and providers:

- A cancellation between the publication of the handle and `cancel.reset()` is
  lost (`agent.rs:650`, `connector_session.rs:277`; `docs` 198): a Ctrl-C right
  after the prompt does nothing. `Begin*` of the models clears the token as the
  code does. An approval given after the cancellation still counts
  (`docs/tools-and-permissions.md:193-194`).
- A turn cancelled among its calls leaves them unanswered in the conversation
  the next turn continues (`agent.rs:754`).
- `set_mode` that fails at an event write has already moved phase and tools;
  from Planning over Full Access, asked for Supervised, it leaves Full Access
  (`agent.rs:442`).
- The Responses adapter loses the mode note of a send that got no response,
  although `sent_phase` says it was sent (`agent.rs:684`).
- Mode notes of old turns follow the fresh system prompt after a switch
  (`agent.rs:403`, against the comment at 408-409); `StaleNote` excludes them.
- A request that is refused before it is sent has already taken the pending
  replay with it (`agent.rs:660`). Replies that were handed over are not handed
  over again by the Messages adapter (`messages.rs:263`). The told phase is
  written and never read back (`agent.rs:1392`).
- A preview is built before the approval and may be stale when the write runs
  (`agent.rs:1001`). An event is appended with two statements
  (`session_store.rs:382`).
- Chat Completions takes a body cut without `[DONE]` for complete and runs a
  call whose arguments were cut; Messages, cut after `content_block_stop`, keeps
  no entry of the reply; Responses remembers the id of a failed response.
- A Responses body that ends before it names a response is `Completed`
  (`responses.rs:368-383`): the turn is recorded as finished, no id is kept, and
  its prompt is not in front of the next reply. A Messages body that ends without
  `message_stop` is `Completed` too (`messages.rs:504-517`), and its reply is not
  kept. `FinishedRemembered` has such prompts in `forgotten`.
- The body of an error answer is read without regard to the token, by a client
  without a timeout (`adapter.rs:180`, `transport.rs:161-164`): a server that
  stalls in it holds a cancelled turn for ever.
- An MCP request may reach its server after the cancellation, although "nothing
  is sent" for a cancelled token (`connection.rs:211`, `stdio.rs:238-249`).

MCP:

- The abort of a cancelled request is dropped when the queue stays full for
  250 ms, and its pending entry outlives the caller (`connection.rs:320`, against
  174-175). A stop signal between the read of the flag and the registration of
  the wait is missed by a task that writes (`connection.rs:99`, against 97-98);
  the write timeout ends the wait. `notifications/cancelled` may name a request
  that was never written (`connection.rs:230`).
- "None may outlive this" (`mod.rs:694-697`, 733-735) is not so while a call or
  a refresh holds a connection its entry dropped (784, 1014; dropped at 548, where
  two overlapping starts launched one server under one generation, and at 832):
  the task of that connection is told nothing until the last handle goes. The
  third and the fourth disjunct of `EveryChildOwned` and `ShutdownDrains` name
  those children.
- A first open whose read of the file fails has set `opened` (`mod.rs:599`), so
  `ensure_open` never loads again; a `reload` does.
- The limit of an event is said to bound what the parser holds (`http.rs:37-39`,
  405-413); the parser decodes lossily after the count, so the bound is three
  times the limit (`sse.rs:79`), without the overhead of its containers.
- A reload racing a denial may undo it (`mod.rs:291`: "approved" was read before
  the denial was recorded); a restart racing one may
  leave the store denied while `deny` returned an error (`mod.rs:424-427`);
  queued launches of a denied server still spawn; shutdown does not wait for
  connections that a concurrent stop, restart or `mark_lost` has already
  retired; a refresh may list the tools of a server `mark_lost` has failed.
- An event id outlives its event in the parser, but is bounded.

External agents:

- The stream of an agent closes before its driver writes the table
  (`supervise.rs:1066-1075`), so `inspect` may miss the external id and the
  turns that a restart finds start from what was saved before; an agent too old
  for `inspect` is never continued after a restart. `ContinuesThread` puts into
  `late` the turn whose runner looked too early or could not look, and the turns
  that began before the driver of an earlier, abandoned turn wrote its thread over
  theirs; every other finished turn has to be in the thread.
- "Dropping it kills the agent" (`supervise.rs:280`): a driver waiting for lines
  notices only with its next event or a deadline, and an agent that writes
  nothing but stderr or blank lines keeps running. Until then two agents of one
  session may run, and the old driver's late write overwrites the table.
- "An error terminal stays an error" (`supervise.rs:1482`), but a completion
  after it replaces it (`Driver::event`); the runner still reports the failure.
- "Trailing output must not keep extending it" (`supervise.rs:1292`), but the
  wrap-up deadline does not fire while a line is always ready: `timeout` polls
  the channel first.
- Codex `error` items and lines count as terminal; the id of an untyped Claude
  result is not kept; results of unannounced calls have no call.
- A failing check of versions or models that races a successful one writes its
  stale snapshot back, and with none an empty list, which later cached checks
  answer as "retried recently and is still failing"; the models cache is not
  keyed by installation; an update cancelled during its recheck is reported
  Cancelled though installed; cache writes are not atomic; descendants of an
  installer that closed its output and exited are not killed, nor is a group
  whose leader was reaped.

Sessions and interface:

- Resuming by id opens a native session by name (`run.rs:2080-2107`, "Resumes by
  session id"); names are not unique after a rename, and the search for a name
  ignores the workspace. Two opens of one name both create. A failure after
  `create` leaves a row that never ran. `--connector` on an existing native
  session is ignored; telemetry and content rows are not removed with a session;
  one process holds the database at a time (ADR-012:49).
- `SetPhase` lacks the guard for a pending open that `SetMode` has
  (`run.rs:1614`, `1645`; `docs/terminal-modes.md:64-65`). Text typed during a
  lazy open is overwritten when a cancellation gives the prompt back. A change
  of effort during a switch is dropped.
- Native connector: `answer_approval` sets Running also for an unknown request;
  cancelling while the agent is built does nothing; starting while a stream is
  not drained builds a second agent, and the first of two overlapping turns
  clears the other's approvals.
- Startup: a failing fetch that races a successful one overwrites the cache with
  its stale snapshot (`models.rs:231`, against 243).
- Changes: two concurrent captures race (`changes.rs:190`, against 186-188); the
  detached baseline may count the session's own writes as older ones
  (`run.rs:725`); `record_write` looks after the write, so a created file is
  Modified; resumed history refills the observed writes.
- Selection: after a session change or a setup, `request_catalog` keeps the
  former provider's list under the new name (`app.rs`, comments at 683-684 and
  2594); rows of a picker survive the change of session, so an agent's row can
  be sent to a native switch; a save superseded by another request writes the
  file but never reloads it. After a switch the cost estimate prices the whole
  session with the last model.
- Tickets: a memory category that lost its last memory keeps its index, which
  lists a file that is gone, while `sync` says ok and `--check` finds no drift
  (`sync.rs:318`, or 296 when the whole root is gone; against its header, 1-2):
  `SyncedMeansListed` does not speak of the index of an empty category. Nothing
  keeps two commands apart; `new` does not roll back a failed
  write, and a cut `task.md` blocks every later sync; a rollback removes the
  orchestrator first, so a cut one leaves a gap that refuses every later number.

## 8. Not modelled

Listed with its reason under `components` in `PROJECT.json`. Rendering, wire
formats, argument parsing, prices and redaction are sequential conversions that
unit and golden tests reach; authentication and doctor probe the machine. File
contents, diffs and output truncation are abstract in `NativeTurn`, and so is the
evaluation of policy rules. Of the maintenance crate, skills, the memory search,
migrations and the validators are left out. The 30 s bound of the MCP drain, the
hard timeout of its shutdown and the pty are left out as well. So are the mode a
draft asks for, the channel the keys come in by (`run.rs:227-246`) and the text
of a draft that a cancellation gives back: `NothingUnasked` covers the queue and
the frames, `CancelFrees` the interface and its driver. `AgentGetsItsModel`
excludes the choice of a provider while its list loads (section 7), and
`OneAgentOneTurn` claims for clients that call while a turn runs only that no
agent is in two hands. `rt_decide` has one launch, because edits, restarts and
two decisions at once fill it; `rt_use` has two, and reaches a second generation
by reloads of an edited file instead of restarts. Three hazards have no property
(`agent.rs:650`, `442`, `754`): each is a statement about what the code does
deliberately or a known gap of section 7.
