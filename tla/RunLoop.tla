------------------------------ MODULE RunLoop ------------------------------
(***************************************************************************)
(* The full-screen run loop of crates/gritt-harness/src/tui/run.rs with    *)
(* the reducer state of tui/app.rs it drives.                              *)
(*                                                                         *)
(* One iteration of Scheduler::step draws what is owed, takes one key or   *)
(* one message (keys first), performs the action it produced, and then     *)
(* drains what is queued.  Nothing that can wait runs on the loop: a turn, *)
(* a session change, a list or an MCP action is a task whose answer comes  *)
(* back through one FIFO channel, possibly after the user has moved on.    *)
(*                                                                         *)
(* A driver is the session it runs and the mode it is in.  A turn is named *)
(* by the prompt it runs.  Output events, pickers, the sidebar's advisory  *)
(* data, the update dialog and quitting are left out: no property is about *)
(* them.                                                                   *)
(***************************************************************************)
EXTENDS Naturals, Sequences, FiniteSets

CONSTANTS
    Sessions,      \* the sessions the store can hold
    Stored,        \* those it holds at the start
    NoSession,     \* app.session_id is None: a draft is on screen
    Prompts,       \* the texts the user may type, each typed at most once
    None,          \* an empty Option
    Requests,      \* the kinds of request the user makes in this instance
    MaxOps,        \* bound on Runtime::operations
    MaxNew,        \* bound on the generation a /new may leave
    MaxAsks,       \* bound on the approvals one turn asks for
    DrainMax       \* MAX_COALESCED_MESSAGES

ASSUME SessionsAssumption == Stored \subseteq Sessions /\ NoSession \notin Sessions
ASSUME BoundsAssumption == {MaxOps, MaxNew, MaxAsks} \subseteq Nat /\ DrainMax \in Nat \ {0}

VARIABLES
    app,           \* the reducer state the loop reads: see TypeOK
    rt,            \* Runtime: the reservation, the two request slots, the counter
    idle,          \* idle_agent: the driver waiting for a prompt
    handle,        \* the turn whose cancel handle the loop holds
    responder,     \* the approval whose answer channel the loop holds
    drawn,         \* drawn_approval: the install whose frame was drawn
    at,            \* where the loop is: at its select, or draining n messages
    queue,         \* the UiMsg channel
    turns,         \* the turns alive
    tasks,         \* the background requests alive
    stored,        \* the sessions the store holds
    aim,           \* history: the session change the user is still waiting for
    ran,           \* history: how often each prompt began a turn
    granted,       \* history: the approvals answered yes
    seen           \* history: the approvals whose frame was drawn

loopVars == <<app, rt, idle, handle, responder, drawn, at>>
history  == <<aim, ran, granted, seen>>
vars     == <<loopVars, queue, turns, tasks, stored, history>>

Modes   == {"planning", "coding"}
Drivers == [session : Sessions, mode : Modes]
Asks    == Prompts \X (1..MaxAsks)
McpLaunch == <<None, 0>>   \* the view of an MCP launch: no turn asks
Fresh   == "fresh"
Top     == 0       \* the loop is at its select; n > 0 counts the drain

(* PendingOpen, and the request that owns the slot for ordinary work.      *)
Reservations == [op : 1..MaxOps, prompt : Prompts \cup {None}, previous : Drivers \cup {None}]
Works        == [kind : {"list", "definition"}, op : 1..MaxOps]

(* An empty Option is none of the values it may hold. *)
ASSUME NoneAssumption ==
    /\ None \notin Prompts \cup Sessions \cup Drivers \cup (Prompts \X (0..MaxAsks))
    /\ None \notin Reservations \cup Works \cup {McpLaunch, Fresh}
    /\ Fresh \notin Sessions

-----------------------------------------------------------------------------
(* Reducer and runtime helpers, as functions on the two records.           *)

(* settings_are_editable. *)
Editable(a) == ~a.running /\ a.view = None /\ ~a.transition

(* The identity of the approval on screen, 0 when there is none. *)
PendingInstall == IF app.view = None THEN 0 ELSE app.installs

(* Faulty variant: presence is compared instead of identity. *)
UndrawnByPresence == PendingInstall # 0 /\ drawn = 0

(* undrawn_approval: a request is on screen whose own frame is not. *)
UndrawnApproval == PendingInstall # 0 /\ drawn # PendingInstall

(* install_pending. *)
Install(a, v) == [a EXCEPT !.view = v, !.installs = @ + 1]

(* Puts a prompt that could not be sent back into the composer. *)
Restore(a, p) == [a EXCEPT !.running = FALSE, !.composer = p]

(* The part of release_pending_open that clears what says one is going on. *)
Released(a) == [a EXCEPT !.transition = FALSE, !.busy = @ \ {"open"}]

(* The tasks that are left when a slot's task is aborted. *)
WithoutSlot(tk, slot) == {t \in tk : t.slot # slot}

(* begin_mcp tells the action it replaces to stop; so does cancel_work. *)
Signalled(tk, op) ==
    {IF t.slot = "mcp" /\ t.op = op THEN [t EXCEPT !.stop = TRUE] ELSE t : t \in tk}

Task(slot, kind, op, arg) ==
    [slot |-> slot, kind |-> kind, op |-> op, arg |-> arg,
     generation |-> app.generation, stop |-> FALSE]

(* cancel_work: signals the MCP action and aborts the ordinary request. *)
CancelledBusy(a) ==
    [a EXCEPT !.busy = @ \ ((IF rt.mcp # 0 THEN {"mcp"} ELSE {})
                            \cup (IF rt.work # None THEN {rt.work.kind} ELSE {}))]
CancelledTasks == WithoutSlot(Signalled(tasks, rt.mcp), "work")

(* finish_work: whether this completion is the request that owns the slot. *)
OwnsSlot(kind, op) == rt.work = [kind |-> kind, op |-> op]

(* Faulty variant: any answer is taken for the one waited for. *)
AnyOpening(op) == rt.reservation # None

(* Whether a session change's answer is the one the loop waits for. *)
Awaited(op) == rt.reservation # None /\ rt.reservation.op = op

(* Faulty variant: a new draft is not a settings command. *)
MayStartNew(a) == a.view = None

(* changes_settings lists Command::New: it waits for turn and approval. *)
MayChangeSettings(a) == Editable(a)

-----------------------------------------------------------------------------
(* Actions the loop performs.                                              *)

(* open_draft, Resume, SelectConnector and SwitchNative install their      *)
(* reservation and start the task that answers it.                         *)
Reserve(a, kind, arg, p, previous) ==
    LET op == rt.ops + 1 IN
    /\ app' = [a EXCEPT !.busy = @ \cup {"open"}, !.transition = (kind # "switch")]
    /\ rt' = [rt EXCEPT !.ops = op,
                        !.reservation = [op |-> op, prompt |-> p, previous |-> previous]]
    /\ tasks' = WithoutSlot(tasks, "open") \cup {Task("open", kind, op, arg)}
    /\ idle' = None

(* Action::Submit with a driver: the turn runs in a task of its own. *)
StartTurn(a, r, driver, p) ==
    /\ app' = a
    /\ rt' = r
    /\ idle' = None
    /\ handle' = p
    /\ turns' = turns \cup {[prompt |-> p, driver |-> driver, generation |-> a.generation,
                             state |-> "spawned", cancelled |-> FALSE, asks |-> 0]}
    /\ ran' = [ran EXCEPT ![p] = @ + 1]

(* Runtime::spawn: the one ordinary request; it supersedes the last one. *)
Spawn(kind) ==
    LET op == rt.ops + 1
        old == IF rt.work = None THEN {} ELSE {rt.work.kind}
    IN
    /\ rt.ops < MaxOps
    /\ app' = [app EXCEPT !.busy = (@ \ old) \cup {kind}]
    /\ rt' = [rt EXCEPT !.ops = op, !.work = [kind |-> kind, op |-> op]]
    /\ tasks' = WithoutSlot(tasks, "work") \cup {Task("work", kind, op, None)}

(* begin_mcp: an MCP action is detached, with an id and a token. *)
BeginMcp(a) ==
    LET op == rt.ops + 1 IN
    /\ app' = [a EXCEPT !.busy = @ \cup {"mcp"}]
    /\ rt' = [rt EXCEPT !.ops = op, !.mcp = op]
    /\ tasks' = Signalled(tasks, rt.mcp) \cup {Task("mcp", "mcp", op, None)}

-----------------------------------------------------------------------------
(* Keys.  The loop draws first: a frame is due, or the approval on screen  *)
(* is owed one.  What follows sees the frame that was just drawn.          *)

Draw(due) ==
    LET draws == due \/ UndrawnApproval IN
    /\ drawn' = IF draws THEN PendingInstall ELSE drawn
    /\ seen' = IF draws /\ app.view # None THEN seen \cup {app.view} ELSE seen

(* A key is taken only at the select. *)
AtKey == /\ at = Top
         /\ at' = 1
         /\ \E due \in BOOLEAN : Draw(due)
         /\ UNCHANGED <<queue, stored>>

(* No approval is on screen: it would capture the key. *)
MainKey == AtKey /\ app.view = None /\ UNCHANGED granted

(* Typing into the composer. *)
TypePrompt(p) ==
    /\ MainKey
    /\ app.composer = None
    /\ ran[p] = 0
    /\ \A q \in turns : q.prompt # p
    /\ rt.reservation # None => rt.reservation.prompt # p
    /\ app' = [app EXCEPT !.composer = p]
    /\ UNCHANGED <<rt, idle, handle, responder, turns, tasks, aim, ran>>

(* Enter: submit, then Action::Submit.  A prompt that cannot be sent goes  *)
(* back into the composer or never leaves it.                              *)
Submit ==
    LET p == app.composer
        a == [app EXCEPT !.running = TRUE, !.composer = None]
    IN
    /\ "submit" \in Requests
    /\ MainKey
    /\ p # None
    /\ UNCHANGED responder
    /\ \/ /\ app.transition \/ app.running
          /\ UNCHANGED <<app, rt, idle, handle, turns, tasks, aim, ran>>
       \/ /\ ~app.transition /\ ~app.running
          /\ \/ rt.reservation # None
             \/ idle = None /\ app.shown # NoSession
          /\ app' = Restore(a, p)
          /\ UNCHANGED <<rt, idle, handle, turns, tasks, aim, ran>>
       \/ /\ ~app.transition /\ ~app.running
          /\ rt.reservation = None /\ idle # None
          /\ StartTurn(a, rt, idle, p)
          /\ UNCHANGED <<tasks, aim>>
       \/ /\ ~app.transition /\ ~app.running
          /\ rt.reservation = None /\ idle = None /\ app.shown = NoSession
          /\ rt.ops < MaxOps
          /\ Reserve(a, "draft", app.mode, p, None)
          /\ aim' = Fresh
          /\ UNCHANGED <<handle, turns, ran>>

(* Escape with nothing open, and Ctrl-C on a running turn. *)
Cancel ==
    LET a == CancelledBusy(app) IN
    /\ MainKey
    /\ app.running \/ app.busy # {} \/ app.transition
    /\ turns' = {IF t.prompt = handle THEN [t EXCEPT !.cancelled = TRUE] ELSE t : t \in turns}
    /\ responder' = None
    /\ rt' = [rt EXCEPT !.mcp = 0, !.work = None, !.reservation = None]
    /\ IF rt.reservation = None
       THEN /\ app' = a
            /\ tasks' = CancelledTasks
            /\ UNCHANGED <<idle, aim>>
       ELSE /\ app' = IF rt.reservation.prompt = None
                      THEN [Released(a) EXCEPT !.running = FALSE]
                      ELSE Restore(Released(a), rt.reservation.prompt)
            /\ tasks' = WithoutSlot(CancelledTasks, "open")
            /\ idle' = rt.reservation.previous
            /\ aim' = None
    /\ UNCHANGED <<handle, ran>>

(* /new: start_new_draft, then Action::NewSession. *)
NewSession ==
    /\ "new" \in Requests
    /\ MainKey
    /\ MayChangeSettings(app)
    /\ app.generation < MaxNew
    /\ app' = [Released(CancelledBusy(app)) EXCEPT
                 !.shown = NoSession, !.running = FALSE, !.generation = @ + 1]
    /\ idle' = None
    /\ handle' = None
    /\ responder' = None
    /\ rt' = [rt EXCEPT !.mcp = 0, !.work = None, !.reservation = None]
    /\ tasks' = WithoutSlot(CancelledTasks, "open")
    /\ aim' = None
    /\ UNCHANGED <<turns, ran>>

(* The session picker (Resume), or an agent chosen (SelectConnector): the  *)
(* driver being replaced is held by the reservation.                       *)
Replace(target) ==
    /\ "resume" \in Requests
    /\ MainKey
    /\ rt.ops < MaxOps
    /\ ~app.running /\ ~app.transition
    /\ handle = None /\ rt.reservation = None
    /\ Reserve(app, "replace", target, None, idle)
    /\ aim' = target
    /\ UNCHANGED <<handle, responder, turns, ran>>

(* SwitchNative: a live session moves to another provider or model.  The   *)
(* transition flag is not raised.                                          *)
SwitchNative ==
    /\ "switch" \in Requests
    /\ MainKey
    /\ rt.ops < MaxOps
    /\ app.shown # NoSession
    /\ Editable(app)
    /\ handle = None /\ rt.reservation = None /\ idle # None
    /\ Reserve(app, "switch", None, None, idle)
    /\ UNCHANGED <<handle, responder, turns, aim, ran>>

(* /plan and /code: SetPhase on a native session. *)
SetPhase(m) ==
    /\ "phase" \in Requests
    /\ MainKey
    /\ Editable(app)
    /\ idle' = IF idle = None THEN None ELSE [idle EXCEPT !.mode = m]
    /\ app' = [app EXCEPT !.mode = m]
    /\ UNCHANGED <<rt, handle, responder, turns, tasks, aim, ran>>

(* /mode and Shift-Tab: SetMode refuses work in flight as well. *)
SetMode(m) ==
    /\ "mode" \in Requests
    /\ MainKey
    /\ Editable(app) /\ handle = None /\ rt.reservation = None
    /\ idle' = IF idle = None THEN None ELSE [idle EXCEPT !.mode = m]
    /\ app' = [app EXCEPT !.mode = m]
    /\ UNCHANGED <<rt, handle, responder, turns, tasks, aim, ran>>

(* The session list, and the definition an MCP approval will show. *)
AskFor(kind) ==
    /\ kind \in Requests
    /\ MainKey
    /\ kind = "definition" => Editable(app)
    /\ Spawn(kind)
    /\ UNCHANGED <<idle, handle, responder, turns, aim, ran>>

(* Restart, stop, reload: an MCP action that needs no approval. *)
McpAction ==
    /\ "mcp" \in Requests
    /\ MainKey
    /\ rt.ops < MaxOps
    /\ Editable(app)
    /\ BeginMcp(app)
    /\ UNCHANGED <<idle, handle, responder, turns, aim, ran>>

(* y or n on the approval: answer_approval, then Approve or Mcp(Decide).   *)
(* An MCP decision is applied only when settings are editable.             *)
Answer(yes) ==
    LET a == [app EXCEPT !.view = None] IN
    /\ AtKey
    /\ app.view # None
    /\ \/ /\ app.view = McpLaunch
          /\ IF Editable(a)
             THEN rt.ops < MaxOps /\ BeginMcp(a)
             ELSE app' = a /\ UNCHANGED <<rt, tasks>>
          /\ UNCHANGED <<responder, turns, granted>>
       \/ /\ app.view # McpLaunch
          /\ app' = a
          /\ responder' = None
          /\ turns' = {IF t.state = "asking" /\ responder = <<t.prompt, t.asks>>
                       THEN [t EXCEPT !.state = "run"] ELSE t : t \in turns}
          /\ granted' = IF yes /\ \E t \in turns : t.state = "asking"
                                                   /\ responder = <<t.prompt, t.asks>>
                        THEN granted \cup {responder} ELSE granted
          /\ UNCHANGED <<rt, tasks>>
    /\ UNCHANGED <<idle, handle, aim, ran>>

(* Any other key: it draws and lets the loop drain. *)
OtherKey == /\ MainKey
            /\ UNCHANGED <<app, rt, idle, handle, responder, turns, tasks, aim, ran>>

Key == \/ \E p \in Prompts : TypePrompt(p)
       \/ Submit \/ Cancel \/ NewSession \/ SwitchNative \/ McpAction \/ OtherKey
       \/ \E s \in stored \cup {Fresh} : Replace(s)
       \/ \E m \in Modes : SetPhase(m) \/ SetMode(m)
       \/ \E k \in {"list", "definition"} : AskFor(k)
       \/ \E yes \in BOOLEAN : Answer(yes)

-----------------------------------------------------------------------------
(* Messages.                                                               *)

Msg == Head(queue)

(* A turn's question: shown, or denied when its session has been left. *)
OnApproval ==
    /\ Msg.kind = "approval"
    /\ IF Msg.generation = app.generation
       THEN /\ responder' = Msg.arg
            /\ app' = Install(app, Msg.arg)
       ELSE UNCHANGED <<responder, app>>
    /\ UNCHANGED <<rt, idle, handle, turns, tasks, aim, ran>>

(* A turn's end gives the driver back, unless its session has been left. *)
OnFinished ==
    /\ Msg.kind = "finished"
    /\ IF Msg.generation = app.generation
       THEN /\ app' = [app EXCEPT !.running = FALSE]
            /\ handle' = None
            /\ idle' = Msg.arg
       ELSE UNCHANGED <<app, handle, idle>>
    /\ UNCHANGED <<rt, responder, turns, tasks, aim, ran>>

(* The answer to a session change that is no longer, or not at all, the    *)
(* one waited for: its driver is closed.                                   *)
Unwanted ==
    /\ ~(Awaited(Msg.op) /\ Msg.generation = app.generation)
    /\ IF Awaited(Msg.op)
       THEN /\ app' = [Released(app) EXCEPT
                         !.running = IF Msg.kind = "opened" THEN FALSE ELSE @]
            /\ rt' = [rt EXCEPT !.reservation = None]
            /\ idle' = rt.reservation.previous
            /\ tasks' = WithoutSlot(tasks, "open")
       ELSE UNCHANGED <<app, rt, idle, tasks>>
    /\ UNCHANGED <<handle, turns, aim, ran>>

(* Opened with a driver: adopt it, then run the prompt that was waiting. *)
Adopt ==
    LET d == Msg.arg
        p == rt.reservation.prompt
        r == [rt EXCEPT !.reservation = None]
        a == [Released(app) EXCEPT !.generation = @ + 1, !.shown = d.session,
                                   !.mode = d.mode, !.running = (p # None)]
    IN
    /\ Awaited(Msg.op) /\ Msg.generation = app.generation
    /\ d # None
    /\ tasks' = WithoutSlot(tasks, "open")
    /\ aim' = None
    /\ IF p # None
       THEN StartTurn(a, r, d, p)
       ELSE app' = a /\ rt' = r /\ idle' = d /\ UNCHANGED <<handle, turns, ran>>

(* Faulty variant: the session that was open is not put back. *)
OpenFailedLosing ==
    /\ Awaited(Msg.op) /\ Msg.generation = app.generation
    /\ Msg.arg = None
    /\ rt' = [rt EXCEPT !.reservation = None]
    /\ tasks' = WithoutSlot(tasks, "open")
    /\ idle' = None
    /\ app' = IF rt.reservation.prompt = None
              THEN [Released(app) EXCEPT !.running = FALSE]
              ELSE Restore(Released(app), rt.reservation.prompt)
    /\ aim' = None
    /\ UNCHANGED <<handle, turns, ran>>

(* Opened with an error or a rejected draft: the session that was open     *)
(* stays open, and the prompt goes back into the composer.                 *)
OpenFailed ==
    /\ Awaited(Msg.op) /\ Msg.generation = app.generation
    /\ Msg.arg = None
    /\ rt' = [rt EXCEPT !.reservation = None]
    /\ tasks' = WithoutSlot(tasks, "open")
    /\ idle' = rt.reservation.previous
    /\ app' = IF rt.reservation.prompt = None
              THEN [Released(app) EXCEPT !.running = FALSE]
              ELSE Restore(Released(app), rt.reservation.prompt)
    /\ aim' = None
    /\ UNCHANGED <<handle, turns, ran>>

OnOpened == Msg.kind = "opened" /\ (Unwanted \/ Adopt \/ OpenFailed) /\ UNCHANGED responder

(* SwitchReady: the reserved driver commits the switch or keeps its pair;  *)
(* a committed one shows the session's own phase, a refused one goes       *)
(* through show_draft_errors.                                              *)
OnSwitchReady ==
    /\ Msg.kind = "switch"
    /\ \/ Unwanted
       \/ /\ Awaited(Msg.op) /\ Msg.generation = app.generation
          /\ idle' = rt.reservation.previous
          /\ rt' = [rt EXCEPT !.reservation = None]
          /\ tasks' = WithoutSlot(tasks, "open")
          /\ \/ app' = [Released(app) EXCEPT !.mode = rt.reservation.previous.mode]
             \/ app' = [Released(app) EXCEPT !.running = FALSE]
             \/ app' = Released(app)
          /\ UNCHANGED <<handle, turns, aim, ran>>
    /\ UNCHANGED responder

(* An ordinary request's answer.  A definition becomes an approval unless  *)
(* a turn or another approval started while it was read.                   *)
OnWork ==
    LET a == [app EXCEPT !.busy = @ \ {Msg.kind}] IN
    /\ Msg.kind \in {"list", "definition"}
    /\ IF OwnsSlot(Msg.kind, Msg.op)
       THEN /\ rt' = [rt EXCEPT !.work = None]
            /\ app' = IF Msg.kind = "definition" /\ Editable(a) THEN Install(a, McpLaunch) ELSE a
       ELSE UNCHANGED <<rt, app>>
    /\ UNCHANGED <<idle, handle, responder, turns, tasks, aim, ran>>

(* McpOutcome: only the current action clears its label and token. *)
OnMcpOutcome ==
    /\ Msg.kind = "mcp"
    /\ IF rt.mcp = Msg.op
       THEN /\ rt' = [rt EXCEPT !.mcp = 0]
            /\ app' = [app EXCEPT !.busy = @ \ {"mcp"}]
       ELSE UNCHANGED <<rt, app>>
    /\ UNCHANGED <<idle, handle, responder, turns, tasks, aim, ran>>

OnMessage ==
    /\ queue # <<>>
    /\ queue' = Tail(queue)
    /\ \/ OnApproval \/ OnFinished \/ OnOpened \/ OnSwitchReady \/ OnWork \/ OnMcpOutcome
    /\ UNCHANGED <<stored, granted>>

(* The select takes a message when no key is ready. *)
TakeMessage == at = Top /\ at' = 1 /\ OnMessage /\ \E due \in BOOLEAN : Draw(due)

(* Faulty variant: one message per frame, nothing is drained. *)
NoDrain == at # Top /\ at' = Top /\ UNCHANGED <<app, rt, idle, handle, responder, drawn,
                                                queue, turns, tasks, stored, history>>

(* The drain: everything already waiting, up to the bound. *)
Drain ==
    /\ at # Top
    /\ \/ /\ queue # <<>> /\ at <= DrainMax
          /\ at' = at + 1
          /\ OnMessage
          /\ UNCHANGED <<drawn, seen>>
       \/ /\ queue = <<>> \/ at > DrainMax
          /\ at' = Top
          /\ UNCHANGED <<app, rt, idle, handle, responder, drawn,
                         queue, turns, tasks, stored, history>>

Loop == Key \/ TakeMessage \/ Drain

-----------------------------------------------------------------------------
(* Tasks.                                                                  *)

Message(kind, op, generation, arg) ==
    [kind |-> kind, op |-> op, generation |-> generation, arg |-> arg]

Send(m) == queue' = Append(queue, m)

Update(t, new) == turns' = (turns \ {t}) \cup {new}

(* run_turn begins: the driver resets the token its handle cancels. *)
BeginTurn(t) ==
    /\ t.state = "spawned"
    /\ Update(t, [t EXCEPT !.state = "run", !.cancelled = FALSE])
    /\ UNCHANGED <<queue, tasks, stored, history>>

(* ChannelUi::approve: the question is sent before the wait, which a       *)
(* cancelled turn gives up at once.                                        *)
AskApproval(t) ==
    /\ t.state = "run" /\ t.asks < MaxAsks
    /\ Send(Message("approval", 0, t.generation, <<t.prompt, t.asks + 1>>))
    /\ Update(t, [t EXCEPT !.asks = @ + 1,
                           !.state = IF t.cancelled THEN "run" ELSE "asking"])
    /\ UNCHANGED <<tasks, stored, history>>

(* The wait ends without an answer: the turn was cancelled, or the loop    *)
(* dropped the sending half.                                               *)
ApprovalDenied(t) ==
    LET ask == <<t.prompt, t.asks>> IN
    /\ t.state = "asking"
    /\ \/ t.cancelled
       \/ /\ responder # ask
          /\ \A i \in DOMAIN queue : queue[i].kind = "approval" => queue[i].arg # ask
    /\ Update(t, [t EXCEPT !.state = "run"])
    /\ UNCHANGED <<queue, tasks, stored, history>>

FinishTurn(t) ==
    /\ t.state = "run"
    /\ Send(Message("finished", 0, t.generation, t.driver))
    /\ turns' = turns \ {t}
    /\ UNCHANGED <<tasks, stored, history>>

(* A session change resolves.  A new session is created in the store; one  *)
(* named is read back; either may fail.                                    *)
FinishOpen(t) ==
    /\ t.slot = "open"
    /\ tasks' = tasks \ {t}
    /\ \/ /\ t.kind = "switch"
          /\ Send(Message("switch", t.op, t.generation, None))
          /\ UNCHANGED stored
       \/ /\ t.kind # "switch"
          /\ Send(Message("opened", t.op, t.generation, None))
          /\ UNCHANGED stored
       \/ /\ t.kind = "draft" \/ t.arg = Fresh
          /\ \E s \in Sessions \ stored :
                /\ stored' = stored \cup {s}
                /\ Send(Message("opened", t.op, t.generation,
                                [session |-> s,
                                 mode |-> IF t.kind = "draft" THEN t.arg ELSE "planning"]))
       \/ /\ t.kind = "replace" /\ t.arg # Fresh
          /\ \E m \in Modes :
                Send(Message("opened", t.op, t.generation, [session |-> t.arg, mode |-> m]))
          /\ UNCHANGED stored
    /\ UNCHANGED <<turns, history>>

(* The other requests answer under the id they started with. *)
FinishWork(t) ==
    /\ t.slot # "open"
    /\ tasks' = tasks \ {t}
    /\ Send(Message(t.kind, t.op, t.generation, None))
    /\ UNCHANGED <<turns, stored, history>>

Tasks ==
    /\ \/ \E t \in turns : BeginTurn(t) \/ AskApproval(t) \/ ApprovalDenied(t) \/ FinishTurn(t)
       \/ \E t \in tasks : FinishOpen(t) \/ FinishWork(t)
    /\ UNCHANGED loopVars

-----------------------------------------------------------------------------
(* event_loop starts on a draft, or on the driver a named session gave. *)
Init ==
    /\ rt = [reservation |-> None, work |-> None, mcp |-> 0, ops |-> 0]
    /\ \E d \in {None} \cup [session : Stored, mode : Modes] :
         /\ idle = d
         /\ app = [running |-> FALSE, transition |-> FALSE, view |-> None, installs |-> 0,
                   shown |-> IF d = None THEN NoSession ELSE d.session,
                   generation |-> IF d = None THEN 0 ELSE 1,
                   mode |-> IF d = None THEN "planning" ELSE d.mode,
                   composer |-> None, busy |-> {}]
    /\ handle = None /\ responder = None /\ drawn = 0 /\ at = Top
    /\ queue = <<>> /\ turns = {} /\ tasks = {}
    /\ stored = Stored
    /\ aim = None /\ ran = [p \in Prompts |-> 0] /\ granted = {} /\ seen = {}

Next == Loop \/ Tasks

Spec == Init /\ [][Next]_vars

(* The loop runs; a spawned turn is polled; a cancelled turn ends (what    *)
(* NativeTurn's CancelEndsTurn shows); a timer tick is not a step.  Keys   *)
(* and answers are the user's, and a request may stay unanswered.          *)
Fairness ==
    /\ WF_vars(TakeMessage \/ Drain)
    /\ WF_vars(\E t \in turns : BeginTurn(t) /\ UNCHANGED loopVars)
    /\ WF_vars(\E t \in turns : t.cancelled /\ (ApprovalDenied(t) \/ FinishTurn(t))
                                /\ UNCHANGED loopVars)

FairSpec == Spec /\ Fairness

-----------------------------------------------------------------------------
(* Properties.                                                             *)

TypeOK ==
    /\ app.running \in BOOLEAN /\ app.transition \in BOOLEAN
    /\ app.view \in {None, McpLaunch} \cup Asks
    /\ app.installs \in Nat /\ app.generation \in Nat
    /\ app.shown \in Sessions \cup {NoSession}
    /\ app.mode \in Modes
    /\ app.composer \in Prompts \cup {None}
    /\ app.busy \subseteq {"open", "list", "definition", "mcp"}
    /\ rt.ops \in 0..MaxOps /\ rt.mcp \in 0..MaxOps
    /\ rt.reservation \in Reservations \cup {None} /\ rt.work \in Works \cup {None}
    /\ idle \in Drivers \cup {None}
    /\ handle \in Prompts \cup {None}
    /\ responder \in Asks \cup {None}
    /\ drawn \in 0..app.installs
    /\ at \in 0..(DrainMax + 1)
    /\ turns \subseteq [prompt : Prompts, driver : Drivers, generation : Nat,
                        state : {"spawned", "run", "asking"}, cancelled : BOOLEAN,
                        asks : 0..MaxAsks]
    /\ stored \subseteq Sessions
    /\ aim \in Sessions \cup {Fresh, None}
    /\ granted \subseteq Asks

(* No session ever has a turn running and a second driver beside it, idle, *)
(* reserved or running: two drivers of one session would both number its   *)
(* events and write its files (run.rs NewSession, Resume, changes_settings *)
(* in app.rs).                                                             *)
OneDriverPerSession ==
    \A t \in turns :
        LET s == t.driver.session IN
        /\ idle # None => idle.session # s
        /\ rt.reservation # None /\ rt.reservation.previous # None
             => rt.reservation.previous.session # s
        /\ \A u \in turns \ {t} : u.driver.session # s

(* The screen never strands the user.  When nothing is said to run and no  *)
(* session change is in flight, the session on screen has its driver, at   *)
(* hand and idle; when a turn is said to run, there is one, or its end or  *)
(* its session is on the way (run.rs PendingOpen, release_pending_open).   *)
(* And a reservation always has its answer coming, as the task that will   *)
(* send it or the message itself, or prompts would be refused for ever     *)
(* (run.rs, the comment on open_work).                                     *)
NeverStranded ==
    /\ ~app.running /\ rt.reservation = None =>
         /\ handle = None
         /\ IF app.shown = NoSession THEN idle = None
            ELSE idle # None /\ idle.session = app.shown
    /\ app.running =>
         \/ rt.reservation # None
         \/ \E t \in turns : t.prompt = handle /\ t.generation = app.generation
         \/ \E i \in DOMAIN queue : queue[i].kind = "finished"
                                    /\ queue[i].generation = app.generation
    /\ rt.reservation # None =>
         \/ \E t \in tasks : t.slot = "open" /\ t.op = rt.reservation.op
         \/ \E i \in DOMAIN queue : queue[i].kind \in {"opened", "switch"}
                                    /\ queue[i].op = rt.reservation.op

(* A session comes on screen only as the answer to the change the user is  *)
(* still waiting for: not one cancelled, superseded or left by /new.       *)
AdoptsWhatWasAsked ==
    [][app'.shown # app.shown /\ app'.shown # NoSession =>
         \/ app'.shown = aim
         \/ aim = Fresh /\ app'.shown \notin Stored]_vars

(* A prompt starts at most one turn: given back to the composer by a       *)
(* cancelled or failed open, it is not run by that open as well.           *)
PromptRunsOnce == \A p \in Prompts : ran[p] <= 1

(* Every approval granted had its own frame on screen before the key that  *)
(* granted it (run.rs drawn_approval).                                     *)
GrantedWasSeen == granted \subseteq seen

(* Nothing happens that the user did not ask for, as it was asked: the two   *)
(* above.                                                                  *)
NothingUnasked == PromptRunsOnce /\ GrantedWasSeen

(* Work in flight is always work the loop can stop and says it is doing:   *)
(* the request in the slot, an MCP action that is current or was told to   *)
(* stop, and one label for each (run.rs finish_work, begin_mcp).           *)
WorkIsOwned ==
    /\ \A t \in tasks : t.slot = "work" => rt.work = [kind |-> t.kind, op |-> t.op]
    /\ \A t \in tasks : t.slot = "mcp" => t.stop \/ t.op = rt.mcp
    /\ app.busy = (IF rt.reservation # None THEN {"open"} ELSE {})
                  \cup (IF rt.mcp # 0 THEN {"mcp"} ELSE {})
                  \cup (IF rt.work # None THEN {rt.work.kind} ELSE {})

(* What the screen says is going on is going on, and can be stopped or      *)
(* answered: the user is not stranded and work is owned, as above.  Besides, *)
(* the state keeps its type.                                               *)
ScreenAccounts == TypeOK /\ NeverStranded /\ WorkIsOwned

(* A turn that has begun and is cancelled leaves the interface free, even  *)
(* if the user never stops typing: the drain handles its end.              *)
CancelFrees ==
    (\E t \in turns : t.cancelled /\ t.state # "spawned") ~> ~app.running

=============================================================================
