----------------------------- MODULE McpConnection -----------------------------
(***************************************************************************)
(* One connection to an MCP server over stdio: the handle its callers share  *)
(* (gritt-harness/src/mcp/connection.rs) and the transport task that owns    *)
(* the child process (gritt-harness/src/mcp/stdio.rs).                       *)
(*                                                                          *)
(* Callers, closers and the task run on their own threads; a step is what    *)
(* one of them does between two awaits, and less where another can see the   *)
(* difference: a flag read and the wait it decides about are two steps.      *)
(* The server and its pipes are the environment.                             *)
(***************************************************************************)
EXTENDS Naturals, Sequences, FiniteSets

CONSTANTS
    Callers,      \* requests made; a request's id is its caller
    Silent,       \* those made with request_uncancellable: the handshake's
    Closers,      \* calls of shutdown
    Nobody,       \* what a frame about no request is about
    QueueSize,    \* capacity of the command channel (64 in the code)
    LinesSize,    \* capacity of the channel of parsed lines (64)
    MaxPending    \* MAX_PENDING_REQUESTS (256)

ASSUME ConnectionAssumption ==
    /\ Silent \subseteq Callers /\ Nobody \notin Callers
    /\ QueueSize \in Nat \ {0} /\ LinesSize \in Nat \ {0} /\ MaxPending \in Nat

VARIABLES
    \* the handle
    caller,    \* where each request_inner is
    outcome,   \* what it returned, or is about to
    token,     \* the CancellationToken it was given
    raised,    \* Command::Request::cancelled
    reply,     \* what is in its oneshot channel
    queue,     \* the command channel
    held,      \* somebody still holds the Connection
    \* the shutdown protocol (ConnectionFlags)
    closer,    \* where each shutdown is
    stopping,  \* the stop flag
    watch,     \* the task's wait for it, see Arm
    done,      \* resources released
    woken,     \* closers that `finished` has woken
    \* the transport task
    task,      \* where it is
    frame,     \* what it is writing
    pending,   \* requests written and not answered
    \* the server
    server,    \* whether its process lives
    lines,     \* what it said and the task has not read
    started,   \* history: requests whose frame was begun
    replied    \* history: requests the server answered

callerVars == <<caller, outcome, token, raised>>
flagVars   == <<closer, stopping, done, woken>>
taskVars   == <<task, watch, frame, pending>>
serverVars == <<server, lines, started, replied>>
vars == <<callerVars, reply, queue, held, flagVars, taskVars, serverVars>>

Command(kind, c) == [kind |-> kind, of |-> c]
NoFrame  == Command("pong", Nobody)
Commands == [kind : {"request", "abort", "cancelled"}, of : Callers]
               \cup {Command("shutdown", Nobody)}
Frames   == [kind : {"request", "cancelled"}, of : Callers] \cup {NoFrame}
Lines    == [kind : {"answer"}, of : Callers] \cup [kind : {"ping", "garbage"}, of : {Nobody}]

\* The receiver lives as long as the task.
Open    == task # "gone"
HasRoom == Open /\ Len(queue) < QueueSize

Init == /\ caller = [c \in Callers |-> "idle"]
        /\ outcome = [c \in Callers |-> "none"]
        /\ token = [c \in Callers |-> FALSE]
        /\ raised = [c \in Callers |-> FALSE]
        /\ reply = [c \in Callers |-> "open"]
        /\ queue = <<>> /\ held = TRUE
        /\ closer = [k \in Closers |-> "idle"]
        /\ stopping = FALSE /\ watch = "new" /\ done = FALSE /\ woken = {}
        /\ task = "select" /\ frame = NoFrame /\ pending = {}
        /\ server = "up" /\ lines = <<>> /\ started = {} /\ replied = {}

-------------------------------------------------------------------------------
(* request_inner *)

CallerMoves(c, from, to, result) ==
    /\ caller[c] = from /\ caller' = [caller EXCEPT ![c] = to]
    /\ outcome' = [outcome EXCEPT ![c] = result]
    /\ UNCHANGED <<reply, held, flagVars, taskVars, serverVars>>

\* The turn this request belongs to is cancelled; the token is looked at until the
\* request gives up.
SetToken(c) ==
    /\ caller[c] \in {"idle", "admitting", "waiting"}
    /\ ~token[c] /\ token' = [token EXCEPT ![c] = TRUE]
    /\ UNCHANGED <<caller, outcome, raised, reply, queue, held, flagVars, taskVars,
                   serverVars>>

Call(c) ==
    /\ held
    /\ IF token[c] THEN CallerMoves(c, "idle", "returned", "cancelled")
                   ELSE CallerMoves(c, "idle", "admitting", "none")
    /\ UNCHANGED <<token, raised, queue>>

Admit(c) ==
    /\ ~token[c] /\ HasRoom
    /\ CallerMoves(c, "admitting", "waiting", "none")
    /\ queue' = Append(queue, Command("request", c))
    /\ UNCHANGED <<token, raised>>

\* QUEUE_TIMEOUT, or the channel is closed.
AdmitFails(c) ==
    /\ ~token[c] /\ ~HasRoom
    /\ CallerMoves(c, "admitting", "returned", "refused")
    /\ UNCHANGED <<token, raised, queue>>

\* give_up raises the flag before it waits for anything.
StartGivingUp(c, from, result) ==
    /\ CallerMoves(c, from, "aborting", result)
    /\ raised' = [raised EXCEPT ![c] = TRUE]
    /\ UNCHANGED <<token, queue>>

Cancelled(c) ==
    token[c] /\ \E from \in {"admitting", "waiting"} : StartGivingUp(c, from, "cancelled")

\* Faulty variant: the wait races the token only.
ExpiresNever(c) == FALSE

Expires(c) == ~token[c] /\ StartGivingUp(c, "waiting", "deadline")

Returns(c) ==
    /\ ~token[c] /\ reply[c] # "open"
    /\ CallerMoves(c, "waiting", "returned",
                   IF reply[c] = "answer" THEN "answer" ELSE "refused")
    /\ UNCHANGED <<token, raised, queue>>

\* A best-effort message of give_up: queued, or dropped after GIVE_UP_TIMEOUT.
Tell(c, from, to, kind) ==
    /\ CallerMoves(c, from, to, outcome[c])
    /\ \/ HasRoom  /\ queue' = Append(queue, Command(kind, c))
       \/ ~HasRoom /\ UNCHANGED queue
    /\ UNCHANGED <<token, raised>>

TellTransport(c) == Tell(c, "aborting", IF c \in Silent THEN "returned" ELSE "announcing", "abort")
TellServer(c)    == Tell(c, "announcing", "returned", "cancelled")

CallerStep(c) == \/ Admit(c) \/ AdmitFails(c) \/ Cancelled(c) \/ Expires(c)
                 \/ Returns(c) \/ TellTransport(c) \/ TellServer(c)

-------------------------------------------------------------------------------
(* shutdown *)

CloserMoves(k, from, to) ==
    /\ closer[k] = from /\ closer' = [closer EXCEPT ![k] = to]
    /\ UNCHANGED <<callerVars, reply, held, done, task, frame, pending, serverVars>>

RaiseStop(k) ==
    /\ held
    /\ CloserMoves(k, "idle", "notify")
    /\ stopping' = TRUE
    /\ UNCHANGED <<queue, watch, woken>>

\* notify_waiters reaches only a wait that is registered.
NotifyStop(k) ==
    /\ CloserMoves(k, "notify", "nudge")
    /\ watch' = IF watch = "armed" THEN "woken" ELSE watch
    /\ UNCHANGED <<queue, stopping, woken>>

\* try_send: no room, no nudge.
Nudge(k) ==
    /\ CloserMoves(k, "nudge", "check")
    /\ \/ HasRoom  /\ queue' = Append(queue, Command("shutdown", Nobody))
       \/ ~HasRoom /\ UNCHANGED queue
    /\ UNCHANGED <<stopping, watch, woken>>

\* wait_finished: look, register, look again, wait.
Check(k) ==
    /\ CloserMoves(k, "check", IF done THEN "returned" ELSE "registering")
    /\ UNCHANGED <<queue, stopping, watch, woken>>

Register(k) ==
    /\ CloserMoves(k, "registering", "registered")
    /\ woken' = woken \ {k}
    /\ UNCHANGED <<queue, stopping, watch>>

\* Faulty variant: the flag is not looked at again.
RecheckNothing(k) ==
    /\ CloserMoves(k, "registered", "parked")
    /\ UNCHANGED <<queue, stopping, watch, woken>>

Recheck(k) ==
    /\ CloserMoves(k, "registered", IF done THEN "returned" ELSE "parked")
    /\ UNCHANGED <<queue, stopping, watch, woken>>

Wake(k) ==
    /\ k \in woken
    /\ CloserMoves(k, "parked", "check")
    /\ UNCHANGED <<queue, stopping, watch, woken>>

CloserStep(k) == \/ NotifyStop(k) \/ Nudge(k) \/ Check(k) \/ Register(k)
                 \/ Recheck(k) \/ Wake(k)

-------------------------------------------------------------------------------
(* The transport task *)

TaskKeeps == UNCHANGED <<callerVars, held, closer, stopping, replied>>

\* ConnectionFlags::stopped in the task's select or write: the flag is read,
\* then the wait is registered.  Each new select or write starts it over.
Arm ==
    /\ task \in {"select", "writing"} /\ watch \in {"new", "read"}
    /\ watch' = IF watch = "read" THEN "armed"
                ELSE IF stopping THEN "woken" ELSE "read"
    /\ TaskKeeps
    /\ UNCHANGED <<reply, queue, done, woken, task, frame, pending, server, lines, started>>

\* Back to the select.
Loop == task' = "select" /\ watch' = "new" /\ frame' = NoFrame

BeginWrite(f) == task' = "writing" /\ watch' = "new" /\ frame' = f

\* The loop is left: the requests in `lost` and every pending one fail, and stdin
\* is closed.
Break(lost) ==
    /\ task' = "terminating" /\ watch' = "new" /\ frame' = NoFrame
    /\ pending' = {}
    /\ reply' = [c \in Callers |-> IF c \in pending \cup lost THEN "error" ELSE reply[c]]

Take(kind) ==
    /\ task = "select" /\ queue # <<>> /\ Head(queue).kind = kind
    /\ queue' = Tail(queue)
    /\ TaskKeeps
    /\ UNCHANGED <<done, woken, server, lines>>

Requested == Head(queue).of

Refuse(c) == /\ reply' = [reply EXCEPT ![c] = "error"]
             /\ Loop
             /\ UNCHANGED <<pending, started>>

\* Faulty variant: the abort behind it in the queue is trusted to stop it.
TakeRequestUnchecked ==
    /\ Take("request")
    /\ IF Cardinality(pending) >= MaxPending
         THEN Refuse(Requested)
         ELSE /\ BeginWrite(Head(queue))
              /\ started' = started \cup {Requested}
              /\ UNCHANGED <<reply, pending>>

\* The flag is looked at immediately before the write.
TakeRequest ==
    /\ Take("request")
    /\ IF raised[Requested] \/ Cardinality(pending) >= MaxPending
         THEN Refuse(Requested)
         ELSE /\ BeginWrite(Head(queue))
              /\ started' = started \cup {Requested}
              /\ UNCHANGED <<reply, pending>>

TakeAbort ==
    /\ Take("abort") /\ Loop
    /\ pending' = pending \ {Requested}
    /\ UNCHANGED <<reply, started>>

TakeNotice ==
    /\ Take("cancelled")
    /\ BeginWrite(Head(queue))
    /\ UNCHANGED <<reply, pending, started>>

TakeShutdown == Take("shutdown") /\ Break({}) /\ UNCHANGED started

HandleDropped ==
    /\ task = "select" /\ queue = <<>> /\ ~held
    /\ Break({})
    /\ TaskKeeps
    /\ UNCHANGED <<queue, done, woken, server, lines, started>>

\* write_frame looks at the stop flag first.
Written ==
    /\ task = "writing" /\ watch = "armed" /\ server = "up"
    /\ Loop
    /\ pending' = IF frame.kind = "request" THEN pending \cup {frame.of} ELSE pending
    /\ TaskKeeps
    /\ UNCHANGED <<reply, queue, done, woken, server, lines, started>>

\* The stop flag, a broken pipe or WRITE_TIMEOUT.
WriteFails ==
    /\ task = "writing" /\ watch \in {"armed", "woken"}
    /\ Break(IF frame.kind = "request" THEN {frame.of} ELSE {})
    /\ TaskKeeps
    /\ UNCHANGED <<queue, done, woken, server, lines, started>>

\* route, and the end of the loop on output that is no protocol.  An answer to a
\* request that is gone is discarded.
Route ==
    /\ task = "select" /\ lines # <<>>
    /\ lines' = Tail(lines)
    /\ LET line == Head(lines) IN
       \/ /\ line.kind = "answer"
          /\ pending' = pending \ {line.of}
          /\ reply' = IF line.of \in pending THEN [reply EXCEPT ![line.of] = "answer"]
                                             ELSE reply
          /\ Loop
       \/ line.kind = "ping" /\ BeginWrite(NoFrame) /\ UNCHANGED <<reply, pending>>
       \/ line.kind = "garbage" /\ Break({})
    /\ TaskKeeps
    /\ UNCHANGED <<queue, done, woken, server, started>>

OutputEnds ==
    /\ task = "select" /\ lines = <<>> /\ server = "down"
    /\ Break({})
    /\ TaskKeeps
    /\ UNCHANGED <<queue, done, woken, server, lines, started>>

StopSeen ==
    /\ task = "select" /\ watch = "woken"
    /\ Break({})
    /\ TaskKeeps
    /\ UNCHANGED <<queue, done, woken, server, lines, started>>

\* Faulty variant: the task says that it is done before it ends the child.
TerminateLater ==
    /\ task = "terminating" /\ task' = "finishing"
    /\ done' = TRUE
    /\ TaskKeeps
    /\ UNCHANGED <<reply, queue, woken, watch, frame, pending, server, lines, started>>

\* terminate, then finish: the child is gone, then the flag is stored.
Terminate ==
    /\ task = "terminating" /\ task' = "finishing"
    /\ server' = "down" /\ done' = TRUE
    /\ TaskKeeps
    /\ UNCHANGED <<reply, queue, woken, watch, frame, pending, lines, started>>

NotifyFinished ==
    /\ task = "finishing" /\ task' = "ended"
    /\ woken' = {k \in Closers : closer[k] \in {"registered", "parked"}}
    /\ TaskKeeps
    /\ UNCHANGED <<reply, queue, done, watch, frame, pending, server, lines, started>>

Queued == {queue[i].of : i \in {j \in DOMAIN queue : queue[j].kind = "request"}}

\* The end of the task drops the receiver and what is in the channel.
DropQueue ==
    /\ task = "ended" /\ task' = "gone"
    /\ queue' = <<>>
    /\ reply' = [c \in Callers |-> IF c \in Queued THEN "error" ELSE reply[c]]
    /\ TaskKeeps
    /\ UNCHANGED <<done, woken, watch, frame, pending, server, lines, started>>

TaskStep ==
    \/ Arm \/ TakeRequest \/ TakeAbort \/ TakeNotice \/ TakeShutdown \/ HandleDropped
    \/ Written \/ WriteFails \/ Route \/ OutputEnds \/ StopSeen
    \/ Terminate \/ NotifyFinished \/ DropQueue

-------------------------------------------------------------------------------
(* The server and the owner of the handle *)

Say(line) ==
    /\ server = "up" /\ Len(lines) < LinesSize
    /\ lines' = Append(lines, line)
    /\ UNCHANGED <<callerVars, reply, queue, held, flagVars, taskVars, server, started>>

\* The server may answer as soon as it may have read the request, and twice.
Answer(c) == c \in started /\ Say(Command("answer", c)) /\ replied' = replied \cup {c}

Chatter == \E kind \in {"ping", "garbage"} : Say(Command(kind, Nobody)) /\ UNCHANGED replied

Exit ==
    /\ server = "up" /\ server' = "down"
    /\ UNCHANGED <<callerVars, reply, queue, held, flagVars, taskVars, lines, started,
                   replied>>

LetGo ==
    /\ held /\ held' = FALSE
    /\ \A c \in Callers : caller[c] \in {"idle", "returned"}
    /\ \A k \in Closers : closer[k] \in {"idle", "returned"}
    /\ UNCHANGED <<callerVars, reply, queue, flagVars, taskVars, serverVars>>

Next ==
    \/ \E c \in Callers : SetToken(c) \/ Call(c) \/ CallerStep(c) \/ Answer(c)
    \/ \E k \in Closers : RaiseStop(k) \/ CloserStep(k)
    \/ TaskStep \/ Chatter \/ Exit \/ LetGo

Spec == Init /\ [][Next]_vars

(* Every task is scheduled and every timer fires; the task's select polls its *)
(* branches in random order, so a server that never stops talking cannot keep *)
(* it from looking at the stop flag for ever.  Nothing is asked of the        *)
(* server, and HARD_SHUTDOWN_TIMEOUT, which is for a panicked task, is left    *)
(* out: shutdown has to return without it.                                    *)
Fairness == /\ \A c \in Callers : WF_vars(CallerStep(c))
            /\ \A k \in Closers : WF_vars(CloserStep(k))
            /\ WF_vars(TaskStep) /\ SF_vars(Arm) /\ SF_vars(StopSeen)

FairSpec == Spec /\ Fairness

-------------------------------------------------------------------------------
(* Properties *)

TypeOK ==
    /\ caller \in [Callers -> {"idle", "admitting", "waiting", "aborting", "announcing",
                               "returned"}]
    /\ outcome \in [Callers -> {"none", "answer", "refused", "cancelled", "deadline"}]
    /\ token \in [Callers -> BOOLEAN] /\ raised \in [Callers -> BOOLEAN]
    /\ reply \in [Callers -> {"open", "answer", "error"}]
    /\ queue \in Seq(Commands) /\ held \in BOOLEAN
    /\ closer \in [Closers -> {"idle", "notify", "nudge", "check", "registering",
                               "registered", "parked", "returned"}]
    /\ stopping \in BOOLEAN /\ done \in BOOLEAN /\ woken \subseteq Closers
    /\ watch \in {"new", "read", "armed", "woken"}
    /\ task \in {"select", "writing", "terminating", "finishing", "ended", "gone"}
    /\ frame \in Frames /\ pending \subseteq Callers
    /\ server \in {"up", "down"} /\ lines \in Seq(Lines)
    /\ started \subseteq Callers /\ replied \subseteq Callers

(* A call is open while its caller waits and has not raised its flag.         *)
Seen(c) == IF caller[c] = "idle" THEN "idle"
           ELSE IF caller[c] \in {"admitting", "waiting"} THEN "open"
           ELSE IF outcome[c] = "answer" THEN "answered"
           ELSE "gone"

(* The connection keeps the promise of McpCalls: "a call still waiting to be  *)
(* sent is never sent at all" (tools-and-permissions.md) wherever its abort    *)
(* sits in the queue, no call is sent twice, and "a late response is          *)
(* discarded" (connection.rs) instead of answering another caller.            *)
Promise == INSTANCE McpCalls WITH call <- [c \in Callers |-> Seen(c)],
                                  delivered <- started

KeepsPromise == Promise!Spec

(* When shutdown returns, the server's process is gone: what it waits for is  *)
(* the end of the task's cleanup, on every path out of the loop.              *)
NoServerAfterShutdown ==
    \A k \in Closers : closer[k] = "returned" => server = "down"

(* A shutdown returns, whatever the server does, the queue holds or the       *)
(* callers still wait for, and without its last-resort timeout: neither the   *)
(* stop signal nor the end of the task can be missed for good.                *)
ShutdownReturns == \A k \in Closers : (closer[k] = "notify") ~> (closer[k] = "returned")

(* Every request returns, also to a server that never answers or never reads  *)
(* and on a connection whose task is gone.                                    *)
CallReturns == \A c \in Callers : (caller[c] = "admitting") ~> (caller[c] = "returned")
===============================================================================
