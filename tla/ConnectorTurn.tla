----------------------------- MODULE ConnectorTurn -----------------------------
(***************************************************************************)
(* A session on an external agent: the runner that reads a turn's events     *)
(* (gritt-harness/src/connector_session.rs), the driver task that owns the    *)
(* agent's process (gritt-connector/src/supervise.rs, process.rs), and the    *)
(* session table the two share.                                              *)
(*                                                                          *)
(* A turn stands for its run, its driver and its agent.  A driver outlives    *)
(* its turn when the runner lets go of the stream early, so several may live. *)
(* A thread of the agent is named by the turn that opened it.                *)
(*                                                                          *)
(* The agent, the user and the store are the environment.  Only its driver    *)
(* sees an agent, through a queue of lines that ends with its output, so what *)
(* the agent says and how it ends are chosen when the driver comes to it:     *)
(* "up" is an agent not yet seen to have ended.                               *)
(***************************************************************************)
EXTENDS Naturals, Sequences

CONSTANTS
    MaxTurns,      \* bound: prompts submitted
    MaxRestarts,   \* bound: deaths of the process
    StreamSize     \* capacity of the event stream (256)

ASSUME SizesAssumption ==
    /\ {MaxTurns, MaxRestarts} \subseteq Nat
    /\ StreamSize \in Nat \ {0}

Turns    == 1..MaxTurns
NoThread == 0
Threads  == {NoThread} \cup Turns

EventKinds == {"status", "completed", "error", "cancelled"}

VARIABLES
    \* the runner
    pc,         \* where run_turn is
    turn,       \* number of turns so far
    status,     \* TurnOutcome::status
    token,      \* the CancellationToken
    cancelSent, \* run_turn's local
    stored,     \* the external id in the continuation row
    result,     \* the final status of each turn in the event table
    \* the session table (SessionState)
    external,   \* the external id
    handle,     \* the turn whose CancelFlag it holds
    \* drivers
    driver,     \* where each is
    flag,       \* its CancelFlag
    held,       \* the event it waits to send
    next,       \* where it goes then
    verdict,    \* Driver::terminal
    stream,     \* events sent and not read
    dropped,    \* the runner let go of the stream
    \* agents
    agent,      \* how its process fares
    thread,     \* the thread it told the driver of
    resumed,    \* the thread it was launched with
    content,    \* turns each thread knows of
    late,       \* history: the turns that raced with the table (Missed, Inspect)
    restarts    \* bounded counter

runnerVars == <<pc, turn, status, token, cancelSent, stored, result>>
driverVars == <<driver, held, next, verdict>>
tableVars  == <<external, handle>>
agentVars  == <<agent, thread, resumed, content>>
pipeVars   == <<flag, stream, dropped>>
vars == <<runnerVars, tableVars, driverVars, pipeVars, agentVars, late, restarts>>

Per(x) == [t \in Turns |-> x]

Init == /\ pc = "idle" /\ turn = 0 /\ status = "completed" /\ token = FALSE
        /\ cancelSent = FALSE /\ stored = NoThread
        /\ result = Per("none")
        /\ external = NoThread /\ handle = 0
        /\ driver = Per("none") /\ flag = Per(FALSE) /\ held = Per("status")
        /\ next = Per("select") /\ verdict = Per("none")
        /\ stream = Per(<<>>) /\ dropped = Per(FALSE)
        /\ agent = Per("none") /\ thread = Per(NoThread)
        /\ resumed = Per(NoThread) /\ content = Per({})
        /\ late = {} /\ restarts = 0

-------------------------------------------------------------------------------
(* The runner *)

RunnerKeeps == UNCHANGED <<driverVars, agentVars, restarts>>

\* run_turn returns, and its locals are gone.
Leave(how) ==
    /\ pc' = "idle" /\ status' = "completed" /\ cancelSent' = FALSE
    /\ result' = [result EXCEPT ![turn] = how]

Move(from, to) == pc = from /\ pc' = to

\* reset clears the token of an earlier turn.
Begin ==
    /\ turn < MaxTurns /\ Move("idle", "connecting")
    /\ turn' = turn + 1 /\ token' = FALSE
    /\ UNCHANGED <<status, cancelSent, stored, result, tableVars, pipeVars, late>>
    /\ RunnerKeeps

\* The cancel handle; what it does to an idle session the next turn takes back.
Cancel ==
    /\ pc # "idle" /\ ~token /\ token' = TRUE
    /\ UNCHANGED <<pc, turn, status, cancelSent, stored, result, tableVars,
                   driverVars, pipeVars, agentVars, late, restarts>>

Connect ==
    /\ Move("connecting", "starting")
    /\ UNCHANGED <<turn, status, token, cancelSent, stored, result, tableVars,
                   pipeVars, late>>
    /\ RunnerKeeps

\* start: the continuation goes before the table.
Resume == IF stored # NoThread THEN stored ELSE external

\* run puts a new CancelFlag and the thread to resume in the table.
Register == handle' = turn /\ external' = Resume

Start ==
    /\ Move("starting", "reading") /\ Register
    /\ driver' = [driver EXCEPT ![turn] = "sending"]   \* the Connecting event
    /\ agent' = [agent EXCEPT ![turn] = "up"]
    /\ resumed' = [resumed EXCEPT ![turn] = Resume]
    /\ UNCHANGED <<turn, status, token, cancelSent, stored, result, held, next,
                   verdict, pipeVars, thread, content, late, restarts>>

\* The program is missing, or cannot be spawned; fail records it.
StartFails ==
    /\ pc = "starting" /\ Leave("failed")
    /\ UNCHANGED tableVars \/ Register
    /\ UNCHANGED <<turn, token, stored, pipeVars, late>> /\ RunnerKeeps

\* Faulty variant: the agent is not told.
RelayNothing ==
    /\ pc = "reading" /\ token /\ ~cancelSent
    /\ cancelSent' = TRUE
    /\ UNCHANGED <<pc, turn, status, token, stored, result, tableVars, pipeVars, late>>
    /\ RunnerKeeps

\* The select of the loop is biased towards the token.
Relay ==
    /\ pc = "reading" /\ token /\ ~cancelSent
    /\ cancelSent' = TRUE /\ flag' = [flag EXCEPT ![handle] = TRUE]
    /\ UNCHANGED <<pc, turn, status, token, stored, result, tableVars, stream,
                   dropped, late>>
    /\ RunnerKeeps

Reading == pc = "reading" /\ (token => cancelSent)

Read ==
    /\ Reading /\ stream[turn] # <<>>
    /\ stream' = [stream EXCEPT ![turn] = Tail(@)]
    /\ status' = CASE Head(stream[turn]) = "error"     -> "failed"
                   [] Head(stream[turn]) = "cancelled" -> "cancelled"
                   [] OTHER                            -> status
    /\ UNCHANGED <<pc, turn, token, cancelSent, stored, result, tableVars, flag,
                   dropped, late>>
    /\ RunnerKeeps

\* The driver has dropped its end when drive returned.
Closed(t) == stream[t] = <<>> /\ driver[t] \in {"updating", "done"}

StreamEnds ==
    /\ Reading /\ Closed(turn) /\ pc' = "inspecting"
    /\ dropped' = [dropped EXCEPT ![turn] = TRUE]
    /\ status' = IF token /\ status = "completed" THEN "cancelled" ELSE status
    /\ UNCHANGED <<turn, token, cancelSent, stored, result, tableVars, flag, stream,
                   late>>
    /\ RunnerKeeps

\* inspect copies the table and probes the agent, and what it found is saved; the probes
\* touch nothing else, so the three are one step.  `late` notes a turn whose driver has
\* not written the table yet.
Inspect ==
    /\ Move("inspecting", "closing")
    /\ stored' = IF external # NoThread THEN external ELSE stored
    /\ late' = late \cup IF driver[turn] = "done" THEN {} ELSE {turn}
    /\ UNCHANGED <<turn, status, token, cancelSent, result, tableVars, pipeVars>>
    /\ RunnerKeeps

\* The version probe finds an agent that is too old.
InspectFails ==
    /\ Move("inspecting", "closing") /\ late' = late \cup {turn}
    /\ UNCHANGED <<turn, status, token, cancelSent, stored, result, tableVars, pipeVars>>
    /\ RunnerKeeps

Close ==
    /\ pc = "closing"
    /\ Leave(CASE status = "completed" -> "finished"
               [] status = "cancelled" -> "idle"
               [] status = "failed"    -> "failed")
    /\ UNCHANGED <<turn, token, stored, tableVars, pipeVars, late>> /\ RunnerKeeps

\* emit: an event cannot be written, or not be shown; then connector.cancel is called too,
\* which reaches whatever the table holds.
Abandon(shown) ==
    /\ pc \notin {"idle", "starting"} /\ Leave("lost")
    /\ dropped' = [dropped EXCEPT ![turn] = TRUE]
    /\ token' = (token \/ ~shown)
    /\ stream' = [stream EXCEPT ![turn] = <<>>]
    /\ flag' = [t \in Turns |-> flag[t] \/ (~shown /\ t = handle)]
    /\ UNCHANGED <<turn, stored, tableVars, late>> /\ RunnerKeeps

RunnerStep == \/ Connect \/ Start \/ StartFails \/ Relay \/ Read \/ StreamEnds
              \/ Inspect \/ InspectFails \/ Close

-------------------------------------------------------------------------------
(* Drivers *)

DriverKeeps == UNCHANGED <<runnerVars, flag, dropped, resumed, late, restarts>>

DriverMoves(t, to) == driver' = [driver EXCEPT ![t] = to]

\* Emit, and go on to `then`.
Emit(t, kind, then) ==
    /\ DriverMoves(t, "sending")
    /\ held' = [held EXCEPT ![t] = kind] /\ next' = [next EXCEPT ![t] = then]
    /\ verdict' = [verdict EXCEPT ![t] = IF kind = "status" THEN @ ELSE kind]

Kill(t) == agent' = [agent EXCEPT ![t] = "killed"]

\* Driver::emit.  It fails once the stream is dropped, which in the loop means that
\* nobody reads any more.
Send(t) ==
    /\ driver[t] = "sending"
    /\ DriverMoves(t, IF dropped[t] THEN "updating" ELSE next[t])
    /\ \/ /\ ~dropped[t] /\ Len(stream[t]) < StreamSize
          /\ stream' = [stream EXCEPT ![t] = Append(@, held[t])]
          /\ UNCHANGED agent
       \/ /\ dropped[t] /\ next[t] = "select"
          /\ Kill(t) /\ UNCHANGED stream
       \/ dropped[t] /\ next[t] = "updating" /\ UNCHANGED <<agent, stream>>
    /\ held' = [held EXCEPT ![t] = "status"] /\ next' = [next EXCEPT ![t] = "select"]
    /\ UNCHANGED <<tableVars, verdict, thread, content>> /\ DriverKeeps

SelectKeeps == UNCHANGED <<tableVars, stream, thread, content>> /\ DriverKeeps

SeeCancel(t) ==
    /\ driver[t] = "select" /\ flag[t]
    /\ Kill(t) /\ Emit(t, "cancelled", "updating")
    /\ SelectKeeps

Selecting(t) == driver[t] = "select" /\ ~flag[t]

\* The normalizer keeps the first thread it is told of: the one resumed, or a new one
\* with the same content, as forking a session does.
NameThread(t, id) ==
    /\ thread[t] = NoThread /\ thread' = [thread EXCEPT ![t] = id]
    /\ content' = [content EXCEPT ![id] = @ \cup {t} \cup
                     IF resumed[t] = NoThread THEN {} ELSE content[resumed[t]]]

\* A line of progress, which may name the thread, or an end.  Lines of neither kind
\* change nothing.
Line(t) ==
    /\ Selecting(t)
    /\ \/ /\ Emit(t, "status", "select")
          /\ \/ \E id \in {t, resumed[t]} \ {NoThread} : NameThread(t, id)
             \/ UNCHANGED <<thread, content>>
       \/ /\ \E end \in {"completed", "error"} : Emit(t, end, "select")
          /\ UNCHANGED <<thread, content>>
    /\ UNCHANGED <<tableVars, stream, agent>> /\ DriverKeeps

Fail(t) == Emit(t, "error", "updating")

\* finish_after_terminal.  An end that was an error stays one, and success is taken
\* back when the process failed.
Judge(t, failed, killed) ==
    \/ /\ verdict[t] = "error" /\ DriverMoves(t, "updating")
       /\ UNCHANGED <<held, next, verdict>>
    \/ verdict[t] = "completed" /\ failed /\ Fail(t)
    \/ /\ verdict[t] = "completed" /\ ~failed
       /\ IF killed THEN Emit(t, "status", "updating")
                    ELSE DriverMoves(t, "updating") /\ UNCHANGED <<held, next, verdict>>

\* Faulty variant: an agent that has said its end is left to itself.
DeadlineSparing(t) ==
    /\ Selecting(t)
    /\ \/ verdict[t] = "none" /\ Kill(t) /\ Fail(t)
       \/ verdict[t] # "none" /\ UNCHANGED agent /\ Judge(t, FALSE, TRUE)
    /\ SelectKeeps

\* The startup, idle or wrap-up deadline.
Deadline(t) ==
    /\ Selecting(t) /\ Kill(t)
    /\ \/ verdict[t] = "none" /\ Fail(t)
       \/ verdict[t] # "none" /\ Judge(t, FALSE, TRUE)
    /\ SelectKeeps

\* Output has ended.  The process exits, or after ten seconds is killed.
OutputClosed(t) ==
    \E exit \in {"ok", "bad", "killed"} :
       /\ Selecting(t) /\ agent' = [agent EXCEPT ![t] = exit]
       /\ \/ verdict[t] # "none" /\ Judge(t, exit = "bad", FALSE)
          \/ verdict[t] = "none" /\ exit = "ok"
             /\ Emit(t, "completed", "updating")
          \/ verdict[t] = "none" /\ exit # "ok" /\ Fail(t)
       /\ SelectKeeps

Ends(t) ==
    /\ driver[t] = "updating" /\ DriverMoves(t, "done")
    /\ UNCHANGED <<runnerVars, held, next, verdict, pipeVars, agentVars, restarts>>

\* The turns that began while an earlier one's driver was still to write its thread.
Missed(t) == IF thread[t] = NoThread THEN {} ELSE {u \in Turns : t < u /\ u <= turn}

\* Faulty variant: the thread is written only into an empty table.
UpdateFirst(t) ==
    /\ Ends(t)
    /\ external' = IF external = NoThread THEN thread[t] ELSE external
    /\ late' = late \cup Missed(t) /\ UNCHANGED handle

\* The task writes the table after the stream is closed, whosever turn it is by then.
Update(t) ==
    /\ Ends(t)
    /\ external' = IF thread[t] # NoThread THEN thread[t] ELSE external
    /\ late' = late \cup Missed(t) /\ UNCHANGED handle

DriverStep(t) == \/ Send(t) \/ SeeCancel(t) \/ Line(t) \/ Deadline(t)
                 \/ OutputClosed(t) \/ Update(t)

-------------------------------------------------------------------------------
\* The process dies and another opens the session: the table and the drivers are gone,
\* and nobody supervises an agent that still runs.
Restart ==
    /\ restarts < MaxRestarts /\ restarts' = restarts + 1
    /\ pc' = "idle" /\ token' = FALSE /\ cancelSent' = FALSE
    /\ status' = "completed"
    /\ external' = NoThread /\ handle' = 0
    /\ driver' = [t \in Turns |-> IF driver[t] = "none" THEN "none" ELSE "done"]
    /\ agent' = [t \in Turns |-> IF agent[t] = "up" THEN "orphan" ELSE agent[t]]
    /\ held' = Per("status") /\ next' = Per("select")
    /\ stream' = Per(<<>>)
    /\ result' = [t \in Turns |-> IF t = turn /\ result[t] = "none" THEN "lost" ELSE result[t]]
    /\ flag' = Per(FALSE) /\ dropped' = Per(FALSE)
    /\ UNCHANGED <<turn, stored, verdict, thread, resumed, content, late>>

Next == \/ Begin \/ Cancel \/ RunnerStep \/ Restart
        \/ \E shown \in BOOLEAN : Abandon(shown)
        \/ \E t \in Turns : DriverStep(t)

Spec == Init /\ [][Next]_vars

(* The runner and the drivers are tasks.  Nothing is asked of agents, which   *)
(* may print for ever or never.                                               *)
Fairness == WF_vars(RunnerStep) /\ \A t \in Turns : WF_vars(DriverStep(t))

FairSpec == Spec /\ Fairness

-------------------------------------------------------------------------------
(* Properties *)

TypeOK ==
    /\ pc \in {"idle", "connecting", "starting", "reading", "inspecting", "closing"}
    /\ turn \in 0..MaxTurns /\ (pc # "idle" => turn \in Turns)
    /\ status \in {"completed", "cancelled", "failed"}
    /\ token \in BOOLEAN /\ cancelSent \in BOOLEAN
    /\ stored \in Threads
    /\ result \in [Turns -> {"none", "finished", "idle", "failed", "lost"}]
    /\ external \in Threads /\ handle \in {0} \cup Turns
    /\ driver \in [Turns -> {"none", "sending", "select", "updating", "done"}]
    /\ flag \in [Turns -> BOOLEAN] /\ held \in [Turns -> EventKinds]
    /\ next \in [Turns -> {"select", "updating"}]
    /\ verdict \in [Turns -> {"none", "completed", "error", "cancelled"}]
    /\ stream \in [Turns -> Seq(EventKinds)]
    /\ \A t \in Turns : Len(stream[t]) <= StreamSize
    /\ dropped \in [Turns -> BOOLEAN]
    /\ agent \in [Turns -> {"none", "up", "ok", "bad", "killed", "orphan"}]
    /\ thread \in [Turns -> Threads]
    /\ resumed \in [Turns -> Threads]
    /\ content \in [Turns -> SUBSET Turns]
    /\ late \subseteq Turns /\ restarts \in Nat

(* A turn whose stream was read to its end leaves no agent process behind,    *)
(* whichever of the cancellation, the deadlines and the end of the output     *)
(* came first (drive).                                                          *)
AgentGoneAfterTurn ==
    \A t \in Turns : result[t] \in {"finished", "idle", "failed"} =>
       agent[t] \in {"none", "ok", "bad", "killed"}

(* "A terminal event followed by a non-zero exit is reported as an error"     *)
(* (connectors.md): a turn is recorded as finished only when its driver judged *)
(* it completed and its agent did not fail.                                   *)
FinishedMeansSucceeded ==
    \A t \in Turns : result[t] = "finished" =>
       verdict[t] = "completed" /\ agent[t] \in {"ok", "killed"}

(* How a turn ended is how its agent did: the two above.  Besides, the state   *)
(* keeps its type, the stream its bound.                                       *)
EndsWithItsAgent == TypeOK /\ AgentGoneAfterTurn /\ FinishedMeansSucceeded

(* The thread the next turn would resume, in this process or another, knows   *)
(* every finished turn whose agent named its thread, also when the agent opens *)
(* a new thread on each resumption.  A race with the session table costs the   *)
(* turns it overtakes and never another: the one whose runner looked before    *)
(* its driver wrote, or could not look, and those that began before the driver *)
(* of an earlier, abandoned turn wrote its own thread over theirs.             *)
ContinuesThread ==
    \A t \in Turns \ late : result[t] = "finished" /\ thread[t] # NoThread =>
       Resume # NoThread /\ t \in content[Resume]

(* A cancelled turn ends, also when its agent is silent or prints for ever and *)
(* when the stream is full.                                                   *)
CancelEndsTurn == (token /\ pc = "reading") ~> (pc = "idle")
===============================================================================
