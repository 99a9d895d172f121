-------------------------- MODULE ConnectorTurnProofs --------------------------
(***************************************************************************)
(* What ConnectorTurn promises for any number of turns and of deaths of the   *)
(* process and any size of the event stream, checked by TLAPS.                *)
(***************************************************************************)
EXTENDS ConnectorTurn, TLAPS

(* The inductive invariant behind EndsWithItsAgent and ContinuesThread.      *)

(* The turn has not reached its driver yet. *)
Unstarted(t) == t > turn \/ (t = turn /\ pc \in {"connecting", "starting"})

(* A driver that reads no more, or will not when the event it holds is     *)
(* sent.                                                                   *)
Leaving(t) == \/ driver[t] \in {"updating", "done"}
              \/ driver[t] = "sending" /\ next[t] = "updating"
Serving(t) == driver[t] \in {"sending", "select"} /\ ~Leaving(t)

Bad == {"error", "cancelled"}

Starting ==
    /\ \A t \in Turns : Unstarted(t) =>
          driver[t] = "none" /\ ~dropped[t] /\ result[t] = "none"
    /\ \A t \in Turns : driver[t] = "none" =>
          /\ thread[t] = NoThread /\ agent[t] = "none" /\ verdict[t] = "none"
          /\ stream[t] = <<>>
    /\ \A t \in Turns : driver[t] # "sending" => held[t] = "status" /\ next[t] = "select"
    /\ \A t \in Turns : t <= turn /\ ~(t = turn /\ pc # "idle") => result[t] # "none"
    /\ pc # "idle" => result[turn] = "none"
    /\ pc = "reading" => ~dropped[turn] /\ driver[turn] # "none"
    /\ pc \in {"inspecting", "closing"} => driver[turn] \in {"updating", "done"}

Supervising ==
    /\ \A t \in Turns : result[t] \in {"finished", "idle", "failed"} =>
          driver[t] \in {"none", "updating", "done"}
    /\ \A t \in Turns : dropped[t] /\ driver[t] \in {"sending", "select"} => result[t] = "lost"
    /\ \A t \in Turns : Serving(t) => agent[t] = "up"
    /\ \A t \in Turns : Leaving(t) =>
          \/ /\ agent[t] \in {"ok", "bad", "killed"}
             /\ verdict[t] = "completed" => agent[t] \in {"ok", "killed"}
             /\ verdict[t] = "none" => result[t] = "lost"
          \/ agent[t] = "orphan" /\ result[t] = "lost"

Reporting ==
    /\ pc = "reading" /\ verdict[turn] \in Bad =>
          \/ status # "completed"
          \/ held[turn] \in Bad
          \/ \E i \in DOMAIN stream[turn] : stream[turn][i] \in Bad
    /\ pc \in {"inspecting", "closing"} /\ status = "completed" => verdict[turn] = "completed"
    /\ FinishedMeansSucceeded

Finished(t) == result[t] = "finished" /\ thread[t] # NoThread

(* A finished turn that raced with nothing.                                *)
Safe(t) == Finished(t) /\ t \notin late

(* Every thread a driver has or resumed knows the safe turns before it: so  *)
(* does the table, whichever driver writes it, and the continuation.        *)
Continuing ==
    /\ \A t \in Turns : thread[t] \in {NoThread, t, resumed[t]}
    /\ \A t \in Turns : thread[t] # NoThread => t \in content[thread[t]]
    /\ \A t \in Turns : Safe(t) =>
          /\ driver[t] = "done" /\ stored # NoThread /\ t \in content[stored]
          /\ external # NoThread => t \in content[external]
    /\ \A t, d \in Turns : Safe(t) /\ t < d /\ driver[d] # "none" =>
          /\ resumed[d] # NoThread /\ t \in content[resumed[d]]
          /\ thread[d] # NoThread => t \in content[thread[d]]
    /\ /\ pc \in {"reading", "inspecting", "closing"} /\ turn \notin late
       /\ driver[turn] = "done" /\ thread[turn] # NoThread
       => external = thread[turn]
    /\ pc = "closing" /\ turn \notin late =>
          driver[turn] = "done" /\ (thread[turn] # NoThread => stored = thread[turn])

TurnInv == TypeOK /\ Starting /\ Supervising /\ Reporting /\ Continuing

-------------------------------------------------------------------------------
(* Facts used throughout *)

LEMMA TurnsAreNaturals ==
    /\ Turns \subseteq Nat \ {0}
    /\ \A t \in Turns : t <= MaxTurns /\ t \in Threads
    /\ NoThread \in Threads /\ NoThread \notin Turns
BY SizesAssumption DEF Turns, Threads, NoThread

LEMMA StreamFacts ==
    ASSUME NEW s \in Seq(EventKinds), NEW e \in EventKinds
    PROVE  /\ <<>> \in Seq(EventKinds) /\ Len(<<>>) = 0 /\ DOMAIN <<>> = {}
           /\ Append(s, e) \in Seq(EventKinds) /\ Len(Append(s, e)) = Len(s) + 1
           /\ Len(s) + 1 \in DOMAIN Append(s, e) /\ Append(s, e)[Len(s) + 1] = e
           /\ \A i \in DOMAIN s : i \in DOMAIN Append(s, e) /\ Append(s, e)[i] = s[i]
           /\ s # <<>> =>
                /\ Head(s) = s[1] /\ Head(s) \in EventKinds
                /\ Tail(s) \in Seq(EventKinds) /\ Len(Tail(s)) = Len(s) - 1
                /\ \A i \in DOMAIN s : i = 1 \/ (i - 1 \in DOMAIN Tail(s) /\ Tail(s)[i - 1] = s[i])
OBVIOUS

LEMMA KindsAreEvents ==
    /\ "status" \in EventKinds /\ "completed" \in EventKinds
    /\ "error" \in EventKinds /\ "cancelled" \in EventKinds
BY DEF EventKinds

LEMMA EmitType ==
    ASSUME TypeOK, NEW t \in Turns, NEW kind \in EventKinds, NEW then \in {"select", "updating"},
           Emit(t, kind, then)
    PROVE  /\ driver' \in [Turns -> {"none", "sending", "select", "updating", "done"}]
           /\ held' \in [Turns -> EventKinds] /\ next' \in [Turns -> {"select", "updating"}]
           /\ verdict' \in [Turns -> {"none", "completed", "error", "cancelled"}]
<1>1. (IF kind = "status" THEN verdict[t] ELSE kind) \in {"none", "completed", "error", "cancelled"}
  BY DEF TypeOK, EventKinds
<1> QED
  BY <1>1 DEF TypeOK, Emit, DriverMoves

LEMMA JudgeType ==
    ASSUME TypeOK, NEW t \in Turns, NEW failed \in BOOLEAN, NEW killed \in BOOLEAN,
           Judge(t, failed, killed)
    PROVE  /\ driver' \in [Turns -> {"none", "sending", "select", "updating", "done"}]
           /\ held' \in [Turns -> EventKinds] /\ next' \in [Turns -> {"select", "updating"}]
           /\ verdict' \in [Turns -> {"none", "completed", "error", "cancelled"}]
<1>1. CASE UNCHANGED <<held, next, verdict>>
  BY <1>1, EmitType, KindsAreEvents DEF TypeOK, Judge, DriverMoves, Fail
<1>2. CASE ~ UNCHANGED <<held, next, verdict>>
  BY <1>2, EmitType, KindsAreEvents DEF TypeOK, Judge, Fail
<1> QED
  BY <1>1, <1>2

LEMMA InitHolds == Init => TurnInv
<1> SUFFICES ASSUME Init PROVE TurnInv
  OBVIOUS
<1> USE TurnsAreNaturals, SizesAssumption DEF Init, Per
<1>1. TypeOK
  <2>1. stream = [t \in Turns |-> <<>>] /\ <<>> \in Seq(EventKinds) /\ Len(<<>>) = 0
    OBVIOUS
  <2>2. "status" \in EventKinds
    BY DEF EventKinds
  <2> HIDE DEF Init, Per
  <2>3. stream \in [Turns -> Seq(EventKinds)] /\ \A t \in Turns : Len(stream[t]) <= StreamSize
    BY <2>1
  <2>4. held \in [Turns -> EventKinds]
    BY <2>2 DEF Init, Per
  <2>5. /\ pc = "idle" /\ turn = 0 /\ status = "completed" /\ token = FALSE
        /\ cancelSent = FALSE /\ stored = NoThread /\ external = NoThread /\ handle = 0
        /\ late = {} /\ restarts = 0 /\ turn \in 0..MaxTurns
    BY DEF Init
  <2>6. /\ driver \in [Turns -> {"none", "sending", "select", "updating", "done"}]
        /\ result \in [Turns -> {"none", "finished", "idle", "failed", "lost"}]
        /\ next \in [Turns -> {"select", "updating"}]
        /\ verdict \in [Turns -> {"none", "completed", "error", "cancelled"}]
        /\ agent \in [Turns -> {"none", "up", "ok", "bad", "killed", "orphan"}]
    BY DEF Init, Per
  <2>7. /\ flag \in [Turns -> BOOLEAN] /\ dropped \in [Turns -> BOOLEAN]
        /\ thread \in [Turns -> Threads] /\ resumed \in [Turns -> Threads]
        /\ content \in [Turns -> SUBSET Turns]
    BY DEF Init, Per
  <2> QED
    BY <2>3, <2>4, <2>5, <2>6, <2>7 DEF TypeOK
<1>2. Starting
  BY DEF Starting, Unstarted
<1>3. Supervising
  BY DEF Supervising, Leaving, Serving
<1>4. Reporting
  BY DEF Reporting, Bad, FinishedMeansSucceeded
<1>5. Continuing
  BY DEF Continuing, Finished, Safe
<1> QED
  BY <1>1, <1>2, <1>3, <1>4, <1>5 DEF TurnInv

-------------------------------------------------------------------------------
(* The runner *)

LEMMA BeginKeeps == TurnInv /\ Begin => TurnInv'
<1> SUFFICES ASSUME TurnInv, Begin PROVE TurnInv'
  OBVIOUS
<1> USE TurnsAreNaturals, SizesAssumption DEF TurnInv, runnerVars, tableVars, driverVars,
        pipeVars, agentVars, RunnerKeeps
<1>n. turn \in 0..MaxTurns /\ turn' = turn + 1 /\ turn' \in Turns /\ turn' \in 0..MaxTurns
  BY DEF Begin, TypeOK, Turns
<1>1. TypeOK'
  BY <1>n DEF Begin, Move, TypeOK
<1>2. Starting'
  BY <1>n DEF Begin, Move, TypeOK, Starting, Unstarted
<1>3. Supervising'
  BY DEF Begin, Move, TypeOK, Starting, Unstarted, Supervising, Leaving, Serving
<1>4. Reporting'
  BY DEF Begin, Move, TypeOK, Starting, Unstarted, Supervising, Leaving, Serving, Reporting,
         FinishedMeansSucceeded, Bad
<1>5. Continuing'
  BY DEF Begin, Move, TypeOK, Starting, Unstarted, Supervising, Leaving, Serving, Continuing,
         Finished, Safe
<1> QED
  BY <1>1, <1>2, <1>3, <1>4, <1>5

LEMMA CancelKeeps == TurnInv /\ Cancel => TurnInv'
<1> SUFFICES ASSUME TurnInv, Cancel PROVE TurnInv'
  OBVIOUS
<1> USE TurnsAreNaturals, SizesAssumption DEF TurnInv, runnerVars, tableVars, driverVars,
        pipeVars, agentVars, RunnerKeeps
<1>1. TypeOK'
  BY DEF Cancel, TypeOK
<1>2. Starting'
  BY DEF Cancel, TypeOK, Starting, Unstarted
<1>3. Supervising'
  BY DEF Cancel, TypeOK, Starting, Unstarted, Supervising, Leaving, Serving
<1>4. Reporting'
  BY DEF Cancel, TypeOK, Starting, Unstarted, Supervising, Leaving, Serving, Reporting,
         FinishedMeansSucceeded, Bad
<1>5. Continuing'
  BY DEF Cancel, TypeOK, Starting, Unstarted, Supervising, Leaving, Serving, Continuing,
         Finished, Safe
<1> QED
  BY <1>1, <1>2, <1>3, <1>4, <1>5

LEMMA ConnectKeeps == TurnInv /\ Connect => TurnInv'
<1> SUFFICES ASSUME TurnInv, Connect PROVE TurnInv'
  OBVIOUS
<1> USE TurnsAreNaturals, SizesAssumption DEF TurnInv, runnerVars, tableVars, driverVars,
        pipeVars, agentVars, RunnerKeeps
<1>1. TypeOK'
  BY DEF Connect, Move, TypeOK
<1>2. Starting'
  BY DEF Connect, Move, TypeOK, Starting, Unstarted
<1>3. Supervising'
  BY DEF Connect, Move, TypeOK, Starting, Unstarted, Supervising, Leaving, Serving
<1>4. Reporting'
  BY DEF Connect, Move, TypeOK, Starting, Unstarted, Supervising, Leaving, Serving, Reporting,
         FinishedMeansSucceeded, Bad
<1>5. Continuing'
  BY DEF Connect, Move, TypeOK, Starting, Unstarted, Supervising, Leaving, Serving, Continuing,
         Finished, Safe
<1> QED
  BY <1>1, <1>2, <1>3, <1>4, <1>5

LEMMA StartKeeps == TurnInv /\ Start => TurnInv'
<1> SUFFICES ASSUME TurnInv, Start PROVE TurnInv'
  OBVIOUS
<1> USE TurnsAreNaturals, SizesAssumption DEF TurnInv, runnerVars, tableVars, driverVars,
        pipeVars, agentVars, RunnerKeeps
<1>1. TypeOK'
  BY DEF Start, Move, Register, Resume, TypeOK
<1>2. Starting'
  BY DEF Start, Move, Register, Resume, TypeOK, Starting, Unstarted
<1>3. Supervising'
  BY DEF Start, Move, Register, Resume, TypeOK, Starting, Unstarted, Supervising, Leaving, Serving
<1>4. Reporting'
  BY DEF Start, Move, Register, Resume, TypeOK, Starting, Unstarted, Supervising, Leaving,
       Serving, Reporting, FinishedMeansSucceeded, Bad
<1>5. Continuing'
  BY DEF Start, Move, Register, Resume, TypeOK, Starting, Unstarted, Supervising, Leaving,
       Serving, Continuing, Finished, Safe
<1> QED
  BY <1>1, <1>2, <1>3, <1>4, <1>5

LEMMA StartFailsKeeps == TurnInv /\ StartFails => TurnInv'
<1> SUFFICES ASSUME TurnInv, StartFails PROVE TurnInv'
  OBVIOUS
<1> USE TurnsAreNaturals, SizesAssumption DEF TurnInv, runnerVars, tableVars, driverVars,
        pipeVars, agentVars, RunnerKeeps
<1>1. TypeOK'
  BY DEF StartFails, Leave, Register, Resume, TypeOK
<1>2. Starting'
  BY DEF StartFails, Leave, Register, Resume, TypeOK, Starting, Unstarted
<1>3. Supervising'
  BY DEF StartFails, Leave, Register, Resume, TypeOK, Starting, Unstarted, Supervising,
       Leaving, Serving
<1>4. Reporting'
  BY DEF StartFails, Leave, Register, Resume, TypeOK, Starting, Unstarted, Supervising,
       Leaving, Serving, Reporting, FinishedMeansSucceeded, Bad
<1>5. Continuing'
  BY DEF StartFails, Leave, Register, Resume, TypeOK, Starting, Unstarted, Supervising,
       Leaving, Serving, Continuing, Finished, Safe
<1> QED
  BY <1>1, <1>2, <1>3, <1>4, <1>5

LEMMA RelayKeeps == TurnInv /\ Relay => TurnInv'
<1> SUFFICES ASSUME TurnInv, Relay PROVE TurnInv'
  OBVIOUS
<1> USE TurnsAreNaturals, SizesAssumption DEF TurnInv, runnerVars, tableVars, driverVars,
        pipeVars, agentVars, RunnerKeeps
<1>1. TypeOK'
  BY DEF Relay, TypeOK
<1>2. Starting'
  BY DEF Relay, TypeOK, Starting, Unstarted
<1>3. Supervising'
  BY DEF Relay, TypeOK, Starting, Unstarted, Supervising, Leaving, Serving
<1>4. Reporting'
  BY DEF Relay, TypeOK, Starting, Unstarted, Supervising, Leaving, Serving, Reporting,
         FinishedMeansSucceeded, Bad
<1>5. Continuing'
  BY DEF Relay, TypeOK, Starting, Unstarted, Supervising, Leaving, Serving, Continuing,
         Finished, Safe
<1> QED
  BY <1>1, <1>2, <1>3, <1>4, <1>5

LEMMA StreamEndsKeeps == TurnInv /\ StreamEnds => TurnInv'
<1> SUFFICES ASSUME TurnInv, StreamEnds PROVE TurnInv'
  OBVIOUS
<1> USE TurnsAreNaturals, SizesAssumption DEF TurnInv, runnerVars, tableVars, driverVars,
        pipeVars, agentVars, RunnerKeeps
<1>1. TypeOK'
  BY DEF StreamEnds, Reading, Closed, TypeOK
<1>2. Starting'
  BY DEF StreamEnds, Reading, Closed, TypeOK, Starting, Unstarted
<1>3. Supervising'
  BY DEF StreamEnds, Reading, Closed, TypeOK, Starting, Unstarted, Supervising, Leaving, Serving
<1>4. Reporting'
  BY DEF StreamEnds, Reading, Closed, TypeOK, Starting, Unstarted, Supervising, Leaving,
       Serving, Reporting, FinishedMeansSucceeded, Bad
<1>5. Continuing'
  BY DEF StreamEnds, Reading, Closed, TypeOK, Starting, Unstarted, Supervising, Leaving,
       Serving, Continuing, Finished, Safe
<1> QED
  BY <1>1, <1>2, <1>3, <1>4, <1>5

LEMMA InspectKeeps == TurnInv /\ Inspect => TurnInv'
<1> SUFFICES ASSUME TurnInv, Inspect PROVE TurnInv'
  OBVIOUS
<1> USE TurnsAreNaturals, SizesAssumption DEF TurnInv, runnerVars, tableVars, driverVars,
        pipeVars, agentVars, RunnerKeeps
<1>1. TypeOK'
  BY DEF Inspect, Move, TypeOK
<1>2. Starting'
  BY DEF Inspect, Move, TypeOK, Starting, Unstarted
<1>3. Supervising'
  BY DEF Inspect, Move, TypeOK, Starting, Unstarted, Supervising, Leaving, Serving
<1>4. Reporting'
  BY DEF Inspect, Move, TypeOK, Starting, Unstarted, Supervising, Leaving, Serving, Reporting,
         FinishedMeansSucceeded, Bad
<1>5. Continuing'
  <2>1. \A t \in Turns : Safe(t)' => Safe(t)
    BY DEF Inspect, Finished, Safe
  <2>2. /\ pc = "inspecting" /\ stored' = IF external # NoThread THEN external ELSE stored
        /\ turn \notin late' => turn \notin late /\ driver[turn] = "done"
    BY DEF Inspect, Move
  <2> QED
    BY <2>1, <2>2 DEF Inspect, Move, Continuing
<1> QED
  BY <1>1, <1>2, <1>3, <1>4, <1>5

LEMMA InspectFailsKeeps == TurnInv /\ InspectFails => TurnInv'
<1> SUFFICES ASSUME TurnInv, InspectFails PROVE TurnInv'
  OBVIOUS
<1> USE TurnsAreNaturals, SizesAssumption DEF TurnInv, runnerVars, tableVars, driverVars,
        pipeVars, agentVars, RunnerKeeps
<1>1. TypeOK'
  BY DEF InspectFails, Move, TypeOK
<1>2. Starting'
  BY DEF InspectFails, Move, TypeOK, Starting, Unstarted
<1>3. Supervising'
  BY DEF InspectFails, Move, TypeOK, Starting, Unstarted, Supervising, Leaving, Serving
<1>4. Reporting'
  BY DEF InspectFails, Move, TypeOK, Starting, Unstarted, Supervising, Leaving, Serving, Reporting,
         FinishedMeansSucceeded, Bad
<1>5. Continuing'
  BY DEF InspectFails, Move, TypeOK, Starting, Unstarted, Supervising, Leaving, Serving, Continuing,
         Finished, Safe
<1> QED
  BY <1>1, <1>2, <1>3, <1>4, <1>5

LEMMA CloseKeeps == TurnInv /\ Close => TurnInv'
<1> SUFFICES ASSUME TurnInv, Close PROVE TurnInv'
  OBVIOUS
<1> USE TurnsAreNaturals, SizesAssumption DEF TurnInv, runnerVars, tableVars, driverVars,
        pipeVars, agentVars, RunnerKeeps
<1>1. TypeOK'
  BY DEF Close, Leave, TypeOK
<1>2. Starting'
  BY DEF Close, Leave, TypeOK, Starting, Unstarted
<1>3. Supervising'
  BY DEF Close, Leave, TypeOK, Starting, Unstarted, Supervising, Leaving, Serving
<1>4. Reporting'
  BY DEF Close, Leave, TypeOK, Starting, Unstarted, Supervising, Leaving, Serving, Reporting,
         FinishedMeansSucceeded, Bad
<1>5. Continuing'
  BY DEF Close, Leave, TypeOK, Starting, Unstarted, Supervising, Leaving, Serving, Continuing,
         Finished, Safe
<1> QED
  BY <1>1, <1>2, <1>3, <1>4, <1>5

LEMMA ReadKeeps == TurnInv /\ Read => TurnInv'
<1> SUFFICES ASSUME TurnInv, Read PROVE TurnInv'
  OBVIOUS
<1> USE TurnsAreNaturals, SizesAssumption DEF TurnInv, runnerVars, tableVars, driverVars,
        pipeVars, agentVars, RunnerKeeps
<1>1. TypeOK'
  BY DEF Read, Reading, TypeOK
<1>2. Starting'
  BY DEF Read, Reading, TypeOK, Starting, Unstarted
<1>3. Supervising'
  BY DEF Read, Reading, TypeOK, Starting, Unstarted, Supervising, Leaving, Serving
<1>4. Reporting'
  <2> DEFINE s == stream[turn]
  <2>1. turn \in Turns /\ s \in Seq(EventKinds) /\ s # <<>>
    BY DEF Read, Reading, TypeOK
  <2>2. /\ Head(s) = s[1]
        /\ \A i \in DOMAIN s : i = 1 \/ (i - 1 \in DOMAIN Tail(s) /\ Tail(s)[i - 1] = s[i])
    BY <2>1, StreamFacts, KindsAreEvents
  <2>3. stream'[turn] = Tail(s)
    BY <2>1 DEF Read, TypeOK
  <2>4. ASSUME verdict[turn] \in Bad, status' = "completed"
        PROVE  \/ held[turn] \in Bad
               \/ \E i \in DOMAIN Tail(s) : Tail(s)[i] \in Bad
    <3>1. status = "completed" /\ Head(s) \notin Bad
      BY <2>4 DEF Read, Bad
    <3> QED
      BY <2>1, <2>2, <2>4, <3>1 DEF Read, Reading, Reporting
  <2>5. /\ pc' = "reading" /\ turn' = turn /\ verdict' = verdict /\ held' = held /\ agent' = agent
        /\ result' = result
    BY DEF Read, Reading
  <2> QED
    BY <2>3, <2>4, <2>5 DEF Reporting, FinishedMeansSucceeded
<1>5. Continuing'
  BY DEF Read, Reading, TypeOK, Starting, Unstarted, Supervising, Leaving, Serving, Continuing,
         Finished, Safe
<1> QED
  BY <1>1, <1>2, <1>3, <1>4, <1>5

LEMMA AbandonKeeps == TurnInv /\ (\E shown \in BOOLEAN : Abandon(shown)) => TurnInv'
<1> SUFFICES ASSUME TurnInv, (\E shown \in BOOLEAN : Abandon(shown)) PROVE TurnInv'
  OBVIOUS
<1> USE TurnsAreNaturals, SizesAssumption DEF TurnInv, runnerVars, tableVars, driverVars,
        pipeVars, agentVars, RunnerKeeps
<1>1. TypeOK'
  <2>1. PICK shown \in BOOLEAN : Abandon(shown)
    OBVIOUS
  <2>2. flag' \in [Turns -> BOOLEAN] /\ token' \in BOOLEAN
    BY <2>1 DEF Abandon, TypeOK
  <2>3. <<>> \in Seq(EventKinds) /\ Len(<<>>) = 0
    OBVIOUS
  <2>4. stream' \in [Turns -> Seq(EventKinds)] /\ \A t \in Turns : Len(stream'[t]) <= StreamSize
    BY <2>1, <2>3 DEF Abandon, TypeOK
  <2> QED
    BY <2>1, <2>2, <2>4 DEF Abandon, Leave, TypeOK
<1>2. Starting'
  BY DEF Abandon, Leave, TypeOK, Starting, Unstarted
<1>3. Supervising'
  BY DEF Abandon, Leave, TypeOK, Starting, Unstarted, Supervising, Leaving, Serving
<1>4. Reporting'
  BY DEF Abandon, Leave, TypeOK, Starting, Unstarted, Supervising, Leaving, Serving, Reporting,
         FinishedMeansSucceeded, Bad
<1>5. Continuing'
  BY DEF Abandon, Leave, TypeOK, Starting, Unstarted, Supervising, Leaving, Serving, Continuing,
         Finished, Safe
<1> QED
  BY <1>1, <1>2, <1>3, <1>4, <1>5

LEMMA RestartKeeps == TurnInv /\ Restart => TurnInv'
<1> SUFFICES ASSUME TurnInv, Restart PROVE TurnInv'
  OBVIOUS
<1> USE TurnsAreNaturals, SizesAssumption DEF TurnInv, runnerVars, tableVars, driverVars,
        pipeVars, agentVars, RunnerKeeps
<1>1. TypeOK'
  <2>1. <<>> \in Seq(EventKinds) /\ Len(<<>>) = 0
    OBVIOUS
  <2>2. stream' \in [Turns -> Seq(EventKinds)] /\ \A t \in Turns : Len(stream'[t]) <= StreamSize
    BY <2>1 DEF Restart, Per, TypeOK
  <2>3. /\ driver' \in [Turns -> {"none", "sending", "select", "updating", "done"}]
        /\ result' \in [Turns -> {"none", "finished", "idle", "failed", "lost"}]
        /\ next' \in [Turns -> {"select", "updating"}]
        /\ agent' \in [Turns -> {"none", "up", "ok", "bad", "killed", "orphan"}]
        /\ held' \in [Turns -> EventKinds]
    BY KindsAreEvents DEF Restart, Per, TypeOK
  <2>4. /\ flag' \in [Turns -> BOOLEAN] /\ dropped' \in [Turns -> BOOLEAN]
        /\ pc' = "idle" /\ token' = FALSE /\ cancelSent' = FALSE /\ status' = "completed"
        /\ external' = NoThread /\ handle' = 0 /\ turn' = turn /\ restarts' \in Nat
        /\ stored' = stored /\ verdict' = verdict /\ thread' = thread
        /\ resumed' = resumed /\ content' = content /\ late' = late
    BY DEF Restart, Per, TypeOK
  <2> QED
    BY <2>2, <2>3, <2>4 DEF TypeOK
<1>2. Starting'
  BY DEF Restart, Per, TypeOK, Starting, Unstarted
<1>3. Supervising'
  BY DEF Restart, Per, TypeOK, Starting, Unstarted, Supervising, Leaving, Serving
<1>4. Reporting'
  BY DEF Restart, Per, TypeOK, Starting, Unstarted, Supervising, Leaving, Serving, Reporting,
         FinishedMeansSucceeded, Bad
<1>5. Continuing'
  BY DEF Restart, Per, TypeOK, Starting, Unstarted, Supervising, Leaving, Serving, Continuing,
         Finished, Safe
<1> QED
  BY <1>1, <1>2, <1>3, <1>4, <1>5
-------------------------------------------------------------------------------
(* Drivers *)

LEMMA SendKeeps ==
    ASSUME TurnInv, NEW t \in Turns, Send(t)
    PROVE  TurnInv'
<1> USE TurnsAreNaturals, SizesAssumption DEF TurnInv, runnerVars, tableVars, driverVars,
        pipeVars, agentVars, DriverKeeps, SelectKeeps, DriverMoves
<1>a. /\ stream[t] \in Seq(EventKinds) /\ held[t] \in EventKinds
      /\ Append(stream[t], held[t]) \in Seq(EventKinds)
      /\ Len(Append(stream[t], held[t])) = Len(stream[t]) + 1
      /\ Len(stream[t]) + 1 \in DOMAIN Append(stream[t], held[t])
      /\ Append(stream[t], held[t])[Len(stream[t]) + 1] = held[t]
      /\ \A i \in DOMAIN stream[t] : /\ i \in DOMAIN Append(stream[t], held[t])
                                    /\ Append(stream[t], held[t])[i] = stream[t][i]
  BY StreamFacts DEF TypeOK
<1>1. TypeOK'
  <2>1. stream' \in [Turns -> Seq(EventKinds)] /\ \A s \in Turns : Len(stream'[s]) <= StreamSize
    <3>1. CASE stream' = stream
      BY <3>1 DEF TypeOK
    <3>2. CASE /\ Len(stream[t]) < StreamSize
               /\ stream' = [stream EXCEPT ![t] = Append(@, held[t])]
      <4>1. Len(stream[t]) \in Nat /\ Len(Append(stream[t], held[t])) <= StreamSize
        BY <1>a, <3>2
      <4> QED
        BY <1>a, <3>2, <4>1 DEF TypeOK
    <3> QED
      BY <3>1, <3>2 DEF Send
  <2>2. /\ driver' \in [Turns -> {"none", "sending", "select", "updating", "done"}]
        /\ next' \in [Turns -> {"select", "updating"}]
        /\ agent' \in [Turns -> {"none", "up", "ok", "bad", "killed", "orphan"}]
        /\ held' \in [Turns -> EventKinds]
    BY KindsAreEvents DEF Send, Kill, TypeOK
  <2>3. UNCHANGED <<pc, turn, status, token, cancelSent, stored, result, external, handle, flag,
                    verdict, dropped, thread, resumed, content, late, restarts>>
    BY DEF Send
  <2> QED
    BY <2>1, <2>2, <2>3 DEF TypeOK
<1>2. Starting'
  BY DEF Send, Kill, TypeOK, Starting, Unstarted
<1>3. Supervising'
  BY DEF Send, Kill, TypeOK, Starting, Unstarted, Supervising, Leaving, Serving
<1>4. Reporting'
  <2>1. UNCHANGED <<pc, turn, status, result, verdict>>
    BY DEF Send
  <2>2. pc = "reading" /\ verdict[turn] \in Bad =>
          \/ status # "completed" \/ held'[turn] \in Bad
          \/ \E i \in DOMAIN stream'[turn] : stream'[turn][i] \in Bad
    <3> SUFFICES ASSUME pc = "reading", verdict[turn] \in Bad, status = "completed"
                 PROVE  \/ held'[turn] \in Bad
                        \/ \E i \in DOMAIN stream'[turn] : stream'[turn][i] \in Bad
      OBVIOUS
    <3>1. \/ held[turn] \in Bad
          \/ \E i \in DOMAIN stream[turn] : stream[turn][i] \in Bad
      BY DEF Reporting
    <3>2. turn \in Turns /\ ~dropped[turn]
      BY DEF TypeOK, Starting
    <3>3. CASE t # turn
      BY <3>1, <3>2, <3>3 DEF Send, TypeOK
    <3>4. CASE t = turn
      <4>1. stream'[turn] = Append(stream[t], held[t])
        BY <3>2, <3>4 DEF Send, TypeOK
      <4> QED
        BY <3>1, <3>4, <4>1, <1>a
    <3> QED
      BY <3>3, <3>4
  <2>3. FinishedMeansSucceeded'
    BY DEF Send, Kill, TypeOK, Supervising, Reporting, FinishedMeansSucceeded
  <2> QED
    BY <2>1, <2>2, <2>3 DEF Reporting
<1>5. Continuing'
  BY DEF Send, Kill, TypeOK, Starting, Unstarted, Supervising, Leaving, Serving, Continuing,
         Finished, Safe
<1> QED
  BY <1>1, <1>2, <1>3, <1>4, <1>5

LEMMA SeeCancelKeeps ==
    ASSUME TurnInv, NEW t \in Turns, SeeCancel(t)
    PROVE  TurnInv'
<1> USE TurnsAreNaturals, SizesAssumption DEF TurnInv, runnerVars, tableVars, driverVars,
        pipeVars, agentVars, DriverKeeps, SelectKeeps, DriverMoves
<1>1. TypeOK'
  BY EmitType, JudgeType, KindsAreEvents DEF SeeCancel, Emit, Kill, Selecting, Fail, TypeOK
<1>2. Starting'
  BY DEF SeeCancel, Emit, Kill, Selecting, Fail, TypeOK, Starting, Unstarted
<1>3. Supervising'
  BY DEF SeeCancel, Emit, Kill, Selecting, Fail, TypeOK, Starting, Unstarted, Supervising,
       Leaving, Serving
<1>4. Reporting'
  BY DEF SeeCancel, Emit, Kill, Selecting, Fail, TypeOK, Starting, Unstarted, Supervising,
       Leaving, Serving, Reporting, FinishedMeansSucceeded, Bad
<1>5. Continuing'
  BY DEF SeeCancel, Emit, Kill, Selecting, Fail, TypeOK, Starting, Unstarted, Supervising,
       Leaving, Serving, Continuing, Finished, Safe
<1> QED
  BY <1>1, <1>2, <1>3, <1>4, <1>5

LEMMA LineKeeps ==
    ASSUME TurnInv, NEW t \in Turns, Line(t)
    PROVE  TurnInv'
<1> USE TurnsAreNaturals, SizesAssumption DEF TurnInv, runnerVars, tableVars, driverVars,
        pipeVars, agentVars, DriverKeeps, SelectKeeps, DriverMoves
<1>a. \/ UNCHANGED <<thread, content>>
      \/ \E id \in {t, resumed[t]} \ {NoThread} : NameThread(t, id)
  BY DEF Line
<1>u. UNCHANGED <<pc, turn, status, token, cancelSent, stored, result, external, handle, flag,
                  stream, agent, dropped, resumed, late, restarts>>
  BY DEF Line
<1>b. driver[t] = "select" /\ driver' = [driver EXCEPT ![t] = "sending"]
  BY DEF Line, Selecting, Emit
<1>1. TypeOK'
  <2>1. /\ driver' \in [Turns -> {"none", "sending", "select", "updating", "done"}]
        /\ held' \in [Turns -> EventKinds] /\ next' \in [Turns -> {"select", "updating"}]
        /\ verdict' \in [Turns -> {"none", "completed", "error", "cancelled"}]
    BY EmitType, KindsAreEvents DEF Line
  <2>2. thread' \in [Turns -> Threads] /\ content' \in [Turns -> SUBSET Turns]
    <3>1. CASE UNCHANGED <<thread, content>>
      BY <3>1 DEF TypeOK
    <3>2. ASSUME NEW id \in {t, resumed[t]} \ {NoThread}, NameThread(t, id)
          PROVE  thread' \in [Turns -> Threads] /\ content' \in [Turns -> SUBSET Turns]
      <4>1. id \in Turns /\ id \in Threads /\ (resumed[t] # NoThread => resumed[t] \in Turns)
        BY <3>2 DEF TypeOK, Threads
      <4> QED
        BY <3>2, <4>1, ZenonT(40) DEF NameThread, TypeOK
    <3> QED
      BY <1>a, <3>1, <3>2
  <2> QED
    BY <2>1, <2>2, <1>u DEF TypeOK
<1>2. Starting'
  BY DEF Line, NameThread, Emit, Kill, Selecting, Fail, TypeOK, Starting, Unstarted
<1>3. Supervising'
  <2>1. /\ driver'[t] = "sending" /\ next'[t] = "select"
        /\ \A k \in Turns \ {t} : /\ driver'[k] = driver[k] /\ next'[k] = next[k]
                                   /\ verdict'[k] = verdict[k]
    BY <1>b DEF TypeOK, Line, Emit
  <2>2. Serving(t) /\ Serving(t)' /\ ~Leaving(t)'
    BY <2>1, <1>b DEF Serving, Leaving
  <2>3. \A k \in Turns : /\ Serving(k)' => Serving(k)
                         /\ Leaving(k)' => Leaving(k) /\ verdict'[k] = verdict[k]
    BY <2>1, <2>2 DEF Serving, Leaving
  <2>4. \A k \in Turns : driver'[k] # driver[k] =>
            k = t /\ driver[t] = "select" /\ driver'[t] = "sending"
    BY <2>1, <1>b
  <2> QED
    BY <2>3, <2>4, <1>u DEF Supervising
<1>4. Reporting'
  BY DEF Line, NameThread, Emit, Kill, Selecting, Fail, TypeOK, Starting, Unstarted,
       Supervising, Leaving, Serving, Reporting, FinishedMeansSucceeded, Bad
<1>5. Continuing'
  <2>1. CASE UNCHANGED <<thread, content>>
    BY <2>1, <1>u, <1>b DEF TypeOK, Starting, Continuing, Finished, Safe
  <2>2. ASSUME NEW id \in {t, resumed[t]} \ {NoThread}, NameThread(t, id)
        PROVE  Continuing'
    <3>1. id \in Turns /\ thread' = [thread EXCEPT ![t] = id] /\ thread[t] = NoThread
      BY <2>2 DEF TypeOK, Threads, NameThread
    <3>2. /\ \A k \in Turns : content[k] \subseteq content'[k]
          /\ t \in content'[id]
          /\ resumed[t] # NoThread => content[resumed[t]] \subseteq content'[id]
      BY <2>2, <3>1 DEF TypeOK, NameThread
    <3>3. \A k \in Turns : Safe(k)' => Safe(k) /\ k # t
      BY <3>1, <1>u, <1>b DEF TypeOK, Supervising, Finished, Safe
    <3>4. /\ \A k \in Turns : thread'[k] \in {NoThread, k, resumed'[k]}
          /\ \A k \in Turns : thread'[k] # NoThread => k \in content'[thread'[k]]
      <4>1. thread'[t] = id /\ \A k \in Turns \ {t} : thread'[k] = thread[k]
        BY <3>1 DEF TypeOK
      <4>2. ASSUME NEW k \in Turns \ {t}, thread[k] # NoThread PROVE k \in content'[thread[k]]
        <5>1. thread[k] \in Turns /\ k \in content[thread[k]]
          BY <4>2 DEF TypeOK, Threads, Continuing
        <5> QED
          BY <5>1, <3>2
      <4> QED
        BY <4>1, <4>2, <3>2, <1>u DEF Continuing
    <3>5. \A k \in Turns : Safe(k)' =>
            /\ driver'[k] = "done" /\ stored # NoThread /\ k \in content'[stored]
            /\ external # NoThread => k \in content'[external]
      BY <1>b, <3>2, <3>3 DEF TypeOK, Threads, Continuing
    <3>6. ASSUME NEW k \in Turns, NEW d \in Turns, Safe(k)', k < d, driver'[d] # "none"
          PROVE  /\ resumed[d] # NoThread /\ k \in content'[resumed[d]]
                 /\ thread'[d] # NoThread => k \in content'[thread'[d]]
      <4>1. driver[d] # "none" /\ Safe(k)
        BY <1>b, <3>3, <3>6 DEF TypeOK
      <4>2. /\ resumed[d] # NoThread /\ k \in content[resumed[d]]
            /\ thread[d] # NoThread => k \in content[thread[d]]
        BY <4>1, <3>6 DEF Continuing
      <4>3. resumed[d] \in Turns /\ (thread[d] # NoThread => thread[d] \in Turns)
        BY <4>2 DEF TypeOK, Threads
      <4>4. CASE d = t
        BY <4>2, <4>3, <4>4, <3>1, <3>2 DEF TypeOK
      <4>5. CASE d # t
        BY <4>2, <4>3, <4>5, <3>1, <3>2 DEF TypeOK
      <4> QED
        BY <4>4, <4>5
    <3>7. ASSUME driver'[turn] = "done", pc # "idle" PROVE turn # t /\ thread'[turn] = thread[turn]
      BY <3>7, <3>1, <1>b DEF TypeOK
    <3>8. pc = "closing" => turn # t \/ turn \in late
      BY <1>b DEF TypeOK, Continuing
    <3>9. /\ pc \in {"reading", "inspecting", "closing"} /\ turn \notin late
          /\ driver'[turn] = "done" /\ thread'[turn] # NoThread
          => external = thread'[turn]
      BY <3>7, <1>b DEF TypeOK, Continuing
    <3>10. pc = "closing" /\ turn \notin late =>
             driver'[turn] = "done" /\ (thread'[turn] # NoThread => stored = thread'[turn])
      BY <3>8, <3>1, <1>b DEF TypeOK, Continuing
    <3>11. \A k, d \in Turns : Safe(k)' /\ k < d /\ driver'[d] # "none" =>
             /\ resumed[d] # NoThread /\ k \in content'[resumed[d]]
             /\ thread'[d] # NoThread => k \in content'[thread'[d]]
      BY <3>6
    <3>12. /\ pc' = pc /\ turn' = turn /\ stored' = stored /\ external' = external
           /\ resumed' = resumed /\ late' = late
      BY <1>u
    <3> HIDE DEF Line, TurnInv
    <3> QED
      BY <3>5, <3>4, <3>9, <3>10, <3>11, <3>12 DEF Continuing
  <2> QED
    BY <1>a, <2>1, <2>2
<1> QED
  BY <1>1, <1>2, <1>3, <1>4, <1>5

LEMMA DeadlineKeeps ==
    ASSUME TurnInv, NEW t \in Turns, Deadline(t)
    PROVE  TurnInv'
<1> USE TurnsAreNaturals, SizesAssumption DEF TurnInv, runnerVars, tableVars, driverVars,
        pipeVars, agentVars, DriverKeeps, SelectKeeps, DriverMoves
<1>1. TypeOK'
  <2>1. /\ driver' \in [Turns -> {"none", "sending", "select", "updating", "done"}]
        /\ held' \in [Turns -> EventKinds] /\ next' \in [Turns -> {"select", "updating"}]
        /\ verdict' \in [Turns -> {"none", "completed", "error", "cancelled"}]
    BY EmitType, JudgeType, KindsAreEvents DEF Deadline, Fail
  <2>2. agent' \in [Turns -> {"none", "up", "ok", "bad", "killed", "orphan"}]
    BY DEF Deadline, Kill, TypeOK
  <2>3. UNCHANGED <<pc, turn, status, token, cancelSent, stored, result, external, handle, flag,
                    stream, dropped, thread, resumed, content, late, restarts>>
    BY DEF Deadline
  <2> QED
    BY <2>1, <2>2, <2>3 DEF TypeOK
<1>2. Starting'
  BY DEF Deadline, Judge, Emit, Kill, Selecting, Fail, TypeOK, Starting, Unstarted
<1>3. Supervising'
  BY DEF Deadline, Judge, Emit, Kill, Selecting, Fail, TypeOK, Starting, Unstarted,
       Supervising, Leaving, Serving
<1>4. Reporting'
  BY DEF Deadline, Judge, Emit, Kill, Selecting, Fail, TypeOK, Starting, Unstarted,
       Supervising, Leaving, Serving, Reporting, FinishedMeansSucceeded, Bad
<1>5. Continuing'
  BY DEF Deadline, Judge, Emit, Kill, Selecting, Fail, TypeOK, Starting, Unstarted,
       Supervising, Leaving, Serving, Continuing, Finished, Safe
<1> QED
  BY <1>1, <1>2, <1>3, <1>4, <1>5

LEMMA OutputClosedKeeps ==
    ASSUME TurnInv, NEW t \in Turns, OutputClosed(t)
    PROVE  TurnInv'
<1> USE TurnsAreNaturals, SizesAssumption DEF TurnInv, runnerVars, tableVars, driverVars,
        pipeVars, agentVars, DriverKeeps, SelectKeeps, DriverMoves
<1>1. TypeOK'
  <2>1. /\ driver' \in [Turns -> {"none", "sending", "select", "updating", "done"}]
        /\ held' \in [Turns -> EventKinds] /\ next' \in [Turns -> {"select", "updating"}]
        /\ verdict' \in [Turns -> {"none", "completed", "error", "cancelled"}]
    BY EmitType, JudgeType, KindsAreEvents DEF OutputClosed, Fail
  <2>2. agent' \in [Turns -> {"none", "up", "ok", "bad", "killed", "orphan"}]
    BY DEF OutputClosed, Kill, TypeOK
  <2>3. UNCHANGED <<pc, turn, status, token, cancelSent, stored, result, external, handle, flag,
                    stream, dropped, thread, resumed, content, late, restarts>>
    BY DEF OutputClosed
  <2> QED
    BY <2>1, <2>2, <2>3 DEF TypeOK
<1>2. Starting'
  BY DEF OutputClosed, Judge, Emit, Kill, Selecting, Fail, TypeOK, Starting, Unstarted
<1>3. Supervising'
  BY DEF OutputClosed, Judge, Emit, Kill, Selecting, Fail, TypeOK, Starting, Unstarted,
       Supervising, Leaving, Serving
<1>4. Reporting'
  BY DEF OutputClosed, Judge, Emit, Kill, Selecting, Fail, TypeOK, Starting, Unstarted,
       Supervising, Leaving, Serving, Reporting, FinishedMeansSucceeded, Bad
<1>5. Continuing'
  BY DEF OutputClosed, Judge, Emit, Kill, Selecting, Fail, TypeOK, Starting, Unstarted,
       Supervising, Leaving, Serving, Continuing, Finished, Safe
<1> QED
  BY <1>1, <1>2, <1>3, <1>4, <1>5

LEMMA UpdateKeeps ==
    ASSUME TurnInv, NEW t \in Turns, Update(t)
    PROVE  TurnInv'
<1> USE TurnsAreNaturals, SizesAssumption DEF TurnInv, runnerVars, tableVars, driverVars,
        pipeVars, agentVars, DriverKeeps, SelectKeeps, DriverMoves
<1>1. TypeOK'
  <2>1. late' \subseteq Turns
    BY DEF Update, Missed, TypeOK
  <2>2. external' \in Threads
    BY DEF Update, TypeOK
  <2> QED
    BY <2>1, <2>2 DEF Update, Ends, TypeOK
<1>2. Starting'
  BY DEF Update, Ends, TypeOK, Starting, Unstarted
<1>3. Supervising'
  BY DEF Update, Ends, TypeOK, Starting, Unstarted, Supervising, Leaving, Serving
<1>4. Reporting'
  BY DEF Update, Ends, TypeOK, Starting, Unstarted, Supervising, Leaving, Serving, Reporting,
         FinishedMeansSucceeded, Bad
<1>5. Continuing'
  <2>1. /\ UNCHANGED <<pc, turn, stored, result, thread, resumed, content>>
        /\ external' = IF thread[t] # NoThread THEN thread[t] ELSE external
        /\ late' = late \cup Missed(t)
        /\ driver[t] = "updating" /\ driver' = [driver EXCEPT ![t] = "done"]
    BY DEF Update, Ends
  <2>2. \A k \in Turns : Safe(k)' => Safe(k) /\ k <= turn /\ k # t
    BY <2>1 DEF TypeOK, Starting, Unstarted, Continuing, Finished, Safe
  <2>3. t <= turn
    BY <2>1 DEF TypeOK, Starting, Unstarted
  <2>4. ASSUME thread[t] # NoThread
        PROVE  /\ \A k \in Turns : Safe(k)' => k < t
               /\ turn \in Turns /\ turn \notin late' => turn = t
    <3>1. \A k \in Turns : k \notin late' => ~(t < k /\ k <= turn)
      BY <2>1, <2>4 DEF Missed
    <3> QED
      BY <3>1, <2>2, <2>3 DEF Safe, TypeOK
  <2>5. ASSUME NEW k \in Turns, Safe(k)'
        PROVE  /\ driver'[k] = "done" /\ stored # NoThread /\ k \in content[stored]
               /\ external' # NoThread => k \in content[external']
    <3>1. /\ driver[k] = "done" /\ stored # NoThread /\ k \in content[stored]
          /\ external # NoThread => k \in content[external]
      BY <2>2, <2>5 DEF Continuing
    <3>2. thread[t] # NoThread => k \in content[thread[t]]
      BY <2>1, <2>2, <2>4, <2>5 DEF Continuing
    <3> QED
      BY <3>1, <3>2, <2>1 DEF TypeOK
  <2>6. /\ pc \in {"reading", "inspecting", "closing"} /\ turn \notin late'
        /\ driver'[turn] = "done" /\ thread[turn] # NoThread
        => external' = thread[turn]
    BY <2>1, <2>4 DEF TypeOK, Continuing
  <2>7. pc = "closing" /\ turn \notin late' =>
          driver'[turn] = "done" /\ (thread[turn] # NoThread => stored = thread[turn])
    BY <2>1 DEF TypeOK, Continuing
  <2>8. \A k, d \in Turns : Safe(k)' /\ k < d /\ driver'[d] # "none" =>
          /\ resumed[d] # NoThread /\ k \in content[resumed[d]]
          /\ thread[d] # NoThread => k \in content[thread[d]]
    BY <2>1, <2>2 DEF TypeOK, Continuing
  <2> QED
    BY <2>1, <2>5, <2>6, <2>7, <2>8 DEF Continuing
<1> QED
  BY <1>1, <1>2, <1>3, <1>4, <1>5

-------------------------------------------------------------------------------
(* The theorems *)

LEMMA RunnerKeepsInv == TurnInv /\ RunnerStep => TurnInv'
BY ConnectKeeps, StartKeeps, StartFailsKeeps, RelayKeeps, ReadKeeps, StreamEndsKeeps,
   InspectKeeps, InspectFailsKeeps, CloseKeeps DEF RunnerStep

LEMMA DriverKeepsInv ==
    ASSUME TurnInv, NEW t \in Turns, DriverStep(t)
    PROVE  TurnInv'
BY SendKeeps, SeeCancelKeeps, LineKeeps, DeadlineKeeps, OutputClosedKeeps, UpdateKeeps
   DEF DriverStep

LEMMA StutterKeepsInv == TurnInv /\ UNCHANGED vars => TurnInv'
BY DEF TurnInv, vars, runnerVars, tableVars, driverVars, pipeVars, agentVars, TypeOK, Starting,
       Unstarted, Supervising, Leaving, Serving, Reporting, FinishedMeansSucceeded, Continuing,
       Finished, Safe

THEOREM TurnInvHolds == Spec => []TurnInv
<1>1. TurnInv /\ [Next]_vars => TurnInv'
  BY BeginKeeps, CancelKeeps, RunnerKeepsInv, RestartKeeps, AbandonKeeps, DriverKeepsInv,
     StutterKeepsInv DEF Next
<1> QED
  BY InitHolds, <1>1, PTL DEF Spec

(* However many turns a session takes, in whatever order cancellations, the  *)
(* deadlines, the end of the output and deaths of the process come, a turn    *)
(* whose stream was read to its end leaves no agent behind, and one recorded   *)
(* as finished was judged completed by its driver and its agent did not fail   *)
(* (drive and finish_after_terminal, supervise.rs; run_turn,                   *)
(* connector_session.rs).                                                     *)
THEOREM EndsAsItsAgentDid == Spec => []EndsWithItsAgent
<1>1. TurnInv => AgentGoneAfterTurn
  BY DEF TurnInv, Starting, Supervising, Leaving, AgentGoneAfterTurn, TypeOK
<1>2. TurnInv => EndsWithItsAgent
  BY <1>1 DEF TurnInv, Reporting, EndsWithItsAgent
<1> QED
  BY <1>2, TurnInvHolds, PTL

(* The thread the next turn would resume, from the continuation row or from    *)
(* the session table, knows every finished turn whose agent named its thread.   *)
(* A turn that raced with the table may be missing, never another: one whose    *)
(* runner looked before its driver wrote or could not look, and one that began   *)
(* before the driver of an earlier turn wrote its thread over it (start and     *)
(* inspect, connector_session.rs; run's task, supervise.rs).                    *)
THEOREM ThreadContinues == Spec => []ContinuesThread
<1>1. TurnInv => ContinuesThread
  BY DEF TurnInv, Continuing, Finished, Safe, ContinuesThread, Resume
<1> QED
  BY <1>1, TurnInvHolds, PTL
===============================================================================
