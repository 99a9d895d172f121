--------------------------- MODULE NativeTurnProofs ---------------------------
(***************************************************************************)
(* What NativeTurn promises for every set of tool calls, every policy and    *)
(* every bound, checked by TLAPS.                                            *)
(***************************************************************************)
EXTENDS NativeTurn, TLAPS

USE DEF Places, EmittingPlaces, HandlingPlaces

-------------------------------------------------------------------------------
(* Type correctness *)

LEMMA ModeType ==
    ASSUME NEW p \in Phases, NEW a \in Approvals
    PROVE  ModeOf(p, a) \in Modes
BY DEF ModeOf, Modes, Phases, Approvals

LEMMA CallType ==
    ASSUME todo \in Seq(Calls), todo # <<>>
    PROVE  /\ Call \in Calls
           /\ Tail(todo) \in Seq(Calls)
BY DEF Call

LEMMA MoveType ==
    ASSUME TypeOK, NEW from, NEW to, Move(from, to), to \in Places,
           to \in HandlingPlaces => todo # <<>>,
           to # "deciding"
    PROVE  TypeOK'
BY DEF TypeOK, Move, roundVars, sessionVars, childVars, logVars, ghostVars, counters

LEMMA EmitType ==
    ASSUME TypeOK, NEW kind \in Kinds, NEW c \in Calls \cup {NoCall}, Emit(kind, c)
    PROVE  /\ events' \subseteq EventRows
           /\ nextSeq' \in Nat
BY DEF TypeOK, Emit, Row, EventRows

\* What a failed write may have left behind is an event like any other.
LEMMA DueType ==
    ASSUME TypeOK, NEW due \in Due
    PROVE  due[1] \in Kinds /\ due[2] \in Calls \cup {NoCall}
<1>1. pc \in {"requesting", "deciding", "result"} => Call \in Calls
  BY CallType DEF TypeOK
<1>2. FinalKind \in Kinds
  BY DEF FinalKind, Kinds, TypeOK, Statuses
<1>3. CASE pc = "streaming"
  BY <1>3 DEF Due, Kinds, TypeOK
<1>4. CASE pc = "deciding"
  BY <1>1, <1>4 DEF Due, Kinds, TypeOK
<1>5. CASE pc \in {"requesting", "result", "cancelling", "failing"}
  BY <1>1, <1>5 DEF Due, Kinds
<1>6. CASE pc = "closing"
  BY <1>2, <1>6 DEF Due
<1>7. CASE pc \notin {"streaming", "deciding", "requesting", "result", "cancelling",
                     "failing", "closing"}
  BY <1>7 DEF Due, Kinds
<1> QED
  BY <1>3, <1>4, <1>5, <1>6, <1>7

LEMMA RecordType ==
    ASSUME TypeOK, NEW from, NEW to, NEW kind \in Kinds, NEW c \in Calls \cup {NoCall},
           Record(from, to, kind, c), to \in Places,
           to \in HandlingPlaces => todo # <<>>,
           to # "deciding"
    PROVE  TypeOK'
<1>1. events' \subseteq EventRows /\ nextSeq' \in Nat
  BY EmitType DEF Record
<1> QED
  BY <1>1 DEF TypeOK, Record, roundVars, sessionVars, childVars, ghostVars, counters

LEMMA InitType == Init => TypeOK
<1> SUFFICES ASSUME Init PROVE TypeOK
  OBVIOUS
<1>1. approval \in Approvals
  BY BoundsAssumption DEF Init
<1>2. toolsFull \in BOOLEAN
  BY DEF Init, FullFor
<1>3. todo \in Seq(Calls)
  BY DEF Init
<1> QED
  BY <1>1, <1>2, <1>3 DEF Init, TypeOK, Phases, Statuses

LEMMA StepType == TypeOK /\ [Next]_vars => TypeOK'
<1> SUFFICES ASSUME TypeOK, [Next]_vars PROVE TypeOK'
  OBVIOUS
<1> USE DEF TypeOK
<1>f. \A p \in Phases, a \in Approvals : FullFor(p, a) \in BOOLEAN
  BY DEF FullFor
<1>1. CASE BeginTurn
  BY <1>1 DEF BeginTurn, Statuses, sessionVars, logVars, ghostVars, counters
<1>2. CASE Connect
  BY <1>2, RecordType DEF Connect, Kinds
<1>3. CASE Tell
  BY <1>3, MoveType DEF Tell
<1>4. ASSUME NEW to \in {"saving", "stopping"}, NEW outcome \in Statuses,
             NEW kind \in Kinds, StreamEnds(to, outcome, kind)
      PROVE  TypeOK'
  <2>1. events' \subseteq EventRows /\ nextSeq' \in Nat
    BY <1>4, EmitType DEF StreamEnds
  <2> QED
    BY <1>4, <2>1 DEF StreamEnds, sessionVars, childVars, ghostVars, counters
<1>5. CASE StreamCancelled \/ StreamError
  BY <1>4, <1>5 DEF StreamCancelled, StreamError, Statuses, Kinds
<1>r. \A from, to, kind, c : Record(from, to, kind, c) => pc = from
  BY DEF Record
<1>h. pc \in HandlingPlaces => Call \in Calls /\ todo # <<>>
  BY CallType
<1>6. CASE Gate
  <2>2. todo # <<>>
    BY <1>6 DEF Gate, Move
  <2>4. Outcome(Call) \in Outcomes
    BY <2>2, CallType, CallsAssumption DEF Outcome, Outcomes
  <2>1. Route(Call) \in Places \ {"deciding"}
    BY <2>4 DEF Route, Outcomes
  <2>3. Move("gate", Route(Call))
    BY <1>6 DEF Gate
  <2> HIDE DEF TypeOK
  <2> QED
    BY <2>1, <2>2, <2>3, MoveType
<1>7. CASE Deny \/ Wait \/ Request \/ Start \/ Answer \/ EmitCancelled
  <2>1. CASE Deny
    <3>1. pc = "denying"
      BY <1>r, <2>1 DEF Deny
    <3> QED
      BY <1>h, <2>1, <3>1, RecordType DEF Deny, Kinds
  <2>2. CASE Wait
    <3>1. pc = "waiting"
      BY <1>r, <2>2 DEF Wait
    <3> QED
      BY <1>h, <2>2, <3>1, RecordType DEF Wait, Kinds
  <2>3. CASE Request
    <3>1. pc = "requesting"
      BY <1>r, <2>3 DEF Request
    <3> QED
      BY <1>h, <2>3, <3>1, RecordType DEF Request, Kinds
  <2>4. CASE Start
    <3>1. pc = "starting"
      BY <1>r, <2>4 DEF Start
    <3> QED
      BY <1>h, <2>4, <3>1, RecordType DEF Start, Kinds
  <2>5. CASE Answer
    <3>1. pc = "result"
      BY <1>r, <2>5 DEF Answer
    <3> QED
      BY <1>h, <2>5, <3>1, RecordType DEF Answer, Kinds
  <2>6. CASE EmitCancelled
    <3>1. pc = "cancelling"
      BY <1>r, <2>6 DEF EmitCancelled
    <3> QED
      BY <1>h, <2>6, <3>1, RecordType DEF EmitCancelled, Kinds
  <2> QED
    BY <1>7, <2>1, <2>2, <2>3, <2>4, <2>5, <2>6
<1>8. ASSUME NEW answer \in {"approved", "denied"}, Decide(answer)
      PROVE  TypeOK'
  BY <1>8 DEF Decide, sessionVars, childVars, logVars, ghostVars, counters
<1>9. CASE AutoAnswer \/ CancelDenies \/ \E a \in {"approved", "denied"} : UserAnswers(a)
  BY <1>8, <1>9 DEF AutoAnswer, CancelDenies, UserAnswers
<1>10. CASE RecordDecision
  <2>1. pc = "deciding"
    BY <1>10 DEF RecordDecision, Record
  <2>2. verdict \in Kinds
    BY <2>1 DEF Kinds
  <2> QED
    BY <1>10, <1>h, <2>1, <2>2, RecordType DEF RecordDecision
<1>11. ASSUME NEW from, NEW to, Begin(from, to), from \in HandlingPlaces,
              to \in {"shell", "remote", "result"},
              UNCHANGED <<cancelled, killTasks>>,
              tracked' \subseteq Calls, alive' \subseteq Calls
       PROVE  TypeOK'
  <2>1. Effect(Call) \in Effects
    BY <1>11, CallType, ModeType DEF Begin, Effect, Effects, Mode
  <2> QED
    BY <1>11, <2>1 DEF Begin, roundVars, sessionVars, logVars, counters
<1>12. CASE RunFile \/ SpawnShell \/ McpDeliver
  BY <1>11, <1>12, CallType DEF RunFile, SpawnShell, McpDeliver, Begin, childVars
<1>13. CASE SpawnFails \/ McpRefused \/ McpQueue \/ McpReturns \/ McpCancelled
              \/ SendRefused \/ SubmitRefused \/ BadStatus \/ BodyRead
              \/ SaveContinuation
  BY <1>13, MoveType
     DEF SpawnFails, McpRefused, McpQueue, McpReturns, McpCancelled, McpLeaves,
         SendRefused, SubmitRefused, BadStatus, BodyRead, SaveContinuation, Move
<1>14. CASE ShellCancelled \/ ShellDone
  BY <1>14 DEF ShellCancelled, ShellDone, ReleaseShell, roundVars, sessionVars,
               logVars, ghostVars, counters
<1>15. CASE NextCall
  BY <1>15, CallType DEF NextCall, sessionVars, childVars, logVars, ghostVars, counters
<1>16. CASE StopRound
  BY <1>16 DEF StopRound, Statuses, sessionVars, childVars, logVars, ghostVars, counters
<1>17. CASE StopChildren
  BY <1>17 DEF StopChildren, KillTracked, roundVars, sessionVars, logVars, ghostVars,
               counters
<1>18. ASSUME NEW from, NEW kind \in Kinds, Return(from, kind)
       PROVE  TypeOK'
  <2>1. events' \subseteq EventRows /\ nextSeq' \in Nat
    BY <1>18, EmitType DEF Return
  <2> QED
    BY <1>18, <2>1 DEF Return, sessionVars, childVars, ghostVars, counters
<1>19. CASE Close \/ Fail
  <2>1. FinalKind \in Kinds
    BY DEF FinalKind, Kinds, Statuses
  <2> QED
    BY <1>18, <1>19, <2>1 DEF Close, Fail, Kinds
<1>20. ASSUME NEW from, NEW to \in {"telling", "streaming"}, Open(from, to)
       PROVE  TypeOK'
  BY <1>20 DEF Open, sessionVars, childVars, logVars, ghostVars, counters
<1>21. CASE SendAccepted \/ SubmitResults
  BY <1>20, <1>21 DEF SendAccepted, SubmitResults
<1>22. CASE RunKillTask
  BY <1>22 DEF RunKillTask, KillTracked, roundVars, sessionVars, logVars, ghostVars,
               counters
<1>23. CASE Submit
  BY <1>23 DEF Submit, sessionVars, childVars, logVars, ghostVars, counters
<1>24. CASE Cancel
  BY <1>24 DEF Cancel, roundVars, sessionVars, logVars
<1>25. ASSUME NEW m \in Modes, NEW f \in Failures, SetMode(m, f)
       PROVE  TypeOK'
  <2> DEFINE changes  == PhaseOf(m) # phase
             step     == IF changes THEN 1 ELSE 0
             phaseRow == IF changes THEN {Row(nextSeq, "progress", NoCall)} ELSE {}
             modeRow  == IF f \in {"nothing", "mode_stamp"}
                           THEN {Row(nextSeq + step, "progress", NoCall)} ELSE {}
  <2>1. PhaseOf(m) \in Phases /\ ApprovalOf(m) \in Approvals
    BY DEF PhaseOf, ApprovalOf, Phases, Approvals, Modes
  <2>2. phaseRow \subseteq EventRows /\ modeRow \subseteq EventRows
    BY DEF Row, EventRows, Kinds
  <2>3. \/ UNCHANGED <<sessionVars, logVars>>
        \/ /\ phase' = PhaseOf(m) /\ storedPhase' = PhaseOf(m)
           /\ toolsFull' = FullFor(PhaseOf(m), approval)
           /\ nextSeq' = nextSeq + 1
           /\ events' \in {events, events \cup phaseRow}
           /\ UNCHANGED approval
        \/ /\ phase' = PhaseOf(m) /\ storedPhase' = PhaseOf(m)
           /\ approval' = ApprovalOf(m)
           /\ toolsFull' = FullFor(PhaseOf(m), ApprovalOf(m))
           /\ nextSeq' = nextSeq + step + 1
           /\ events' = events \cup phaseRow \cup modeRow
    BY <1>25 DEF SetMode
  <2>4. /\ phase' \in Phases /\ storedPhase' \in Phases /\ approval' \in Approvals
        /\ toolsFull' \in BOOLEAN /\ nextSeq' \in Nat /\ events' \subseteq EventRows
    BY <2>1, <2>2, <2>3, <1>f DEF sessionVars, logVars
  <2> HIDE DEF changes, step, phaseRow, modeRow
  <2>5. /\ modeChanges' = modeChanges + 1
        /\ UNCHANGED <<pc, roundVars, childVars, ghostVars, cancels, crashes>>
    BY <1>25 DEF SetMode
  <2> QED
    BY <2>4, <2>5 DEF roundVars, childVars, ghostVars
<1>26. ASSUME NEW c \in Calls, StreamToolCall(c)
       PROVE  TypeOK'
  <2>1. events' \subseteq EventRows /\ nextSeq' \in Nat
    BY <1>26, EmitType DEF StreamToolCall, Kinds
  <2>2. todo' \in Seq(Calls)
    BY <1>26 DEF StreamToolCall
  <2> QED
    BY <1>26, <2>1, <2>2 DEF StreamToolCall, sessionVars, childVars, ghostVars, counters
<1>27. ASSUME NEW c \in Calls, ChildExits(c)
       PROVE  TypeOK'
  BY <1>27 DEF ChildExits, roundVars, sessionVars, logVars, ghostVars, counters
<1>28. CASE StreamCompleted
  BY <1>28, RecordType DEF StreamCompleted, Kinds
<1>29. CASE OutputBreaks
  BY <1>29 DEF OutputBreaks, Abort, KillTracked, sessionVars, counters
<1>30. CASE StoreFails
  <2>1. events' \subseteq EventRows /\ nextSeq' \in Nat
    <3>1. CASE EventFails
      <4>1. CASE events' = events /\ nextSeq' = nextSeq + 1
        BY <4>1
      <4>2. ASSUME NEW due \in Due, Emit(due[1], due[2])
            PROVE  events' \subseteq EventRows /\ nextSeq' \in Nat
        BY <4>2, DueType, EmitType
      <4> QED
        BY <3>1, <4>1, <4>2 DEF EventFails
    <3>2. CASE RowFails
      BY <3>2 DEF RowFails, logVars
    <3> QED
      BY <1>30, <3>1, <3>2 DEF StoreFails
  <2>2. /\ Abort
        /\ UNCHANGED <<turn, status, asked, cut, sessionVars, childVars, executed,
                       counters>>
    BY <1>30 DEF StoreFails, EventFails, RowFails
  <2> QED
    BY <2>1, <2>2 DEF Abort, childVars, sessionVars, counters
<1>31. CASE Crash
  <2>1. broken' \subseteq Nat
    BY <1>31 DEF Crash
  <2>2. /\ pc' = "down" /\ todo' = <<>> /\ verdict' = "none"
        /\ cancelled' = FALSE /\ killTasks' = 0 /\ tracked' = {} /\ alive' = {}
        /\ crashes' \in Nat
        /\ UNCHANGED <<turn, status, asked, cut, sessionVars, logVars, executed,
                       cancels, modeChanges>>
    BY <1>31 DEF Crash
  <2>3. /\ UNCHANGED <<turn, status, asked, cut, events, nextSeq, executed,
                       cancels, modeChanges>>
        /\ UNCHANGED <<phase, storedPhase, approval, toolsFull>>
    BY <2>2 DEF sessionVars, logVars
  <2>4. todo' \in Seq(Calls) /\ killTasks' \in Nat
    BY <2>2
  <2> QED
    BY <2>1, <2>2, <2>3, <2>4
<1>32. CASE Restart
  <2>1. approval' \in Approvals
    BY <1>32, BoundsAssumption DEF Restart
  <2> QED
    BY <1>32, <1>f, <2>1 DEF Restart, roundVars, childVars, ghostVars, counters
<1>33. CASE UNCHANGED vars
  BY <1>33 DEF vars, roundVars, sessionVars, childVars, logVars, ghostVars, counters
<1> QED
  BY <1>1, <1>2, <1>3, <1>5, <1>6, <1>7, <1>9, <1>10, <1>12, <1>13, <1>14, <1>15, <1>16,
     <1>17, <1>19, <1>21, <1>22, <1>23, <1>24, <1>25, <1>26, <1>27, <1>28, <1>29, <1>30,
     <1>31, <1>32, <1>33
     DEF Next, AgentStep, AdapterStep, UserStep, WorldStep

(* Type correctness: TypeOK holds in every reachable state, whatever the      *)
(* calls, the policy and the bounds.                                          *)
THEOREM TypeCorrect == Spec => []TypeOK
<1>1. Init => TypeOK
  BY InitType
<1>2. TypeOK /\ [Next]_vars => TypeOK'
  BY StepType
<1> QED
  BY <1>1, <1>2, PTL DEF Spec

-------------------------------------------------------------------------------
(* The event table *)

SeqBelow == \A e \in events : e.seq < nextSeq

TurnsBelow == \A e \in events : e.turn <= turn

LogInv == SeqBelow /\ TurnsBelow /\ LogOrdered

\* What any step may do to the table.
Quiet  == UNCHANGED <<events, nextSeq>>
Burns  == events' = events /\ nextSeq' = nextSeq + 1
Writes == \E kind \in Kinds, c \in Calls \cup {NoCall} : Emit(kind, c)
Modal  == \E m \in Modes, f \in Failures : SetMode(m, f)

LEMMA LogStep ==
    ASSUME TypeOK, [Next]_vars
    PROVE  /\ Quiet \/ Burns \/ Writes \/ Modal \/ Restart
           /\ turn' = turn \/ turn' = turn + 1
<1> USE DEF roundVars, sessionVars, childVars, logVars, ghostVars, counters
<1>m. \A from, to : Move(from, to) => Quiet /\ turn' = turn
  BY DEF Move, Quiet
<1>r. \A from, to : \A kind \in Kinds, c \in Calls \cup {NoCall} :
         Record(from, to, kind, c) => Writes /\ turn' = turn
  BY DEF Record, Writes
<1>k. /\ \A k \in {"progress", "requested", "tool_call", "tool_result", "error",
                   "cancelled_event", "approved", "denied"} : k \in Kinds
      /\ FinalKind \in Kinds
  BY DEF Kinds, FinalKind, TypeOK, Statuses
<1>h. pc \in HandlingPlaces => Call \in Calls
  BY CallType DEF TypeOK
<1>1. CASE Connect \/ Deny \/ Wait \/ Start \/ EmitCancelled \/ StreamCompleted
  BY <1>1, <1>r, <1>k DEF Connect, Deny, Wait, Start, EmitCancelled, StreamCompleted
<1>2. CASE Request \/ RecordDecision \/ Answer
  <2>1. pc \in {"requesting", "deciding", "result"}
    BY <1>2 DEF Request, RecordDecision, Answer, Record
  <2>2. pc = "deciding" => verdict \in {"approved", "denied"}
    BY DEF TypeOK
  <2>3. RecordDecision => pc = "deciding"
    BY DEF RecordDecision, Record
  <2> QED
    BY <1>2, <2>1, <2>2, <2>3, <1>r, <1>k, <1>h DEF Request, RecordDecision, Answer
<1>3. CASE Tell \/ Gate \/ SpawnFails \/ McpRefused \/ McpQueue \/ McpReturns
              \/ McpCancelled \/ SendRefused \/ SubmitRefused \/ BadStatus
              \/ BodyRead \/ SaveContinuation
  BY <1>3, <1>m
     DEF Tell, Gate, SpawnFails, McpRefused, McpQueue, McpReturns, McpCancelled,
         McpLeaves, BadStatus, BodyRead, SendRefused, SubmitRefused, SaveContinuation
<1>4. CASE StreamCancelled \/ StreamError \/ \E c \in Calls : StreamToolCall(c)
  BY <1>4, <1>k DEF StreamCancelled, StreamError, StreamEnds, StreamToolCall, Writes
<1>5. CASE Close \/ Fail
  BY <1>5, <1>k DEF Close, Fail, Return, Writes
<1>6. CASE RunFile \/ SpawnShell \/ McpDeliver \/ ShellCancelled \/ ShellDone
  BY <1>6 DEF RunFile, SpawnShell, McpDeliver, Begin, ShellCancelled, ShellDone,
              ReleaseShell, Quiet
<1>7. CASE BeginTurn \/ SendAccepted \/ SubmitResults \/ NextCall \/ StopRound
              \/ StopChildren \/ AutoAnswer \/ CancelDenies
              \/ \E a \in {"approved", "denied"} : UserAnswers(a)
  BY <1>7 DEF BeginTurn, SendAccepted, SubmitResults, Open, NextCall, StopRound,
              StopChildren, AutoAnswer, CancelDenies, UserAnswers, Decide, Quiet
<1>8. CASE RunKillTask \/ Submit \/ Cancel \/ \E c \in Calls : ChildExits(c)
  BY <1>8 DEF RunKillTask, Submit, Cancel, ChildExits, Quiet
<1>9. CASE OutputBreaks \/ StoreFails
  <2>1. EventFails => Burns \/ Writes
    BY DueType DEF EventFails, Burns, Writes
  <2>2. OutputBreaks => Burns
    BY DEF OutputBreaks, Burns
  <2>3. RowFails => Quiet
    BY DEF RowFails, Quiet
  <2>4. turn' = turn
    BY <1>9 DEF OutputBreaks, StoreFails, EventFails, RowFails
  <2> QED
    BY <1>9, <2>1, <2>2, <2>3, <2>4 DEF StoreFails
<1>10. CASE Crash
  BY <1>10 DEF Crash, Quiet
<1>11. CASE Restart
  BY <1>11 DEF Restart
<1>12. CASE Modal
  BY <1>12 DEF Modal, SetMode
<1>13. CASE UNCHANGED vars
  BY <1>13 DEF vars, Quiet
<1> QED
  BY <1>1, <1>2, <1>3, <1>4, <1>5, <1>6, <1>7, <1>8, <1>9, <1>10, <1>11, <1>12, <1>13
     DEF Next, AgentStep, AdapterStep, UserStep, WorldStep, Modal

LEMMA ModalRows ==
    ASSUME TypeOK, Modal
    PROVE  \/ Quiet
           \/ Burns
           \/ /\ events' = events \cup {Row(nextSeq, "progress", NoCall)}
              /\ nextSeq' \in {nextSeq + 1, nextSeq + 2}
           \/ /\ events' = events \cup {Row(nextSeq, "progress", NoCall),
                                        Row(nextSeq + 1, "progress", NoCall)}
              /\ nextSeq' = nextSeq + 2
<1> PICK m \in Modes, f \in Failures : SetMode(m, f)
  BY DEF Modal
<1>1. CASE PhaseOf(m) = phase
  <2>1. CASE f \in {"nothing", "mode_stamp"}
    BY <1>1, <2>1 DEF SetMode, TypeOK
  <2>2. CASE f \notin {"nothing", "mode_stamp"}
    <3>1. /\ events' = events \cup {} \cup {}
          /\ nextSeq' = nextSeq + 0 + 1
      BY <1>1, <2>2 DEF SetMode
    <3> QED
      BY <3>1 DEF TypeOK, Burns
  <2> QED
    BY <2>1, <2>2
<1>2. CASE PhaseOf(m) # phase
  <2>1. CASE f \in {"phase_column", "phase_event", "phase_stamp"}
    BY <1>2, <2>1 DEF SetMode, Quiet, Burns, logVars
  <2>2. CASE f = "mode_event"
    BY <1>2, <2>2 DEF SetMode, TypeOK
  <2>3. CASE f \in {"nothing", "mode_stamp"}
    BY <1>2, <2>3 DEF SetMode, TypeOK
  <2> QED
    BY <2>1, <2>2, <2>3 DEF Failures
<1> QED
  BY <1>1, <1>2

LEMMA LogNext == TypeOK /\ LogInv /\ [Next]_vars => LogInv'
<1> SUFFICES ASSUME TypeOK, LogInv, [Next]_vars PROVE LogInv'
  OBVIOUS
<1> USE DEF LogInv, SeqBelow, TurnsBelow, LogOrdered
<1>t. /\ turn \in Nat /\ nextSeq \in Nat
      /\ \A e \in events : e.seq \in Nat /\ e.turn \in Nat
  BY DEF TypeOK, EventRows
<1>s. turn' = turn \/ turn' = turn + 1
  BY LogStep
<1>1. CASE Quiet \/ Burns
  BY <1>1, <1>t, <1>s DEF Quiet, Burns
<1>2. ASSUME NEW kind, NEW c, NEW more \in {1, 2},
             events' = events \cup {Row(nextSeq, kind, c)}, nextSeq' = nextSeq + more
      PROVE  LogInv'
  BY <1>2, <1>t, <1>s DEF Row
<1>3. CASE Writes
  BY <1>3, <1>2 DEF Writes, Emit
<1>4. CASE Modal
  <2>1. CASE /\ events' = events \cup {Row(nextSeq, "progress", NoCall),
                                       Row(nextSeq + 1, "progress", NoCall)}
             /\ nextSeq' = nextSeq + 2
    <3>1. turn' = turn
      BY <1>4 DEF Modal, SetMode, roundVars
    <3>2. \A e \in events' : \/ e \in events
                             \/ e.seq = nextSeq /\ e.turn = turn
                             \/ e.seq = nextSeq + 1 /\ e.turn = turn
      BY <2>1 DEF Row
    <3>3. \A a, b \in events' : a.seq = b.seq => a = b
      BY <2>1, <1>t DEF Row
    <3> QED
      BY <2>1, <1>t, <3>1, <3>2, <3>3
  <2> QED
    BY <1>4, <1>1, <1>2, <2>1, ModalRows
<1>5. CASE Restart
  <2>1. events' = events /\ \A e \in events : e.seq < nextSeq'
    BY <1>5 DEF Restart, NextFree
  <2> QED
    BY <2>1, <1>t, <1>s
<1> QED
  BY <1>1, <1>3, <1>4, <1>5, LogStep

(* The event table reads in the order the turns ran: LogOrdered holds through *)
(* every failed write, every mode change and every restart.                   *)
THEOREM LogIsOrdered == Spec => []LogOrdered
<1>1. Init => LogInv
  BY DEF Init, LogInv, SeqBelow, TurnsBelow, LogOrdered
<1>2. TypeOK /\ LogInv /\ [Next]_vars => LogInv'
  BY LogNext
<1>3. LogInv => LogOrdered
  BY DEF LogInv
<1> QED
  BY <1>1, <1>2, <1>3, TypeCorrect, PTL DEF Spec

-------------------------------------------------------------------------------
(* Shell children *)

LEMMA ChildNext == TypeOK /\ NoStrayChild /\ [Next]_vars => NoStrayChild'
<1> SUFFICES ASSUME TypeOK, NoStrayChild, [Next]_vars PROVE NoStrayChild'
  OBVIOUS
<1> USE DEF NoStrayChild, Call
\* Away from the shell there is no child, and most steps make none.
<1>away. ASSUME pc # "shell", pc' # "shell", UNCHANGED <<tracked, alive>>
         PROVE  NoStrayChild'
  BY <1>away
<1>m. \A from, to : Move(from, to) => pc = from /\ pc' = to /\ UNCHANGED <<tracked, alive>>
  BY DEF Move, childVars
<1>r. \A from, to, kind, c : Record(from, to, kind, c) =>
         pc = from /\ pc' = to /\ UNCHANGED <<tracked, alive>>
  BY DEF Record, childVars
<1>1. CASE Connect \/ Deny \/ Wait \/ Request \/ RecordDecision \/ Start \/ Answer
              \/ EmitCancelled \/ StreamCompleted
  BY <1>1, <1>r, <1>away DEF Connect, Deny, Wait, Request, RecordDecision, Start, Answer,
                             EmitCancelled, StreamCompleted
<1>2. CASE Tell \/ SpawnFails \/ McpRefused \/ McpQueue \/ McpReturns
              \/ McpCancelled \/ SendRefused \/ SubmitRefused \/ BadStatus
              \/ BodyRead \/ SaveContinuation
  BY <1>2, <1>m, <1>away
     DEF Tell, SpawnFails, McpRefused, McpQueue, McpReturns, McpCancelled, McpLeaves,
         BadStatus, BodyRead, SendRefused, SubmitRefused, SaveContinuation
<1>3. CASE Gate
  <2>1. todo # <<>>
    BY <1>3 DEF Gate, Move, TypeOK
  <2>2. Outcome(Call) \in Outcomes
    BY <2>1, CallType, CallsAssumption DEF Outcome, Outcomes, TypeOK
  <2>3. Route(Call) # "shell"
    BY <2>2 DEF Route, Outcomes
  <2> QED
    BY <1>3, <1>m, <1>away, <2>3 DEF Gate
<1>4. CASE StreamCancelled \/ StreamError \/ Close \/ Fail
              \/ \E c \in Calls : StreamToolCall(c)
  BY <1>4, <1>away DEF StreamCancelled, StreamError, StreamEnds, StreamToolCall, Close,
                       Fail, Return, childVars
<1>5. CASE BeginTurn \/ SendAccepted \/ SubmitResults \/ NextCall \/ StopRound
              \/ AutoAnswer \/ CancelDenies
              \/ \E a \in {"approved", "denied"} : UserAnswers(a)
  BY <1>5, <1>away DEF BeginTurn, SendAccepted, SubmitResults, Open, NextCall, StopRound,
                       AutoAnswer, CancelDenies, UserAnswers, Decide, childVars
<1>6. CASE RunFile \/ McpDeliver
  BY <1>6, <1>away DEF RunFile, McpDeliver, Begin, childVars
<1>7. CASE SpawnShell
  BY <1>7 DEF SpawnShell, Begin, roundVars
<1>8. CASE ShellCancelled \/ ShellDone
  BY <1>8 DEF ShellCancelled, ShellDone, ReleaseShell
<1>9. CASE Submit \/ Restart \/ \E m \in Modes, f \in Failures : SetMode(m, f)
  BY <1>9, <1>away DEF Submit, Restart, SetMode, childVars
<1>10. CASE Cancel
  BY <1>10 DEF Cancel, roundVars
<1>11. CASE RunKillTask
  BY <1>11 DEF RunKillTask, KillTracked, roundVars
<1>12. CASE \E c \in Calls : ChildExits(c)
  BY <1>12 DEF ChildExits, roundVars
<1>13. CASE StopChildren \/ OutputBreaks
  BY <1>13 DEF StopChildren, OutputBreaks, Abort, KillTracked
<1>14. CASE StoreFails
  BY <1>14, <1>away DEF StoreFails, EventFails, RowFails, Abort, childVars
<1>15. CASE Crash
  BY <1>15 DEF Crash
<1>16. CASE UNCHANGED vars
  BY <1>16 DEF vars, roundVars, childVars
<1> QED
  BY <1>1, <1>2, <1>3, <1>4, <1>5, <1>6, <1>7, <1>8, <1>9, <1>10, <1>11, <1>12, <1>13,
     <1>14, <1>15, <1>16
     DEF Next, AgentStep, AdapterStep, UserStep, WorldStep

(* No child is left behind: NoStrayChild holds however a turn ends, and a     *)
(* kill task that runs late finds nothing of an earlier turn.                 *)
THEOREM NoChildLeftBehind == Spec => []NoStrayChild
<1>1. Init => NoStrayChild
  BY DEF Init, NoStrayChild
<1>2. TypeOK /\ NoStrayChild /\ [Next]_vars => NoStrayChild'
  BY ChildNext
<1> QED
  BY <1>1, <1>2, TypeCorrect, PTL DEF Spec

-------------------------------------------------------------------------------
(* The gate *)

\* NativeTools opens up exactly in full_access mode.
Authority == toolsFull = FullFor(phase, approval)

\* Where the current call has passed the first checks, and where it has passed
\* them all.
AskingPlaces  == {"waiting", "requesting", "asking", "deciding"}
ClearedPlaces == {"starting", "exec", "mcp"}

Admitted == ~Refused(Call)

Approved(c) ==
    \E e \in events : e.kind = "approved" /\ e.call = c /\ e.turn = turn

Cleared ==
    /\ pc \in AskingPlaces => Admitted /\ Outcome(Call) = "ask"
    /\ pc \in ClearedPlaces =>
          /\ Admitted
          /\ \/ Outcome(Call) = "allow"
             \/ Outcome(Call) = "ask" /\ Approved(Call)

GateInv == Authority /\ Cleared /\ Gated

LEMMA LogKeeps ==
    ASSUME TypeOK, [Next]_vars
    PROVE  events \subseteq events'
<1>1. Quiet \/ Burns \/ Writes \/ Modal \/ Restart
  BY LogStep
<1>2. CASE Modal
  BY <1>2, ModalRows DEF Quiet, Burns
<1>3. CASE Restart
  BY <1>3 DEF Restart
<1> QED
  BY <1>1, <1>2, <1>3 DEF Quiet, Burns, Writes, Emit

\* What an approval recorded, stays recorded.
LEMMA GatedKeeps ==
    ASSUME Gated, executed' = executed, events \subseteq events'
    PROVE  Gated'
BY DEF Gated

\* A step that leaves the modes alone and ends away from the gate.
LEMMA AwayKeeps ==
    ASSUME GateInv, events \subseteq events', UNCHANGED <<sessionVars, executed>>,
           pc' \notin AskingPlaces \cup ClearedPlaces
    PROVE  GateInv'
<1>1. Gated'
  BY GatedKeeps DEF GateInv
<1> QED
  BY <1>1 DEF GateInv, Authority, Cleared, FullFor, sessionVars

\* What the gate thinks of a call depends on the modes alone.
LEMMA VerdictKeeps ==
    ASSUME UNCHANGED <<sessionVars, todo>>
    PROVE  /\ Admitted' = Admitted
           /\ Outcome(Call)' = Outcome(Call)
           /\ Call' = Call
BY DEF sessionVars, Admitted, Refused, Resolves, Outcome, Mode, ModeOf, Call

\* A step that leaves the current call where it is.
LEMMA StillKeeps ==
    ASSUME GateInv, events \subseteq events',
           UNCHANGED <<pc, turn, todo, sessionVars, executed>>
    PROVE  GateInv'
<1>1. Gated'
  BY GatedKeeps DEF GateInv
<1>2. Approved(Call) => Approved(Call)'
  BY VerdictKeeps DEF Approved
<1>3. Cleared'
  BY <1>2, VerdictKeeps DEF GateInv, Cleared
<1> QED
  BY <1>1, <1>3 DEF GateInv, Authority, FullFor, sessionVars

\* A call the gate cleared takes effect as Gated says.
LEMMA EffectGated ==
    ASSUME TypeOK, SeqBelow, GateInv, NEW from, NEW to, Begin(from, to),
           from \in {"exec", "mcp"}, events \subseteq events', to \notin AskingPlaces \cup ClearedPlaces
    PROVE  GateInv'
<1>1. /\ pc \in {"exec", "mcp"} /\ Call \in Calls
      /\ executed' = executed \cup {Effect(Call)}
      /\ UNCHANGED sessionVars
  BY CallType DEF Begin, TypeOK
<1>2. /\ Admitted
      /\ \/ Outcome(Call) = "allow"
         \/ Outcome(Call) = "ask" /\ Approved(Call)
  BY <1>1 DEF GateInv, Cleared, ClearedPlaces
<1> DEFINE x == Effect(Call)
<1>3. x.call = Call /\ x.turn = turn /\ x.mode = Mode /\ x.at = nextSeq
  BY DEF Effect
<1>4. x.mode = "planning" => Tool[x.call] = "file_read"
  BY <1>2, <1>3 DEF Mode, ModeOf, Admitted, Refused
<1>5. ASSUME x.mode # "full_access"
      PROVE  /\ Policy[x.call] # "deny"
             /\ Target[x.call] = "inside"
             /\ Policy[x.call] = "ask" =>
                   \E e \in events : /\ e.kind = "approved"
                                     /\ e.call = x.call /\ e.turn = x.turn
                                     /\ e.seq < x.at
  <2>1. Outcome(Call) = Policy[Call]
    BY <1>3, <1>5 DEF Outcome
  <2>2. ~toolsFull
    BY <1>3, <1>5 DEF GateInv, Authority, FullFor, Mode, ModeOf, TypeOK, Phases, Approvals
  <2>3. Target[Call] = "inside"
    BY <1>2, <2>2 DEF Admitted, Refused, Resolves
  <2> QED
    BY <1>2, <1>3, <2>1, <2>3 DEF Approved, SeqBelow
<1>6. Gated'
  <2> HIDE DEF x
  <2>1. executed' = executed \cup {x}
    BY <1>1 DEF x
  <2> QED
    BY <1>4, <1>5, <2>1 DEF GateInv, Gated
<1>7. pc' = to
  BY DEF Begin
<1> QED
  BY <1>1, <1>6, <1>7 DEF GateInv, Authority, Cleared, FullFor, sessionVars

LEMMA GateNext == TypeOK /\ SeqBelow /\ GateInv /\ [Next]_vars => GateInv'
<1> SUFFICES ASSUME TypeOK, SeqBelow, GateInv, [Next]_vars PROVE GateInv'
  OBVIOUS
<1> USE DEF AskingPlaces, ClearedPlaces
<1>log. events \subseteq events'
  BY LogKeeps
<1>m. \A from, to : Move(from, to) =>
         pc = from /\ pc' = to /\ UNCHANGED <<turn, todo, verdict, sessionVars, executed>>
  BY DEF Move, roundVars, ghostVars
<1>r. \A from, to, kind, c : Record(from, to, kind, c) =>
         pc = from /\ pc' = to /\ UNCHANGED <<turn, todo, verdict, sessionVars, executed>>
  BY DEF Record, roundVars, ghostVars
<1>1. CASE Connect \/ Deny \/ Answer \/ EmitCancelled \/ StreamCompleted
  BY <1>1, <1>r, <1>log, AwayKeeps
     DEF Connect, Deny, Answer, EmitCancelled, StreamCompleted
<1>2. CASE Tell \/ SpawnFails \/ McpRefused \/ McpReturns
              \/ McpCancelled \/ SendRefused \/ SubmitRefused \/ BadStatus
              \/ BodyRead \/ SaveContinuation
  BY <1>2, <1>m, <1>log, AwayKeeps
     DEF Tell, SpawnFails, McpRefused, McpReturns, McpCancelled, McpLeaves, BadStatus,
         BodyRead, SendRefused, SubmitRefused, SaveContinuation
<1>3. CASE StreamCancelled \/ StreamError \/ Close \/ Fail
              \/ \E c \in Calls : StreamToolCall(c)
  BY <1>3, <1>log, AwayKeeps
     DEF StreamCancelled, StreamError, StreamEnds, StreamToolCall, Close, Fail, Return,
         ghostVars
<1>4. CASE BeginTurn \/ SendAccepted \/ SubmitResults \/ NextCall \/ StopRound
              \/ StopChildren \/ ShellCancelled \/ ShellDone \/ Submit
  BY <1>4, <1>log, AwayKeeps
     DEF BeginTurn, SendAccepted, SubmitResults, Open, NextCall, StopRound, StopChildren,
         ShellCancelled, ShellDone, ReleaseShell, Submit, ghostVars
<1>5. CASE OutputBreaks \/ StoreFails \/ Crash
  BY <1>5, <1>log, AwayKeeps DEF OutputBreaks, StoreFails, EventFails, RowFails, Abort, Crash
<1>6. CASE Cancel \/ RunKillTask \/ UNCHANGED vars \/ \E c \in Calls : ChildExits(c)
  BY <1>6, <1>log, StillKeeps
     DEF Cancel, RunKillTask, ChildExits, vars, roundVars, ghostVars
\* The steps through the gate: none of them changes the call or the modes.
<1>7. ASSUME UNCHANGED <<turn, todo, sessionVars, executed>>
      PROVE  /\ GateInv' <=> Cleared'
             /\ Admitted' = Admitted
             /\ Outcome(Call)' = Outcome(Call)
             /\ Call' = Call
             /\ Approved(Call) => Approved(Call)'
  <2>1. Gated' /\ Authority'
    BY <1>7, <1>log, GatedKeeps DEF GateInv, Authority, FullFor, sessionVars
  <2>2. Admitted' = Admitted /\ Outcome(Call)' = Outcome(Call) /\ Call' = Call
    BY <1>7, VerdictKeeps
  <2>3. Approved(Call) => Approved(Call)'
    BY <1>7, <1>log, <2>2 DEF Approved
  <2> QED
    BY <2>1, <2>2, <2>3 DEF GateInv
<1>8. CASE Gate
  <2>1. /\ pc' = Route(Call)
        /\ UNCHANGED <<turn, todo, sessionVars, executed>>
    BY <1>8, <1>m DEF Gate
  <2>2. Outcome(Call) \in Outcomes
    <3>1. pc = "gate"
      BY <1>8, <1>m DEF Gate
    <3> QED
      BY <3>1, CallType, CallsAssumption DEF Outcome, Outcomes, TypeOK
  <2>3. /\ Route(Call) \in AskingPlaces => Admitted /\ Outcome(Call) = "ask"
        /\ Route(Call) \in ClearedPlaces => Admitted /\ Outcome(Call) = "allow"
    BY <2>2 DEF Route, Outcomes, Admitted
  <2> QED
    BY <1>7, <2>1, <2>3 DEF Cleared
<1>9. CASE Wait \/ Request
  <2>1. /\ pc \in AskingPlaces /\ pc' \in AskingPlaces
        /\ UNCHANGED <<turn, todo, sessionVars, executed>>
    BY <1>9, <1>r DEF Wait, Request
  <2> QED
    BY <1>7, <2>1 DEF GateInv, Cleared
<1>10. CASE AutoAnswer \/ CancelDenies \/ \E a \in {"approved", "denied"} : UserAnswers(a)
  <2>1. /\ pc \in AskingPlaces /\ pc' \in AskingPlaces
        /\ UNCHANGED <<turn, todo, sessionVars, executed>>
    BY <1>10 DEF AutoAnswer, CancelDenies, UserAnswers, Decide, ghostVars
  <2> QED
    BY <1>7, <2>1 DEF GateInv, Cleared
<1>11. CASE RecordDecision
  <2>1. /\ pc = "deciding"
        /\ pc' = IF verdict = "approved" THEN "starting" ELSE "result"
        /\ Emit(verdict, Call)
        /\ UNCHANGED <<turn, todo, sessionVars, executed>>
    BY <1>11 DEF RecordDecision, Record, roundVars, ghostVars
  <2>2. Admitted /\ Outcome(Call) = "ask"
    BY <2>1 DEF GateInv, Cleared
  <2>3. ASSUME verdict = "approved"
        PROVE  Approved(Call)'
    <3>1. [seq |-> nextSeq, turn |-> turn, kind |-> "approved", call |-> Call] \in events'
      BY <2>1, <2>3 DEF Emit, Row
    <3>2. Call' = Call /\ turn' = turn
      BY <1>7, <2>1
    <3>3. \E e \in events' : e.kind = "approved" /\ e.call = Call /\ e.turn = turn
      BY <3>1
    <3> QED
      BY <3>2, <3>3 DEF Approved
  <2> QED
    BY <1>7, <2>1, <2>2, <2>3 DEF Cleared
<1>12. CASE Start \/ McpQueue
  <2>1. /\ pc \in ClearedPlaces /\ pc' \in ClearedPlaces
        /\ UNCHANGED <<turn, todo, sessionVars, executed>>
    BY <1>12, <1>m, <1>r DEF Start, McpQueue
  <2> QED
    BY <1>7, <2>1 DEF GateInv, Cleared
<1>13. CASE RunFile \/ SpawnShell \/ McpDeliver
  BY <1>13, <1>log, EffectGated DEF RunFile, SpawnShell, McpDeliver
<1>14. CASE Restart
  BY <1>14, <1>log, GatedKeeps DEF Restart, GateInv, Authority, Cleared, FullFor, ghostVars
<1>15. ASSUME NEW m \in Modes, NEW f \in Failures, SetMode(m, f)
       PROVE  GateInv'
  <2>1. /\ pc = "idle" /\ pc' = pc /\ executed' = executed
        /\ \/ UNCHANGED sessionVars
           \/ toolsFull' = FullFor(PhaseOf(m), approval) /\ phase' = PhaseOf(m)
                 /\ approval' = approval
           \/ toolsFull' = FullFor(PhaseOf(m), ApprovalOf(m)) /\ phase' = PhaseOf(m)
                 /\ approval' = ApprovalOf(m)
    BY <1>15 DEF SetMode, ghostVars
  <2>2. Authority'
    BY <2>1 DEF GateInv, Authority, FullFor, sessionVars
  <2> QED
    BY <1>log, <2>1, <2>2, GatedKeeps DEF GateInv, Cleared
<1> QED
  BY <1>1, <1>2, <1>3, <1>4, <1>5, <1>6, <1>8, <1>9, <1>10, <1>11, <1>12, <1>13, <1>14,
     <1>15
     DEF Next, AgentStep, AdapterStep, UserStep, WorldStep

(* Nothing runs without its permission: Gated, for every set of calls, every   *)
(* policy and every interleaving with cancellations, failures and crashes.    *)
THEOREM NothingRunsUngated == Spec => []Gated
<1>1. Init => SeqBelow /\ GateInv
  BY DEF Init, SeqBelow, GateInv, Authority, Cleared, AskingPlaces, ClearedPlaces, Gated
<1>2. TypeOK /\ LogInv /\ GateInv /\ [Next]_vars => GateInv'
  BY GateNext DEF LogInv
<1>3. Init => LogInv
  BY DEF Init, LogInv, SeqBelow, TurnsBelow, LogOrdered
<1>4. TypeOK /\ LogInv /\ [Next]_vars => LogInv'
  BY LogNext
<1>5. GateInv => Gated
  BY DEF GateInv
<1> QED
  BY <1>1, <1>2, <1>3, <1>4, <1>5, TypeCorrect, PTL DEF Spec
-------------------------------------------------------------------------------
(* Late effects *)

\* Where a call that took effect late may still be, and where its turn is over
\* or can only end.
HeldPlaces == {"shell", "remote", "result", "check"}
OverPlaces == {"cancelling", "stopping", "saving", "closing", "idle", "down"}

\* A late effect pins the turn: its call stays the current one until the token
\* is looked at, and from there no other call begins.
Pinned ==
    \A x \in executed :
       x.late /\ x.turn = turn =>
          \/ pc \in HeldPlaces /\ cancelled /\ x.call = Call
          \/ pc \in OverPlaces

LateInv == /\ \A x \in executed : x.turn <= turn
           /\ Pinned
           /\ OneLateEffect

LEMMA LateAway ==
    ASSUME LateInv, UNCHANGED <<turn, executed>>, pc \notin HeldPlaces \cup OverPlaces
    PROVE  LateInv'
BY DEF LateInv, Pinned, OneLateEffect

LEMMA LateOver ==
    ASSUME LateInv, UNCHANGED <<turn, executed>>, pc' \in OverPlaces
    PROVE  LateInv'
BY DEF LateInv, Pinned, OneLateEffect

LEMMA LateStays ==
    ASSUME LateInv, UNCHANGED <<turn, todo, executed>>, cancelled => cancelled',
           \/ pc' = pc
           \/ pc \in HeldPlaces /\ pc' \in HeldPlaces
    PROVE  LateInv'
BY DEF LateInv, Pinned, OneLateEffect, Call, HeldPlaces, OverPlaces

LEMMA LateBegins ==
    ASSUME TypeOK, LateInv, NEW from \in {"exec", "mcp"},
           NEW to \in {"shell", "remote", "result"}, Begin(from, to),
           cancelled' = cancelled
    PROVE  LateInv'
<1>1. /\ pc \in {"exec", "mcp"} /\ pc' = to /\ Call' = Call /\ turn' = turn
      /\ executed' = executed \cup {Effect(Call)}
  BY DEF Begin, roundVars, Call
<1> DEFINE x == Effect(Call)
<1>2. x.call = Call /\ x.turn = turn /\ x.late = cancelled
  BY DEF Effect
<1>3. \A y \in executed : ~(y.late /\ y.turn = turn)
  BY <1>1 DEF LateInv, Pinned, HeldPlaces, OverPlaces
<1>4. turn \in Nat
  BY DEF TypeOK
<1> HIDE DEF x
<1>5. executed' = executed \cup {x}
  BY <1>1 DEF x
<1>6. OneLateEffect'
  BY <1>2, <1>3, <1>5 DEF LateInv, OneLateEffect
<1>7. Pinned'
  BY <1>1, <1>2, <1>3, <1>5 DEF Pinned, HeldPlaces
<1> QED
  BY <1>1, <1>2, <1>4, <1>5, <1>6, <1>7 DEF LateInv

LEMMA LateNext == TypeOK /\ LateInv /\ [Next]_vars => LateInv'
<1> SUFFICES ASSUME TypeOK, LateInv, [Next]_vars PROVE LateInv'
  OBVIOUS
<1> USE DEF HeldPlaces, OverPlaces
<1>m. \A from, to : Move(from, to) =>
         pc = from /\ pc' = to /\ UNCHANGED <<turn, todo, executed, cancelled>>
  BY DEF Move, roundVars, ghostVars, childVars
<1>r. \A from, to, kind, c : Record(from, to, kind, c) =>
         pc = from /\ pc' = to /\ UNCHANGED <<turn, todo, executed, cancelled>>
  BY DEF Record, roundVars, ghostVars, childVars
<1>1. CASE Connect \/ Deny \/ Wait \/ Request \/ RecordDecision \/ Start \/ StreamCompleted
  BY <1>1, <1>r, LateAway
     DEF Connect, Deny, Wait, Request, RecordDecision, Start, StreamCompleted
<1>2. CASE Tell \/ Gate \/ SpawnFails \/ McpRefused \/ McpQueue \/ SendRefused
              \/ SubmitRefused \/ BadStatus \/ BodyRead
  BY <1>2, <1>m, LateAway
     DEF Tell, Gate, SpawnFails, McpRefused, McpQueue, SendRefused, SubmitRefused,
         BadStatus, BodyRead
<1>12. CASE McpReturns \/ McpCancelled
  BY <1>12, <1>m, LateAway, LateStays DEF McpReturns, McpCancelled, McpLeaves
<1>3. CASE StreamCancelled \/ StreamError \/ Fail \/ \E c \in Calls : StreamToolCall(c)
  BY <1>3, LateAway
     DEF StreamCancelled, StreamError, StreamEnds, StreamToolCall, Fail, Return, ghostVars
<1>4. CASE BeginTurn \/ SendAccepted \/ SubmitResults \/ AutoAnswer \/ CancelDenies
              \/ \E a \in {"approved", "denied"} : UserAnswers(a)
  BY <1>4, LateAway
     DEF BeginTurn, SendAccepted, SubmitResults, Open, AutoAnswer, CancelDenies,
         UserAnswers, Decide, ghostVars
<1>5. CASE Answer \/ ShellCancelled \/ ShellDone
  BY <1>5, <1>r, LateStays
     DEF Answer, ShellCancelled, ShellDone, ReleaseShell, roundVars, ghostVars
<1>6. CASE Cancel \/ RunKillTask \/ UNCHANGED vars \/ \E c \in Calls : ChildExits(c)
  BY <1>6, LateStays
     DEF Cancel, RunKillTask, ChildExits, vars, roundVars, childVars, ghostVars
<1>7. CASE EmitCancelled \/ SaveContinuation
  BY <1>7, <1>m, <1>r, LateOver DEF EmitCancelled, SaveContinuation
<1>8. CASE StopRound \/ StopChildren \/ Close \/ OutputBreaks \/ StoreFails \/ Crash
              \/ Restart \/ \E m \in Modes, f \in Failures : SetMode(m, f)
  BY <1>8, LateOver
     DEF StopRound, StopChildren, Close, Return, OutputBreaks, StoreFails, EventFails, RowFails, Abort, Crash,
         Restart, SetMode, roundVars, ghostVars
<1>9. CASE RunFile \/ SpawnShell \/ McpDeliver
  BY <1>9, LateBegins DEF RunFile, SpawnShell, McpDeliver, childVars
\* The token is looked at between two calls: with a late effect it was set.
<1>10. CASE NextCall
  BY <1>10 DEF NextCall, LateInv, Pinned, OneLateEffect, ghostVars
\* A new turn has no effect yet.
<1>11. CASE Submit
  <2>1. turn' = turn + 1 /\ executed' = executed
    BY <1>11 DEF Submit, ghostVars
  <2>2. turn \in Nat /\ \A x \in executed : x.turn \in Nat
    BY DEF TypeOK, Effects
  <2> QED
    BY <2>1, <2>2 DEF LateInv, Pinned, OneLateEffect
<1> QED
  BY <1>1, <1>2, <1>3, <1>4, <1>5, <1>6, <1>7, <1>8, <1>9, <1>10, <1>11,
     <1>12
     DEF Next, AgentStep, AdapterStep, UserStep, WorldStep

(* A cancellation lets one call through at most: OneLateEffect, for every set *)
(* of calls and every interleaving of the token with the gate, the children   *)
(* and the failures.                                                          *)
THEOREM CancelledLetsOneThrough == Spec => []OneLateEffect
<1>1. Init => LateInv
  BY DEF Init, LateInv, Pinned, OneLateEffect
<1>2. TypeOK /\ LateInv /\ [Next]_vars => LateInv'
  BY LateNext
<1>3. LateInv => OneLateEffect
  BY DEF LateInv
<1> QED
  BY <1>1, <1>2, <1>3, TypeCorrect, PTL DEF Spec
-------------------------------------------------------------------------------
(* Answered calls *)

Answered(e) == \E r \in events : /\ r.kind = "tool_result"
                                 /\ r.call = e.call /\ r.turn = e.turn
                                 /\ e.seq < r.seq

Resting == {"idle", "down"}
\* The places the invariant says more about.
Marked == {"check", "submitting", "saving", "closing", "cancelling", "stopping"}

\* A call of the running turn is answered or still to be handled; at "check"
\* the current one is both.
Pursued ==
    /\ pc \notin Resting =>
          \A e \in events : e.kind = "tool_call" /\ e.turn = turn =>
             Answered(e) \/ \E i \in 1 .. Len(todo) : todo[i] = e.call
    /\ pc = "check" =>
          \A e \in events : e.kind = "tool_call" /\ e.turn = turn /\ e.call = Call =>
             Answered(e)

\* A turn that ends as completed has nothing left to handle.
Emptied ==
    /\ pc = "submitting" => todo = <<>>
    /\ pc \in {"saving", "closing"} /\ status = "completed" => todo = <<>>
    /\ pc \in {"cancelling", "stopping"} => status = "cancelled"

\* The final status is the last event of its turn.
NotFinished ==
    pc \notin Resting => \A f \in events : f.kind = "finished" => f.turn # turn

AnswerInv == Pursued /\ Emptied /\ NotFinished /\ FinishedMeansAnswered

\* A step that writes no call and no end of a turn.
Plain == /\ events \subseteq events'
         /\ \A e \in events' : e \in events \/ e.kind \notin {"tool_call", "finished"}

LEMMA EmitPlain ==
    ASSUME NEW kind, NEW c, Emit(kind, c), kind \notin {"tool_call", "finished"}
    PROVE  Plain
BY DEF Emit, Row, Plain

LEMMA SetModePlain ==
    ASSUME TypeOK, Modal
    PROVE  Plain
BY ModalRows DEF Quiet, Burns, Row, Plain

LEMMA PlainKeeps ==
    ASSUME AnswerInv, Plain, turn' = turn
    PROVE  /\ FinishedMeansAnswered'
           /\ \A e \in events : Answered(e) => Answered(e)'
           /\ \A e \in events' : e.kind = "tool_call" => e \in events
           /\ pc \notin Resting => \A f \in events' : f.kind = "finished" => f.turn # turn
<1>1. \A e \in events : Answered(e) => Answered(e)'
  BY DEF Plain, Answered
<1>2. FinishedMeansAnswered'
  BY DEF Plain, AnswerInv, FinishedMeansAnswered
<1> QED
  BY <1>1, <1>2 DEF Plain, AnswerInv, NotFinished

\* Three shapes of plain steps: the turn stays, moves on, or is over.
LEMMA AnswerStays ==
    ASSUME AnswerInv, Plain, UNCHANGED <<pc, turn, todo, status>>
    PROVE  AnswerInv'
<1>1. Pursued'
  BY PlainKeeps DEF AnswerInv, Pursued, Call
<1> QED
  BY <1>1, PlainKeeps DEF AnswerInv, Emptied, NotFinished

LEMMA AnswerMoves ==
    ASSUME AnswerInv, Plain, UNCHANGED <<turn, todo>>,
           pc \notin Resting, pc' \notin Marked \cup Resting
    PROVE  AnswerInv'
<1>1. Pursued'
  BY PlainKeeps DEF AnswerInv, Pursued, Marked
<1> QED
  BY <1>1, PlainKeeps DEF AnswerInv, Emptied, NotFinished, Marked

LEMMA AnswerEnds ==
    ASSUME AnswerInv, Plain, turn' = turn, pc' \in Resting
    PROVE  AnswerInv'
BY PlainKeeps DEF AnswerInv, Pursued, Emptied, NotFinished, Resting

\* A step that only looks at the end of the round.
LEMMA AnswerMarks ==
    ASSUME AnswerInv, Plain, UNCHANGED <<turn, todo>>,
           pc \notin Resting, pc' \in Marked \ {"check", "submitting"},
           pc' \in {"saving", "closing"} /\ status' = "completed" => todo = <<>>,
           pc' \in {"cancelling", "stopping"} => status' = "cancelled"
    PROVE  AnswerInv'
<1>1. Pursued'
  BY PlainKeeps DEF AnswerInv, Pursued, Marked
<1> QED
  BY <1>1, PlainKeeps DEF AnswerInv, Emptied, NotFinished, Marked, Resting

LEMMA AnswerNext == TypeOK /\ SeqBelow /\ TurnsBelow /\ AnswerInv /\ [Next]_vars => AnswerInv'
<1> SUFFICES ASSUME TypeOK, SeqBelow, TurnsBelow, AnswerInv, [Next]_vars
             PROVE  AnswerInv'
  OBVIOUS
<1> USE DEF Resting, Marked
<1>q. events' = events => Plain
  BY DEF Plain
<1>m. \A from, to : Move(from, to) =>
         pc = from /\ pc' = to /\ UNCHANGED <<turn, todo, status>> /\ Plain
  BY <1>q DEF Move, roundVars, logVars
<1>r. \A from, to, kind, c : Record(from, to, kind, c) =>
         /\ pc = from /\ pc' = to /\ UNCHANGED <<turn, todo, status>>
         /\ Emit(kind, c)
         /\ kind \notin {"tool_call", "finished"} => Plain
  BY EmitPlain DEF Record, roundVars
<1>1. CASE Connect \/ Deny \/ Wait \/ Request \/ Start
  BY <1>1, <1>r, AnswerMoves DEF Connect, Deny, Wait, Request, Start
<1>2. CASE RecordDecision
  <2>1. pc = "deciding" /\ verdict \in {"approved", "denied"}
    BY <1>2, <1>r DEF RecordDecision, TypeOK
  <2> QED
    BY <1>2, <1>r, <2>1, AnswerMoves DEF RecordDecision
<1>3. CASE Tell \/ SpawnFails \/ McpRefused \/ McpQueue \/ McpReturns
              \/ McpCancelled \/ SendRefused \/ SubmitRefused \/ BadStatus \/ BodyRead
  BY <1>3, <1>m, AnswerMoves
     DEF Tell, SpawnFails, McpRefused, McpQueue, McpReturns, McpCancelled, McpLeaves,
         BadStatus, BodyRead, SendRefused, SubmitRefused
<1>4. CASE Gate
  <2>1. pc = "gate" /\ todo # <<>>
    BY <1>4, <1>m DEF Gate, TypeOK
  <2>2. Outcome(Call) \in Outcomes
    BY <2>1, CallType, CallsAssumption DEF Outcome, Outcomes, TypeOK
  <2>3. Route(Call) \notin Marked \cup Resting
    BY <2>2 DEF Route, Outcomes
  <2> QED
    BY <1>4, <1>m, <2>1, <2>3, AnswerMoves DEF Gate
<1>5. CASE BeginTurn \/ SendAccepted \/ SubmitResults \/ AutoAnswer \/ CancelDenies
              \/ \E a \in {"approved", "denied"} : UserAnswers(a)
  BY <1>5, <1>q, AnswerMoves
     DEF BeginTurn, SendAccepted, SubmitResults, Open, AutoAnswer, CancelDenies,
         UserAnswers, Decide, logVars
<1>6. CASE RunFile \/ SpawnShell \/ McpDeliver \/ ShellCancelled \/ ShellDone
  BY <1>6, <1>q, AnswerMoves
     DEF RunFile, SpawnShell, McpDeliver, Begin, ShellCancelled, ShellDone, ReleaseShell,
         roundVars, logVars
<1>7. CASE Cancel \/ RunKillTask \/ UNCHANGED vars \/ \E c \in Calls : ChildExits(c)
  BY <1>7, <1>q, AnswerStays
     DEF Cancel, RunKillTask, ChildExits, vars, roundVars, logVars
<1>8. CASE Modal
  BY <1>8, SetModePlain, AnswerStays DEF Modal, SetMode, roundVars
\* A turn recorded as finished: everything was answered.
<1>20. ASSUME pc = "closing", pc' = "idle", turn' = turn, Emit(FinalKind, NoCall)
       PROVE  AnswerInv'
  <2> DEFINE x == Row(nextSeq, FinalKind, NoCall)
  <2>1. /\ pc = "closing" /\ pc' = "idle" /\ turn' = turn
        /\ events' = events \cup {x}
    BY <1>20 DEF Emit
  <2>2. x.kind = FinalKind /\ x.turn = turn /\ x.seq = nextSeq
    BY DEF Row
  <2>3. /\ FinalKind \in {"finished", "idle_status", "failed_status"}
        /\ FinalKind = "finished" => status = "completed"
    BY DEF FinalKind, TypeOK, Statuses
  <2> HIDE DEF x
  <2>4. FinishedMeansAnswered'
    <3>1. SUFFICES ASSUME NEW f \in events', NEW e \in events',
                          f.kind = "finished", e.kind = "tool_call", e.turn = f.turn
                   PROVE  \E r \in events' : /\ r.kind = "tool_result"
                                             /\ r.call = e.call /\ r.turn = e.turn
                                             /\ e.seq < r.seq /\ r.seq < f.seq
      BY DEF FinishedMeansAnswered
    <3>2. e \in events
      BY <2>1, <2>2, <2>3, <3>1
    <3>3. CASE f \in events
      BY <2>1, <3>1, <3>2, <3>3 DEF AnswerInv, FinishedMeansAnswered
    <3>4. CASE f = x
      <4>1. todo = <<>>
        BY <2>1, <2>2, <2>3, <3>1, <3>4 DEF AnswerInv, Emptied
      <4>2. Answered(e)
        BY <2>1, <2>2, <3>1, <3>2, <3>4, <4>1 DEF AnswerInv, Pursued
      <4>3. PICK r \in events : /\ r.kind = "tool_result"
                                /\ r.call = e.call /\ r.turn = e.turn /\ e.seq < r.seq
        BY <4>2 DEF Answered
      <4> QED
        BY <2>1, <2>2, <3>4, <4>3 DEF SeqBelow
    <3> QED
      BY <2>1, <3>3, <3>4
  <2> QED
    BY <2>1, <2>4 DEF AnswerInv, Pursued, Emptied, NotFinished
<1>9. CASE OutputBreaks \/ RowFails \/ Crash \/ Restart
  BY <1>9, <1>q, AnswerEnds
     DEF OutputBreaks, RowFails, Abort, Crash, Restart, roundVars, logVars
<1>19. CASE EventFails
  <2>1. pc' = "idle" /\ turn' = turn /\ pc \notin Resting
    BY <1>19 DEF EventFails, Abort
  <2>2. CASE events' = events
    BY <1>q, <2>1, <2>2, AnswerEnds
  <2>3. ASSUME NEW due \in Due, Emit(due[1], due[2]), due[1] \notin {"tool_call", "finished"}
        PROVE  AnswerInv'
    BY <2>1, <2>3, EmitPlain, AnswerEnds
  <2>4. ASSUME NEW c \in Calls, Emit("tool_call", c)
        PROVE  AnswerInv'
    <3> DEFINE x == Row(nextSeq, "tool_call", c)
    <3>1. events' = events \cup {x} /\ x.kind = "tool_call" /\ x.turn = turn
      BY <2>4 DEF Emit, Row
    <3> HIDE DEF x
    <3>2. \A f \in events : f.kind = "finished" => f.turn # turn
      BY <2>1 DEF AnswerInv, NotFinished
    <3>3. FinishedMeansAnswered'
      BY <3>1, <3>2 DEF AnswerInv, FinishedMeansAnswered
    <3> QED
      BY <2>1, <3>3 DEF AnswerInv, Pursued, Emptied, NotFinished
  <2>5. ASSUME NEW due \in Due, Emit(due[1], due[2]), due[1] \in {"tool_call", "finished"}
        PROVE  AnswerInv'
    <3>1. CASE due[1] = "tool_call"
      <4>1. due[2] \in Calls
        BY <2>5, <3>1, <1>19 DEF Due, FinalKind, EventFails, TypeOK, Statuses
      <4> QED
        BY <2>4, <2>5, <3>1, <4>1
    <3>2. CASE due[1] = "finished"
      <4>1. pc = "closing" /\ FinalKind = "finished" /\ due[2] = NoCall
        BY <2>5, <3>2, <1>19 DEF Due, EventFails, TypeOK
      <4> QED
        BY <2>1, <2>5, <3>2, <4>1, <1>20
    <3> QED
      BY <2>5, <3>1, <3>2
  <2> QED
    BY <1>19, <2>2, <2>3, <2>5 DEF EventFails
<1>10. CASE Fail
  <2>1. Emit("error", NoCall) /\ pc' = "idle" /\ turn' = turn
    BY <1>10 DEF Fail, Return
  <2> QED
    BY <2>1, EmitPlain, AnswerEnds
\* The end of a round and of a turn.
<1>11. CASE EmitCancelled \/ StopRound \/ StopChildren \/ SaveContinuation
  BY <1>11, <1>q, <1>m, <1>r, AnswerMarks
     DEF EmitCancelled, StopRound, StopChildren, SaveContinuation, roundVars, logVars,
         AnswerInv, Emptied
<1>12. CASE StreamCancelled \/ StreamError
  <2>1. /\ pc = "streaming" /\ UNCHANGED <<turn, todo>>
        /\ \/ pc' = "stopping" /\ status' = "cancelled"
           \/ pc' = "saving" /\ status' = "failed"
    BY <1>12 DEF StreamCancelled, StreamError, StreamEnds
  <2>2. Plain
    BY <1>12, EmitPlain DEF StreamCancelled, StreamError, StreamEnds
  <2> QED
    BY <2>1, <2>2, AnswerMarks
<1>13. CASE StreamCompleted
  <2>1. Plain /\ UNCHANGED <<turn, todo, status>> /\ pc = "streaming"
    BY <1>13, <1>r DEF StreamCompleted
  <2>2. pc' = IF todo = <<>> THEN "saving" ELSE "gate"
    BY <1>13, <1>r DEF StreamCompleted
  <2>3. CASE todo = <<>>
    BY <2>1, <2>2, <2>3, AnswerMarks
  <2>4. CASE todo # <<>>
    BY <2>1, <2>2, <2>4, AnswerMoves
  <2> QED
    BY <2>3, <2>4
\* The answer of the current call.
<1>14. CASE Answer
  <2>1. /\ pc = "result" /\ pc' = "check" /\ UNCHANGED <<turn, todo, status>>
        /\ Emit("tool_result", Call) /\ Plain
    BY <1>14, <1>r DEF Answer
  <2>2. Row(nextSeq, "tool_result", Call) \in events'
    BY <2>1 DEF Emit
  <2>3. ASSUME NEW e \in events, e.turn = turn, e.call = Call
        PROVE  Answered(e)'
    <3>1. e.seq < nextSeq
      BY DEF SeqBelow
    <3> QED
      BY <2>1, <2>2, <2>3, <3>1 DEF Answered, Row
  <2>4. Call' = Call
    BY <2>1 DEF Call
  <2>5. Pursued'
    BY <2>1, <2>3, <2>4, PlainKeeps DEF AnswerInv, Pursued
  <2> QED
    BY <2>1, <2>5, PlainKeeps DEF AnswerInv, Emptied, NotFinished
<1>15. CASE NextCall
  <2>1. /\ pc = "check" /\ todo' = Tail(todo) /\ UNCHANGED <<turn, status>> /\ Plain
        /\ events' = events
        /\ pc' = IF Tail(todo) = <<>> THEN "submitting" ELSE "gate"
    BY <1>15, <1>q DEF NextCall, logVars
  <2>2. ASSUME NEW e \in events, e.kind = "tool_call", e.turn = turn
        PROVE  Answered(e) \/ \E i \in 1 .. Len(todo') : todo'[i] = e.call
    <3>1. CASE e.call = Call
      BY <2>1, <2>2, <3>1 DEF AnswerInv, Pursued
    <3>2. CASE e.call # Call /\ ~Answered(e)
      <4>1. PICK i \in 1 .. Len(todo) : todo[i] = e.call
        BY <2>1, <2>2, <3>2 DEF AnswerInv, Pursued
      <4>2. todo \in Seq(Calls) /\ todo # <<>>
        BY <2>1 DEF TypeOK
      <4>3. i # 1
        BY <3>2, <4>1, <4>2 DEF Call
      <4>4. i - 1 \in 1 .. Len(Tail(todo)) /\ Tail(todo)[i - 1] = todo[i]
        BY <4>1, <4>2, <4>3
      <4> QED
        BY <2>1, <4>1, <4>4
    <3> QED
      BY <3>1, <3>2
  <2>3. Pursued'
    BY <2>1, <2>2, PlainKeeps DEF Pursued
  <2> QED
    BY <2>1, <2>3, PlainKeeps DEF AnswerInv, Emptied, NotFinished
<1>16. ASSUME NEW c \in Calls, StreamToolCall(c)
       PROVE  AnswerInv'
  <2> DEFINE x == Row(nextSeq, "tool_call", c)
  <2>1. /\ pc = "streaming" /\ pc' = pc /\ UNCHANGED <<turn, status>>
        /\ todo' = Append(todo, c) /\ events' = events \cup {x}
    BY <1>16 DEF StreamToolCall, Emit
  <2>2. x.kind = "tool_call" /\ x.turn = turn /\ x.call = c
    BY DEF Row
  <2> HIDE DEF x
  <2>3. todo \in Seq(Calls)
    BY DEF TypeOK
  <2>4. /\ todo'[Len(todo) + 1] = c /\ Len(todo') = Len(todo) + 1 /\ Len(todo) \in Nat
        /\ \A i \in 1 .. Len(todo) : todo'[i] = todo[i]
    BY <2>1, <2>3
  <2>5. \A e \in events : Answered(e) => Answered(e)'
    BY <2>1 DEF Answered
  <2>6. ASSUME NEW e \in events', e.kind = "tool_call", e.turn = turn
        PROVE  Answered(e)' \/ \E i \in 1 .. Len(todo') : todo'[i] = e.call
    <3>1. CASE e \in events
      <4>1. Answered(e) \/ \E i \in 1 .. Len(todo) : todo[i] = e.call
        BY <2>1, <2>6, <3>1 DEF AnswerInv, Pursued
      <4> QED
        BY <2>4, <2>5, <3>1, <4>1
    <3>2. CASE e = x
      BY <2>2, <2>4, <3>2
    <3> QED
      BY <2>1, <3>1, <3>2
  <2>7. Pursued'
    BY <2>1, <2>6 DEF Pursued
  <2>8. NotFinished'
    BY <2>1, <2>2 DEF AnswerInv, NotFinished
  <2>9. FinishedMeansAnswered'
    <3>1. SUFFICES ASSUME NEW f \in events', NEW e \in events',
                          f.kind = "finished", e.kind = "tool_call", e.turn = f.turn
                   PROVE  \E r \in events' : /\ r.kind = "tool_result"
                                             /\ r.call = e.call /\ r.turn = e.turn
                                             /\ e.seq < r.seq /\ r.seq < f.seq
      BY DEF FinishedMeansAnswered
    <3>2. f \in events /\ f.turn # turn
      BY <2>1, <2>2, <3>1 DEF AnswerInv, NotFinished
    <3>3. e \in events
      BY <2>1, <2>2, <3>1, <3>2
    <3> QED
      BY <2>1, <3>1, <3>2, <3>3 DEF AnswerInv, FinishedMeansAnswered
  <2> QED
    BY <2>1, <2>7, <2>8, <2>9 DEF AnswerInv, Emptied
<1>17. CASE Close
  BY <1>17, <1>20 DEF Close, Return
\* A new turn has no event yet.
<1>18. CASE Submit
  <2>1. /\ pc' = "queued" /\ turn' = turn + 1 /\ events' = events
    BY <1>18 DEF Submit, logVars
  <2>2. \A e \in events : e.turn # turn'
    BY <2>1 DEF TurnsBelow, TypeOK, EventRows
  <2> QED
    BY <2>1, <2>2 DEF AnswerInv, Pursued, Emptied, NotFinished, FinishedMeansAnswered
<1> QED
  BY <1>1, <1>2, <1>3, <1>4, <1>5, <1>6, <1>7, <1>8, <1>9, <1>10, <1>11, <1>12, <1>13,
     <1>14, <1>15, <1>16, <1>17, <1>18, <1>19
     DEF Next, AgentStep, AdapterStep, UserStep, WorldStep, StoreFails, Modal

(* A turn recorded as finished answered every call it was asked for, before   *)
(* its final status: FinishedMeansAnswered, whatever is refused, fails or is  *)
(* cancelled on the way.                                                      *)
THEOREM FinishedAnsweredAll == Spec => []FinishedMeansAnswered
<1>1. Init => LogInv /\ AnswerInv
  BY DEF Init, LogInv, SeqBelow, TurnsBelow, LogOrdered, AnswerInv, Pursued, Emptied,
         NotFinished, FinishedMeansAnswered, Resting
<1>2. TypeOK /\ LogInv /\ AnswerInv /\ [Next]_vars => AnswerInv'
  BY AnswerNext DEF LogInv
<1>3. TypeOK /\ LogInv /\ [Next]_vars => LogInv'
  BY LogNext
<1>4. AnswerInv => FinishedMeansAnswered
  BY DEF AnswerInv
<1> QED
  BY <1>1, <1>2, <1>3, <1>4, TypeCorrect, PTL DEF Spec
-------------------------------------------------------------------------------
(* Approval requests *)

Hand  == {"asking", "deciding"}
After == {"starting", "exec", "shell", "mcp", "remote", "result", "check", "cancelling",
          "stopping", "saving", "closing"}

Decisions == {"approved", "denied"}
Dialogue  == {"requested"} \cup Decisions

Decided(e) == \E d \in events : /\ Decides(d, e) /\ e.seq < d.seq
                                /\ \A o \in events : Decides(o, e) => o = d

\* A call is asked for once, so it waits in one place.
CallsOnce ==
    /\ \A i \in 1 .. Len(todo) : todo[i] \in asked
    /\ \A i, j \in 1 .. Len(todo) : todo[i] = todo[j] => i = j

AboutAsked == \A e \in events : e.kind \in Dialogue => e.call \in asked

\* Of the calls to be handled only the current one was asked about, and only
\* once its dialogue has got that far.
DialogueSoFar ==
    \A e \in events : \A i \in 1 .. Len(todo) : e.call = todo[i] =>
       /\ e.kind = "requested" => i = 1 /\ pc \in Hand \cup After
       /\ e.kind \in Decisions => i = 1 /\ pc \in After

\* A request is the one being answered, or it was answered once.
RequestsMatched ==
    \A e \in events : e.kind = "requested" /\ e.turn \notin broken =>
       \/ e.turn = turn /\ pc \in Hand /\ e.call = Call
       \/ Decided(e)

RequestInv == CallsOnce /\ AboutAsked /\ DialogueSoFar /\ RequestsMatched

\* A step that writes nothing of a dialogue.
Calm == /\ events \subseteq events'
        /\ \A e \in events' : e \in events \/ e.kind \notin Dialogue

LEMMA EmitCalm ==
    ASSUME NEW kind, NEW c, Emit(kind, c), kind \notin Dialogue
    PROVE  Calm
BY DEF Emit, Row, Calm

LEMMA SetModeCalm ==
    ASSUME TypeOK, Modal
    PROVE  Calm
BY ModalRows DEF Quiet, Burns, Row, Calm, Dialogue, Decisions

LEMMA CalmKeeps ==
    ASSUME Calm
    PROVE  /\ \A e \in events : Decided(e) => Decided(e)'
           /\ \A e \in events' : e.kind \in Dialogue => e \in events
<1>1. \A e \in events : Decided(e) => Decided(e)'
  BY DEF Calm, Decided, Decides, Dialogue, Decisions
<1> QED
  BY <1>1 DEF Calm

\* The dialogue of the current call goes on, or there is none.
LEMMA RequestStays ==
    ASSUME RequestInv, Calm, UNCHANGED <<todo, asked>>, broken \subseteq broken',
           pc \in Hand => pc' \in Hand /\ turn' = turn,
           pc \in After => pc' \in After
    PROVE  RequestInv'
<1>1. CallsOnce' /\ AboutAsked'
  BY CalmKeeps DEF RequestInv, CallsOnce, AboutAsked
<1>2. DialogueSoFar'
  BY CalmKeeps DEF RequestInv, DialogueSoFar, Dialogue
<1>3. RequestsMatched'
  BY CalmKeeps DEF RequestInv, RequestsMatched, Dialogue, Call
<1> QED
  BY <1>1, <1>2, <1>3 DEF RequestInv

\* The turn ends; one that ends inside a dialogue is broken.
LEMMA RequestEnds ==
    ASSUME RequestInv, Calm, todo' = <<>>, asked' = asked, broken \subseteq broken',
           pc \in Hand => turn \in broken'
    PROVE  RequestInv'
<1>1. CallsOnce' /\ AboutAsked' /\ DialogueSoFar'
  BY CalmKeeps DEF RequestInv, CallsOnce, AboutAsked, DialogueSoFar
<1>2. RequestsMatched'
  BY CalmKeeps DEF RequestInv, RequestsMatched, Dialogue
<1> QED
  BY <1>1, <1>2 DEF RequestInv

\* A write fails with its row stored: it is the last of a broken turn.
LEMMA RequestBreaks ==
    ASSUME RequestInv, NEW kind, NEW c, Emit(kind, c), kind \in Dialogue => c \in asked,
           todo' = <<>>, asked' = asked, broken' = broken \cup {turn}
    PROVE  RequestInv'
<1> DEFINE x == Row(nextSeq, kind, c)
<1>1. events' = events \cup {x} /\ x.turn = turn /\ x.kind = kind /\ x.call = c
  BY DEF Emit, Row
<1> HIDE DEF x
<1>2. CallsOnce' /\ AboutAsked' /\ DialogueSoFar'
  BY <1>1 DEF RequestInv, CallsOnce, AboutAsked, DialogueSoFar
<1>3. \A e \in events : e.turn # turn /\ Decided(e) => Decided(e)'
  BY <1>1 DEF Decided, Decides
<1>4. RequestsMatched'
  BY <1>1, <1>3 DEF RequestInv, RequestsMatched
<1> QED
  BY <1>2, <1>4 DEF RequestInv

LEMMA RequestNext == TypeOK /\ SeqBelow /\ RequestInv /\ [Next]_vars => RequestInv'
<1> SUFFICES ASSUME TypeOK, SeqBelow, RequestInv, [Next]_vars
             PROVE  RequestInv'
  OBVIOUS
<1> USE DEF Hand, After
<1>d. Dialogue = {"requested", "approved", "denied"}
  BY DEF Dialogue, Decisions
<1>q. events' = events => Calm
  BY DEF Calm
<1>m. \A from, to : Move(from, to) =>
         pc = from /\ pc' = to /\ UNCHANGED <<turn, todo, asked, broken>> /\ Calm
  BY <1>q DEF Move, roundVars, logVars, ghostVars
<1>r. \A from, to, kind, c : Record(from, to, kind, c) =>
         /\ pc = from /\ pc' = to /\ UNCHANGED <<turn, todo, asked, broken>>
         /\ Emit(kind, c)
         /\ kind \notin Dialogue => Calm
  BY EmitCalm DEF Record, roundVars, ghostVars
<1>1. CASE Connect \/ Deny \/ Wait \/ Start \/ Answer \/ EmitCancelled \/ StreamCompleted
  BY <1>1, <1>d, <1>r, RequestStays
     DEF Connect, Deny, Wait, Start, Answer, EmitCancelled, StreamCompleted
<1>2. CASE Tell \/ Gate \/ SpawnFails \/ McpRefused \/ McpQueue \/ McpReturns
              \/ McpCancelled \/ SendRefused \/ SubmitRefused \/ BadStatus
              \/ BodyRead \/ SaveContinuation
  BY <1>2, <1>m, RequestStays
     DEF Tell, Gate, SpawnFails, McpRefused, McpQueue, McpReturns, McpCancelled,
         McpLeaves, BadStatus, BodyRead, SendRefused, SubmitRefused, SaveContinuation
<1>3. CASE BeginTurn \/ SendAccepted \/ SubmitResults \/ StopRound \/ StopChildren
              \/ AutoAnswer \/ CancelDenies
              \/ \E a \in {"approved", "denied"} : UserAnswers(a)
  BY <1>3, <1>q, RequestStays
     DEF BeginTurn, SendAccepted, SubmitResults, Open, StopRound, StopChildren,
         AutoAnswer, CancelDenies, UserAnswers, Decide, roundVars, logVars, ghostVars
<1>4. CASE RunFile \/ SpawnShell \/ McpDeliver \/ ShellCancelled \/ ShellDone
  BY <1>4, <1>q, RequestStays
     DEF RunFile, SpawnShell, McpDeliver, Begin, ShellCancelled, ShellDone, ReleaseShell,
         roundVars, logVars, ghostVars
<1>5. CASE Cancel \/ RunKillTask \/ UNCHANGED vars \/ \E c \in Calls : ChildExits(c)
  BY <1>5, <1>q, RequestStays
     DEF Cancel, RunKillTask, ChildExits, vars, roundVars, logVars, ghostVars
<1>6. CASE Modal
  BY <1>6, SetModeCalm, RequestStays DEF Modal, SetMode, roundVars, ghostVars
<1>7. CASE Submit \/ Restart
  BY <1>7, <1>q, RequestStays DEF Submit, Restart, roundVars, logVars, ghostVars
<1>8. CASE StreamCancelled \/ StreamError
  BY <1>8, <1>d, EmitCalm, RequestStays
     DEF StreamCancelled, StreamError, StreamEnds, ghostVars
<1>9. CASE OutputBreaks \/ RowFails \/ Crash
  BY <1>9, <1>q, RequestEnds DEF OutputBreaks, RowFails, Abort, Crash, logVars
<1>14. CASE EventFails
  <2>1. /\ todo' = <<>> /\ UNCHANGED <<turn, asked>> /\ broken' = broken \cup {turn}
    BY <1>14 DEF EventFails, Abort
  <2>2. CASE events' = events
    BY <1>q, <2>1, <2>2, RequestEnds
  <2>3. ASSUME NEW due \in Due, Emit(due[1], due[2])
        PROVE  RequestInv'
    <3>1. due[1] \in Dialogue => pc \in {"requesting", "deciding"} /\ due[2] = Call
      BY <1>d, <2>3 DEF Due, FinalKind, TypeOK, Statuses
    <3>2. pc \in {"requesting", "deciding"} => Call \in asked
      BY DEF RequestInv, CallsOnce, TypeOK, Call
    <3> QED
      BY <2>1, <2>3, <3>1, <3>2, RequestBreaks
  <2> QED
    BY <1>14, <2>2, <2>3 DEF EventFails
<1>10. CASE Close \/ Fail
  <2>1. FinalKind \notin Dialogue
    BY <1>d DEF FinalKind, TypeOK, Statuses
  <2> QED
    BY <1>10, <1>d, <2>1, EmitCalm, RequestEnds DEF Close, Fail, Return, ghostVars
<1>11. CASE NextCall
  <2>1. /\ pc = "check" /\ todo' = Tail(todo) /\ UNCHANGED <<turn, asked, broken, events>>
        /\ pc' \notin Hand
    BY <1>11 DEF NextCall, logVars, ghostVars
  <2>2. todo \in Seq(Calls) /\ todo # <<>>
    BY <2>1 DEF TypeOK
  <2>3. \A i \in 1 .. Len(todo') : i + 1 \in 1 .. Len(todo) /\ todo'[i] = todo[i + 1]
    BY <2>1, <2>2
  <2>4. \A i \in 1 .. Len(todo') : i \in Nat /\ i + 1 # 1
    BY <2>1, <2>2
  <2>5. CallsOnce'
    <3>1. \A i, j \in 1 .. Len(todo') : todo'[i] = todo'[j] => i + 1 = j + 1
      BY <2>3 DEF RequestInv, CallsOnce
    <3> QED
      BY <2>1, <2>3, <2>4, <3>1 DEF RequestInv, CallsOnce
  <2>6. DialogueSoFar'
    BY <2>1, <2>3, <2>4 DEF RequestInv, DialogueSoFar
  <2>7. RequestsMatched'
    BY <2>1 DEF RequestInv, RequestsMatched, Decided
  <2> QED
    BY <2>1, <2>5, <2>6, <2>7 DEF RequestInv, AboutAsked
<1>12. ASSUME NEW c \in Calls, StreamToolCall(c)
       PROVE  RequestInv'
  <2>1. /\ pc = "streaming" /\ c \notin asked /\ UNCHANGED <<pc, turn, broken>>
        /\ asked' = asked \cup {c} /\ todo' = Append(todo, c)
    BY <1>12 DEF StreamToolCall, ghostVars
  <2>2. Calm
    BY <1>12, <1>d, EmitCalm DEF StreamToolCall
  <2>3. todo \in Seq(Calls)
    BY DEF TypeOK
  <2>4. /\ todo'[Len(todo) + 1] = c /\ Len(todo') = Len(todo) + 1 /\ Len(todo) \in Nat
        /\ \A i \in 1 .. Len(todo) : todo'[i] = todo[i]
    BY <2>1, <2>3
  <2>5. CallsOnce'
    BY <2>1, <2>4 DEF RequestInv, CallsOnce
  <2>6. AboutAsked'
    BY <2>1, <2>2, CalmKeeps DEF RequestInv, AboutAsked
  <2>7. DialogueSoFar'
    <3>1. \A e \in events : e.kind \in Dialogue => e.call # c
      BY <2>1 DEF RequestInv, AboutAsked
    <3>2. \A e \in events : \A i \in 1 .. Len(todo') :
             e.kind \in Dialogue /\ e.call = todo'[i] =>
                i \in 1 .. Len(todo) /\ e.call = todo[i]
      BY <2>4, <3>1
    <3> QED
      BY <2>1, <2>2, <3>2, CalmKeeps DEF RequestInv, DialogueSoFar, Dialogue
  <2>8. RequestsMatched'
    BY <2>1, <2>2, CalmKeeps DEF RequestInv, RequestsMatched, Dialogue
  <2> QED
    BY <2>5, <2>6, <2>7, <2>8 DEF RequestInv
\* The request and its decision: before them nothing was said about the call.
<1>13. CASE Request \/ RecordDecision
  <2>1. /\ pc \in {"requesting", "deciding"}
        /\ UNCHANGED <<turn, todo, asked, broken>>
    BY <1>13, <1>r DEF Request, RecordDecision
  <2>2. /\ todo \in Seq(Calls) /\ todo # <<>> /\ Call = todo[1] /\ 1 \in 1 .. Len(todo)
        /\ Call' = Call
    BY <2>1 DEF TypeOK, Call
  <2>3. Call \in asked
    BY <2>2 DEF RequestInv, CallsOnce
  <2>4. \A i \in 1 .. Len(todo) : todo[i] = Call => i = 1
    BY <2>2 DEF RequestInv, CallsOnce
  <2>5. \A e \in events : e.call = Call => e.kind \notin Decisions
    BY <2>1, <2>2 DEF RequestInv, DialogueSoFar
  <2>6. CallsOnce'
    BY <2>1 DEF RequestInv, CallsOnce
  <2>7. CASE Request
    <3> DEFINE x == Row(nextSeq, "requested", Call)
    <3>1. pc = "requesting" /\ pc' = "asking" /\ events' = events \cup {x}
      BY <1>r, <2>7 DEF Request, Emit
    <3>2. x.kind = "requested" /\ x.turn = turn /\ x.call = Call
      BY DEF Row
    <3> HIDE DEF x
    <3>3. AboutAsked'
      BY <2>1, <2>3, <3>1, <3>2 DEF RequestInv, AboutAsked
    <3>4. DialogueSoFar'
      BY <2>1, <2>4, <3>1, <3>2 DEF RequestInv, DialogueSoFar, Decisions
    <3>5. \A e \in events : Decided(e) => Decided(e)'
      BY <3>1, <3>2 DEF Decided, Decides
    <3>6. RequestsMatched'
      BY <2>1, <2>2, <3>1, <3>2, <3>5 DEF RequestInv, RequestsMatched
    <3> QED
      BY <2>6, <3>3, <3>4, <3>6 DEF RequestInv
  <2>8. CASE RecordDecision
    <3> DEFINE x == Row(nextSeq, verdict, Call)
    <3>1. pc = "deciding" /\ pc' \in {"starting", "result"} /\ events' = events \cup {x}
      BY <1>r, <2>8 DEF RecordDecision, Emit
    <3>2. x.kind \in Decisions /\ x.turn = turn /\ x.call = Call /\ x.seq = nextSeq
      BY <3>1 DEF Row, TypeOK, Decisions
    <3> HIDE DEF x
    <3>3. AboutAsked'
      BY <2>1, <2>3, <3>1, <3>2 DEF RequestInv, AboutAsked
    <3>4. DialogueSoFar'
      BY <2>1, <2>4, <3>1, <3>2 DEF RequestInv, DialogueSoFar
    <3>5. ASSUME NEW e \in events', e.kind = "requested", e.turn \notin broken'
          PROVE  Decided(e)'
      <4>1. e \in events /\ e.turn \notin broken
        BY <2>1, <3>1, <3>2, <3>5 DEF Decisions
      <4>2. CASE e.turn = turn /\ e.call = Call
        <5>1. Decides(x, e) /\ e.seq < x.seq
          BY <3>2, <4>1, <4>2 DEF Decides, Decisions, SeqBelow
        <5>2. \A o \in events' : Decides(o, e) => o = x
          BY <2>5, <3>1, <4>2 DEF Decides, Decisions
        <5> QED
          BY <3>1, <5>1, <5>2 DEF Decided, Decides
      <4>3. CASE Decided(e)
        <5>1. e.call # Call
          BY <2>5, <4>3 DEF Decided, Decides, Decisions
        <5> QED
          BY <3>1, <3>2, <4>3, <5>1 DEF Decided, Decides
      <4> QED
        BY <3>5, <4>1, <4>2, <4>3 DEF RequestInv, RequestsMatched
    <3>6. RequestsMatched'
      BY <3>5 DEF RequestsMatched
    <3> QED
      BY <2>6, <3>3, <3>4, <3>6 DEF RequestInv
  <2> QED
    BY <1>13, <2>7, <2>8
<1> QED
  BY <1>1, <1>2, <1>3, <1>4, <1>5, <1>6, <1>7, <1>8, <1>9, <1>10, <1>11, <1>12, <1>13,
     <1>14
     DEF Next, AgentStep, AdapterStep, UserStep, WorldStep, StoreFails, Modal

(* Every approval request of a turn that is over has exactly one decision     *)
(* after it: NoUnmatchedRequest, unless a write, the interface or the process *)
(* failed in that turn.                                                       *)
THEOREM EveryRequestDecided == Spec => []NoUnmatchedRequest
<1>1. Init => LogInv /\ RequestInv
  BY DEF Init, LogInv, SeqBelow, TurnsBelow, LogOrdered, RequestInv, CallsOnce,
         AboutAsked, DialogueSoFar, RequestsMatched
<1>2. TypeOK /\ LogInv /\ RequestInv /\ [Next]_vars => RequestInv'
  BY RequestNext DEF LogInv
<1>3. TypeOK /\ LogInv /\ [Next]_vars => LogInv'
  BY LogNext
<1>4. TypeOK /\ RequestInv => NoUnmatchedRequest
  <2> SUFFICES ASSUME TypeOK, RequestInv, NEW e \in events, e.kind = "requested",
                      e.turn \notin broken, TurnIsOver(e.turn)
               PROVE  Decided(e)
    BY DEF NoUnmatchedRequest, Decided
  <2>1. ~(e.turn = turn /\ pc \in Hand)
    BY DEF TurnIsOver, Hand, TypeOK
  <2> QED
    BY <2>1 DEF RequestInv, RequestsMatched
<1> QED
  BY <1>1, <1>2, <1>3, <1>4, TypeCorrect, PTL DEF Spec
===============================================================================
