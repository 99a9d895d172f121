------------------------------ MODULE MCParts ------------------------------
(* Instances for TLC of components that share no state: the event-stream      *)
(* framing, the session store, MCP over HTTP, the native agent's slots,       *)
(* startup, the changed files, the choice of a model and the tickets.  A      *)
(* behaviour is one component's from beginning to end, so that the state      *)
(* spaces lie side by side and are not multiplied.  For the same reason all   *)
(* but the first two keep their state in the same variables, v1 to v13; a     *)
(* property of a component speaks of its own behaviours only.                 *)
EXTENDS SseFraming, Sessions

CONSTANTS
    Posts, Permits, AuxPermits,                       \* McpHttp
    Turns, MaxAsks,                                   \* NativeSlots
    P1, P2, M1, M2, Q2, Order, Qualified, FallbackModel, DefaultModel, LastUsed,
    StaleFallback, Weak, Flows, Requested, Lists, Kept, MaxChanges, \* Startup
    Tasks, Paths, MaxWorkers,                         \* Changes
    A1, A2, MA, Providers, Keyless, Installed, ModelIds, Home, Default,
    MaxSelection,                                     \* Selection
    Commands, MaxNumber, ShardSize, ChainLength, MaxCommands, MaxEdits \* Tickets

ASSUME TurnsAssumption == Turns \subseteq Nat \ {0} /\ MaxAsks \in Nat
ASSUME PermitsAssumption == AuxPermits \in Nat
ASSUME BootAssumption ==
    LET Profiles == DOMAIN FallbackModel IN
    /\ Order \in Seq(Profiles) /\ Order # <<>>
    /\ \A i, j \in DOMAIN Order : Order[i] = Order[j] => i = j
    /\ \A name \in DOMAIN Qualified : Qualified[name].profile \in Profiles
    /\ LastUsed # None => LastUsed.profile \in Profiles
    /\ \A r \in Requested : r.profile \in Profiles \cup {None} /\ r.effort \in BOOLEAN
    /\ Kept \subseteq [list : Lists \cup {None}, fresh : BOOLEAN, tried : BOOLEAN]
ASSUME TicketsAssumption == MaxNumber \in Nat \ {0} /\ ShardSize \in Nat \ {0} /\ ChainLength \in Nat
ASSUME TasksAssumption == IsFiniteSet(Tasks) /\ MaxWorkers \in Nat

VARIABLES part, v1, v2, v3, v4, v5, v6, v7, v8, v9, v10, v11, v12, v13

pool == <<v1, v2, v3, v4, v5, v6, v7, v8, v9, v10, v11, v12, v13>>

Ledger == <<"tables", "told_phase", "last_used">>
OtherProtocols == [p \in ProfileNames |-> IF p = P1 THEN "chat_completions" ELSE "messages"]
OneRemoved == {ProfileNames, {P1}}
OneWish == {Nothing, [Nothing EXCEPT !.profile = P1], [Nothing EXCEPT !.other = TRUE],
            [Nothing EXCEPT !.effort = TRUE]}

(* Nothing named, a model with an effort, a pinned profile, and a chosen       *)
(* profile that a fallback may replace, asked for another profile's model.     *)
Ask(profile, pinned, hint, model, effort) ==
    [profile |-> profile, pinned |-> pinned, hint |-> hint, model |-> model, effort |-> effort]
FewRequests == {Ask(None, FALSE, TRUE, None, FALSE), Ask(None, FALSE, TRUE, M1, TRUE),
          Ask(P1, TRUE, FALSE, M1, FALSE), Ask(P2, FALSE, FALSE, Q2, FALSE)}

(* The second profile has a name of its own for its model, and falls back on it. *)
OneThenTwo == <<P1, P2>>
SecondNamed == [name \in {Q2} |-> [profile |-> P2, model |-> M2]]
SecondFallsBack == [profile \in {P1, P2} |-> IF profile = P2 THEN M2 ELSE None]
SomeLists == {{M1}, {M1, M2}}
NoneOldOrNew == {[list |-> None, fresh |-> FALSE, tried |-> FALSE],
                 [list |-> {M1}, fresh |-> FALSE, tried |-> TRUE],
                 [list |-> {M1, M2}, fresh |-> TRUE, tried |-> TRUE]}

(* A model of each provider and one of an agent; the other agent's list is empty. *)
OneEach == [x \in ModelIds |-> IF x = M1 THEN P1 ELSE IF x = M2 THEN P2 ELSE A1]

Http  == INSTANCE McpHttp WITH
    Requests <- Posts,
    loop <- v1, commands <- v2, task <- v3, inflight <- v4, aborted <- v5, asked <- v6,
    aux <- v7, auxTasks <- v8, initialized <- v9, session <- v10, givenUp <- v11
Slots == INSTANCE NativeSlots WITH
    exists <- v1, agent <- v2, handle <- v3, state <- v4, input <- v5, approvals <- v6,
    turn <- v7, token <- v8, stream <- v9, built <- v10, overlap <- v11, answered <- v12,
    orphaned <- v13
Boot  == INSTANCE Startup WITH
    Requests <- Requested,
    cached <- v1, keyed <- v2, offer <- v3, file <- v4, catalog <- v5, flow <- v6,
    changes <- v7, probe <- v8, disturbed <- v9
Files == INSTANCE Changes WITH
    changed <- v1, unreported <- v2, baseline <- v3, observed <- v4, repository <- v5,
    permits <- v6, task <- v7, strays <- v8, shown <- v9
Choice == INSTANCE Selection WITH
    Profiles <- Providers, Agents <- Installed, Ids <- ModelIds,
    draft <- v1, choice <- v2, catalog <- v3, agentList <- v4, selection <- v5,
    picker <- v6, form <- v7, session <- v8, pinned <- v9, work <- v10, opening <- v11,
    launched <- v12
Tkt   == INSTANCE Tickets WITH
    MaxRuns <- MaxCommands,
    tickets <- v1, memory <- v2, shards <- v3, router <- v4, recall <- v5, cmd <- v6,
    runs <- v7, edits <- v8, cut <- v9

Idle1to9   == /\ v1 = None /\ v2 = None /\ v3 = None /\ v4 = None /\ v5 = None
              /\ v6 = None /\ v7 = None /\ v8 = None /\ v9 = None
Idle10to11 == v10 = None /\ v11 = None
Idle12to13 == v12 = None /\ v13 = None

\* A component that is not running stands still at a first state of its own.
StoreStands == Init /\ schema.ledger = ToSet(Migrations)
PoolIdle == Idle1to9 /\ Idle10to11 /\ Idle12to13

PartsInit ==
    /\ SseInit
    /\ \/ part = "sessions" /\ Init /\ PoolIdle
       \/ /\ StoreStands
          /\ \/ part = "sse"     /\ PoolIdle
             \/ part = "http"    /\ Http!Init  /\ Idle12to13
             \/ part = "slots"   /\ Slots!Init
             \/ part = "startup" /\ Boot!Init /\ Idle10to11 /\ Idle12to13
             \/ part = "changes" /\ Files!Init /\ Idle10to11 /\ Idle12to13
             \/ part = "choice"  /\ Choice!Init /\ v13 = None
             \/ part = "tickets" /\ Tkt!Init /\ Idle10to11 /\ Idle12to13

PartsNext ==
    \/ part = "sse"      /\ ReadStream /\ UNCHANGED <<part, vars, pool>>
    \/ part = "sessions" /\ Next /\ UNCHANGED <<part, sseVars, pool>>
    \/ /\ UNCHANGED <<part, sseVars, vars>>
       /\ \/ part = "http"    /\ Http!Next  /\ UNCHANGED <<v12, v13>>
          \/ part = "slots"   /\ Slots!Next
          \/ part = "startup" /\ Boot!Next /\ UNCHANGED <<v10, v11, v12, v13>>
          \/ part = "changes" /\ Files!Next /\ UNCHANGED <<v10, v11, v12, v13>>
          \/ part = "choice"  /\ Choice!Next /\ UNCHANGED v13
          \/ part = "tickets" /\ Tkt!Next /\ UNCHANGED <<v10, v11, v12, v13>>

PartsSpec == PartsInit /\ [][PartsNext]_<<part, sseVars, vars, pool>>

\* Workspaces are alike to the sessions.
Symmetry == Permutations(Workspaces)

(* The properties of the components, see there. *)
HttpEndsClean       == part = "http" =>
    Http!AnswerFindsAPermit /\ Http!FinishedOwnsNothing /\ Http!TypeOK
OneAgentOneTurn     == part = "slots" => Slots!OneAgentOneTurn
FailoverIsHonest    == part = "startup" => Boot!FailoverIsHonest
WorkersBounded      == part = "changes" => Files!WorkersBounded /\ Files!TypeOK
AgentGetsItsModel   == part = "choice" => Choice!AgentGetsItsModel
NothingConsumed     == part = "tickets" => Tkt!NothingConsumed /\ Tkt!SyncedMeansListed
=============================================================================
