----------------------------- MODULE McpRuntime -----------------------------
(***************************************************************************)
(* The MCP runtime of one workspace (gritt-harness, mcp/mod.rs): the       *)
(* servers the workspace file names, the decision the user took on each,   *)
(* the launches under way, the connections installed, and the registry of  *)
(* tools the model is offered.                                             *)
(*                                                                         *)
(* The runtime is one shared object.  The background open, the refresh     *)
(* after a turn, the calls of a turn, the actions of the MCP menu and the  *)
(* shutdown at exit all run on it at once: each is an operation here, with *)
(* one step between two awaits.  A generation number per entry tells an    *)
(* operation whether what it read is still what the entry says.            *)
(*                                                                         *)
(* What is inside a connection (frames, timeouts, pending requests) is     *)
(* McpConnection; here a connection is a child process that lives, may     *)
(* break at any moment, and is gone some time after it was told to stop.   *)
(***************************************************************************)
EXTENDS McpRegistry

CONSTANTS
    Servers,      \* names a workspace file may declare
    Prints,       \* fingerprints: the definitions a name may stand for
    Ops,          \* operation instances; each one runs once
    InitialTrust, \* the trust stores a run may begin with
    Kinds,        \* the operations an instance may run
    Conns,        \* launch numbers, 1 .. n
    Listings,     \* the tool lists a server may report, as sequences of tools
    Limit,        \* max_concurrent_init
    MaxEdits      \* how often the workspace file and a tool list change

UiKinds == {"approve", "deny", "restart", "stop", "reload"}
AllKinds == UiKinds \cup {"open", "refresh", "call", "shutdown"}
Deciding == {"approve", "deny"}

ASSUME PrintsAssumption == Prints \cap {"none", "absent", "rejected"} = {}
ASSUME KindsAssumption == Kinds \subseteq AllKinds
ASSUME ConnsAssumption == /\ Conns \subseteq Nat \ {0}
                          /\ IsFiniteSet(Conns)
                          /\ Limit \in Nat \ {0}
ASSUME OpsAssumption == "none" \notin Ops
ASSUME ListsAssumption == \A list \in Listings : list \in Seq(ToSet(list))
ASSUME EditsAssumption == MaxEdits \in Nat
ASSUME TrustAssumption ==
    InitialTrust \subseteq [Servers -> [Prints -> {"approved", "denied", "none"}]]

VARIABLES
    file,      \* what .mcp.json declares: a fingerprint, "rejected" or "absent"
    edits,     \* edits of the file and of tool lists so far
    trust,     \* the trust store: decision per server and fingerprint
    entry,     \* state.servers
    registry,  \* state.registry: records [name, srv, tool]
    closing,   \* state.closing
    opened,    \* the runtime was opened
    gens,      \* the generation counter
    decisions, \* who holds the decisions mutex, or None
    conn,      \* every launch: its definition, its stage, its child
    op         \* the operations

None == "none"
world == <<file, edits>>
vars == <<file, edits, trust, entry, registry, closing, opened, gens,
          decisions, conn, op>>

Declared == Prints \cup {"rejected", "absent"}
Decisions == {"approved", "denied", None}
EntryStates == {"absent", "awaiting", "denied", "starting", "ready",
                "failed", "stopped", "invalid"}

Absent == [state |-> "absent", print |-> None, gen |-> 0, conn |-> 0,
           by |-> None]
Stages == {"free", "reserved", "spawned", "attached", "failing", "ok",
           "failed", "installed", "stale", "retired", "dropped", "released"}
FreeConn == [stage |-> "free", srv |-> None, print |-> None, gen |-> 0,
             by |-> None, alive |-> FALSE, closed |-> FALSE,
             changed |-> FALSE, list |-> <<>>]
Idle == [kind |-> None, pc |-> "idle", srv |-> None, print |-> None, gen |-> 0,
         dec |-> None, seen |-> <<>>, todo |-> {}, wait |-> {}, ref |-> None,
         cancelled |-> FALSE, res |-> None]

Init ==
    /\ file \in [Servers -> Prints]
    /\ edits = 0
    /\ trust \in InitialTrust
    /\ entry = [s \in Servers |-> Absent]
    /\ registry = {}
    /\ closing = FALSE
    /\ opened = FALSE
    /\ gens = 0
    /\ decisions = None
    /\ conn = [c \in Conns |-> FreeConn]
    /\ op = [o \in Ops |-> Idle]

-----------------------------------------------------------------------------
(* Connections.                                                            *)

Owned == {"reserved", "spawned", "attached", "failing", "ok", "stale"}
Slots == {c \in Conns : conn[c].stage \in Owned}
Attached == {c \in Slots : conn[c].stage \notin {"reserved", "spawned"}}

(* The task of a connection that was told to stop, that lost its server or *)
(* whose last handle is gone is closed, and ends the child.                *)
Told(cs, stage) ==
    [c \in Conns |-> IF c \in cs THEN [conn[c] EXCEPT !.stage = stage, !.closed = TRUE]
                                 ELSE conn[c]]

(* Faulty variant: the connection is forgotten and not closed. *)
Forget(cs) == [c \in Conns |-> IF c \in cs THEN [conn[c] EXCEPT !.stage = "retired"] ELSE conn[c]]

(* A connection an operation takes from its entry and closes.              *)
Retire(cs) == Told(cs, "retired")

Close(cs) == [c \in Conns |-> IF c \in cs THEN [conn[c] EXCEPT !.closed = TRUE] ELSE conn[c]]

ConnOf(s) == IF entry[s].conn = 0 THEN {} ELSE {entry[s].conn}

At(o, kinds, pc) == op[o].kind \in kinds /\ op[o].pc = pc

(* The connections an operation has a handle on without being about to     *)
(* close them: a call the one it was sent on, a refresh each one it has    *)
(* still to look at.                                                       *)
Handles(o) ==
    {c \in Conns :
        \/ At(o, {"call"}, "wait") /\ c \in op[o].wait
        \/ /\ op[o].kind = "refresh" /\ op[o].pc \in {"each", "discover", "relist"}
           /\ \E i \in op[o].todo : i.conn = c
        \/ /\ op[o].kind = "refresh" /\ op[o].pc \in {"discover", "relist"}
           /\ op[o].ref.conn = c}

Held == UNION {Handles(o) : o \in Ops}

(* An entry lets go of connections without telling their tasks to stop.    *)
Drop(cs) == [c \in Conns |-> IF c \in cs THEN [conn[c] EXCEPT !.stage = "dropped"] ELSE conn[c]]

(* A dropped connection is closed with its last handle: by the step after  *)
(* which no operation has one.                                             *)
LetGo(k) ==
    [c \in Conns |->
        IF k[c].stage = "dropped" /\ c \notin Held'
        THEN [k[c] EXCEPT !.closed = TRUE] ELSE k[c]]

Goto(o, pc) == op' = [op EXCEPT ![o].pc = pc]

(* The result stays visible, everything the operation held is dropped.     *)
End(o, res) == op' = [op EXCEPT ![o] = [Idle EXCEPT !.pc = "done", !.res = res]]

-----------------------------------------------------------------------------
(* Starting an operation.                                                  *)

Targeted == {"approve", "deny", "restart", "stop"}

FirstStep(kind) ==
    CASE kind \in {"open", "reload"}            -> "file"
      [] kind \in {"approve", "deny", "restart", "refresh"} -> "look"
      [] kind \in {"stop", "shutdown"}          -> "apply"
      [] kind = "call"                          -> "freeze"

(* A menu action signals the one it replaces; that one runs on to its end, *)
(* only its handshakes fail.  Opening happens once: ensure_open returns at *)
(* once when the runtime was opened before.  On a runtime with no entries  *)
(* the others return at once.                                              *)
Begin(o, kind) ==
    /\ op[o].pc = "idle"
    /\ kind \in Kinds
    /\ kind = "open" => ~opened
    /\ kind \in AllKinds \ {"open", "reload", "shutdown"} =>
         \E s \in Servers : entry[s].state # "absent"
    /\ kind = "shutdown" => ~closing /\ \A p \in Ops : op[p].kind # "shutdown"
    /\ opened' = (opened \/ kind = "open")
    /\ \E s \in Servers :
         op' = [p \in Ops |->
                  IF p = o THEN [Idle EXCEPT !.kind = kind, !.pc = FirstStep(kind),
                                             !.srv = IF kind \in Targeted THEN s ELSE None]
                  ELSE IF kind \in UiKinds /\ op[p].kind \in UiKinds /\ op[p].pc # "done"
                       THEN [op[p] EXCEPT !.cancelled = TRUE]
                       ELSE op[p]]
    /\ UNCHANGED <<world, trust, entry, registry, closing, gens, decisions, conn>>

-----------------------------------------------------------------------------
(* open, reload and load.                                                  *)

(* The file is read, and a decision is asked for each definition of it,     *)
(* one after the other, before the lock.                                   *)
ReadFile(o) ==
    /\ At(o, {"open", "reload"}, "file")
    /\ op' = [op EXCEPT ![o].pc = "load",
                        ![o].seen = [s \in Servers |-> [print |-> file[s], dec |-> None]],
                        ![o].todo = {s \in Servers : file[s] \in Prints}]
    /\ UNCHANGED <<world, trust, entry, registry, closing, opened, gens, decisions, conn>>

ReadDecision(o) ==
    /\ At(o, {"open", "reload"}, "load")
    /\ \E s \in op[o].todo :
         op' = [op EXCEPT ![o].seen[s].dec = trust[s][op[o].seen[s].print],
                          ![o].todo = @ \ {s}]
    /\ UNCHANGED <<world, trust, entry, registry, closing, opened, gens, decisions, conn>>

(* The file cannot be parsed, or the trust store does not answer.          *)
ReadFails(o) ==
    /\ \/ At(o, {"open", "reload"}, "file")
       \/ At(o, {"open", "reload"}, "load") /\ op[o].todo # {}
       \/ At(o, {"restart"}, "trust")
       \/ At(o, Deciding, "record")
    /\ Goto(o, "refused")
    /\ UNCHANGED <<world, trust, entry, registry, closing, opened, gens, decisions, conn>>

StateFor(dec) == CASE dec = "approved" -> "starting"
                   [] dec = "denied"   -> "denied"
                   [] OTHER            -> "awaiting"

(* An untouched definition keeps its connection, its tools and its         *)
(* generation.                                                             *)
Kept(s, seen) == /\ seen[s].print \in Prints
                 /\ entry[s].print = seen[s].print
                 /\ entry[s].conn # 0
                 /\ entry[s].state = "ready"

Loaded(s, seen, gen) ==
    CASE Kept(s, seen)                -> entry[s]
      [] seen[s].print = "absent"     -> Absent
      [] seen[s].print = "rejected"   -> [state |-> "invalid", print |-> None, gen |-> gen,
                                          conn |-> 0, by |-> "reload"]
      [] OTHER -> [state |-> StateFor(seen[s].dec), print |-> seen[s].print,
                   gen |-> gen, conn |-> 0, by |-> "reload"]

Load(o) ==
    LET seen == op[o].seen
        lost == UNION {ConnOf(s) : s \in {t \in Servers : ~Kept(t, seen)}} IN
    /\ At(o, {"open", "reload"}, "load") /\ op[o].todo = {}
    /\ entry' = [s \in Servers |-> Loaded(s, seen, gens + 1)]
    /\ registry' = {t \in registry : Kept(t.srv, seen)}
    /\ gens' = gens + 1
    /\ conn' = Retire(lost)
    /\ op' = [op EXCEPT ![o].pc = "closing", ![o].wait = lost, ![o].seen = <<>>]
    /\ UNCHANGED <<world, trust, closing, opened, decisions>>

-----------------------------------------------------------------------------
(* decide.                                                                 *)

(* Faulty variant: decisions are not serialized. *)
TakeNothing(o) == UNCHANGED decisions

(* The mutex is taken first and kept until the decision is applied and the *)
(* connection it retired is closed.                                        *)
TakeDecisions(o) == decisions = None /\ decisions' = o
ReleaseDecisions(o) == decisions' = IF decisions = o THEN None ELSE decisions

LookDecide(o) ==
    LET s == op[o].srv IN
    /\ At(o, Deciding, "look")
    /\ TakeDecisions(o)
    /\ op' = IF entry[s].state \in {"absent", "invalid"}
             THEN [op EXCEPT ![o].pc = "refused"]
             ELSE [op EXCEPT ![o].pc = "check", ![o].print = entry[s].print,
                             ![o].gen = entry[s].gen]
    /\ UNCHANGED <<world, trust, entry, registry, closing, opened, gens, conn>>

Same(o) == LET s == op[o].srv IN entry[s].print = op[o].print /\ entry[s].gen = op[o].gen

CheckDecide(o) ==
    /\ At(o, Deciding, "check")
    /\ Goto(o, IF Same(o) THEN "record" ELSE "refused")
    /\ UNCHANGED <<world, trust, entry, registry, closing, opened, gens, decisions, conn>>

Record(o) ==
    /\ At(o, Deciding, "record")
    /\ trust' = [trust EXCEPT ![op[o].srv][op[o].print] =
                    IF op[o].kind = "approve" THEN "approved" ELSE "denied"]
    /\ Goto(o, "apply")
    /\ UNCHANGED <<world, entry, registry, closing, opened, gens, decisions, conn>>

(* A number drawn from the counter and not used leaves no trace: the       *)
(* counter moves only when an entry takes the number.  load draws one      *)
(* number per entry; here its entries share one, for numbers are compared  *)
(* within an entry only.                                                   *)

(* Puts server s into a state under a new generation: its connection       *)
(* leaves the entry and is closed by the operation, its tools leave the    *)
(* registry.                                                               *)
Move(o, s, state) ==
    /\ entry' = [entry EXCEPT ![s] = [@ EXCEPT !.state = state, !.gen = gens + 1,
                                               !.conn = 0, !.by = op[o].kind]]
    /\ gens' = gens + 1
    /\ registry' = RemoveServer(registry, s)
    /\ conn' = Retire(ConnOf(s))
    /\ op' = [op EXCEPT ![o].pc = "closing", ![o].wait = ConnOf(s),
                        ![o].print = None, ![o].gen = 0, ![o].dec = None]

ApplyDecide(o) ==
    LET s == op[o].srv IN
    /\ At(o, Deciding, "apply")
    /\ IF Same(o)
       THEN Move(o, s, IF op[o].kind = "approve" THEN "starting" ELSE "denied")
       ELSE /\ op' = IF entry[s].state = "absent"
                     THEN [op EXCEPT ![o].pc = "closing"]
                     ELSE [op EXCEPT ![o].pc = "refused", ![o].res = entry[s].by]
            /\ UNCHANGED <<entry, registry, gens, conn>>
    /\ UNCHANGED <<world, trust, closing, opened, decisions>>

(* An error ends the action before its start.  What is left of the result  *)
(* is who overtook a decision that was already recorded.                   *)
Refused(o) ==
    /\ op[o].pc = "refused"
    /\ ReleaseDecisions(o)
    /\ End(o, op[o].res)
    /\ UNCHANGED <<world, trust, entry, registry, closing, opened, gens, conn>>

-----------------------------------------------------------------------------
(* restart and stop.                                                       *)

LookRestart(o) ==
    LET s == op[o].srv IN
    /\ At(o, {"restart"}, "look")
    /\ op' = IF entry[s].state \in {"absent", "invalid"}
             THEN [op EXCEPT ![o].pc = "refused"]
             ELSE [op EXCEPT ![o].pc = "trust", ![o].print = entry[s].print,
                             ![o].gen = entry[s].gen]
    /\ UNCHANGED <<world, trust, entry, registry, closing, opened, gens, decisions, conn>>

ReadTrust(o) ==
    /\ At(o, {"restart"}, "trust")
    /\ op' = [op EXCEPT ![o].pc = "apply", ![o].dec = trust[op[o].srv][op[o].print]]
    /\ UNCHANGED <<world, trust, entry, registry, closing, opened, gens, decisions, conn>>

ApplyRestart(o) ==
    /\ At(o, {"restart"}, "apply")
    /\ IF Same(o)
       THEN Move(o, op[o].srv, StateFor(op[o].dec))
       ELSE Goto(o, "refused") /\ UNCHANGED <<entry, registry, gens, conn>>
    /\ UNCHANGED <<world, trust, closing, opened, decisions>>

ApplyStop(o) ==
    LET s == op[o].srv IN
    /\ At(o, {"stop"}, "apply")
    /\ IF entry[s].state = "absent"
       THEN Goto(o, "refused") /\ UNCHANGED <<entry, registry, gens, conn>>
       ELSE Move(o, s, IF entry[s].state = "invalid" THEN "invalid" ELSE "stopped")
    /\ UNCHANGED <<world, trust, closing, opened, decisions>>

Gone(cs) == \A c \in cs : ~conn[c].alive

(* The connections an operation retired have ended.                        *)
Closed(o) ==
    /\ At(o, AllKinds \ {"shutdown"}, "closing")
    /\ Gone(op[o].wait)
    /\ ReleaseDecisions(o)
    /\ IF op[o].kind = "stop" THEN End(o, None)
       ELSE op' = [op EXCEPT ![o].pc = "pending", ![o].wait = {}]
    /\ UNCHANGED <<world, trust, entry, registry, closing, opened, gens, conn>>

-----------------------------------------------------------------------------
(* start: what open, reload, decide and restart end with.                  *)

Mine(o) == {c \in Conns : conn[c].by = o}
Running(o) == {c \in Mine(o) : conn[c].stage \in {"reserved", "spawned", "attached", "failing"}}
Free == {c \in Conns : conn[c].stage = "free"}

Startable == {s \in Servers : entry[s].state = "starting" /\ entry[s].conn = 0}

Pending(o) ==
    /\ op[o].pc = "pending"
    /\ IF Startable = {} THEN End(o, None)
       ELSE op' = [op EXCEPT ![o].pc = "launch",
                             ![o].todo = {[srv |-> s, print |-> entry[s].print,
                                           gen |-> entry[s].gen] : s \in Startable}]
    /\ UNCHANGED <<world, trust, entry, registry, closing, opened, gens, decisions, conn>>

(* A launch takes a slot before it spawns anything, and takes none once    *)
(* shutdown has begun.  At most Limit of one start run at a time.          *)
Reserve(o) ==
    /\ op[o].pc = "launch"
    /\ Cardinality(Running(o)) < Limit
    /\ Free # {}
    /\ \E i \in op[o].todo :
         LET c == CHOOSE d \in Free : \A e \in Free : d <= e IN
         /\ conn' = [conn EXCEPT ![c] =
              [FreeConn EXCEPT !.stage = IF closing THEN "failed" ELSE "reserved",
                               !.srv = i.srv, !.print = i.print, !.gen = i.gen, !.by = o]]
         /\ op' = [op EXCEPT ![o].todo = @ \ {i}]
    /\ UNCHANGED <<world, trust, entry, registry, closing, opened, gens, decisions>>

Stage(c, from, to) ==
    /\ conn[c].stage = from
    /\ conn' = [conn EXCEPT ![c].stage = to]
    /\ UNCHANGED <<world, trust, entry, registry, closing, opened, gens, decisions, op>>

Spawn(c) ==
    /\ conn[c].stage = "reserved"
    /\ conn' = [conn EXCEPT ![c].stage = "spawned", ![c].alive = TRUE]
    /\ UNCHANGED <<world, trust, entry, registry, closing, opened, gens, decisions, op>>

SpawnFails(c) == Stage(c, "reserved", "failed")

Attach(c) == Stage(c, "spawned", "attached")

(* The handshake and the first listing are answered.                       *)
Negotiated(c) ==
    /\ conn[c].stage = "attached"
    /\ ~conn[c].closed
    /\ ~op[conn[c].by].cancelled
    /\ \E list \in Listings :
         conn' = [conn EXCEPT ![c].stage = "ok", ![c].list = list]
    /\ UNCHANGED <<world, trust, entry, registry, closing, opened, gens, decisions, op>>

(* The handshake fails, times out, or is cancelled: the launch closes its  *)
(* own child, and its slot is released once that child is gone.            *)
NegotiateFails(c) ==
    /\ conn[c].stage = "attached"
    /\ conn' = Told({c}, "failing")
    /\ UNCHANGED <<world, trust, entry, registry, closing, opened, gens, decisions, op>>

FinishFailed(c) == ~conn[c].alive /\ Stage(c, "failing", "failed")

(* Faulty variant: the definition is compared, not the generation. *)
CurrentByName(c) == ~closing /\ entry[conn[c].srv].state # "absent"

(* An outcome counts only for the generation it was launched under.        *)
Current(c) == ~closing /\ entry[conn[c].srv].gen = conn[c].gen

(* The registry after each of the connections of a sequence was installed. *)
Relisting(order) ==
    LET after[i \in 0 .. Len(order)] ==
            IF i = 0 THEN registry
            ELSE Relist(after[i - 1], conn[order[i]].srv, conn[order[i]].list)
    IN  after

(* All outcomes are in; they are applied under one lock.  A connection the *)
(* entry already has is overwritten, and the entry's handle on it dropped. *)
Install(o) ==
    LET good  == {c \in Mine(o) : conn[c].stage = "ok" /\ Current(c)}
        bad   == {c \in Mine(o) : conn[c].stage = "failed" /\ Current(c)}
        stale == {c \in Mine(o) : conn[c].stage = "ok"} \ good
        lost  == UNION {ConnOf(conn[c].srv) : c \in good \cup bad} IN
    /\ op[o].pc = "launch"
    /\ op[o].todo = {}
    /\ \A c \in Mine(o) : conn[c].stage \in {"ok", "failed"}
    /\ entry' = [s \in Servers |->
         IF \E c \in good : conn[c].srv = s
         THEN [entry[s] EXCEPT !.state = "ready",
                               !.conn = CHOOSE c \in good : conn[c].srv = s]
         ELSE IF \E c \in bad : conn[c].srv = s
              THEN [entry[s] EXCEPT !.state = "failed", !.conn = 0]
              ELSE entry[s]]
    /\ registry' = Relisting(SetToSeq(good))[Cardinality(good)]
    /\ op' = [op EXCEPT ![o].pc = "stale", ![o].wait = stale]
    /\ conn' = LetGo([c \in Conns |->
         IF c \in good THEN [conn[c] EXCEPT !.stage = "installed", !.by = None]
         ELSE IF c \in stale THEN Told(stale, "stale")[c]
         ELSE IF c \in Mine(o) THEN [FreeConn EXCEPT !.stage = "released"]
         ELSE Drop(lost)[c]])
    /\ UNCHANGED <<world, trust, closing, opened, gens, decisions>>

(* Closed first, released second.                                          *)
ReleaseStale(o) ==
    /\ op[o].pc = "stale"
    /\ Gone(op[o].wait)
    /\ conn' = [c \in Conns |-> IF c \in op[o].wait THEN [FreeConn EXCEPT !.stage = "released"]
                                ELSE conn[c]]
    /\ End(o, None)
    /\ UNCHANGED <<world, trust, entry, registry, closing, opened, gens, decisions>>

-----------------------------------------------------------------------------
(* refresh, mark_lost and the calls of a turn.                             *)

(* The entry forgets its connection under the generation it was read with; *)
(* the generation stays.                                                   *)
MarkLost(s, gen) ==
    IF entry[s].gen = gen /\ gen # 0
    THEN /\ entry' = [entry EXCEPT ![s].state = "failed", ![s].conn = 0]
         /\ registry' = RemoveServer(registry, s)
         /\ conn' = LetGo(Drop(ConnOf(s)))
    ELSE UNCHANGED <<entry, registry>> /\ conn' = LetGo(conn)

LookRefresh(o) ==
    /\ At(o, {"refresh"}, "look")
    /\ op' = [op EXCEPT ![o].pc = "each",
         ![o].todo = {[srv |-> s, gen |-> entry[s].gen, conn |-> entry[s].conn] :
                        s \in {t \in Servers : entry[t].state = "ready" /\ entry[t].conn # 0}}]
    /\ UNCHANGED <<world, trust, entry, registry, closing, opened, gens, decisions, conn>>

EachRefresh(o) ==
    /\ At(o, {"refresh"}, "each")
    /\ IF op[o].todo = {}
       THEN End(o, None) /\ UNCHANGED <<entry, registry, conn>>
       ELSE \E i \in op[o].todo :
            IF conn[i.conn].closed
            THEN /\ op' = [op EXCEPT ![o].todo = @ \ {i}]
                 /\ MarkLost(i.srv, i.gen)
            ELSE /\ op' = [op EXCEPT ![o].todo = @ \ {i},
                      ![o].pc = IF conn[i.conn].changed THEN "discover" ELSE "each",
                      ![o].ref = IF conn[i.conn].changed THEN i ELSE None]
                 /\ conn' = LetGo([conn EXCEPT ![i.conn].changed = FALSE])
                 /\ UNCHANGED <<entry, registry>>
    /\ UNCHANGED <<world, trust, closing, opened, gens, decisions>>

Discovered(o) ==
    /\ At(o, {"refresh"}, "discover")
    /\ ~conn[op[o].ref.conn].closed
    /\ op' = [op EXCEPT ![o].pc = "relist", ![o].seen = conn[op[o].ref.conn].list]
    /\ UNCHANGED <<world, trust, entry, registry, closing, opened, gens, decisions, conn>>

DiscoverFails(o) ==
    LET i == op[o].ref IN
    /\ At(o, {"refresh"}, "discover")
    /\ op' = [op EXCEPT ![o].pc = "each", ![o].ref = None]
    /\ MarkLost(i.srv, i.gen)
    /\ UNCHANGED <<world, trust, closing, opened, gens, decisions>>

RelistTools(o) ==
    LET i == op[o].ref IN
    /\ At(o, {"refresh"}, "relist")
    /\ registry' = IF entry[i.srv].gen = i.gen THEN Relist(registry, i.srv, op[o].seen)
                   ELSE registry
    /\ op' = [op EXCEPT ![o].pc = "each", ![o].ref = None, ![o].seen = <<>>]
    /\ conn' = LetGo(conn)
    /\ UNCHANGED <<world, trust, entry, closing, opened, gens, decisions>>

(* tool_set: a turn is offered the tools of the registry, each with the    *)
(* generation of its server.  `print`, the definition that stands behind   *)
(* the offer, is a history of the model: the code keeps the generation.    *)
Freeze(o) ==
    /\ At(o, {"call"}, "freeze")
    /\ \E t \in registry :
         op' = [op EXCEPT ![o].pc = "check", ![o].ref = t, ![o].gen = entry[t.srv].gen,
                          ![o].print = entry[t.srv].print]
    /\ UNCHANGED <<world, trust, entry, registry, closing, opened, gens, decisions, conn>>

(* Faulty variant: any connection of a server that is ready will do. *)
AnyGeneration(o) == TRUE

OfferStands(o) == entry[op[o].ref.srv].gen = op[o].gen

(* The call of the tool that was frozen, if all that was frozen with it    *)
(* still stands.                                                           *)
Check(o) ==
    LET s == op[o].ref.srv IN
    /\ At(o, {"call"}, "check")
    /\ op' = IF /\ OfferStands(o)
                /\ entry[s].state = "ready"
                /\ op[o].ref \in registry
                /\ entry[s].conn # 0
             THEN [op EXCEPT ![o].pc = "wait", ![o].wait = {entry[s].conn}]
             ELSE [op EXCEPT ![o].pc = "refused"]
    /\ UNCHANGED <<world, trust, entry, registry, closing, opened, gens, decisions, conn>>

Answered(o) ==
    /\ At(o, {"call"}, "wait")
    /\ \A c \in op[o].wait : ~conn[c].closed
    /\ End(o, None)
    /\ conn' = LetGo(conn)
    /\ UNCHANGED <<world, trust, entry, registry, closing, opened, gens, decisions>>

(* The call fails.  It is not repeated; a connection that is gone is       *)
(* noted.                                                                  *)
CallFails(o) ==
    /\ At(o, {"call"}, "wait")
    /\ End(o, None)
    /\ IF \E c \in op[o].wait : conn[c].closed
       THEN MarkLost(op[o].ref.srv, op[o].gen)
       ELSE UNCHANGED <<entry, registry>> /\ conn' = LetGo(conn)
    /\ UNCHANGED <<world, trust, closing, opened, gens, decisions>>

-----------------------------------------------------------------------------
(* shutdown.                                                               *)

ApplyShutdown(o) ==
    LET taken == UNION {ConnOf(s) : s \in Servers} IN
    /\ At(o, {"shutdown"}, "apply")
    /\ closing' = TRUE
    /\ entry' = [s \in Servers |->
         IF entry[s].state = "absent" THEN entry[s]
         ELSE [entry[s] EXCEPT !.state = IF @ = "ready" THEN "stopped" ELSE @,
                               !.gen = gens + 1, !.conn = 0, !.by = "shutdown"]]
    /\ gens' = gens + 1
    /\ registry' = {}
    /\ conn' = [c \in Conns |-> IF c \in taken THEN Retire(taken)[c]
                                ELSE Close(Attached)[c]]
    /\ op' = [op EXCEPT ![o].pc = "closing", ![o].wait = taken \cup Attached]
    /\ UNCHANGED <<world, trust, opened, decisions>>

ClosedShutdown(o) ==
    /\ At(o, {"shutdown"}, "closing")
    /\ Gone(op[o].wait)
    /\ op' = [op EXCEPT ![o].pc = "drain", ![o].wait = {}]
    /\ UNCHANGED <<world, trust, entry, registry, closing, opened, gens, decisions, conn>>

(* Faulty variant: an empty list of connections ends the wait. *)
NothingAttached == Attached = {}

(* Slots are counted, not the connections attached to them.                *)
Drained == Slots = {}

Drain(o) ==
    /\ At(o, {"shutdown"}, "drain")
    /\ IF Drained
       THEN End(o, "drained") /\ UNCHANGED conn
       ELSE /\ Attached # {}
            /\ conn' = Close(Attached)
            /\ op' = [op EXCEPT ![o].pc = "closing", ![o].wait = Attached]
    /\ UNCHANGED <<world, trust, entry, registry, closing, opened, gens, decisions>>

-----------------------------------------------------------------------------
(* The surroundings.                                                       *)

(* A connection ends by itself: the server exits, closes its output, or    *)
(* breaks the protocol.                                                    *)
Break(c) ==
    /\ conn[c].alive
    /\ ~conn[c].closed
    /\ conn' = Close({c})
    /\ UNCHANGED <<world, trust, entry, registry, closing, opened, gens, decisions, op>>

(* The child of a closed connection is gone, asked or killed.              *)
ChildEnds(c) ==
    /\ conn[c].alive
    /\ conn[c].closed
    /\ conn' = [conn EXCEPT ![c].alive = FALSE, ![c].list = <<>>, ![c].changed = FALSE]
    /\ UNCHANGED <<world, trust, entry, registry, closing, opened, gens, decisions, op>>

(* The server announces a new tool list.                                   *)
ListChanges(c) ==
    /\ edits < MaxEdits
    /\ conn[c].stage \in {"ok", "installed"}
    /\ ~conn[c].closed
    /\ \E list \in Listings \ {conn[c].list} :
         conn' = [conn EXCEPT ![c].list = list, ![c].changed = TRUE]
    /\ edits' = edits + 1
    /\ UNCHANGED <<file, trust, entry, registry, closing, opened, gens, decisions, op>>

(* The user edits the workspace file.                                      *)
EditFile ==
    /\ edits < MaxEdits
    /\ \E s \in Servers, d \in Declared :
         d # file[s] /\ file' = [file EXCEPT ![s] = d]
    /\ edits' = edits + 1
    /\ UNCHANGED <<trust, entry, registry, closing, opened, gens, decisions, conn, op>>

Launching(c) ==
    \/ Spawn(c) \/ SpawnFails(c) \/ Attach(c)
    \/ Negotiated(c) \/ NegotiateFails(c) \/ FinishFailed(c)

Step(o) ==
    \/ ReadFile(o) \/ ReadDecision(o) \/ ReadFails(o) \/ Load(o)
    \/ LookDecide(o) \/ CheckDecide(o) \/ Record(o) \/ ApplyDecide(o)
    \/ Refused(o)
    \/ LookRestart(o) \/ ReadTrust(o) \/ ApplyRestart(o) \/ ApplyStop(o)
    \/ Closed(o) \/ Pending(o) \/ Reserve(o) \/ Install(o) \/ ReleaseStale(o)
    \/ LookRefresh(o) \/ EachRefresh(o) \/ Discovered(o) \/ DiscoverFails(o)
    \/ RelistTools(o)
    \/ Freeze(o) \/ Check(o) \/ Answered(o) \/ CallFails(o)
    \/ ApplyShutdown(o) \/ ClosedShutdown(o) \/ Drain(o)

Next ==
    \/ \E o \in Ops : Step(o) \/ \E kind \in AllKinds : Begin(o, kind)
    \/ \E c \in Conns : Launching(c) \/ Break(c) \/ ChildEnds(c) \/ ListChanges(c)
    \/ EditFile

Spec == Init /\ [][Next]_vars

-----------------------------------------------------------------------------
(* Properties.                                                             *)

(* The type of every variable.                                             *)
TypeOK ==
    /\ file \in [Servers -> Declared] /\ edits \in 0 .. MaxEdits
    /\ trust \in [Servers -> [Prints -> Decisions]]
    /\ entry \in [Servers -> [state : EntryStates, print : Prints \cup {None}, gen : Nat,
                              conn : Conns \cup {0}, by : AllKinds \cup {None}]]
    /\ \A t \in registry : t.srv \in Servers
    /\ closing \in BOOLEAN /\ opened \in BOOLEAN /\ gens \in Nat
    /\ decisions \in Ops \cup {None}
    /\ \A c \in Conns : conn[c].stage \in Stages /\ conn[c].by \in Ops \cup {None}
    /\ \A o \in Ops : op[o].kind \in AllKinds \cup {None} /\ op[o].wait \subseteq Conns

(* A connection is installed only against the definition it was launched   *)
(* for: whatever reload, denial, stop or restart overtook the handshake,   *)
(* its outcome does not reach an entry that has moved on.  Besides, the    *)
(* state keeps its type.                                                   *)
OnlyCurrentInstalled ==
    /\ TypeOK
    /\ \A s \in Servers : entry[s].conn # 0 =>
        LET c == conn[entry[s].conn] IN
        /\ c.srv = s /\ c.print = entry[s].print /\ c.gen = entry[s].gen
        /\ c.stage = "installed"

(* A call goes to a child of the very definition whose tools the model was *)
(* offered, launched under the decision that stood then: whatever reload,  *)
(* edit, restart or denial came between the offer and the call.            *)
CallReachesFrozen ==
    \A o \in Ops : At(o, {"call"}, "wait") =>
        \A c \in op[o].wait : /\ conn[c].srv = op[o].ref.srv
                              /\ conn[c].gen = op[o].gen /\ conn[c].print = op[o].print

(* A decision that was recorded and then refused was overtaken by a stop,  *)
(* a restart, a reload or the shutdown, never by another decision: two     *)
(* decisions persist and apply in the same order.                          *)
DecisionsSerial ==
    \A o \in Ops : op[o].res \notin Deciding

(* Every child that lives belongs to someone who ends it: a launch slot,   *)
(* the entry it serves, the task of a connection that was told to stop, or *)
(* a call or refresh that has a handle on a connection its entry dropped.  *)
EveryChildOwned ==
    \A c \in Conns : conn[c].alive =>
        \/ c \in Slots
        \/ conn[c].stage = "installed" /\ entry[conn[c].srv].conn = c
        \/ conn[c].closed
        \/ conn[c].stage = "dropped" /\ c \in Held

(* Once shutdown has returned no launch has a slot and none is installed;  *)
(* a child that still lives was told to stop, or was dropped by its entry  *)
(* under a call or refresh that is still on its way.                       *)
ShutdownDrains ==
    \A o \in Ops : op[o].res = "drained" =>
        \A c \in Conns : /\ c \notin Slots
                         /\ conn[c].alive =>
                               \/ conn[c].closed /\ conn[c].stage \in {"retired", "dropped"}
                               \/ conn[c].stage = "dropped" /\ c \in Held

=============================================================================
