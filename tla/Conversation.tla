----------------------------- MODULE Conversation -----------------------------
(***************************************************************************)
(* What the provider is shown of a native session: the conversation an       *)
(* adapter holds (gritt-provider), the request `NativeAgent` builds on it,    *)
(* the continuation a turn leaves in the store, and the hand-over when a live *)
(* session moves to another provider or model.                               *)
(*                                                                          *)
(* A message is its role, the turn it belongs to and the mode it speaks of.  *)
(* The Chat Completions and Messages adapters keep the conversation; the      *)
(* Responses adapter keeps the id of one the provider keeps, which is `items` *)
(* there.  Every reply is taken to have text: an empty one has nothing that    *)
(* could be lost.                                                            *)
(***************************************************************************)
EXTENDS Naturals, Sequences

CONSTANTS
    Protocols,       \* protocols of the configured profiles
    Grants,          \* authorities the user may grant
    MaxTurns,        \* bound: prompts submitted
    MaxRounds,       \* bound: replies asking for tools
    MaxSwitches,     \* bound: uses of switch_native
    MaxModeChanges,  \* bound: uses of set_mode
    MaxModeFailures, \* bound: those that fail halfway
    MaxCrashes       \* bound: deaths of the process

AllProtocols == {"chat_completions", "messages", "responses"}

ASSUME ConversationAssumption ==
    /\ Protocols \subseteq AllProtocols
    /\ {MaxTurns, MaxRounds, MaxSwitches, MaxModeChanges, MaxModeFailures, MaxCrashes}
          \subseteq Nat
    /\ Grants \subseteq {"supervised", "auto_approve", "full_access"}

Phases      == {"planning", "coding"}
Authorities == {"supervised"} \cup Grants
Modes       == {"planning"} \cup Authorities
Roles       == {"system", "user", "reply", "calls", "results"}

\* A reply that asks for tools has the role "calls".
Items == [role : Roles, turn : Nat, says : Modes \cup {"none"}, replayed : BOOLEAN]

VARIABLES
    pc,         \* where run_turn is
    turn,       \* number of prompts submitted so far
    status,     \* TurnOutcome::status
    phase,      \* session.phase, in memory and in the store alike
    authority,  \* NativeAgent::approval, by the mode it stands for
    protocol,   \* the protocol of the session's profile
    items,      \* the conversation behind the adapter
    system,     \* the mode in State::system or State::instructions
    started,    \* NativeAgent::started
    sentPhase,  \* NativeAgent::sent_phase
    replay,     \* NativeAgent::pending_replay
    request,    \* what was built for the provider and is not yet in `items`
    stored,     \* the continuation row
    finished,   \* history: turns whose final status is in the store
    forgotten,  \* history: turns lost with a hand-over, a foreign row or an unnamed reply
    rounds, switches, modeChanges, modeFailures, crashes   \* bounded counters

modeVars    == <<phase, authority>>
adapterVars == <<items, system>>
agentVars   == <<started, sentPhase, replay>>
ghostVars   == <<finished, forgotten>>
counters    == <<rounds, switches, modeChanges, modeFailures, crashes>>
vars == <<pc, turn, status, modeVars, protocol, adapterVars, agentVars, request, stored,
          ghostVars, counters>>

Mode == IF phase = "planning" THEN "planning" ELSE authority

PhaseOf(m)     == IF m = "planning" THEN "planning" ELSE "coding"
AuthorityOf(m) == IF m = "planning" THEN "supervised" ELSE m

Local(p) == p # "responses"

Item(role, says) == [role |-> role, turn |-> turn, says |-> says, replayed |-> FALSE]

Prompts(s) == {s[i].turn : i \in {j \in DOMAIN s : s[j].role = "user"}}

NoRow == [owner |-> "none", items |-> <<>>, system |-> "none"]

Init == /\ pc = "idle" /\ turn = 0 /\ status = "completed"
        /\ phase \in Phases /\ authority \in Authorities
        /\ protocol \in Protocols
        /\ items = <<>> /\ system = "none"
        /\ started = FALSE /\ sentPhase = "none" /\ replay = <<>> /\ request = <<>>
        /\ stored = NoRow
        /\ finished = {} /\ forgotten = {}
        /\ rounds = 0 /\ switches = 0 /\ crashes = 0
        /\ modeChanges = 0 /\ modeFailures = 0

-------------------------------------------------------------------------------
(* Between turns *)

ChangePhase(m) ==
    /\ pc = "idle" /\ modeChanges < MaxModeChanges
    /\ modeChanges' = modeChanges + 1
    /\ phase' = PhaseOf(m)
    /\ UNCHANGED <<pc, turn, status, protocol, adapterVars, started, replay, request,
                   stored, ghostVars, rounds, switches, crashes>>

\* Faulty variant: an authority the model has not heard of is not news.
SetModeQuietly(m) ==
    /\ ChangePhase(m)
    /\ authority' = AuthorityOf(m)
    /\ UNCHANGED <<sentPhase, modeFailures>>

\* set_mode
SetMode(m) ==
    /\ ChangePhase(m)
    /\ authority' = AuthorityOf(m) /\ sentPhase' = "none"
    /\ UNCHANGED modeFailures

\* set_mode when the event of the phase change cannot be written.
SetModeFails(m) ==
    /\ modeFailures < MaxModeFailures /\ modeFailures' = modeFailures + 1
    /\ PhaseOf(m) # phase
    /\ ChangePhase(m)
    /\ UNCHANGED <<authority, sentPhase>>

\* ProviderAdapter::history: the text turns.  The Messages adapter reads the text
\* of a reply out of its content blocks, and a replayed reply has none.
Readable(i) ==
    \/ i.role = "user"
    \/ i.role \in {"reply", "calls"} /\ (protocol = "messages" => ~i.replayed)

Carried(i) == [i EXCEPT !.replayed = TRUE, !.role = IF @ = "user" THEN "user" ELSE "reply"]

\* Of the first n items of s, for every n.
Carrying(s) ==
    LET text[n \in 0..Len(s)] ==
          IF n = 0 THEN <<>>
          ELSE IF Readable(s[n]) THEN Append(text[n - 1], Carried(s[n])) ELSE text[n - 1]
    IN  text

History(s) == IF Local(protocol) THEN Carrying(s)[Len(s)] ELSE <<>>

\* apply_switch, after every check has passed.
Switch(p) ==
    /\ pc = "idle" /\ switches < MaxSwitches
    /\ switches' = switches + 1
    /\ protocol' = p
    /\ replay' = History(items)
    /\ items' = <<>> /\ system' = "none"
    /\ started' = FALSE /\ sentPhase' = "none"
    /\ forgotten' = forgotten \cup ((Prompts(items) \cup Prompts(replay)) \ Prompts(replay'))
    /\ UNCHANGED <<pc, turn, status, modeVars, request, stored, finished, rounds,
                   modeChanges, modeFailures, crashes>>

-------------------------------------------------------------------------------
(* The request *)

\* NativeAgent::request.
Note == IF started /\ sentPhase # phase THEN Mode ELSE "none"

Built ==
    LET user == [Item("user", Note) EXCEPT !.turn = turn + 1]
        head == [Item("system", Mode) EXCEPT !.turn = turn + 1]
    IN  IF started THEN <<user>> ELSE <<head>> \o replay \o <<user>>

\* Faulty variant: the replay stays for the next request as well.
PromptKeepingReplay ==
    /\ pc = "idle" /\ turn < MaxTurns
    /\ pc' = "sending" /\ turn' = turn + 1 /\ status' = "completed"
    /\ request' = Built
    /\ UNCHANGED <<modeVars, protocol, adapterVars, agentVars, stored, ghostVars, counters>>

\* run_turn builds the request and drops the replay it carries.
Prompt ==
    /\ pc = "idle" /\ turn < MaxTurns
    /\ pc' = "sending" /\ turn' = turn + 1 /\ status' = "completed"
    /\ request' = Built
    /\ replay' = <<>>
    /\ UNCHANGED <<modeVars, protocol, adapterVars, started, sentPhase, stored, ghostVars,
                   counters>>

\* The connecting event cannot be emitted, or check_capabilities refuses the
\* request: the adapter keeps nothing of it.
NeverSent ==
    /\ pc = "sending" /\ pc' = "idle"
    /\ request' = <<>>
    /\ forgotten' = forgotten \cup Prompts(request)
    /\ UNCHANGED <<turn, status, modeVars, protocol, adapterVars, agentVars, stored,
                   finished, counters>>

\* send notes the request before it goes out.  The Messages and Responses adapters
\* keep the system text apart from the conversation.
Apart == protocol # "chat_completions" /\ request[1].role = "system"
Body  == IF Apart THEN Tail(request) ELSE request

NoteSystem == system' = IF Apart THEN request[1].says ELSE system

\* The Chat Completions and Messages adapters push before they send; what the
\* Responses adapter sends is in a conversation only once a response exists.
Transmit(s, open) ==
    /\ items'   = IF Local(protocol) THEN items \o s ELSE items
    /\ request' = IF Local(protocol) \/ ~open THEN <<>> ELSE s
    /\ forgotten' = IF Local(protocol) \/ open THEN forgotten
                                               ELSE forgotten \cup Prompts(s)

Send(to, outcome) ==
    /\ pc = "sending" /\ pc' = to /\ status' = outcome
    /\ NoteSystem
    /\ Transmit(Body, to = "streaming")
    /\ UNCHANGED <<turn, modeVars, protocol, replay, stored, finished, counters>>

MarkSent == started' = TRUE /\ sentPhase' = phase

SendAccepted == Send("streaming", "completed") /\ MarkSent
\* A cancelled send is answered with a stream that says so.
SendCut      == Send("closing", "cancelled") /\ MarkSent
\* The told phase cannot be written.
SendAborts   == Send("idle", "failed") /\ MarkSent
\* No key, no connection, or an error status.
SendFails    == Send("idle", "failed") /\ UNCHANGED <<started, sentPhase>>

-------------------------------------------------------------------------------
(* The reply *)

\* response.created names the response the next request continues.
Created ==
    /\ pc = "streaming" /\ request # <<>>
    /\ items' = items \o request /\ request' = <<>>
    /\ UNCHANGED <<pc, turn, status, modeVars, protocol, system, agentVars, stored,
                   ghostVars, counters>>

\* A reply without calls ends the turn; one with calls starts the tool phase.
GoesOn(role) ==
    \/ role = "reply" /\ pc' = "closing" /\ UNCHANGED rounds
    \/ role = "calls" /\ pc' = "tools" /\ rounds < MaxRounds /\ rounds' = rounds + 1

Completed(role) ==
    /\ pc = "streaming" /\ GoesOn(role)
    /\ items' = items \o request \o <<Item(role, "none")>> /\ request' = <<>>
    /\ UNCHANGED <<turn, status, modeVars, protocol, system, agentVars, stored, ghostVars,
                   switches, modeChanges, modeFailures, crashes>>

\* The body ends without the event that completes a reply, which is a completed
\* reply all the same (finish).  The Messages adapter keeps nothing of the reply;
\* the Responses adapter, if no response was named, nothing of the input.
EndsUnfinished(role) ==
    /\ pc = "streaming" /\ GoesOn(role)
    /\ protocol # "chat_completions"
    /\ request' = <<>> /\ forgotten' = forgotten \cup Prompts(request)
    /\ UNCHANGED <<turn, status, modeVars, protocol, adapterVars, agentVars, stored,
                   finished, switches, modeChanges, modeFailures, crashes>>

\* The turn is left: to be closed, or by an error that returns at once.
Leave(from, to, outcome) ==
    /\ pc = from /\ pc' = to /\ status' = outcome
    /\ request' = <<>> /\ forgotten' = forgotten \cup Prompts(request)
    /\ UNCHANGED <<turn, modeVars, protocol, adapterVars, agentVars, stored, finished, counters>>

StreamEnds     == \E o \in {"cancelled", "failed"} : Leave("streaming", "closing", o)
ToolsCancelled == Leave("tools", "closing", "cancelled")

\* An event cannot be shown or written, nor the continuation.
Aborts == \E from \in {"streaming", "tools", "closing", "final"} : Leave(from, "idle", "failed")

\* submit_tool_results, with a result for every call of the round.  The Responses
\* adapter refuses it where there is no response to continue.
Submit(to, outcome) ==
    /\ pc = "tools" /\ pc' = to /\ status' = outcome
    /\ to = "idle" \/ Local(protocol) \/ items # <<>>
    /\ Transmit(<<Item("results", "none")>>, to = "streaming")
    /\ UNCHANGED <<turn, modeVars, protocol, system, agentVars, stored, finished,
                   counters>>

SubmitAccepted == Submit("streaming", "completed")
SubmitCut      == Submit("closing", "cancelled")
SubmitFails    == Submit("idle", "failed")

-------------------------------------------------------------------------------
(* The end of the turn, and the next process *)

\* Faulty variant: a row that is there already is not replaced.
SaveFirstOnly ==
    /\ pc = "closing" /\ pc' = "final"
    /\ stored' = IF stored # NoRow THEN stored
                 ELSE [owner |-> protocol, items |-> items, system |-> system]
    /\ UNCHANGED <<turn, status, modeVars, protocol, adapterVars, agentVars, request,
                   ghostVars, counters>>

Save ==
    /\ pc = "closing" /\ pc' = "final"
    /\ stored' = [owner |-> protocol, items |-> items, system |-> system]
    /\ UNCHANGED <<turn, status, modeVars, protocol, adapterVars, agentVars, request,
                   ghostVars, counters>>

Finish ==
    /\ pc = "final" /\ pc' = "idle"
    /\ finished' = IF status = "completed" THEN finished \cup {turn} ELSE finished
    /\ UNCHANGED <<turn, status, modeVars, protocol, adapterVars, agentVars, request,
                   stored, forgotten, counters>>

Crash ==
    /\ pc # "down" /\ pc' = "down" /\ crashes < MaxCrashes
    /\ crashes' = crashes + 1
    /\ items' = <<>> /\ system' = "none" /\ started' = FALSE /\ sentPhase' = "none"
    /\ replay' = <<>> /\ request' = <<>>
    /\ UNCHANGED <<turn, status, modeVars, protocol, stored, finished, forgotten, rounds,
                   switches, modeChanges, modeFailures>>

\* agent_for: a row of another protocol is left alone and the session starts
\* fresh; sent_phase is unknown either way.
Restart ==
    /\ pc = "down" /\ pc' = "idle"
    /\ phase' \in Phases /\ authority' \in Authorities
    /\ started' = (stored.owner = protocol)
    /\ items'  = IF started' THEN stored.items ELSE <<>>
    /\ system' = IF started' THEN stored.system ELSE "none"
    /\ forgotten' = IF started' THEN forgotten ELSE 1..turn
    /\ UNCHANGED <<turn, status, protocol, sentPhase, replay, request, stored, finished, counters>>

Next ==
    \/ \E m \in Modes : SetMode(m) \/ SetModeFails(m)
    \/ \E p \in Protocols : Switch(p)
    \/ Prompt \/ NeverSent \/ SendAccepted \/ SendCut \/ SendAborts \/ SendFails
    \/ Created \/ \E r \in {"reply", "calls"} : Completed(r) \/ EndsUnfinished(r)
    \/ StreamEnds \/ ToolsCancelled \/ Aborts
    \/ SubmitAccepted \/ SubmitCut \/ SubmitFails
    \/ Save \/ Finish \/ Crash \/ Restart

Spec == Init /\ [][Next]_vars

-------------------------------------------------------------------------------
(* Properties *)

TypeOK ==
    /\ pc \in {"idle", "sending", "streaming", "tools", "closing", "final", "down"}
    /\ turn \in Nat /\ status \in {"completed", "cancelled", "failed"}
    /\ phase \in Phases /\ authority \in Authorities /\ protocol \in Protocols
    /\ items \in Seq(Items) /\ replay \in Seq(Items) /\ request \in Seq(Items)
    /\ pc = "sending" => request # <<>>
    /\ system \in Modes \cup {"none"} /\ sentPhase \in Phases \cup {"none"}
    /\ started \in BOOLEAN
    /\ stored \in [owner : Protocols \cup {"none"}, items : Seq(Items),
                   system : Modes \cup {"none"}]
    /\ finished \cup forgotten \subseteq Nat
    /\ {rounds, switches, modeChanges, modeFailures, crashes} \subseteq Nat

\* What the provider has in front of it, and what it was told last.
Shown == items \o request

Tells == {i \in DOMAIN Shown : Shown[i].says # "none"}

ToldBy(i) == i \in Tells /\ \A j \in Tells : j <= i

LastTold == IF Tells = {} THEN system
            ELSE Shown[CHOOSE i \in Tells : ToldBy(i)].says

StaleNote == \E i \in Tells : ToldBy(i) /\ Shown[i].replayed

(* The model that answers was last told the mode its calls are gated by,      *)
(* through every change of mode, failed send, cancelled turn and restart      *)
(* (request, set_mode and sent_phase).  There are three exceptions: the       *)
(* Responses adapter keeps nothing of an input that got no response, although *)
(* sent_phase says that it was sent; a conversation handed over carries the   *)
(* notes of old turns behind its fresh system prompt; and where two changes of *)
(* mode failed halfway, the second may undo what the first had a failed send   *)
(* tell the model.                                                            *)
ModelKnowsMode ==
    pc = "streaming" /\ Local(protocol) /\ ~StaleNote /\ modeFailures <= 1 => LastTold = Mode

(* No prompt is shown to the provider twice and none out of its place,        *)
(* whatever is retried, handed over, restored or handed over again.           *)
PromptsInOrder ==
    \A i, j \in DOMAIN Shown :
       i < j /\ Shown[i].role = "user" /\ Shown[j].role = "user" =>
          Shown[i].turn < Shown[j].turn

(* The prompt of a turn recorded as finished is in front of every later       *)
(* reply, also after the process died: the continuation is stored before the  *)
(* final status.  There are three exceptions, all in `forgotten`: what a       *)
(* hand-over drops; what a row of another protocol leaves behind; and, with    *)
(* Responses, an input whose body ended before it named a response, which is   *)
(* recorded as finished although nothing of it is kept (finish).              *)
FinishedRemembered ==
    pc = "streaming" => finished \ forgotten \subseteq Prompts(Shown)

(* Where every adapter keeps its conversation itself, what finished turns said *)
(* is in front of the provider whatever was switched in between, so that "the  *)
(* new provider does not start blind" (docs/terminal-modes.md:135-137).  The   *)
(* second of two switches in a row breaks it: the adapter between them has     *)
(* kept nothing yet, and apply_switch forgets what that one was to be given.   *)
NewProviderNotBlind ==
    (\A p \in Protocols : Local(p)) /\ pc = "streaming" => finished \subseteq Prompts(Shown)
===============================================================================
