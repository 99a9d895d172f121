---------------------------- MODULE NativeSlots ----------------------------
(***************************************************************************)
(* The native agent behind the Connector contract,                         *)
(* crates/gritt-harness/src/native_connector.rs: a slot per session that   *)
(* lends its agent to one turn at a time, and the calls that other tasks   *)
(* make on the slot while the turn runs.                                   *)
(*                                                                         *)
(* One session is modelled: slots share nothing but their lock.  A turn    *)
(* stands for its call of run, its task and its stream.  What run_turn     *)
(* does is in NativeTurn; here it resets the token, may ask for approvals  *)
(* and ends.  An agent is named after the turn that built it.              *)
(***************************************************************************)
EXTENDS Naturals

CONSTANTS
    Turns,         \* the calls of start and resume: numbers from 1
    MaxAsks        \* bound: approvals one turn asks for

VARIABLES
    exists,        \* the slot has been made
    agent,         \* Slot::agent: who built it, 0 when it is lent or was never made
    handle,        \* Slot::handle: the agent it cancels, 0 for none
    state,         \* Slot::state
    input,         \* Slot::pending: a follow-up waits
    approvals,     \* Slot::approvals: the requests <<turn, number>>
    turn,          \* [pc, agent, asks, end] of each turn, see TypeOK
    token,         \* the agents whose cancellation token is set
    stream,        \* each turn's stream: none, open, dropped, closed
    built,         \* history: the agents built
    overlap,       \* history: a call came before the last stream had closed
    answered,      \* history: requests whose answer was accepted
    orphaned       \* history: requests denied with neither answer nor cancellation

slotVars == <<exists, agent, handle, state, input, approvals>>
history  == <<built, overlap, answered, orphaned>>
vars == <<slotVars, turn, token, stream, history>>

States == {"idle", "running", "asking", "input", "completed", "cancelled", "failed"}

Request(t) == <<t, turn[t].asks>>
Active(t)  == turn[t].pc \notin {"none", "refused", "done"}

(* The client is done with a turn when it has read its stream to the end.  *)
Drained(t) == turn[t].pc \in {"none", "refused"} \/ stream[t] = "closed"

Goto(t, pc) == turn' = [turn EXCEPT ![t].pc = pc]

-----------------------------------------------------------------------------
(* run: the agent is taken under the lock, or built after it is let go.    *)

Run(t) ==
    /\ turn[t].pc = "none"
    /\ overlap' = (overlap \/ \E u \in Turns : ~Drained(u))
    /\ turn' = [turn EXCEPT ![t].pc = IF agent = 0 THEN "opening" ELSE "ready",
                            ![t].agent = agent]
    /\ agent' = 0
    /\ UNCHANGED <<exists, handle, state, approvals, token, stream, built, answered, orphaned>>

Start(t) == Run(t) /\ UNCHANGED input

(* resume takes the follow-up that send_input left. *)
Resume(t) == input /\ input' = FALSE /\ Run(t)

(* The session is looked up or made, its agent built. *)
Build(t) ==
    /\ turn[t].pc = "opening"
    /\ turn' = [turn EXCEPT ![t].pc = "ready", ![t].agent = t]
    /\ built' = built \cup {t}
    /\ UNCHANGED <<slotVars, token, stream, overlap, answered, orphaned>>

BuildFails(t) ==
    /\ turn[t].pc = "opening" /\ Goto(t, "refused")
    /\ UNCHANGED <<slotVars, token, stream, history>>

(* The handle is published and the task spawned. *)
Publish(t) ==
    /\ turn[t].pc = "ready" /\ Goto(t, "spawned")
    /\ exists' = TRUE /\ handle' = turn[t].agent /\ state' = "running"
    /\ stream' = [stream EXCEPT ![t] = "open"]
    /\ UNCHANGED <<agent, input, approvals, token, history>>

-----------------------------------------------------------------------------
(* The task of a turn.                                                     *)

(* run_turn resets the token of its agent. *)
BeginTurn(t) ==
    /\ turn[t].pc = "spawned" /\ Goto(t, "running")
    /\ token' = token \ {turn[t].agent}
    /\ UNCHANGED <<slotVars, stream, history>>

(* ChannelUi::approve *)
Ask(t) ==
    /\ turn[t].pc = "running" /\ turn[t].asks < MaxAsks
    /\ turn' = [turn EXCEPT ![t].pc = "asking", ![t].asks = @ + 1]
    /\ state' = "asking"
    /\ approvals' = approvals \cup {<<t, turn[t].asks + 1>>}
    /\ UNCHANGED <<exists, agent, handle, input, token, stream, history>>

(* The wait is left when the answer is there, when the token is set, or    *)
(* when the sender is dropped, which counts as a denial.                   *)
Decided(t) ==
    /\ turn[t].pc = "asking"
    /\ \/ Request(t) \in answered /\ UNCHANGED orphaned
       \/ turn[t].agent \in token /\ UNCHANGED orphaned
       \/ /\ Request(t) \notin approvals \cup answered /\ turn[t].agent \notin token
          /\ orphaned' = orphaned \cup {Request(t)}
    /\ Goto(t, "running")
    /\ UNCHANGED <<slotVars, token, stream, built, overlap, answered>>

(* run_turn returns: completed, cancelled, or failed, also because the     *)
(* stream was dropped.                                                     *)
TurnEnds(t) ==
    /\ turn[t].pc = "running"
    /\ \E end \in {"completed", "cancelled", "failed"} :
         /\ end = "completed" => stream[t] = "open" /\ turn[t].agent \notin token
         /\ end = "cancelled" => turn[t].agent \in token
         /\ turn' = [turn EXCEPT ![t].pc = "returning", ![t].end = end]
    /\ UNCHANGED <<slotVars, token, stream, history>>

Closed(t) == [stream EXCEPT ![t] = IF @ = "open" THEN "closed" ELSE @]

(* Faulty variant: the interface is dropped with the turn, before the      *)
(* agent is back.                                                          *)
GiveBackLate(t) ==
    /\ turn[t].pc = "returning"
    /\ IF stream[t] = "open"
       THEN stream' = Closed(t) /\ UNCHANGED <<agent, handle, state, approvals, turn>>
       ELSE /\ agent' = turn[t].agent /\ handle' = 0 /\ state' = turn[t].end /\ approvals' = {}
            /\ Goto(t, "done") /\ UNCHANGED stream
    /\ UNCHANGED <<exists, input, token, history>>

(* The task gives the agent back under the lock; the interface, and with   *)
(* it the sending half of the stream, is dropped after that.               *)
GiveBack(t) ==
    /\ turn[t].pc = "returning" /\ Goto(t, "done")
    /\ agent' = turn[t].agent /\ handle' = 0 /\ state' = turn[t].end
    /\ approvals' = {}
    /\ UNCHANGED <<exists, input, token, stream, history>>

Drop(t) ==
    /\ turn[t].pc = "done" /\ stream[t] = "open"
    /\ stream' = Closed(t)
    /\ UNCHANGED <<slotVars, turn, token, history>>

-----------------------------------------------------------------------------
(* The calls of other tasks.                                               *)

(* The client drops the stream before its end. *)
Abandon(t) ==
    /\ stream[t] = "open"
    /\ stream' = [stream EXCEPT ![t] = "dropped"]
    /\ UNCHANGED <<slotVars, turn, token, history>>

SendInput ==
    /\ exists /\ ~input
    /\ input' = TRUE /\ state' = "input"
    /\ UNCHANGED <<exists, agent, handle, approvals, turn, token, stream, history>>

(* answer_approval: the state is set before the request is looked for. *)
Answer(r) ==
    /\ exists
    /\ state' = "running"
    /\ approvals' = approvals \ {r}
    /\ answered' = IF r \in approvals THEN answered \cup {r} ELSE answered
    /\ UNCHANGED <<exists, agent, handle, input, turn, token, stream, built, overlap, orphaned>>

Cancel ==
    /\ handle # 0
    /\ token' = token \cup {handle}
    /\ UNCHANGED <<slotVars, turn, stream, history>>

Init ==
    /\ exists = FALSE /\ agent = 0 /\ handle = 0 /\ state = "idle" /\ input = FALSE
    /\ approvals = {}
    /\ turn = [t \in Turns |-> [pc |-> "none", agent |-> 0, asks |-> 0, end |-> "none"]]
    /\ token = {} /\ stream = [t \in Turns |-> "none"]
    /\ built = {} /\ overlap = FALSE /\ answered = {} /\ orphaned = {}

Next ==
    \/ \E t \in Turns :
         \/ Start(t) \/ Resume(t) \/ Build(t) \/ BuildFails(t) \/ Publish(t)
         \/ BeginTurn(t) \/ Ask(t) \/ Decided(t) \/ TurnEnds(t) \/ GiveBack(t) \/ Drop(t)
         \/ Abandon(t)
         \/ \E n \in 1..turn[t].asks : Answer(<<t, n>>)
    \/ SendInput \/ Cancel

Spec == Init /\ [][Next]_vars

-----------------------------------------------------------------------------
(* Properties.                                                             *)

TypeOK ==
    /\ exists \in BOOLEAN /\ input \in BOOLEAN /\ overlap \in BOOLEAN
    /\ {agent, handle} \subseteq Turns \cup {0} /\ state \in States
    /\ turn \in [Turns -> [pc : {"none", "opening", "ready", "spawned", "running", "asking",
                                 "returning", "done", "refused"},
                           agent : Turns \cup {0}, asks : 0..MaxAsks,
                           end : {"none", "completed", "cancelled", "failed"}]]
    /\ token \subseteq Turns /\ built \subseteq Turns
    /\ stream \in [Turns -> {"none", "open", "dropped", "closed"}]
    /\ approvals \cup answered \cup orphaned \subseteq Turns \X (1..MaxAsks)

(* Whoever calls on the session, no agent is in two hands: each is lent to *)
(* one turn, or waits in the slot.  A client that reads every stream to    *)
(* its end before it calls again always gets the same agent back, and with *)
(* it the conversation; its cancellation reaches the turn that runs, and   *)
(* none of its requests is denied because another turn swept them away.    *)
(* A client that drops a stream, or two clients, have no such promise: the *)
(* second call builds an agent on the rows of the first.                   *)
OneAgentOneTurn ==
    /\ TypeOK
    /\ \A t \in Turns : Active(t) /\ turn[t].agent # 0 =>
         /\ agent # turn[t].agent
         /\ \A u \in Turns \ {t} : Active(u) => turn[u].agent # turn[t].agent
    /\ ~overlap =>
         /\ \A t, u \in built : t = u
         /\ orphaned = {}
         /\ \A t \in Turns : turn[t].pc \in {"running", "asking"} => handle = turn[t].agent

=============================================================================
