------------------------------ MODULE Protocols ------------------------------
(***************************************************************************)
(* How the four external agents are read (gritt-connector/src/protocols):   *)
(* each has its own lines, and a normalizer that turns a line into events of *)
(* the shared model and keeps the thread, the tools in use and whether the   *)
(* agent has ended.  The driver of ConnectorTurn sends the events one by one *)
(* and remembers the last end among them.                                    *)
(*                                                                          *)
(* The agent keeps to its documented format: it announces a call before it   *)
(* ends it, except that Codex and OpenCode may tell of a call only when it   *)
(* is over, and OpenCode may repeat one that runs.  After its end it may go  *)
(* on, or say another end.                                                   *)
(***************************************************************************)
EXTENDS Naturals, FiniteSets, Sequences, Functions

CONSTANTS
    Calls,      \* the tool calls of a turn
    None,
    MaxLines    \* bound: lines the agent prints

Protocol == {"claude_code", "codex", "cursor", "opencode"}
Tool(c)  == [of |-> c]                 \* each call names its own tool
Threads  == {"main", "inner"}          \* the turn's thread, and one of an agent within it

VARIABLES
    protocol,
    session,   \* the normalizer: session_id, thread_id
    terminal,
    tools,     \* tool_names, started, called: the name kept for each call, or None
    pending,   \* events of the line in hand
    out,       \* events sent
    verdict,   \* the driver: its terminal event
    gone,      \* nobody reads the stream
    calls,     \* the agent: how far each call is
    said,      \* the end it said last
    lines      \* bounded counter

normalizer == <<session, terminal, tools>>
agent      == <<calls, said, lines>>
vars == <<protocol, normalizer, pending, out, verdict, gone, agent>>

Event(kind, id, tool) == [kind |-> kind, id |-> id, tool |-> tool]
Progress        == Event("progress", None, None)
Call(c, tool)   == Event("call", c, tool)
Result(c, tool) == Event("result", c, tool)
End(how)        == Event(how, None, None)
Ends            == {"completed", "error"}

Init ==
    /\ protocol \in Protocol
    /\ session = None /\ terminal = FALSE /\ tools = [c \in Calls |-> None]
    /\ pending = <<>> /\ out = <<>> /\ verdict = "none" /\ gone = FALSE
    /\ calls = [c \in Calls |-> "new"] /\ said = "none" /\ lines = 0

Is(p) == protocol \in p

-------------------------------------------------------------------------------
(* The driver *)

\* Driver::event marks an end whether or not it can be sent.
Send ==
    /\ pending # <<>> /\ ~gone /\ pending' = Tail(pending)
    /\ verdict' = IF Head(pending).kind \in Ends THEN Head(pending).kind ELSE verdict
    /\ out' = Append(out, Head(pending))
    /\ UNCHANGED <<protocol, normalizer, gone, agent>>

\* The rest of the line is dropped, and the agent killed.
SendFails ==
    /\ pending # <<>> /\ ~gone /\ gone' = TRUE /\ pending' = <<>>
    /\ verdict' = IF Head(pending).kind \in Ends THEN Head(pending).kind ELSE verdict
    /\ UNCHANGED <<protocol, normalizer, out, agent>>

-------------------------------------------------------------------------------
(* A line and its normalizer *)

\* Codex names the thread in a line of its own, the last of which counts; the others in
\* every line, the first of which does.
Printed(thread) ==
    /\ pending = <<>> /\ ~gone /\ lines < MaxLines /\ lines' = lines + 1
    /\ session' = IF session = None /\ ~Is({"codex"}) THEN thread ELSE session
    /\ (lines = 0 => thread = "main") /\ (Is({"codex"}) => thread = "main")
    /\ UNCHANGED <<protocol, out, verdict, gone>>

ThreadStarted ==
    /\ Is({"codex"}) /\ session = None /\ pending = <<>> /\ ~gone /\ lines < MaxLines
    /\ session' = "main" /\ pending' = <<Progress>> /\ lines' = lines + 1
    /\ UNCHANGED <<protocol, terminal, tools, out, verdict, gone, calls, said>>

\* Text, reasoning, a status, a line nobody knows; or one that says nothing.
Talk(thread) ==
    /\ Printed(thread) /\ pending' \in {<<Progress>>, <<>>}
    /\ UNCHANGED <<terminal, tools, calls, said>>

Opening(c) == <<Progress, Call(c, Tool(c))>>
Openings(order) == [i \in 1..2*Len(order) |->
    IF i % 2 = 1 THEN Progress ELSE Call(order[i \div 2], Tool(order[i \div 2]))]

\* Claude Code announces several calls in one line; an entry of OpenCode's `called`
\* stands for its name.
Start(thread, S) ==
    /\ Printed(thread) /\ S # {} /\ \A c \in S : calls[c] = "new"
    /\ Is({"claude_code"}) \/ Cardinality(S) = 1
    /\ calls' = [c \in Calls |-> IF c \in S THEN "open" ELSE calls[c]]
    /\ tools' = [c \in Calls |-> IF c \in S THEN Tool(c) ELSE tools[c]]
    /\ \E order \in Bijection(1..Cardinality(S), S) : pending' = Openings(order)
    /\ UNCHANGED <<terminal, said>>

\* OpenCode tells of a call that is still running.
Repeat(thread, c) ==
    /\ Printed(thread) /\ Is({"opencode"}) /\ calls[c] = "open"
    /\ pending' = <<>>
    /\ UNCHANGED <<terminal, tools, calls, said>>

(* Faulty variant: a call that ends is announced even if it was before. *)
EndedTwice(c) == IF Is({"codex"}) THEN <<Call(c, Tool(c)), Result(c, Tool(c))>>
                 ELSE <<Result(c, Tool(c))>>

\* Claude Code says only the id of what ended; Codex and OpenCode announce first what
\* was not announced.
Ended(c) ==
    CASE Is({"claude_code"}) -> <<Result(c, IF tools[c] = None THEN "tool" ELSE tools[c])>>
      [] Is({"cursor"})      -> <<Result(c, IF tools[c] = None THEN Tool(c) ELSE tools[c])>>
      [] Is({"codex"})       -> IF tools[c] = None
                                THEN <<Call(c, Tool(c)), Result(c, Tool(c))>>
                                ELSE <<Result(c, tools[c])>>
      [] Is({"opencode"})    -> (IF tools[c] = None THEN Opening(c) ELSE <<>>)
                                \o <<Result(c, Tool(c))>>

Finish(thread, c) ==
    /\ Printed(thread)
    /\ calls[c] = "open" \/ (calls[c] = "new" /\ Is({"codex", "opencode"}))
    /\ calls' = [calls EXCEPT ![c] = "ended"]
    /\ tools' = [tools EXCEPT ![c] = IF Is({"codex", "cursor"}) THEN None
                                     ELSE IF Is({"opencode"}) THEN Tool(c) ELSE @]
    /\ pending' = Ended(c)
    /\ UNCHANGED <<terminal, said>>

\* A step of OpenCode's ends with calls to run; only the tokens are told.
StepEnds(thread) ==
    /\ Printed(thread) /\ Is({"opencode"}) /\ pending' = <<Progress>>
    /\ UNCHANGED <<terminal, tools, calls, said>>

\* result, turn.completed, turn.failed, an error item, step_finish.
TurnEnds(thread, how) ==
    /\ Printed(thread)
    /\ terminal' = TRUE /\ said' = how
    /\ pending' \in {<<End(how)>>, <<Progress, End(how)>>}    \* with or without its usage
    /\ UNCHANGED <<tools, calls>>

Next ==
    \/ Send \/ SendFails \/ ThreadStarted
    \/ \E thread \in Threads :
          \/ Talk(thread) \/ StepEnds(thread)
          \/ \E S \in SUBSET Calls : Start(thread, S)
          \/ \E c \in Calls : Repeat(thread, c) \/ Finish(thread, c)
          \/ \E how \in Ends : TurnEnds(thread, how)

Spec == Init /\ [][Next]_vars

-------------------------------------------------------------------------------
(* Properties *)

At(e) == {i \in DOMAIN out : out[i].kind = e.kind /\ out[i].id = e.id}

(* Whatever the agent and the order of its lines, the transcript shows each  *)
(* call once, and its result once, after it and under the name it was called *)
(* by: the interface and the store pair them by id (normalizers' `message`).  *)
ToolsPaired ==
    \A i \in DOMAIN out :
       out[i].kind \in {"call", "result"} =>
          /\ At(out[i]) = {i}
          /\ out[i].kind = "result" =>
                \E j \in 1..i-1 : out[j] = Call(out[i].id, out[i].tool)

(* The driver's verdict, the normalizer's terminal_seen and the agent agree: *)
(* the deadline for a silent agent changes, and its exit is judged, by what   *)
(* the agent itself said last of its end, and not before it said one          *)
(* ("True once a completion, error, or cancellation was produced").           *)
VerdictIsAgents ==
    pending = <<>> /\ ~gone => verdict = said /\ (terminal <=> said # "none")

(* What a turn leaves to the next, and shows: the above, and as the thread to *)
(* continue the one the agent itself runs, not one of its inner agents.       *)
ReadAsMeant ==
    /\ ToolsPaired /\ VerdictIsAgents
    /\ session \in {None, "main"}
=============================================================================
