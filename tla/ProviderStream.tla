--------------------------- MODULE ProviderStream ---------------------------
(***************************************************************************)
(* One provider adapter of crates/gritt-provider and the requests a native *)
(* turn makes through it: the capability gate and its warning, the wait    *)
(* for an answer, the stream of wire elements, the normalizer of each of   *)
(* the three protocols, and what the adapter keeps of the conversation.    *)
(*                                                                         *)
(* The server is external: it answers with text and calls in pieces,       *)
(* interleaved as its protocol allows, and may refuse, fail or fall silent *)
(* at any point.  A wire element is handled in the step that sends it;     *)
(* what it produces waits in `pending` until the turn asks for it.         *)
(* Reasoning, usage, stop reasons and skipped elements are left out: the   *)
(* turn takes no decision from them.                                       *)
(***************************************************************************)
EXTENDS Naturals, Sequences, FiniteSets, SequencesExt

CONSTANTS
    Protocols,     \* "chat_completions", "messages", "responses"
    Calls,         \* the positions of the calls in one answer
    MaxText,       \* bound on the pieces of text in one answer
    MaxArgs,       \* bound on the pieces of one call's arguments
    MaxRequests    \* bound on the requests made

ASSUME ProtocolsAssumption == Protocols \subseteq {"chat_completions", "messages", "responses"}
ASSUME BoundsAssumption == Calls \subseteq Nat /\ {MaxText, MaxArgs, MaxRequests} \subseteq Nat

VARIABLES
    protocol,      \* which adapter this is
    phase,         \* where the turn is: see Phases
    request,       \* the number of the request the turn made last
    cancelled,     \* the cancellation token
    warning,       \* emitter.pending_diagnostic: the request it is about, 0 for none
    warned,        \* history: whether the last request raised a warning
    norm,          \* the normalizer of the open stream
    pending,       \* events produced and not yet taken
    out,           \* the events the turn took of the last request
    messages,      \* the conversation the adapter keeps
    previous,      \* previous_response_id: the request whose answer it names
    server         \* what the server sent for the last request

vars == <<protocol, phase, request, cancelled, warning, warned, norm, pending,
          out, messages, previous, server>>

Phases == {"idle", "connecting", "refused", "open", "tools"}

(* The identity of a call: the request whose answer asked for it, and its  *)
(* place there.                                                            *)
Id(c) == <<request, c>>

NoAnswer == [text |-> 0, calls |-> [c \in Calls |-> <<>>], opened |-> {}, closed |-> {},
             created |-> FALSE, whole |-> FALSE, cut |-> FALSE]

(* ChatNormalizer, MessagesNormalizer and ResponsesNormalizer: calls being *)
(* put together, calls put together, text of the answer, and terminal.     *)
Fresh == [partial |-> [c \in {} |-> <<>>], finished |-> <<>>, text |-> 0, terminal |-> FALSE]

Has(ps) == protocol \in ps

-----------------------------------------------------------------------------
(* Events.                                                                 *)

TextEvent        == [kind |-> "text", call |-> <<>>, args |-> <<>>]
CallEvent(c, as) == [kind |-> "call", call |-> Id(c), args |-> as]
End(kind)        == [kind |-> kind, call |-> <<>>, args |-> <<>>]
Terminal(e)      == e.kind \in {"completed", "error", "cancelled"}

(* EventEmitter::emit: the warning waiting goes on the first event made.   *)
Stamped(events) ==
    [i \in DOMAIN events |-> [event |-> events[i], warning |-> IF i = 1 THEN warning ELSE 0]]
Emitted(events) ==
    /\ pending' = pending \o Stamped(events)
    /\ warning' = IF events = <<>> THEN warning ELSE 0

CallsIn(events) == {events[i].event.call : i \in {j \in DOMAIN events : events[j].event.kind = "call"}}

(* The calls in the answer the provider goes on from: the last assistant   *)
(* entry of the messages sent, or the response named by its id.            *)
OnRecord ==
    IF protocol = "responses"
    THEN IF previous = request THEN {Id(c) : c \in server.opened} ELSE {}
    ELSE IF messages = <<>> \/ Last(messages).role # "assistant" THEN {}
         ELSE Last(messages).calls

-----------------------------------------------------------------------------
(* Requests.                                                               *)

(* check_capabilities: drops what an earlier request left, then warns.     *)
Gate(warns) == warning' = IF warns THEN request + 1 ELSE 0

Keep(entry) == messages' = IF Has({"responses"}) THEN messages ELSE Append(messages, entry)

Entry(role, calls) == [role |-> role, calls |-> calls]

(* A new turn resets the token and calls send: the capability gate may     *)
(* refuse; the prompt is kept; the key may be missing.                     *)
Send(warns) ==
    /\ phase = "idle" /\ request < MaxRequests
    /\ request' = request + 1
    /\ cancelled' = FALSE
    /\ out' = <<>> /\ server' = NoAnswer /\ norm' = Fresh /\ pending' = <<>>
    /\ \/ /\ warning' = 0 /\ warned' = FALSE
          /\ UNCHANGED <<phase, messages>>
       \/ /\ Keep(Entry("user", {}))
          /\ warning' = 0 /\ warned' = FALSE
          /\ UNCHANGED phase
       \/ /\ Keep(Entry("user", {}))
          /\ Gate(warns) /\ warned' = warns
          /\ phase' = "connecting"
    /\ UNCHANGED <<protocol, previous>>

(* The results of every call of the answer go back.  Responses needs a     *)
(* response to answer; the others keep the results themselves.             *)
SubmitToolResults ==
    /\ phase = "tools" /\ request < MaxRequests
    /\ request' = request + 1
    /\ Keep(Entry("tool", CallsIn(out)))
    /\ warning' = 0 /\ warned' = FALSE
    /\ out' = <<>> /\ server' = NoAnswer /\ norm' = Fresh /\ pending' = <<>>
    /\ phase' = IF Has({"responses"}) /\ previous = 0 THEN "idle" ELSE "connecting"
    /\ UNCHANGED <<protocol, cancelled, previous>>

(* A cancellation between two calls, or an error, ends the turn instead.   *)
LeaveTools ==
    /\ phase = "tools"
    /\ phase' = "idle"
    /\ UNCHANGED <<protocol, request, cancelled, warning, warned, norm, pending, out,
                   messages, previous, server>>

Cancel ==
    /\ phase # "idle" /\ ~cancelled
    /\ cancelled' = TRUE
    /\ UNCHANGED <<protocol, phase, request, warning, warned, norm, pending, out,
                   messages, previous, server>>

(* send_unchecked: a cancelled request is not sent, or no longer waited    *)
(* for; a failed one ends here; the body of a refusal is read to its end.  *)
Connect ==
    /\ phase = "connecting"
    /\ \/ /\ cancelled
          /\ warning' = 0
          /\ out' = <<[event |-> End("cancelled"), warning |-> 0]>>
          /\ phase' = "idle"
       \/ /\ ~cancelled
          /\ warning' = 0 /\ phase' = "idle"
          /\ UNCHANGED out
       \/ /\ ~cancelled
          /\ phase' \in {"open", "refused"}
          /\ UNCHANGED <<warning, out>>
    /\ UNCHANGED <<protocol, request, cancelled, warned, norm, pending, messages, previous, server>>

Refused ==
    /\ phase = "refused"
    /\ phase' = "idle" /\ warning' = 0
    /\ UNCHANGED <<protocol, request, cancelled, warned, norm, pending, out, messages,
                   previous, server>>

-----------------------------------------------------------------------------
(* The stream.  The body is read when nothing is pending; a token seen     *)
(* there wins over the body.                                               *)

Reading == phase = "open" /\ pending = <<>> /\ ~norm.terminal /\ ~cancelled

streamRest == <<protocol, phase, request, cancelled, warned, out>>

(* Responses names itself first; the adapter remembers the name at once.   *)
Created ==
    /\ Reading /\ Has({"responses"}) /\ ~server.created
    /\ server' = [server EXCEPT !.created = TRUE]
    /\ previous' = request
    /\ UNCHANGED <<streamRest, warning, norm, pending, messages>>

Begun == Has({"responses"}) => server.created

TextPiece ==
    /\ Reading /\ Begun /\ server.text < MaxText
    /\ server' = [server EXCEPT !.text = @ + 1]
    /\ norm' = [norm EXCEPT !.text = @ + 1]
    /\ Emitted(<<TextEvent>>)
    /\ UNCHANGED <<streamRest, messages, previous>>

(* The head of a call: id and name, under the call's index. *)
OpenCall(c) ==
    /\ Reading /\ Begun /\ c \notin server.opened
    /\ server' = [server EXCEPT !.opened = @ \cup {c}]
    /\ norm' = [norm EXCEPT !.partial = [d \in DOMAIN @ \cup {c} |-> IF d = c THEN <<>> ELSE @[d]]]
    /\ UNCHANGED <<streamRest, warning, pending, messages, previous>>

(* Faulty variant: a piece goes to the call that was opened last. *)
LastOpened(c) == CHOOSE d \in DOMAIN norm.partial : \A e \in DOMAIN norm.partial : e <= d

(* A piece is put under the index it names. *)
Index(c) == c

(* A piece of a call's arguments. *)
ArgumentPiece(c) ==
    LET piece == Len(server.calls[c]) + 1 IN
    /\ Reading /\ c \in server.opened \ server.closed
    /\ piece <= MaxArgs
    /\ server' = [server EXCEPT !.calls[c] = Append(@, <<c, piece>>)]
    /\ norm' = [norm EXCEPT !.partial[Index(c)] = Append(@, <<c, piece>>)]
    /\ UNCHANGED <<streamRest, warning, pending, messages, previous>>

(* content_block_stop and response.output_item.done: the call is whole and *)
(* reported; the latter may repeat the arguments.  Chat has no such mark.  *)
CloseCall(c) ==
    LET args == norm.partial[c] IN
    /\ Reading /\ ~Has({"chat_completions"})
    /\ c \in server.opened \ server.closed
    /\ server' = [server EXCEPT !.closed = @ \cup {c}]
    /\ norm' = [norm EXCEPT !.partial = [d \in DOMAIN @ \ {c} |-> @[d]],
                            !.finished = Append(@, Id(c))]
    /\ \E repeated \in {args} \cup (IF Has({"responses"}) THEN {server.calls[c]} ELSE {}) :
          Emitted(<<CallEvent(c, repeated)>>)
    /\ UNCHANGED <<streamRest, messages, previous>>

(* The calls put together under an index, in the order of the index. *)
Assembled == [i \in 1..Cardinality(DOMAIN norm.partial) |->
                 CHOOSE c \in DOMAIN norm.partial :
                    Cardinality({d \in DOMAIN norm.partial : d < c}) = i - 1]

(* Faulty variant: an answer with no text is not kept. *)
FinalizeTextOnly ==
    /\ messages' = IF norm.text = 0 THEN messages
                   ELSE Append(messages, Entry("assistant", {Id(c) : c \in DOMAIN norm.partial}))
    /\ Emitted([i \in DOMAIN Assembled |-> CallEvent(Assembled[i], norm.partial[Assembled[i]])]
               \o <<End("completed")>>)
    /\ norm' = [norm EXCEPT !.terminal = TRUE, !.partial = [c \in {} |-> <<>>]]

(* ChatNormalizer::finalize: keeps the answer, reports every call. *)
Finalize ==
    /\ messages' = Append(messages, Entry("assistant", {Id(c) : c \in DOMAIN norm.partial}))
    /\ Emitted([i \in DOMAIN Assembled |-> CallEvent(Assembled[i], norm.partial[Assembled[i]])]
               \o <<End("completed")>>)
    /\ norm' = [norm EXCEPT !.terminal = TRUE, !.partial = [c \in {} |-> <<>>]]

(* The mark that ends the answer: [DONE], message_stop,                    *)
(* response.completed.                                                     *)
Whole ==
    /\ Reading /\ Begun
    /\ Has({"chat_completions"}) \/ server.opened = server.closed
    /\ server' = [server EXCEPT !.whole = TRUE]
    /\ \/ /\ Has({"chat_completions"})
          /\ Finalize
          /\ UNCHANGED previous
       \/ /\ Has({"messages"})
          /\ messages' = Append(messages, Entry("assistant", ToSet(norm.finished)))
          /\ Emitted(<<End("completed")>>)
          /\ norm' = [norm EXCEPT !.terminal = TRUE]
          /\ UNCHANGED previous
       \/ /\ Has({"responses"})
          /\ previous' = request
          /\ Emitted(<<End("completed")>>)
          /\ norm' = [norm EXCEPT !.terminal = TRUE]
          /\ UNCHANGED messages
    /\ UNCHANGED streamRest

(* The body ends before that mark.  Chat takes what it has for the answer; *)
(* the others report an end of another kind and keep nothing.              *)
CutShort ==
    /\ Reading
    /\ server' = [server EXCEPT !.cut = TRUE]
    /\ \/ Has({"chat_completions"}) /\ Finalize
       \/ /\ ~Has({"chat_completions"})
          /\ Emitted(<<End("completed")>>)
          /\ norm' = [norm EXCEPT !.terminal = TRUE]
          /\ UNCHANGED messages
    /\ UNCHANGED <<streamRest, previous>>

(* An error element in the body, or an error of the transport. *)
Broken ==
    /\ Reading
    /\ Emitted(<<End("error")>>)
    /\ norm' = [norm EXCEPT !.terminal = TRUE]
    /\ UNCHANGED <<streamRest, messages, previous, server>>

(* The token is seen where the body would be read.                         *)
StreamCancelled ==
    /\ phase = "open" /\ pending = <<>> /\ ~norm.terminal /\ cancelled
    /\ out' = out \o Stamped(<<End("cancelled")>>)
    /\ warning' = 0
    /\ phase' = "idle"
    /\ UNCHANGED <<protocol, request, cancelled, warned, norm, pending, messages, previous, server>>

(* Faulty variant: the turn reads on after the terminal event. *)
DeliverOn ==
    /\ phase = "open" /\ pending # <<>>
    /\ out' = Append(out, Head(pending))
    /\ pending' = Tail(pending)
    /\ UNCHANGED <<protocol, phase, request, cancelled, warning, warned, norm, messages,
                   previous, server>>

(* The turn takes one event; the terminal one ends its reading, and the    *)
(* calls of a completed answer are run.                                    *)
Deliver ==
    /\ phase = "open" /\ pending # <<>>
    /\ out' = Append(out, Head(pending))
    /\ pending' = Tail(pending)
    /\ phase' = CASE ~Terminal(Head(pending).event) -> "open"
                  [] Head(pending).event.kind = "completed" /\ CallsIn(out) # {} -> "tools"
                  [] OTHER -> "idle"
    /\ UNCHANGED <<protocol, request, cancelled, warning, warned, norm, messages, previous, server>>

(* An event could not be stored: the turn fails and the stream is dropped. *)
Drop ==
    /\ phase = "open"
    /\ phase' = "idle"
    /\ UNCHANGED <<protocol, request, cancelled, warning, warned, norm, pending, out, messages,
                   previous, server>>

-----------------------------------------------------------------------------
Init ==
    /\ protocol \in Protocols
    /\ phase = "idle" /\ request = 0 /\ cancelled = FALSE
    /\ warning = 0 /\ warned = FALSE
    /\ norm = Fresh /\ pending = <<>> /\ out = <<>>
    /\ messages = <<>> /\ previous = 0
    /\ server = NoAnswer

Next ==
    \/ \E warns \in BOOLEAN : Send(warns)
    \/ SubmitToolResults \/ LeaveTools \/ Cancel \/ Connect \/ Refused
    \/ Created \/ TextPiece \/ Whole \/ CutShort \/ Broken
    \/ \E c \in Calls : OpenCall(c) \/ ArgumentPiece(c) \/ CloseCall(c)
    \/ StreamCancelled \/ Deliver \/ Drop

Spec == Init /\ [][Next]_vars

-----------------------------------------------------------------------------
(* Properties.                                                             *)

TypeOK ==
    /\ protocol \in Protocols /\ phase \in Phases
    /\ request \in 0..MaxRequests
    /\ cancelled \in BOOLEAN /\ warned \in BOOLEAN
    /\ warning \in {0, request}
    /\ DOMAIN norm.partial \subseteq Calls
    /\ \A i \in DOMAIN messages : messages[i].role \in {"user", "assistant", "tool"}
    /\ previous \in 0..request
    /\ server.closed \subseteq server.opened

(* Whatever the order its pieces came in, a completed answer that the      *)
(* server marked whole reached the turn as the server sent it: every       *)
(* piece of text, and every call once, with its own arguments in order.    *)
AnswerArrivesWhole ==
    server.whole /\ out # <<>> /\ Last(out).event.kind = "completed" =>
        /\ Cardinality({i \in DOMAIN out : out[i].event.kind = "text"}) = server.text
        /\ \A c \in server.opened :
              \E i \in DOMAIN out :
                 /\ out[i].event.call = Id(c)
                 /\ out[i].event.args = server.calls[c]
                 /\ \A j \in DOMAIN out \ {i} : out[j].event.call # Id(c)

(* The results that go back answer the calls of the answer the provider    *)
(* goes on from, all of them and no others: a provider refuses anything    *)
(* else.  A body cut short is the exception: Messages and Responses report *)
(* its finished calls and keep no answer, or a longer one.                 *)
ResultsAnswerTheRecord ==
    phase = "tools" /\ (server.cut => Has({"chat_completions"})) => CallsIn(out) = OnRecord

(* A capability warning is shown with the request that raised it, on its   *)
(* first event, and with no other: not after a refusal, a missing key, a   *)
(* cancellation or a stream that was dropped.                              *)
WarningIsOfItsRequest ==
    \A i \in DOMAIN out :
        IF i = 1 /\ warned /\ out[1].event.kind # "cancelled"
        THEN out[i].warning = request
        ELSE out[i].warning \in (IF i = 1 /\ warned THEN {0, request} ELSE {0})

(* What one request leaves behind is never taken for another's: its        *)
(* results and its warning, as above.  Besides, the state keeps its type.  *)
RequestsKeptApart == TypeOK /\ ResultsAnswerTheRecord /\ WarningIsOfItsRequest

(* The adapter's stream is what EventStream promises a turn. *)
Promised == INSTANCE EventStream WITH
    state    <- CASE phase = "open" -> "streaming"
                  [] phase \in {"connecting", "refused"} -> "waiting"
                  [] OTHER -> "idle",
    reported <- {c \in Calls : Id(c) \in CallsIn(out)},
    ending   <- IF out # <<>> /\ Terminal(Last(out).event) THEN Last(out).event.kind ELSE "none"
KeepsPromise == Promised!Spec

=============================================================================
