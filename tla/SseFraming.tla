----------------------------- MODULE SseFraming -----------------------------
(***************************************************************************)
(* The incremental event-stream parser of crates/gritt-provider/src/sse.rs *)
(* and the budget the MCP client keeps beside it, SseBudget of             *)
(* crates/gritt-harness/src/mcp/http.rs.  The budget never sees the        *)
(* parser: it counts, byte by byte, what the parser may be holding, and    *)
(* refuses a stream that would make it hold too much.                      *)
(*                                                                         *)
(* A byte is content, a carriage return or a line feed; the parser's       *)
(* strings are their lengths.  The two count differently: the budget the   *)
(* bytes that arrive, the parser what is left of a line once it was        *)
(* decoded, where a byte that is not UTF-8 has become the replacement      *)
(* character.  Chunks are left out: both sides carry their state from one  *)
(* byte to the next, and a byte the budget refuses is not parsed (in the   *)
(* code, nor is the rest of its chunk).                                    *)
(***************************************************************************)
EXTENDS Naturals

CONSTANTS
    MaxEvent,      \* MAX_EVENT_BYTES
    MaxStream      \* MAX_STREAM_BYTES

ASSUME LimitsAssumption == MaxEvent \in Nat /\ MaxStream \in Nat

VARIABLES
    buffer,        \* SseParser: bytes of the line being read
    data,          \* bytes of the data lines of the event being read
    event,         \* bytes of its event field
    id,            \* bytes of the last id, which outlives its event
    saw,           \* saw_cr: "cr" after a carriage return, else "other"
    pending,       \* SseBudget: bytes since the last event terminator
    newlines,      \* consecutive line endings
    budgetSaw,     \* the budget's saw_cr
    total,         \* bytes admitted
    stream,        \* open, or refused: a limit was crossed
    raw            \* history: bytes since the parser last saw a blank line

parserVars == <<buffer, data, event, id, saw>>
budgetVars == <<pending, newlines, budgetSaw>>
sseVars == <<parserVars, budgetVars, total, stream, raw>>

Bytes == {"content", "cr", "lf"}

(* The budget's rule for a line ending. *)
EndsLine(b) == b \in {"cr", "lf"}

(* Faulty variant: the first line ending is taken for a blank line. *)
AnyLine(n) == n >= 1

(* A blank line: the second line ending in a row. *)
BlankLine(n) == n >= 2

(* String::from_utf8_lossy: up to three bytes for one.                     *)
Replacement == 3

Held == buffer + data + event

Saw(b) == IF b = "cr" THEN "cr" ELSE "other"

-----------------------------------------------------------------------------
(* SseBudget::admit for one byte: the state it leaves. *)
Admit(b) ==
    IF b = "lf" /\ budgetSaw = "cr"
    THEN /\ budgetSaw' = "other"
         /\ UNCHANGED <<pending, newlines>>
    ELSE /\ budgetSaw' = Saw(b)
         /\ IF EndsLine(b)
            THEN /\ newlines' = IF BlankLine(newlines + 1) THEN 0 ELSE newlines + 1
                 /\ pending' = IF BlankLine(newlines + 1) THEN 0 ELSE pending + 1
            ELSE newlines' = 0 /\ pending' = pending + 1

(* SseParser::line and dispatch: a blank line hands the event over, any    *)
(* other line sets or extends one field with what its bytes decode to.     *)
Line ==
    \/ /\ buffer = 0
       /\ data' = 0 /\ event' = 0
       /\ raw' = 0
       /\ UNCHANGED id
    \/ /\ buffer > 0
       /\ \E value \in 0..(Replacement * buffer) :
            \/ data' = data + value /\ UNCHANGED <<event, id>>
            \/ event' = value /\ UNCHANGED <<data, id>>
            \/ id' = value /\ UNCHANGED <<data, event>>
            \/ UNCHANGED <<data, event, id>>
       /\ raw' = raw + 1

(* SseParser::feed for one byte. *)
Feed(b) ==
    IF b = "lf" /\ saw = "cr"
    THEN /\ saw' = "other"
         /\ UNCHANGED <<buffer, data, event, id, raw>>
    ELSE /\ saw' = Saw(b)
         /\ IF b = "content"
            THEN /\ buffer' = buffer + 1
                 /\ raw' = raw + 1
                 /\ UNCHANGED <<data, event, id>>
            ELSE buffer' = 0 /\ Line

(* read_stream: a byte is admitted before it is parsed. *)
ReadStream ==
    \E b \in Bytes :
        /\ stream = "open"
        /\ \/ /\ total >= MaxStream
              /\ stream' = "refused"
              /\ UNCHANGED <<parserVars, budgetVars, total, raw>>
           \/ /\ total < MaxStream
              /\ Admit(b) /\ pending' > MaxEvent
              /\ stream' = "refused" /\ total' = total + 1
              /\ UNCHANGED <<parserVars, raw>>
           \/ /\ total < MaxStream
              /\ Admit(b) /\ pending' <= MaxEvent
              /\ Feed(b)
              /\ total' = total + 1 /\ UNCHANGED stream

SseInit ==
    /\ buffer = 0 /\ data = 0 /\ event = 0 /\ id = 0 /\ saw = "other"
    /\ pending = 0 /\ newlines = 0 /\ budgetSaw = "other"
    /\ total = 0 /\ stream = "open" /\ raw = 0

SseSpec == SseInit /\ [][ReadStream]_sseVars

-----------------------------------------------------------------------------
(* Properties.                                                             *)

SseTypeOK ==
    /\ buffer \in Nat /\ data \in Nat /\ event \in Nat /\ id \in Nat
    /\ pending \in Nat /\ newlines \in {0, 1} /\ total \in 0..MaxStream
    /\ raw \in Nat
    /\ {saw, budgetSaw} \subseteq {"cr", "other"} /\ stream \in {"open", "refused"}

(* The budget is safe: whatever line endings a server mixes and whatever   *)
(* bytes it sends, the parser holds no more of an unfinished event than    *)
(* the limit would decode to at worst, and remembers an id no longer than  *)
(* that.  The limit itself is no bound: http.rs counts before the decoding. *)
ParserIsBounded == /\ Held <= Replacement * MaxEvent
                   /\ id <= Replacement * MaxEvent

(* The budget is not too strict: a stream is given up only when it has     *)
(* used up its total, or an event with all its line endings really is as   *)
(* long as the limit.                                                      *)
RefusedForCause == stream = "refused" => total >= MaxStream \/ raw + 1 >= MaxEvent

(* The budget is exact, up to one byte and the decoding, on both sides.    *)
BudgetIsExact == ParserIsBounded /\ RefusedForCause

(* What the parser may hold once the line it reads is decoded.             *)
Reach == Replacement * buffer + data + event

(* What makes both true: the budget counts at least what the parser was    *)
(* fed, and at most one byte more than it was sent since the last blank    *)
(* line.                                                                   *)
InStep ==
    /\ stream = "open" => /\ Reach <= Replacement * pending /\ pending <= MaxEvent
                          /\ pending <= raw + 1
                          /\ saw = budgetSaw
                          /\ newlines = 1 => buffer = 0
                          /\ newlines = 0 /\ buffer = 0 => pending = 0
    /\ ParserIsBounded
    /\ RefusedForCause

=============================================================================
