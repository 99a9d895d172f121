---------------------------- MODULE EventStream ----------------------------
(***************************************************************************)
(* What a turn is promised by the event stream of one provider request     *)
(* (gritt_core::provider::EventStream): a request is refused before it     *)
(* streams, or it streams; a call is reported once; one terminal event     *)
(* ends it and nothing follows that event.                                 *)
(***************************************************************************)
CONSTANT Calls     \* the tool calls one answer may hold

VARIABLES
    state,         \* idle, waiting for the stream, or streaming
    reported,      \* the calls reported by the stream of this request
    ending         \* how it ended: none yet, or its one terminal event

vars == <<state, reported, ending>>

Endings == {"completed", "error", "cancelled"}

Init == state = "idle" /\ reported = {} /\ ending = "none"

(* A request goes out; what the last one reported is forgotten. *)
Ask == /\ state = "idle"
       /\ state' = "waiting" /\ reported' = {} /\ ending' = "none"

(* No stream: the request was refused, or cancelled while it waited. *)
Refuse == /\ state \in {"idle", "waiting"}
          /\ state' = "idle" /\ reported' = {}
          /\ ending' \in {"none", "cancelled"}

Open == state = "waiting" /\ state' = "streaming" /\ UNCHANGED <<reported, ending>>

Report(c) == /\ state = "streaming" /\ c \notin reported
             /\ reported' = reported \cup {c}
             /\ UNCHANGED <<state, ending>>

(* The one terminal event. *)
End == /\ state = "streaming"
       /\ state' = "idle" /\ ending' \in Endings
       /\ UNCHANGED reported

(* The turn stops reading. *)
Abandon == state = "streaming" /\ state' = "idle" /\ UNCHANGED <<reported, ending>>

Next == Ask \/ Refuse \/ Open \/ End \/ Abandon \/ \E c \in Calls : Report(c)

Spec == Init /\ [][Next]_vars
=============================================================================
