-------------------------------- MODULE McpCalls --------------------------------
(***************************************************************************)
(* What a connection to an MCP server promises its callers, whatever its     *)
(* queue, its transport task and the server do.  A call reaches the server   *)
(* at most once and only while its caller waits for it; it is answered only  *)
(* with what the server said to that very call.                              *)
(***************************************************************************)
CONSTANT Callers   \* requests made over the life of the connection

VARIABLES
    call,        \* the state of each request, as its caller sees it
    delivered,   \* requests the server may have read
    replied      \* requests the server answered

States == {"idle", "open", "answered", "gone"}

Init == /\ call = [c \in Callers |-> "idle"]
        /\ delivered = {} /\ replied = {}

Become(c, from, to) == /\ call[c] = from
                       /\ call' = [call EXCEPT ![c] = to]
                       /\ UNCHANGED <<delivered, replied>>

Begin(c)  == Become(c, "idle", "open")
Refuse(c) == Become(c, "idle", "gone")   \* cancelled before anything was sent
GiveUp(c) == Become(c, "open", "gone")   \* cancelled, too late, refused or lost

Deliver(c) ==
    /\ call[c] = "open" /\ c \notin delivered
    /\ delivered' = delivered \cup {c}
    /\ UNCHANGED <<call, replied>>

Reply(c) ==
    /\ c \in delivered
    /\ replied' = replied \cup {c}
    /\ UNCHANGED <<call, delivered>>

Answer(c) == c \in replied /\ Become(c, "open", "answered")

Next == \E c \in Callers : \/ Begin(c) \/ Refuse(c) \/ GiveUp(c)
                           \/ Deliver(c) \/ Reply(c) \/ Answer(c)

Spec == Init /\ [][Next]_<<call, delivered, replied>>
=================================================================================
