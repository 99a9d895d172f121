------------------------------ MODULE McpHttp ------------------------------
(***************************************************************************)
(* The Streamable HTTP transport of crates/gritt-harness/src/mcp/http.rs:  *)
(* one task that takes the commands of a connection in order, a task for   *)
(* each request, and the POSTs Gritt makes on its own account: the answers *)
(* to what a server asks in the middle of a reply, and the notices of      *)
(* cancelled requests.                                                     *)
(*                                                                         *)
(* The caller's side is connection.rs, modelled in McpConnection; here a   *)
(* caller asks, may give up, and shuts the connection down.  The server is *)
(* external: it may ask before it replies, reply, end the session or fall  *)
(* silent.  Bodies, headers and the JSON-RPC frames are left out.          *)
(***************************************************************************)
EXTENDS Naturals, Sequences, FiniteSets

CONSTANTS
    Requests,      \* the requests made after the handshake
    Permits,       \* MAX_INFLIGHT_REQUESTS
    AuxPermits     \* MAX_AUXILIARY_POSTS

VARIABLES
    loop,          \* the connection's task: see Stages
    commands,      \* the command channel
    task,          \* the task of each request: see TaskStates
    inflight,      \* the requests whose handle the loop holds
    aborted,       \* the requests whose task was told to stop
    asked,         \* the requests in whose reply the server asked something
    aux,           \* the auxiliary POSTs alive: waiting or posted, by request and reason
    auxTasks,      \* those whose handle the endpoint holds
    initialized,   \* the handshake's notification: unsent, sending, accepted, refused
    session,       \* the session the endpoint holds: none, live, released
    givenUp        \* the requests whose caller raised its cancelled flag

vars == <<loop, commands, task, inflight, aborted, asked, aux, auxTasks, initialized,
          session, givenUp>>

Stages == {"running", "barrier", "aborting", "draining", "ending", "finished"}
TaskStates == {"none", "asked for", "waiting", "posted", "done"}

Alive(r) == task[r] \in {"waiting", "posted"}
Command(kind, r) == [kind |-> kind, request |-> r]

(* Faulty variant: one budget for both kinds of POST. *)
SharedPool(used) == used < Permits /\ Cardinality({r \in Requests : task[r] = "posted"}) + used < Permits

(* The answers to a server's questions have a pool of their own. *)
AuxPermitFree(used) == used < AuxPermits

(* spawn_auxiliary admits a POST when its list of unfinished ones is not    *)
(* full, and drops it otherwise.                                            *)
Spawn(a) ==
    LET unfinished == auxTasks \cap DOMAIN aux IN
    IF Cardinality(unfinished) < AuxPermits
    THEN /\ aux' = [b \in DOMAIN aux \cup {a} |-> IF b = a THEN "waiting" ELSE aux[b]]
         /\ auxTasks' = unfinished \cup {a}
    ELSE auxTasks' = unfinished /\ UNCHANGED aux

PostedAux == {a \in DOMAIN aux : aux[a] = "posted"}

-----------------------------------------------------------------------------
(* The caller.  The handshake's notification is sent first and waited for. *)

Handshake ==
    /\ initialized = "unsent"
    /\ initialized' = "sending"
    /\ commands' = Append(commands, Command("notify", 0))
    /\ UNCHANGED <<loop, task, inflight, aborted, asked, aux, auxTasks, session, givenUp>>

Ask(r) ==
    /\ initialized = "accepted" /\ loop # "finished"
    /\ task[r] = "none"
    /\ task' = [task EXCEPT ![r] = "asked for"]
    /\ commands' = Append(commands, Command("request", r))
    /\ UNCHANGED <<loop, inflight, aborted, asked, aux, auxTasks, initialized, session, givenUp>>

(* A caller that stops waiting raises its flag, then sends the abort and,  *)
(* unless the request was the handshake's, the notice for the server.      *)
GiveUp(r) ==
    /\ task[r] \in {"asked for", "waiting", "posted"} /\ r \notin givenUp
    /\ givenUp' = givenUp \cup {r}
    /\ commands' = commands \o <<Command("abort", r), Command("notice", r)>>
    /\ UNCHANGED <<loop, task, inflight, aborted, asked, aux, auxTasks, initialized, session>>

(* Shutdown, by command or by the stop flag. *)
Stop ==
    /\ loop = "running"
    /\ loop' = "aborting"
    /\ UNCHANGED <<commands, task, inflight, aborted, asked, aux, auxTasks, initialized,
                   session, givenUp>>

-----------------------------------------------------------------------------
(* The connection's task.                                                  *)

(* A notification with an acknowledgement is a barrier: the loop waits. *)
TakeNotify ==
    /\ Head(commands).kind = "notify"
    /\ loop' = "barrier"
    /\ UNCHANGED <<task, inflight, aux, auxTasks>>

(* Any other notification is posted beside the requests. *)
TakeNotice ==
    /\ Head(commands).kind = "notice"
    /\ Spawn(<<Head(commands).request, "notice">>)
    /\ UNCHANGED <<loop, task, inflight>>

TakeRequest ==
    LET r == Head(commands).request IN
    /\ Head(commands).kind = "request"
    /\ task' = [task EXCEPT ![r] = IF r \in givenUp THEN "done" ELSE "waiting"]
    /\ inflight' = IF r \in givenUp THEN inflight ELSE inflight \cup {r}
    /\ UNCHANGED <<loop, aux, auxTasks>>

(* An abort takes the handle: the task stops when it next yields. *)
TakeAbort ==
    LET r == Head(commands).request IN
    /\ Head(commands).kind = "abort"
    /\ inflight' = inflight \ {r}
    /\ UNCHANGED <<loop, task, aux, auxTasks>>

TakeCommand ==
    /\ loop = "running" /\ commands # <<>>
    /\ commands' = Tail(commands)
    /\ TakeNotify \/ TakeNotice \/ TakeRequest \/ TakeAbort
    /\ aborted' = IF Head(commands).kind = "abort"
                  THEN aborted \cup ({Head(commands).request} \cap inflight) ELSE aborted
    /\ UNCHANGED <<asked, initialized, session, givenUp>>

(* The barrier ends: accepted, or refused or out of time. *)
BarrierEnds ==
    /\ loop = "barrier"
    /\ loop' = "running"
    /\ initialized' \in {"accepted", "refused"}
    /\ session' \in {session, "live"}
    /\ UNCHANGED <<commands, task, inflight, aborted, asked, aux, auxTasks, givenUp>>

(* The loop is left: every handle held is aborted and awaited. *)
AbortAll ==
    /\ loop = "aborting"
    /\ aborted' = aborted \cup inflight
    /\ IF \E r \in inflight : Alive(r)
       THEN UNCHANGED loop /\ aborted' # aborted
       ELSE loop' = "draining"
    /\ UNCHANGED <<commands, task, inflight, asked, aux, auxTasks, initialized, session, givenUp>>

(* drain_auxiliary: the list is taken; each task in it is aborted, awaited. *)
DrainAuxiliary ==
    /\ loop = "draining"
    /\ loop' = "ending"
    /\ aux' = [a \in DOMAIN aux \ auxTasks |-> aux[a]]
    /\ auxTasks' = {}
    /\ UNCHANGED <<commands, task, inflight, aborted, asked, initialized, session, givenUp>>

(* end_session, then the flags that say the connection is over. *)
EndSession ==
    /\ loop = "ending"
    /\ loop' = "finished"
    /\ session' = IF session = "live" THEN "released" ELSE session
    /\ UNCHANGED <<commands, task, inflight, aborted, asked, aux, auxTasks, initialized, givenUp>>

Loop == TakeCommand \/ BarrierEnds \/ AbortAll \/ DrainAuxiliary \/ EndSession

-----------------------------------------------------------------------------
(* A request's task.  One told to stop either unwinds, or, running on      *)
(* another thread just then, makes the step it was in the middle of.       *)

Post(r) ==
    /\ task[r] = "waiting"
    /\ Cardinality({q \in Requests : task[q] = "posted"}) < Permits
    /\ task' = [task EXCEPT ![r] = "posted"]
    /\ UNCHANGED <<loop, commands, inflight, aborted, asked, aux, auxTasks, initialized,
                   session, givenUp>>

(* route: the server asks something, and its answer is a POST of its own.  *)
ServerAsks(r) ==
    /\ task[r] = "posted" /\ r \notin asked
    /\ asked' = asked \cup {r}
    /\ Spawn(<<r, "answer">>)
    /\ UNCHANGED <<loop, commands, task, inflight, aborted, initialized, session, givenUp>>

(* The reply, an error, or the end of the session on the server (404). *)
Replied(r) ==
    /\ task[r] = "posted"
    /\ task' = [task EXCEPT ![r] = "done"]
    /\ inflight' \in {inflight, inflight \ {r}}
    /\ session' \in {session} \cup (IF loop = "finished" THEN {} ELSE {"none"})
    /\ UNCHANGED <<loop, commands, aborted, asked, aux, auxTasks, initialized, givenUp>>

Unwind(r) ==
    /\ Alive(r) /\ r \in aborted
    /\ task' = [task EXCEPT ![r] = "done"]
    /\ UNCHANGED <<loop, commands, inflight, aborted, asked, aux, auxTasks, initialized,
                   session, givenUp>>

PostAux(a) ==
    /\ aux[a] = "waiting"
    /\ AuxPermitFree(Cardinality(PostedAux))
    /\ aux' = [aux EXCEPT ![a] = "posted"]
    /\ UNCHANGED <<loop, commands, task, inflight, aborted, asked, auxTasks, initialized,
                   session, givenUp>>

(* The POST is accepted, refused, or runs into AUXILIARY_TIMEOUT. *)
AuxEnds(a) ==
    /\ a \in PostedAux
    /\ aux' = [b \in DOMAIN aux \ {a} |-> aux[b]]
    /\ UNCHANGED <<loop, commands, task, inflight, aborted, asked, auxTasks, initialized,
                   session, givenUp>>

-----------------------------------------------------------------------------
(* connect, after the answer to initialize. *)
Init ==
    /\ loop = "running" /\ commands = <<>>
    /\ task = [r \in Requests |-> "none"]
    /\ inflight = {} /\ aborted = {} /\ givenUp = {} /\ asked = {}
    /\ aux = [a \in {} |-> "waiting"] /\ auxTasks = {}
    /\ initialized = "unsent"
    /\ session \in {"none", "live"}

Next ==
    \/ Handshake \/ Stop \/ Loop
    \/ \E r \in Requests : \/ Ask(r) \/ GiveUp(r)
                           \/ Post(r) \/ ServerAsks(r) \/ Replied(r) \/ Unwind(r)
    \/ \E a \in DOMAIN aux : PostAux(a) \/ AuxEnds(a)

Spec == Init /\ [][Next]_vars

-----------------------------------------------------------------------------
(* Properties.                                                             *)

TypeOK ==
    /\ loop \in Stages
    /\ task \in [Requests -> TaskStates]
    /\ inflight \subseteq Requests /\ aborted \subseteq Requests
    /\ asked \subseteq Requests
    /\ DOMAIN aux \cup auxTasks \subseteq Requests \X {"answer", "notice"}
    /\ \A a \in DOMAIN aux : aux[a] \in {"waiting", "posted"}
    /\ Cardinality(auxTasks \cap DOMAIN aux) <= AuxPermits
    /\ initialized \in {"unsent", "sending", "accepted", "refused"}
    /\ session \in {"none", "live", "released"}

(* The answer a server waits for never waits itself behind the calls that  *)
(* wait for the server: an admitted POST of Gritt's own always finds a     *)
(* permit free.  With one budget for both, a busy endpoint would deadlock. *)
AnswerFindsAPermit ==
    \A a \in DOMAIN aux :
        aux[a] = "waiting" /\ loop = "running" => AuxPermitFree(Cardinality(PostedAux))

(* When the connection says it is over, nothing it still owned is running: *)
(* no request, no POST of its own.  The exception is a call its caller     *)
(* aborted: its handle was given away, and what it was in the middle of is *)
(* not waited for.                                                         *)
FinishedOwnsNothing ==
    loop = "finished" =>
        /\ \A r \in Requests : Alive(r) => r \in givenUp
        /\ \A a \in DOMAIN aux : a[1] \in givenUp /\ a[2] = "answer"

=============================================================================
