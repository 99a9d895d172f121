------------------------- MODULE McpConnectionProofs -------------------------
(***************************************************************************)
(* What McpConnection promises for any number of callers and closers, any    *)
(* queue and any limit, checked by TLAPS.                                    *)
(***************************************************************************)
EXTENDS McpConnection, TLAPS

(* The inductive invariant behind KeepsPromise.                              *)

\* A request that may be in the channel: it was not begun, has no reply yet, and its
\* caller waits for it or has raised its flag.
InFlight(c) == /\ c \notin started /\ reply[c] = "open"
               /\ caller[c] \notin {"idle", "admitting"}
               /\ ~raised[c] => caller[c] = "waiting"

QueueInv ==
    \A i \in DOMAIN queue : queue[i].kind = "request" =>
       queue[i].of \in Callers /\ InFlight(queue[i].of)

\* No request is in the channel twice.
QueuedOnce ==
    \A i, j \in DOMAIN queue :
       /\ queue[i].kind = "request" /\ queue[j].kind = "request"
       /\ queue[i].of = queue[j].of
       => i = j

\* A request that is not in the channel yet is new; what is written or awaited was begun.
StartedInv ==
    /\ \A c \in Callers : caller[c] \in {"idle", "admitting"} =>
          c \notin started /\ reply[c] = "open"
    /\ pending \subseteq started
    /\ task = "writing" /\ frame.kind = "request" => frame.of \in started

\* An answer was said by the server.
RepliedInv ==
    /\ \A c \in Callers : reply[c] = "answer" => c \in replied
    /\ \A i \in DOMAIN lines : lines[i].kind = "answer" =>
          lines[i].of \in replied /\ lines[i].of \in Callers

PromiseInv == TypeOK /\ QueueInv /\ QueuedOnce /\ StartedInv /\ RepliedInv

\* NoServerAfterShutdown from the order of Terminate, NotifyFinished and Check.
ShutdownInv ==
    /\ done => server = "down"
    /\ \A k \in Closers : closer[k] = "returned" => done

-------------------------------------------------------------------------------
(* Type correctness *)

LEMMA HeadType ==
    ASSUME NEW S, NEW s \in Seq(S), s # <<>>
    PROVE  /\ Head(s) \in S /\ Tail(s) \in Seq(S)
           /\ Len(s) \in Nat \ {0} /\ Len(Tail(s)) = Len(s) - 1
           /\ 1 \in DOMAIN s /\ Head(s) = s[1]
           /\ \A i \in DOMAIN Tail(s) : i + 1 \in DOMAIN s /\ Tail(s)[i] = s[i + 1]
OBVIOUS

LEMMA AppendType ==
    ASSUME NEW S, NEW s \in Seq(S), NEW e \in S
    PROVE  /\ Append(s, e) \in Seq(S)
           /\ \A i \in DOMAIN Append(s, e) :
                 \/ i \in DOMAIN s /\ Append(s, e)[i] = s[i]
                 \/ i = Len(s) + 1 /\ i \notin DOMAIN s /\ Append(s, e)[i] = e
OBVIOUS

LEMMA CommandType ==
    /\ \A c \in Callers, kind \in {"request", "abort", "cancelled"} :
          Command(kind, c) \in Commands
    /\ Command("shutdown", Nobody) \in Commands
    /\ NoFrame \in Frames /\ NoFrame.kind = "pong"
    /\ \A c \in Callers : Command("answer", c) \in Lines
    /\ \A kind \in {"ping", "garbage"} : Command(kind, Nobody) \in Lines
BY DEF Command, Commands, NoFrame, Frames, Lines

LEMMA InitType == Init => TypeOK
<1> SUFFICES ASSUME Init PROVE TypeOK
  OBVIOUS
<1>1. queue \in Seq(Commands) /\ lines \in Seq(Lines)
  BY DEF Init
<1>2. frame \in Frames
  BY CommandType DEF Init
<1> QED
  BY <1>1, <1>2 DEF Init, TypeOK

LEMMA CallerType ==
    ASSUME TypeOK, NEW c \in Callers, SetToken(c) \/ Call(c) \/ CallerStep(c)
    PROVE  TypeOK'
<1> USE DEF TypeOK, callerVars, flagVars, taskVars, serverVars
<1>m. \A from, to, result : CallerMoves(c, from, to, result) =>
        /\ caller' = [caller EXCEPT ![c] = to] /\ outcome' = [outcome EXCEPT ![c] = result]
        /\ UNCHANGED <<reply, held, flagVars, taskVars, serverVars>>
  BY DEF CallerMoves
<1>a. \A kind \in {"request", "abort", "cancelled"} :
        Append(queue, Command(kind, c)) \in Seq(Commands)
  BY CommandType, AppendType
<1>1. CASE SetToken(c)
  BY <1>1 DEF SetToken
<1>2. CASE Call(c)
  BY <1>2 DEF Call, CallerMoves
<1>3. CASE Admit(c)
  BY <1>3, <1>a DEF Admit, CallerMoves
<1>4. CASE AdmitFails(c)
  BY <1>4 DEF AdmitFails, CallerMoves
<1>5. ASSUME NEW from, NEW result \in {"cancelled", "deadline"},
             StartGivingUp(c, from, result)
      PROVE  TypeOK'
  BY <1>5 DEF StartGivingUp, CallerMoves
<1>9. CASE Cancelled(c) \/ Expires(c)
  BY <1>5, <1>9 DEF Cancelled, Expires
<1>6. CASE Returns(c)
  BY <1>6 DEF Returns, CallerMoves
<1>7. ASSUME NEW from, NEW to \in {"announcing", "returned"},
             NEW kind \in {"abort", "cancelled"}, Tell(c, from, to, kind)
      PROVE  TypeOK'
  <2>1. queue' \in Seq(Commands)
    BY <1>7, <1>a DEF Tell
  <2>2. /\ caller' = [caller EXCEPT ![c] = to]
        /\ outcome' = [outcome EXCEPT ![c] = outcome[c]]
        /\ UNCHANGED <<reply, held, flagVars, taskVars, serverVars, token, raised>>
    BY <1>7 DEF Tell, CallerMoves
  <2> QED
    BY <2>1, <2>2
<1>8. CASE TellTransport(c) \/ TellServer(c)
  BY <1>7, <1>8 DEF TellTransport, TellServer
<1> QED
  BY <1>1, <1>2, <1>3, <1>4, <1>6, <1>8, <1>9 DEF CallerStep

LEMMA CloserType ==
    ASSUME TypeOK, NEW k \in Closers, RaiseStop(k) \/ CloserStep(k)
    PROVE  TypeOK'
<1> USE DEF TypeOK, CloserMoves, callerVars, serverVars
<1>1. CASE RaiseStop(k)
  BY <1>1 DEF RaiseStop
<1>2. CASE NotifyStop(k)
  BY <1>2 DEF NotifyStop
<1>3. CASE Nudge(k)
  <2>1. Append(queue, Command("shutdown", Nobody)) \in Seq(Commands)
    BY CommandType, AppendType
  <2> QED
    BY <1>3, <2>1 DEF Nudge
<1>4. CASE Check(k)
  BY <1>4 DEF Check
<1>5. CASE Register(k)
  BY <1>5 DEF Register
<1>6. CASE Recheck(k)
  BY <1>6 DEF Recheck
<1>7. CASE Wake(k)
  BY <1>7 DEF Wake
<1> QED
  BY <1>1, <1>2, <1>3, <1>4, <1>5, <1>6, <1>7 DEF CloserStep

LEMMA TaskType ==
    ASSUME TypeOK, TaskStep
    PROVE  TypeOK'
<1> USE DEF TypeOK, TaskKeeps, callerVars
<1>b. \A lost : Break(lost) => /\ task' = "terminating" /\ watch' = "new"
                              /\ frame' \in Frames /\ pending' \subseteq Callers
                              /\ reply' \in [Callers -> {"open", "answer", "error"}]
  BY CommandType DEF Break
<1>l. Loop => task' = "select" /\ watch' = "new" /\ frame' \in Frames
  BY CommandType DEF Loop
<1>q. \A kind : Take(kind) => /\ queue' \in Seq(Commands) /\ Head(queue) \in Commands
                             /\ Head(queue).kind = kind
                             /\ TaskKeeps /\ UNCHANGED <<done, woken, server, lines>>
  BY HeadType DEF Take
<1>1. CASE Arm
  BY <1>1 DEF Arm
<1>2. CASE TakeRequest
  <2>1. /\ queue' \in Seq(Commands) /\ TaskKeeps /\ UNCHANGED <<done, woken, server, lines>>
        /\ Head(queue) \in Frames /\ Head(queue).of \in Callers
    BY <1>2, <1>q DEF TakeRequest, Commands, Frames, Command
  <2>2. CASE Refuse(Requested)
    BY <2>1, <2>2, <1>l DEF Refuse
  <2>3. Requested \in Callers
    BY <2>1 DEF Requested
  <2>4. CASE BeginWrite(Head(queue)) /\ started' = started \cup {Requested}
             /\ UNCHANGED <<reply, pending>>
    BY <2>1, <2>3, <2>4 DEF BeginWrite
  <2> QED
    BY <1>2, <2>2, <2>4 DEF TakeRequest
<1>3. CASE TakeAbort
  BY <1>3, <1>q, <1>l DEF TakeAbort
<1>4. CASE TakeNotice
  BY <1>4, <1>q DEF TakeNotice, BeginWrite, Commands, Frames, Command
<1>5. CASE TakeShutdown
  BY <1>5, <1>q, <1>b DEF TakeShutdown
<1>6. CASE HandleDropped \/ OutputEnds \/ StopSeen
  BY <1>6, <1>b DEF HandleDropped, OutputEnds, StopSeen
<1>11. CASE WriteFails
  BY <1>11, <1>b DEF WriteFails
<1>7. CASE Written
  BY <1>7, <1>l, CommandType DEF Written, Frames
<1>8. CASE Route
  BY <1>8, <1>b, <1>l, HeadType, CommandType DEF Route, BeginWrite
<1>9. CASE Terminate \/ NotifyFinished
  BY <1>9 DEF Terminate, NotifyFinished
<1>10. CASE DropQueue
  BY <1>10 DEF DropQueue
<1> QED
  BY <1>1, <1>2, <1>3, <1>4, <1>5, <1>6, <1>7, <1>8, <1>9, <1>10,
     <1>11 DEF TaskStep

LEMMA WorldType ==
    ASSUME TypeOK, Chatter \/ Exit \/ LetGo \/ \E c \in Callers : Answer(c)
    PROVE  TypeOK'
<1> USE DEF TypeOK, callerVars, flagVars, taskVars, serverVars
<1>1. ASSUME NEW line \in Lines, Say(line) PROVE lines' \in Seq(Lines)
  BY <1>1, AppendType DEF Say
<1>2. CASE Chatter
  BY <1>1, <1>2, CommandType DEF Chatter, Say
<1>3. CASE Exit \/ LetGo
  BY <1>3 DEF Exit, LetGo
<1>4. CASE \E c \in Callers : Answer(c)
  BY <1>1, <1>4, CommandType DEF Answer, Say
<1> QED
  BY <1>2, <1>3, <1>4

LEMMA StepType == TypeOK /\ [Next]_vars => TypeOK'
<1>1. CASE UNCHANGED vars
  BY <1>1 DEF TypeOK, vars, callerVars, flagVars, taskVars, serverVars
<1> QED
  BY <1>1, CallerType, CloserType, TaskType, WorldType DEF Next

(* Every variable keeps its type, whatever the channels hold and however many *)
(* callers and closers there are.                                             *)
THEOREM TypeCorrect == Spec => []TypeOK
<1> QED
  BY InitType, StepType, PTL DEF Spec

-------------------------------------------------------------------------------
(* Shutdown *)

\* Only Terminate touches the flag, and nothing brings the server back.
LEMMA DoneStep ==
    ASSUME TypeOK, Next
    PROVE  /\ done => done'
           /\ server = "down" => server' = "down"
           /\ done' => done \/ server' = "down"
<1> USE DEF callerVars, flagVars, taskVars, serverVars
<1>1. CASE \E c \in Callers : SetToken(c) \/ Call(c) \/ CallerStep(c)
  BY <1>1 DEF SetToken, Call, CallerStep, Admit, AdmitFails, Cancelled, Expires, Returns,
              StartGivingUp, TellTransport, TellServer, Tell, CallerMoves
<1>2. CASE \E k \in Closers : RaiseStop(k) \/ CloserStep(k)
  BY <1>2 DEF RaiseStop, CloserStep, NotifyStop, Nudge, Check, Register, Recheck, Wake,
              CloserMoves
<1>3. CASE Terminate
  BY <1>3 DEF Terminate
<1>4. CASE TaskStep /\ ~Terminate
  BY <1>4 DEF TaskStep, TaskKeeps, Take, Arm, TakeRequest, TakeAbort, TakeNotice,
              TakeShutdown, HandleDropped, Written, WriteFails, Route, OutputEnds,
              StopSeen, NotifyFinished, DropQueue
<1>5. CASE Chatter \/ Exit \/ LetGo \/ \E c \in Callers : Answer(c)
  BY <1>5 DEF Chatter, Exit, LetGo, Answer, Say, TypeOK
<1> QED
  BY <1>1, <1>2, <1>3, <1>4, <1>5 DEF Next

\* A closer returns only where it has just read the flag.
LEMMA CloserReturns ==
    ASSUME TypeOK, Next, NEW k \in Closers, closer'[k] = "returned"
    PROVE  closer[k] = "returned" \/ done
<1> USE DEF TypeOK, callerVars, flagVars
<1>1. ASSUME NEW j \in Closers, CloserStep(j) \/ RaiseStop(j)
      PROVE  closer[k] = "returned" \/ done
  BY <1>1 DEF CloserStep, RaiseStop, NotifyStop, Nudge, Check, Register, Recheck, Wake,
              CloserMoves
<1>2. CASE \E c \in Callers : SetToken(c) \/ Call(c) \/ CallerStep(c)
  BY <1>2 DEF SetToken, Call, CallerStep, Admit, AdmitFails, Cancelled, Expires, Returns,
              StartGivingUp, TellTransport, TellServer, Tell, CallerMoves
<1>3. CASE TaskStep
  BY <1>3 DEF TaskStep, TaskKeeps, Take, Arm, TakeRequest, TakeAbort, TakeNotice,
              TakeShutdown, HandleDropped, Written, WriteFails, Route, OutputEnds,
              StopSeen, Terminate, NotifyFinished, DropQueue
<1>4. CASE Chatter \/ Exit \/ LetGo \/ \E c \in Callers : Answer(c)
  BY <1>4 DEF Chatter, Exit, LetGo, Answer, Say
<1> QED
  BY <1>1, <1>2, <1>3, <1>4 DEF Next

LEMMA ShutdownStep == TypeOK /\ ShutdownInv /\ [Next]_vars => ShutdownInv'
<1> SUFFICES ASSUME TypeOK, ShutdownInv, [Next]_vars PROVE ShutdownInv'
  OBVIOUS
<1>1. CASE UNCHANGED vars
  BY <1>1 DEF ShutdownInv, vars, flagVars, serverVars
<1>2. CASE Next
  BY <1>2, DoneStep, CloserReturns DEF ShutdownInv
<1> QED
  BY <1>1, <1>2

(* When shutdown returns the server's process is gone, on every path out of    *)
(* the transport loop and for any number of shutdowns at once.                 *)
THEOREM ShutdownEndsServer == Spec => []NoServerAfterShutdown
<1>1. Init => ShutdownInv
  BY DEF Init, ShutdownInv
<1>2. TypeOK /\ ShutdownInv => NoServerAfterShutdown
  BY DEF ShutdownInv, NoServerAfterShutdown
<1> QED
  BY <1>1, <1>2, TypeCorrect, ShutdownStep, PTL DEF Spec

-------------------------------------------------------------------------------
(* The promise *)

LEMMA PromiseInit == Init => PromiseInv
<1> SUFFICES ASSUME Init PROVE PromiseInv
  OBVIOUS
<1> QED
  BY InitType DEF Init, PromiseInv, QueueInv, QueuedOnce, StartedInv, RepliedInv, NoFrame,
                  Command

\* A step that leaves the channel and what it says about its requests alone.
LEMMA QueueKeeps ==
    ASSUME QueueInv, QueuedOnce, UNCHANGED queue,
           \A c \in Callers : InFlight(c) => InFlight(c)'
    PROVE  QueueInv' /\ QueuedOnce'
BY DEF QueueInv, QueuedOnce

\* The same for a step that takes the head of the channel.
LEMMA QueueTaken ==
    ASSUME TypeOK, QueueInv, QueuedOnce, queue # <<>>, queue' = Tail(queue),
           \A c \in Callers :
              InFlight(c) /\ ~(Head(queue).kind = "request" /\ c = Head(queue).of)
              => InFlight(c)'
    PROVE  QueueInv' /\ QueuedOnce'
<1>1. /\ \A i \in DOMAIN queue' : i + 1 \in DOMAIN queue /\ queue'[i] = queue[i + 1]
      /\ 1 \in DOMAIN queue /\ Head(queue) = queue[1]
      /\ \A i \in DOMAIN queue' : i \in Nat /\ i + 1 # 1
  BY HeadType DEF TypeOK
<1>2. QueuedOnce'
  <2> SUFFICES ASSUME NEW i \in DOMAIN queue', NEW j \in DOMAIN queue',
                      queue'[i].kind = "request", queue'[j].kind = "request",
                      queue'[i].of = queue'[j].of
               PROVE  i = j
    BY DEF QueuedOnce
  <2>1. i + 1 = j + 1
    BY <1>1 DEF QueuedOnce
  <2> QED
    BY <1>1, <2>1
<1>3. QueueInv'
  <2> SUFFICES ASSUME NEW i \in DOMAIN queue', queue'[i].kind = "request"
               PROVE  queue'[i].of \in Callers /\ InFlight(queue[i].of)'
    BY DEF QueueInv
  <2>1. Head(queue).kind = "request" => Head(queue).of # queue'[i].of
    BY <1>1 DEF QueuedOnce
  <2> QED
    BY <1>1, <2>1 DEF QueueInv, InFlight
<1> QED
  BY <1>2, <1>3

\* And for one that appends to it.
LEMMA QueueAppended ==
    ASSUME TypeOK, QueueInv, QueuedOnce, NEW e \in Commands, queue' = Append(queue, e),
           \A c \in Callers : InFlight(c) => InFlight(c)',
           e.kind = "request" => ~InFlight(e.of) /\ InFlight(e.of)'
    PROVE  QueueInv' /\ QueuedOnce'
<1>1. \A i \in DOMAIN queue' :
         \/ i \in DOMAIN queue /\ queue'[i] = queue[i]
         \/ i = Len(queue) + 1 /\ i \notin DOMAIN queue /\ queue'[i] = e
  BY AppendType DEF TypeOK
<1>2. \A i \in DOMAIN queue : queue[i].kind = "request" /\ e.kind = "request" =>
                                queue[i].of # e.of
  BY DEF QueueInv
<1>3. QueuedOnce'
  BY <1>1, <1>2 DEF QueuedOnce
<1>4. e.kind = "request" => e.of \in Callers
  BY DEF Commands, Command
<1> QED
  BY <1>1, <1>3, <1>4 DEF QueueInv

\* A caller's steps.
LEMMA CallerPromise ==
    ASSUME PromiseInv, NEW c \in Callers, SetToken(c) \/ Call(c) \/ CallerStep(c)
    PROVE  QueueInv' /\ QueuedOnce' /\ StartedInv' /\ RepliedInv'
<1> USE DEF PromiseInv, callerVars, flagVars, taskVars, serverVars
<1> DEFINE Same == UNCHANGED <<reply, task, frame, pending, lines, started, replied>>
<1>m. \A from, to, result : CallerMoves(c, from, to, result) =>
        caller[c] = from /\ caller' = [caller EXCEPT ![c] = to] /\ Same
  BY DEF CallerMoves
<1>s. ASSUME Same PROVE RepliedInv'
  BY <1>s DEF RepliedInv
<1>t. ASSUME Same, \A d \in Callers : caller'[d] \in {"idle", "admitting"} =>
                                     caller[d] \in {"idle", "admitting"}
      PROVE  StartedInv'
  BY <1>t DEF StartedInv
<1>q. \A kind \in {"request", "abort", "cancelled"} :
        /\ Command(kind, c) \in Commands /\ Command(kind, c).of = c
        /\ Command(kind, c).kind = kind
  BY CommandType DEF Command
<1>1. CASE SetToken(c)
  BY <1>1, <1>s, <1>t, QueueKeeps DEF SetToken, InFlight
<1>2. CASE Call(c)
  <2>1. /\ caller[c] = "idle" /\ Same /\ UNCHANGED <<raised, queue>>
        /\ \E to \in {"admitting", "returned"} : caller' = [caller EXCEPT ![c] = to]
    BY <1>2 DEF Call, CallerMoves
  <2> QED
    BY <2>1, <1>s, <1>t, QueueKeeps DEF InFlight, TypeOK
<1>3. CASE Admit(c)
  <2>1. /\ caller[c] = "admitting" /\ Same /\ UNCHANGED raised
        /\ caller' = [caller EXCEPT ![c] = "waiting"]
        /\ queue' = Append(queue, Command("request", c))
    BY <1>3, <1>m DEF Admit
  <2>2. ~InFlight(c) /\ InFlight(c)'
    BY <2>1 DEF InFlight, StartedInv, TypeOK
  <2>3. \A d \in Callers : InFlight(d) => InFlight(d)'
    BY <2>1, <2>2 DEF InFlight, TypeOK
  <2>4. QueueInv' /\ QueuedOnce'
    BY <2>1, <2>2, <2>3, <1>q, QueueAppended
  <2> QED
    BY <2>1, <2>4, <1>s, <1>t DEF TypeOK
<1>4. ASSUME NEW from \in {"admitting", "waiting"}, NEW to \in {"aborting", "returned"},
             Same, caller[c] = from, caller' = [caller EXCEPT ![c] = to],
             UNCHANGED queue,
             \A d \in Callers : raised[d] => raised'[d],
             \A d \in Callers \ {c} : raised'[d] = raised[d],
             from = "waiting" => raised'[c] \/ reply[c] # "open"
      PROVE  QueueInv' /\ QueuedOnce' /\ StartedInv' /\ RepliedInv'
  <2>1. \A d \in Callers : InFlight(d) => InFlight(d)'
    BY <1>4 DEF InFlight, TypeOK
  <2> QED
    BY <1>4, <2>1, <1>s, <1>t, QueueKeeps DEF TypeOK
<1>5. CASE AdmitFails(c) \/ Returns(c)
  BY <1>4, <1>5, <1>m DEF AdmitFails, Returns
<1>6. CASE Cancelled(c) \/ Expires(c)
  BY <1>4, <1>6, <1>m DEF Cancelled, Expires, StartGivingUp, TypeOK
<1>7. ASSUME NEW from \in {"aborting", "announcing"}, NEW to \in {"announcing", "returned"},
             NEW kind \in {"abort", "cancelled"}, Tell(c, from, to, kind)
      PROVE  QueueInv' /\ QueuedOnce' /\ StartedInv' /\ RepliedInv'
  <2>1. /\ caller[c] = from /\ Same /\ UNCHANGED raised
        /\ caller' = [caller EXCEPT ![c] = to]
        /\ queue' = Append(queue, Command(kind, c)) \/ UNCHANGED queue
    BY <1>7, <1>m DEF Tell
  <2>2. \A d \in Callers : InFlight(d) => InFlight(d)'
    BY <2>1 DEF InFlight, TypeOK
  <2>3. QueueInv' /\ QueuedOnce'
    BY <2>1, <2>2, <1>q, QueueKeeps, QueueAppended
  <2> QED
    BY <2>1, <2>3, <1>s, <1>t DEF TypeOK
<1>8. CASE TellTransport(c) \/ TellServer(c)
  BY <1>7, <1>8 DEF TellTransport, TellServer
<1> QED
  BY <1>1, <1>2, <1>3, <1>5, <1>6, <1>8 DEF CallerStep

\* A closer's: only the nudge touches the channel.
LEMMA CloserPromise ==
    ASSUME PromiseInv, NEW k \in Closers, RaiseStop(k) \/ CloserStep(k)
    PROVE  QueueInv' /\ QueuedOnce' /\ StartedInv' /\ RepliedInv'
<1> USE DEF PromiseInv, callerVars, serverVars
<1>1. /\ UNCHANGED <<callerVars, reply, task, frame, pending, serverVars>>
      /\ UNCHANGED queue \/ queue' = Append(queue, Command("shutdown", Nobody))
  BY DEF RaiseStop, CloserStep, NotifyStop, Nudge, Check, Register, Recheck, Wake,
         CloserMoves
<1>2. \A c \in Callers : InFlight(c) => InFlight(c)'
  BY <1>1 DEF InFlight
<1>3. Command("shutdown", Nobody).kind # "request"
  BY DEF Command
<1>4. QueueInv' /\ QueuedOnce'
  BY <1>1, <1>2, <1>3, CommandType, QueueKeeps, QueueAppended
<1> QED
  BY <1>1, <1>4 DEF StartedInv, RepliedInv

\* The loop ends: what it fails was begun.
LEMMA BreakPromise ==
    ASSUME PromiseInv, NEW lost, lost \subseteq started, Break(lost),
           UNCHANGED <<callerVars, started, replied>>
    PROVE  /\ \A c \in Callers : InFlight(c) => InFlight(c)'
           /\ StartedInv'
           /\ \A c \in Callers : reply'[c] = "answer" => c \in replied'
BY DEF PromiseInv, callerVars, Break, InFlight, StartedInv, RepliedInv, NoFrame, Command,
       TypeOK

\* The transport task's.
LEMMA TaskPromise ==
    ASSUME PromiseInv, TaskStep
    PROVE  QueueInv' /\ QueuedOnce' /\ StartedInv' /\ RepliedInv'
<1> USE DEF PromiseInv, TaskKeeps, callerVars
<1> DEFINE Goal == QueueInv' /\ QueuedOnce' /\ StartedInv' /\ RepliedInv'
<1>q. ASSUME NEW kind \in {"request", "abort", "cancelled", "shutdown"}, Take(kind)
      PROVE  /\ queue # <<>> /\ queue' = Tail(queue) /\ Head(queue).kind = kind
             /\ caller' = caller /\ outcome' = outcome /\ token' = token
             /\ raised' = raised /\ replied' = replied /\ lines' = lines
             /\ kind = "request" => Head(queue).of \in Callers /\ InFlight(Head(queue).of)
  BY <1>q, HeadType DEF Take, QueueInv, TypeOK
<1>f. NoFrame.kind # "request"
  BY CommandType
<1>1. CASE Arm \/ Terminate \/ NotifyFinished
  <2>1. /\ UNCHANGED <<caller, raised, reply, queue, started, replied, frame, pending, lines>>
        /\ task' = "writing" => task = "writing"
    BY <1>1 DEF Arm, Terminate, NotifyFinished
  <2> QED
    BY <2>1, QueueKeeps DEF InFlight, StartedInv, RepliedInv
<1>2. CASE TakeRequest
  <2>q. /\ queue # <<>> /\ queue' = Tail(queue) /\ Head(queue).kind = "request"
        /\ UNCHANGED <<caller, raised, replied, lines>>
        /\ Requested \in Callers /\ InFlight(Requested) /\ Requested = Head(queue).of
    <3>1. Take("request")
      BY <1>2 DEF TakeRequest
    <3>2. Requested = Head(queue).of
      BY DEF Requested
    <3> QED
      BY <3>1, <3>2, <1>q
  <2>1. CASE Refuse(Requested)
    <3>1. \A c \in Callers : InFlight(c) /\ c # Requested => InFlight(c)'
      BY <2>q, <2>1 DEF Refuse, InFlight, TypeOK
    <3>2. StartedInv'
      BY <2>q, <2>1, <1>f DEF Refuse, Loop, StartedInv, InFlight, TypeOK
    <3>3. RepliedInv'
      BY <2>q, <2>1 DEF Refuse, RepliedInv, TypeOK
    <3> QED
      BY <2>q, <3>1, <3>2, <3>3, QueueTaken
  <2>2. CASE BeginWrite(Head(queue)) /\ started' = started \cup {Requested}
             /\ UNCHANGED <<reply, pending>>
    <3>1. \A c \in Callers : InFlight(c) /\ c # Requested => InFlight(c)'
      BY <2>q, <2>2 DEF InFlight
    <3>2. StartedInv' /\ RepliedInv'
      BY <2>q, <2>2 DEF BeginWrite, StartedInv, RepliedInv, InFlight
    <3> QED
      BY <2>q, <3>1, <3>2, QueueTaken
  <2> QED
    BY <1>2, <2>1, <2>2 DEF TakeRequest
<1>3. CASE TakeAbort \/ TakeNotice
  <2>1. /\ queue # <<>> /\ queue' = Tail(queue)
        /\ UNCHANGED <<caller, raised, replied, lines, reply, started>>
        /\ pending' \subseteq pending
        /\ task' = "writing" => frame'.kind # "request"
    <3>1. Take("abort") \/ Take("cancelled")
      BY <1>3 DEF TakeAbort, TakeNotice
    <3>2. /\ UNCHANGED <<reply, started>> /\ pending' \subseteq pending
          /\ task' = "writing" => frame' = Head(queue)
      BY <1>3 DEF TakeAbort, TakeNotice, Loop, BeginWrite
    <3> QED
      BY <3>1, <3>2, <1>q
  <2>2. \A c \in Callers : InFlight(c) => InFlight(c)'
    BY <2>1 DEF InFlight
  <2> QED
    BY <2>1, <2>2, QueueTaken DEF StartedInv, RepliedInv
<1>4. CASE TakeShutdown
  BY <1>4, <1>q, QueueTaken, BreakPromise DEF TakeShutdown, Take, RepliedInv
<1>5. CASE HandleDropped \/ OutputEnds \/ StopSeen
  BY <1>5, QueueKeeps, BreakPromise DEF HandleDropped, OutputEnds, StopSeen, RepliedInv
<1>6. CASE Written
  BY <1>6, <1>f, QueueKeeps DEF Written, Loop, InFlight, StartedInv, RepliedInv
<1>7. CASE WriteFails
  <2> DEFINE lost == IF frame.kind = "request" THEN {frame.of} ELSE {}
  <2>1. lost \subseteq started /\ Break(lost)
        /\ UNCHANGED <<queue, lines, caller, outcome, token, raised, started, replied>>
    BY <1>7 DEF WriteFails, StartedInv
  <2> HIDE DEF lost
  <2> QED
    BY <2>1, QueueKeeps, BreakPromise DEF RepliedInv
<1>8. CASE Route
  <2> DEFINE line == Head(lines)
  <2>1. /\ lines # <<>> /\ lines' = Tail(lines)
        /\ UNCHANGED <<queue, caller, outcome, token, raised, started, replied>>
    BY <1>8 DEF Route
  <2>2. \A i \in DOMAIN lines' : lines'[i].kind = "answer" => lines'[i].of \in replied'
                                                             /\ lines'[i].of \in Callers
    BY <2>1, HeadType DEF RepliedInv, TypeOK
  <2>3. line.kind = "answer" => line.of \in replied /\ line.of \in Callers
    BY <2>1, HeadType DEF RepliedInv, TypeOK
  <2>4. CASE /\ line.kind = "answer"
             /\ pending' = pending \ {line.of}
             /\ reply' = IF line.of \in pending THEN [reply EXCEPT ![line.of] = "answer"]
                                                ELSE reply
             /\ Loop
    <3>1. \A c \in Callers : InFlight(c) => InFlight(c)'
      BY <2>1, <2>3, <2>4 DEF InFlight, StartedInv, TypeOK
    <3>2. StartedInv'
      BY <2>1, <2>3, <2>4, <1>f DEF Loop, StartedInv, TypeOK
    <3>3. \A c \in Callers : reply'[c] = "answer" => c \in replied'
      BY <2>1, <2>3, <2>4 DEF RepliedInv, TypeOK
    <3> QED
      BY <2>1, <2>2, <3>1, <3>2, <3>3, QueueKeeps DEF RepliedInv
  <2>5. CASE BeginWrite(NoFrame) /\ UNCHANGED <<reply, pending>>
    BY <2>1, <2>2, <2>5, <1>f, QueueKeeps DEF BeginWrite, InFlight, StartedInv, RepliedInv
  <2>6. CASE Break({})
    BY <2>1, <2>2, <2>6, QueueKeeps, BreakPromise DEF RepliedInv
  <2> QED
    BY <1>8, <2>4, <2>5, <2>6 DEF Route
<1>9. CASE DropQueue
  <2>1. /\ queue' = <<>> /\ task' = "gone"
        /\ reply' = [c \in Callers |-> IF c \in Queued THEN "error" ELSE reply[c]]
        /\ UNCHANGED <<caller, raised, started, replied, pending, lines>>
    BY <1>9 DEF DropQueue
  <2>2. \A c \in Callers : c \in Queued => InFlight(c)
    BY DEF Queued, QueueInv
  <2>3. StartedInv'
    BY <2>1, <2>2 DEF StartedInv, InFlight
  <2>4. RepliedInv'
    BY <2>1 DEF RepliedInv
  <2>5. QueueInv' /\ QueuedOnce'
    BY <2>1 DEF QueueInv, QueuedOnce
  <2> QED
    BY <2>3, <2>4, <2>5
<1> QED
  BY <1>1, <1>2, <1>3, <1>4, <1>5, <1>6, <1>7, <1>8, <1>9 DEF TaskStep

LEMMA WorldPromise ==
    ASSUME PromiseInv, Chatter \/ Exit \/ LetGo \/ \E c \in Callers : Answer(c)
    PROVE  QueueInv' /\ QueuedOnce' /\ StartedInv' /\ RepliedInv'
<1> USE DEF PromiseInv, callerVars, taskVars, serverVars
<1>1. /\ UNCHANGED <<callerVars, reply, queue, task, frame, pending, started>>
      /\ replied \subseteq replied'
  BY DEF Chatter, Exit, LetGo, Answer, Say
<1>2. QueueInv' /\ QueuedOnce' /\ StartedInv'
  BY <1>1, QueueKeeps DEF InFlight, StartedInv
<1>3. ASSUME NEW line \in Lines, lines' = Append(lines, line),
             line.kind = "answer" => line.of \in replied' /\ line.of \in Callers
      PROVE  RepliedInv'
  <2>1. \A i \in DOMAIN lines' : \/ i \in DOMAIN lines /\ lines'[i] = lines[i]
                                 \/ lines'[i] = line
    BY <1>3, AppendType DEF TypeOK
  <2> QED
    BY <1>1, <1>3, <2>1 DEF RepliedInv
<1>4. CASE Chatter
  <2>1. PICK kind \in {"ping", "garbage"} : lines' = Append(lines, Command(kind, Nobody))
    BY <1>4 DEF Chatter, Say
  <2>2. Command(kind, Nobody) \in Lines /\ Command(kind, Nobody).kind # "answer"
    BY CommandType DEF Command
  <2> QED
    BY <1>2, <1>3, <2>1, <2>2
<1>5. CASE \E c \in Callers : Answer(c)
  <2>1. PICK c \in Callers : lines' = Append(lines, Command("answer", c)) /\ c \in replied'
    BY <1>5 DEF Answer, Say
  <2>2. Command("answer", c) \in Lines /\ Command("answer", c).of = c
    BY CommandType DEF Command
  <2> QED
    BY <1>2, <1>3, <2>1, <2>2
<1>6. CASE Exit \/ LetGo
  BY <1>1, <1>2, <1>6 DEF Exit, LetGo, RepliedInv
<1> QED
  BY <1>2, <1>4, <1>5, <1>6

LEMMA PromiseStep == PromiseInv /\ [Next]_vars => PromiseInv'
<1> SUFFICES ASSUME PromiseInv, [Next]_vars PROVE PromiseInv'
  OBVIOUS
<1>1. TypeOK'
  BY StepType DEF PromiseInv
<1>2. CASE UNCHANGED vars
  BY <1>1, <1>2 DEF PromiseInv, QueueInv, QueuedOnce, InFlight, StartedInv, RepliedInv,
                    vars, callerVars, taskVars, serverVars
<1> QED
  BY <1>1, <1>2, CallerPromise, CloserPromise, TaskPromise, WorldPromise
     DEF Next, PromiseInv

(* The refinement.  `calls` is what McpCalls sees of this module.             *)

calls == [c \in Callers |-> Seen(c)]

\* A step of one caller that the abstract call goes through.
LEMMA SeenStep ==
    ASSUME NEW c \in Callers, NEW to, Seen(c)' = to,
           \A d \in Callers \ {c} : Seen(d)' = Seen(d)
    PROVE  calls' = [calls EXCEPT ![c] = to]
BY DEF calls

LEMMA SeenKept ==
    ASSUME UNCHANGED <<caller, outcome>>
    PROVE  UNCHANGED calls
BY DEF calls, Seen

LEMMA SeenMoves ==
    ASSUME TypeOK, NEW c \in Callers, NEW from, NEW to, NEW result,
           CallerMoves(c, from, to, result)
    PROVE  /\ caller[c] = from /\ caller'[c] = to /\ outcome'[c] = result
           /\ \A d \in Callers \ {c} : Seen(d)' = Seen(d)
           /\ UNCHANGED <<reply, started, replied>>
BY DEF TypeOK, CallerMoves, Seen, serverVars

LEMMA CallerRefines ==
    ASSUME PromiseInv, NEW c \in Callers, SetToken(c) \/ Call(c) \/ CallerStep(c)
    PROVE  \/ Promise!Begin(c) \/ Promise!Refuse(c) \/ Promise!GiveUp(c) \/ Promise!Answer(c)
           \/ UNCHANGED <<calls, started, replied>>
<1> DEFINE Becomes(to) == /\ calls' = [calls EXCEPT ![c] = to]
                          /\ UNCHANGED <<started, replied>>
<1>0. TypeOK /\ calls[c] = Seen(c)
  BY DEF PromiseInv, calls
<1>b. ASSUME Seen(c) = "idle", Becomes("open") PROVE Promise!Begin(c)
  BY <1>0, <1>b DEF Promise!Begin, Promise!Become, calls
<1>r. ASSUME Seen(c) = "idle", Becomes("gone") PROVE Promise!Refuse(c)
  BY <1>0, <1>r DEF Promise!Refuse, Promise!Become, calls
<1>g. ASSUME Seen(c) = "open", Becomes("gone") PROVE Promise!GiveUp(c)
  BY <1>0, <1>g DEF Promise!GiveUp, Promise!Become, calls
<1>a. ASSUME Seen(c) = "open", Becomes("answered"), c \in replied PROVE Promise!Answer(c)
  BY <1>0, <1>a DEF Promise!Answer, Promise!Become, calls
<1>k. ASSUME Seen(c)' = Seen(c), \A d \in Callers \ {c} : Seen(d)' = Seen(d)
      PROVE  UNCHANGED calls
  BY <1>k DEF calls
<1> HIDE DEF Becomes
<1>m. ASSUME NEW from, NEW to, NEW result, CallerMoves(c, from, to, result)
      PROVE  /\ \A new : Seen(c)' = new => Becomes(new)
             /\ Seen(c)' = Seen(c) => UNCHANGED calls
             /\ UNCHANGED <<started, replied>>
  BY <1>0, <1>m, <1>k, SeenMoves, SeenStep DEF Becomes
<1>s. ASSUME NEW from, NEW to, NEW result, CallerMoves(c, from, to, result)
      PROVE  /\ from = "idle" => Seen(c) = "idle"
             /\ from \in {"admitting", "waiting"} => Seen(c) = "open"
             /\ to \in {"admitting", "waiting"} => Seen(c)' = "open"
             /\ to \in {"aborting", "returned"} /\ result # "answer" => Seen(c)' = "gone"
             /\ to = "returned" /\ result = "answer" => Seen(c)' = "answered"
             /\ /\ {from, to} \subseteq {"aborting", "announcing", "returned"}
                /\ result = outcome[c]
                => Seen(c)' = Seen(c)
  BY <1>0, <1>s, SeenMoves DEF Seen
<1>1. CASE SetToken(c)
  BY <1>1, SeenKept DEF SetToken, serverVars
<1>2. CASE Call(c)
  <2>1. \/ CallerMoves(c, "idle", "admitting", "none")
        \/ CallerMoves(c, "idle", "returned", "cancelled")
    BY <1>2 DEF Call
  <2> QED
    BY <2>1, <1>m, <1>s, <1>b, <1>r
<1>3. CASE Admit(c)
  <2>1. CallerMoves(c, "admitting", "waiting", "none")
    BY <1>3 DEF Admit
  <2> QED
    BY <2>1, <1>m, <1>s
<1>4. ASSUME NEW from \in {"admitting", "waiting"}, NEW to \in {"aborting", "returned"},
             NEW result \in {"refused", "cancelled", "deadline"},
             CallerMoves(c, from, to, result)
      PROVE  Promise!GiveUp(c)
  BY <1>4, <1>m, <1>s, <1>g
<1>5. CASE AdmitFails(c) \/ Cancelled(c) \/ Expires(c)
  BY <1>4, <1>5 DEF AdmitFails, Cancelled, Expires, StartGivingUp
<1>6. CASE Returns(c)
  <2>1. CASE reply[c] = "answer"
    <3>1. CallerMoves(c, "waiting", "returned", "answer") /\ c \in replied
      BY <1>6, <2>1 DEF Returns, PromiseInv, RepliedInv
    <3> QED
      BY <3>1, <1>m, <1>s, <1>a
  <2>2. CASE reply[c] # "answer"
    BY <1>4, <1>6, <2>2 DEF Returns
  <2> QED
    BY <2>1, <2>2
<1>7. CASE TellTransport(c) \/ TellServer(c)
  <2>1. \E from \in {"aborting", "announcing"}, to \in {"announcing", "returned"} :
           CallerMoves(c, from, to, outcome[c])
    BY <1>7 DEF TellTransport, TellServer, Tell
  <2> QED
    BY <2>1, <1>m, <1>s
<1> QED
  BY <1>1, <1>2, <1>3, <1>5, <1>6, <1>7 DEF CallerStep

LEMMA TaskRefines ==
    ASSUME PromiseInv, TaskStep
    PROVE  \/ \E c \in Callers : Promise!Deliver(c)
           \/ UNCHANGED <<calls, started, replied>>
<1>1. UNCHANGED calls /\ UNCHANGED replied
  BY SeenKept DEF TaskStep, TaskKeeps, callerVars, Take, Arm, TakeRequest, TakeAbort,
       TakeNotice, TakeShutdown, HandleDropped, Written, WriteFails, Route, OutputEnds,
       StopSeen, Terminate, NotifyFinished, DropQueue
<1>c. \A c \in Callers : caller[c] = "waiting" => calls[c] = "open"
  BY DEF calls, Seen
<1>2. CASE TakeRequest
  <2> DEFINE c == Requested
  <2>1. queue # <<>> /\ Head(queue).kind = "request"
    BY <1>2 DEF TakeRequest, Take
  <2>2. c \in Callers /\ InFlight(c)
    BY <2>1, HeadType DEF PromiseInv, QueueInv, TypeOK, Requested
  <2>3. CASE ~raised[c] /\ started' = started \cup {c}
    <3>1. calls[c] = "open" /\ c \notin started
      BY <2>2, <2>3, <1>c DEF InFlight
    <3>2. Promise!Deliver(c)
      BY <3>1, <1>1, <2>3 DEF Promise!Deliver, calls
    <3> QED
      BY <3>2, <2>2
  <2>4. CASE UNCHANGED started
    BY <1>1, <2>4
  <2> QED
    BY <1>2, <2>3, <2>4 DEF TakeRequest, Refuse
<1>3. CASE TaskStep /\ ~TakeRequest
  <2>1. UNCHANGED started
    BY <1>3 DEF TaskStep, Arm, TakeAbort, TakeNotice, TakeShutdown, HandleDropped, Written,
       WriteFails, Route, OutputEnds, StopSeen, Terminate, NotifyFinished, DropQueue
  <2> QED
    BY <1>1, <2>1
<1> QED
  BY <1>2, <1>3

LEMMA StepRefines ==
    PromiseInv /\ [Next]_vars => [Promise!Next]_<<calls, started, replied>>
<1> SUFFICES ASSUME PromiseInv, [Next]_vars
             PROVE  [Promise!Next]_<<calls, started, replied>>
  OBVIOUS
<1>1. CASE UNCHANGED vars
  BY <1>1, SeenKept DEF vars, callerVars, serverVars
<1>2. CASE \E c \in Callers : SetToken(c) \/ Call(c) \/ CallerStep(c)
  BY <1>2, CallerRefines DEF Promise!Next
<1>3. CASE \E k \in Closers : RaiseStop(k) \/ CloserStep(k)
  BY <1>3, SeenKept DEF RaiseStop, CloserStep, NotifyStop, Nudge, Check, Register, Recheck,
                        Wake, CloserMoves, callerVars, serverVars
<1>4. CASE TaskStep
  BY <1>4, TaskRefines DEF Promise!Next
<1>5. CASE \E c \in Callers : Answer(c)
  <2>1. PICK c \in Callers : Answer(c)
    BY <1>5
  <2>2. UNCHANGED calls
    BY <2>1, SeenKept DEF Answer, Say, callerVars
  <2>3. Promise!Reply(c)
    BY <2>1, <2>2 DEF Promise!Reply, Answer, Say, calls
  <2> QED
    BY <2>3 DEF Promise!Next
<1>6. CASE Chatter \/ Exit \/ LetGo
  BY <1>6, SeenKept DEF Chatter, Exit, LetGo, Say, callerVars, serverVars
<1> QED
  BY <1>1, <1>2, <1>3, <1>4, <1>5, <1>6 DEF Next

(* The connection implements McpCalls: no call reaches the server after its   *)
(* caller gave up, or twice, and no caller gets an answer the server did not   *)
(* give to its call, for any number of callers, any queue and any server.      *)
THEOREM ConnectionKeepsPromise == Spec => KeepsPromise
<1>1. Init => Promise!Init
  BY DEF Init, Promise!Init, Seen
<1>2. PromiseInv /\ [Next]_vars => [Promise!Next]_<<calls, started, replied>>
  BY StepRefines
<1> QED
  BY <1>1, <1>2, PromiseInit, PromiseStep, PTL DEF Spec, KeepsPromise, Promise!Spec, calls
===============================================================================
