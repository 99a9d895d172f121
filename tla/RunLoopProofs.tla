---------------------------- MODULE RunLoopProofs ----------------------------
(***************************************************************************)
(* What TLAPS shows of the full-screen run loop, for any number of         *)
(* sessions, prompts, operations and approvals, and any drain bound.       *)
(*                                                                         *)
(* The invariants say who may act for the session on screen.  At any time  *)
(* its driver is in one place only: idle, in the turn that runs it, in the *)
(* queued message that ends that turn, or held by the reservation of a     *)
(* session change.  What a message may do when it lands follows from where *)
(* the driver is and from the number the message carries.                  *)
(***************************************************************************)
EXTENDS RunLoop, TLAPS

Apps == [running : BOOLEAN, transition : BOOLEAN, view : {None, McpLaunch} \cup Asks,
         installs : Nat, shown : Sessions \cup {NoSession}, generation : Nat,
         mode : Modes, composer : Prompts \cup {None},
         busy : SUBSET {"open", "list", "definition", "mcp"}]

Runtimes == [reservation : Reservations \cup {None}, work : Works \cup {None},
             mcp : 0..MaxOps, ops : 0..MaxOps]

TurnRecords == [prompt : Prompts, driver : Drivers, generation : Nat,
                state : {"spawned", "run", "asking"}, cancelled : BOOLEAN,
                asks : 0..MaxAsks]

TaskRecords == [slot : {"open", "work", "mcp"},
                kind : {"draft", "replace", "switch", "list", "definition", "mcp"},
                op : 1..MaxOps, arg : Modes \cup Sessions \cup {Fresh, None},
                generation : Nat, stop : BOOLEAN]

Messages == [kind : {"approval", "finished", "opened", "switch", "list", "definition", "mcp"},
             op : 0..MaxOps, generation : Nat, arg : Asks \cup Drivers \cup {None}]

(* A task's slot, its kind and what it was given go together, and a        *)
(* message carries what its kind says.                                     *)
TaskOK(t) ==
    \/ t.slot = "open" /\ t.kind = "draft"   /\ t.arg \in Modes
    \/ t.slot = "open" /\ t.kind = "replace" /\ t.arg \in Sessions \cup {Fresh}
    \/ t.slot = "open" /\ t.kind = "switch"  /\ t.arg = None
    \/ t.slot = "work" /\ t.kind \in {"list", "definition"}
    \/ t.slot = "mcp"  /\ t.kind = "mcp"
MessageOK(m) ==
    /\ m.kind = "approval" => m.arg \in Asks
    /\ m.kind = "finished" => m.arg \in Drivers
    /\ m.kind = "opened" => m.arg \in Drivers \cup {None}
    /\ m.kind \in {"list", "definition"} => m.op # 0

Typed ==
    /\ app \in Apps
    /\ rt \in Runtimes
    /\ idle \in Drivers \cup {None}
    /\ handle \in Prompts \cup {None}
    /\ responder \in Asks \cup {None}
    /\ drawn \in 0..app.installs
    /\ at \in 0..(DrainMax + 1)
    /\ turns \in SUBSET TurnRecords
    /\ tasks \in SUBSET TaskRecords
    /\ \A t \in tasks : TaskOK(t)
    /\ queue \in Seq(Messages)
    /\ \A i \in DOMAIN queue : MessageOK(queue[i])
    /\ stored \in SUBSET Sessions
    /\ Stored \subseteq stored
    /\ aim \in Sessions \cup {Fresh, None}
    /\ ran \in [Prompts -> Nat]
    /\ granted \in SUBSET Asks

Ends(m)    == m.kind = "finished"
Answers(m) == m.kind \in {"opened", "switch"}

(* The driver of the session on screen is in one place: idle, in the one   *)
(* turn, or in the message that ends it.                                   *)
Turning ==
    /\ \A t \in turns : /\ t.prompt = handle
                        /\ t.generation = app.generation
                        /\ t.driver.session = app.shown
    /\ \A t, u \in turns : t = u
    /\ \A i \in DOMAIN queue : Ends(queue[i]) =>
          /\ handle # None /\ turns = {}
          /\ queue[i].generation = app.generation /\ queue[i].arg.session = app.shown
          /\ \A j \in DOMAIN queue : Ends(queue[j]) => i = j
    /\ handle # None => /\ turns # {} \/ \E i \in DOMAIN queue : Ends(queue[i])
                        /\ app.running /\ rt.reservation = None /\ idle = None
    /\ idle # None => idle.session = app.shown
    /\ ~app.running /\ rt.reservation = None => app.shown = NoSession \/ idle # None
    /\ app.running /\ rt.reservation = None => handle # None

(* Or it is held by the reservation, whose answer is coming and answers    *)
(* what was asked.                                                         *)
Opening ==
    /\ rt.reservation # None =>
         /\ idle = None
         /\ rt.reservation.op <= rt.ops
         /\ rt.reservation.previous # None => rt.reservation.previous.session = app.shown
         /\ rt.reservation.prompt = None => ~app.running
         /\ app.shown = NoSession \/ rt.reservation.previous # None
         /\ \/ \E t \in tasks : t.slot = "open" /\ t.op = rt.reservation.op
            \/ \E i \in DOMAIN queue : Answers(queue[i]) /\ queue[i].op = rt.reservation.op
    /\ \A t \in tasks : t.slot = "open" /\ Awaited(t.op) =>
         /\ t.kind = "switch" => rt.reservation.prompt = None /\ rt.reservation.previous # None
         /\ t.kind = "draft" => aim = Fresh
         /\ t.kind = "replace" => aim = t.arg
    /\ \A i \in DOMAIN queue : Awaited(queue[i].op) =>
         /\ queue[i].kind = "switch" =>
              rt.reservation.prompt = None /\ rt.reservation.previous # None
         /\ queue[i].kind = "opened" /\ queue[i].arg # None =>
              \/ queue[i].arg.session = aim
              \/ aim = Fresh /\ queue[i].arg.session \notin Stored

(* A number names one task or its answer, and none is given twice. *)
Numbered ==
    /\ \A t \in tasks : t.op <= rt.ops
    /\ \A t, u \in tasks : t.op = u.op => t = u
    /\ \A i \in DOMAIN queue : queue[i].op <= rt.ops
    /\ \A t \in tasks : \A i \in DOMAIN queue : t.op # queue[i].op

(* A prompt that may still run has not run, and waits in one place. *)
Prompting ==
    /\ \A p \in Prompts : ran[p] <= 1
    /\ app.composer # None => ran[app.composer] = 0
    /\ rt.reservation # None /\ rt.reservation.prompt # None =>
          ran[rt.reservation.prompt] = 0 /\ app.composer # rt.reservation.prompt

(* The loop holds the answer channel of the approval on screen only, and a *)
(* frame is counted as this one's only if this one was drawn.              *)
Approving ==
    /\ app.view # None => app.installs # 0
    /\ app.view # None /\ drawn = app.installs => app.view \in seen
    /\ responder # None => app.view = responder
    /\ granted \subseteq seen

LoopInv == Typed /\ Turning /\ Opening /\ Numbered /\ Prompting /\ Approving /\ WorkIsOwned

(* An iteration may have drawn a frame of the state it began in. *)
Redrawn == (\E due \in BOOLEAN : Draw(due)) \/ UNCHANGED <<drawn, seen>>

-----------------------------------------------------------------------------
(* The channel and the task set. *)

LEMMA NoneIsNothing ==
    /\ None \notin Prompts /\ None \notin Sessions /\ None \notin Drivers /\ None \notin Asks
    /\ None \notin Reservations /\ None \notin Works /\ None # McpLaunch /\ None # Fresh
    /\ Fresh \notin Sessions /\ NoSession \notin Sessions
    /\ \A p \in Prompts : \A n \in 0..MaxAsks : None # <<p, n>>
  BY NoneAssumption, SessionsAssumption, BoundsAssumption DEF Asks

LEMMA BoundsAreNumbers ==
    MaxOps \in Nat /\ MaxNew \in Nat /\ MaxAsks \in Nat /\ DrainMax \in Nat /\ DrainMax # 0
  BY BoundsAssumption

LEMMA LaunchIsNoAsk == McpLaunch \notin Asks
  BY BoundsAreNumbers DEF McpLaunch, Asks

LEMMA TakenFrom ==
    ASSUME NEW M, NEW q \in Seq(M), q # <<>>
    PROVE  /\ Tail(q) \in Seq(M) /\ Head(q) \in M
           /\ 1 \in DOMAIN q /\ q[1] = Head(q)
           /\ \A i \in DOMAIN Tail(q) :
                 i + 1 \in DOMAIN q /\ i + 1 # 1 /\ Tail(q)[i] = q[i + 1]
           /\ \A j \in DOMAIN q : j # 1 => /\ j - 1 \in DOMAIN Tail(q)
                                           /\ Tail(q)[j - 1] = q[j]
  OBVIOUS

LEMMA AddedTo ==
    ASSUME NEW M, NEW q \in Seq(M), NEW m \in M
    PROVE  /\ Append(q, m) \in Seq(M)
           /\ Len(q) + 1 \in DOMAIN Append(q, m) /\ Append(q, m)[Len(q) + 1] = m
           /\ Len(q) + 1 \notin DOMAIN q
           /\ \A i \in DOMAIN q : i \in DOMAIN Append(q, m) /\ Append(q, m)[i] = q[i]
           /\ \A i \in DOMAIN Append(q, m) :
                 \/ i \in DOMAIN q
                 \/ i = Len(q) + 1
  OBVIOUS

(* A task that is told to stop is the task it was. *)
LEMMA TellingKeepsTasks ==
    ASSUME NEW T \in SUBSET TaskRecords, \A t \in T : TaskOK(t),
           \A t, u \in T : t.op = u.op => t = u, NEW op
    PROVE  /\ Signalled(T, op) \in SUBSET TaskRecords
           /\ \A t \in Signalled(T, op) : TaskOK(t)
           /\ \A t, u \in Signalled(T, op) : t.op = u.op => t = u
           /\ \A t \in Signalled(T, op) : \E u \in T : t.op = u.op /\ t.slot = u.slot
           /\ \A t \in Signalled(T, op) : t.slot # "mcp" => t \in T
           /\ \A t \in T : t.slot # "mcp" => t \in Signalled(T, op)
           /\ \A t \in Signalled(T, op) : t.slot = "mcp" => t.stop \/ (t \in T /\ t.op # op)
<1> DEFINE told(t) == IF t.slot = "mcp" /\ t.op = op THEN [t EXCEPT !.stop = TRUE] ELSE t
<1>1. Signalled(T, op) = {told(t) : t \in T}
  BY DEF Signalled
<1>2. \A t \in T : /\ told(t) \in TaskRecords /\ TaskOK(told(t))
                   /\ told(t).op = t.op /\ told(t).slot = t.slot
                   /\ t.slot # "mcp" => told(t) = t
                   /\ t.slot = "mcp" => told(t).stop \/ (told(t) = t /\ t.op # op)
  <2> TAKE t \in T
  <2>1. t \in TaskRecords /\ TaskOK(t)
    OBVIOUS
  <2>2. CASE t.slot = "mcp" /\ t.op = op
    <3> DEFINE u == [t EXCEPT !.stop = TRUE]
    <3>1. /\ u \in TaskRecords /\ u.slot = t.slot /\ u.kind = t.kind /\ u.arg = t.arg
          /\ u.op = t.op /\ u.stop
      BY <2>1 DEF TaskRecords
    <3>2. told(t) = u
      BY <2>2
    <3> HIDE DEF u, told
    <3>3. TaskOK(u)
      BY <2>1, <3>1 DEF TaskOK
    <3> QED
      BY <2>2, <3>1, <3>2, <3>3
  <2>3. CASE ~(t.slot = "mcp" /\ t.op = op)
    BY <2>1, <2>3
  <2> QED
    BY <2>2, <2>3
<1> HIDE DEF told
<1> QED
  BY <1>1, <1>2

-----------------------------------------------------------------------------
(* What steps that leave a part of the state alone keep. *)

LEMMA DrawingIsHonest ==
    ASSUME Typed, Approving, Redrawn
    PROVE  /\ drawn' \in 0..app.installs
           /\ seen \subseteq seen'
           /\ app.view # None /\ drawn' = app.installs => app.view \in seen'
  BY DEF Typed, Approving, Redrawn, Draw, PendingInstall, Apps

(* A key is taken after the approval on screen was drawn. *)
LEMMA KeysFollowTheFrame ==
    ASSUME Typed, Approving, \E due \in BOOLEAN : Draw(due)
    PROVE  app.view # None => app.view \in seen'
  BY DEF Typed, Approving, Draw, UndrawnApproval, PendingInstall, Apps

LEMMA TurningKept ==
    ASSUME Turning, UNCHANGED <<handle, turns, queue>>,
           app'.running = app.running, app'.generation = app.generation,
           app'.shown = app.shown, rt'.reservation = rt.reservation,
           idle' = None <=> idle = None, idle' # None => idle'.session = idle.session
    PROVE  Turning'
  BY DEF Turning, Ends

LEMMA OpeningKept ==
    ASSUME Typed, Opening, UNCHANGED <<queue, aim>>,
           app'.running = app.running, app'.shown = app.shown,
           rt'.reservation = rt.reservation, rt'.ops \in Nat, rt.ops <= rt'.ops,
           idle = None => idle' = None,
           \A t \in tasks : t.slot = "open" => t \in tasks',
           \A t \in tasks' : t.slot = "open" => t \in tasks
    PROVE  Opening'
<1>1. rt.reservation # None => rt.reservation.op <= rt'.ops
  BY BoundsAreNumbers DEF Typed, Opening, Runtimes, Reservations
<1> QED
  BY <1>1 DEF Opening, Awaited, Answers

LEMMA PromptingKept ==
    ASSUME Prompting, UNCHANGED ran, app'.composer = app.composer,
           rt'.reservation \in {rt.reservation, None}
    PROVE  Prompting'
  BY DEF Prompting

LEMMA ApprovingKept ==
    ASSUME Typed, Approving, Redrawn, UNCHANGED granted,
           app'.installs = app.installs, app'.view \in {app.view, None},
           responder' = None \/ (responder' = responder /\ app'.view = app.view)
    PROVE  Approving' /\ drawn' \in 0..app'.installs
  BY DrawingIsHonest DEF Approving

-----------------------------------------------------------------------------
(* Keys. *)

LEMMA KeyLeaves ==
    ASSUME LoopInv, AtKey
    PROVE  /\ UNCHANGED <<queue, stored>> /\ at' \in 0..(DrainMax + 1) /\ Redrawn
           /\ app.view # None => app.view \in seen'
  BY BoundsAreNumbers, KeysFollowTheFrame DEF LoopInv, AtKey, Redrawn

LEMMA MainKeyLeaves ==
    ASSUME LoopInv, MainKey
    PROVE  /\ UNCHANGED <<queue, stored, granted>> /\ at' \in 0..(DrainMax + 1) /\ Redrawn
           /\ app.view = None /\ responder = None
  BY KeyLeaves DEF MainKey, LoopInv, Approving

LEMMA TypePromptKeeps ==
    ASSUME LoopInv, NEW p \in Prompts, TypePrompt(p)
    PROVE  LoopInv'
<1>1. /\ UNCHANGED <<queue, stored, granted>> /\ at' \in 0..(DrainMax + 1) /\ Redrawn
      /\ UNCHANGED <<rt, idle, handle, responder, turns, tasks, aim, ran>>
      /\ app' = [app EXCEPT !.composer = p]
      /\ ran[p] = 0
      /\ rt.reservation # None => rt.reservation.prompt # p
  BY MainKeyLeaves DEF TypePrompt
<1>2. /\ app' \in Apps /\ app'.composer = p
      /\ app'.running = app.running /\ app'.generation = app.generation
      /\ app'.shown = app.shown /\ app'.view = app.view /\ app'.installs = app.installs
      /\ app'.busy = app.busy
  BY <1>1 DEF LoopInv, Typed, Apps
<1>3. Approving' /\ drawn' \in 0..app'.installs
  BY <1>1, <1>2, ApprovingKept DEF LoopInv
<1>4. Typed'
  BY <1>1, <1>2, <1>3 DEF LoopInv, Typed
<1>5. Turning'
  BY <1>1, <1>2, TurningKept DEF LoopInv
<1>6. Opening'
  BY <1>1, <1>2, OpeningKept DEF LoopInv, Typed, Runtimes
<1>7. Numbered'
  BY <1>1 DEF LoopInv, Numbered
<1>8. Prompting'
  BY <1>1, <1>2 DEF LoopInv, Prompting
<1>9. WorkIsOwned'
  BY <1>1, <1>2 DEF LoopInv, WorkIsOwned
<1> QED
  BY <1>3, <1>4, <1>5, <1>6, <1>7, <1>8, <1>9 DEF LoopInv

(* Nothing but the frame and where the loop is changes. *)
LEMMA StillKeeps ==
    ASSUME LoopInv, Redrawn, at' \in 0..(DrainMax + 1),
           UNCHANGED <<app, rt, idle, handle, responder, turns, tasks, queue, stored,
                       aim, ran, granted>>
    PROVE  LoopInv'
<1>1. Approving' /\ drawn' \in 0..app'.installs
  BY ApprovingKept DEF LoopInv
<1>2. Typed'
  BY <1>1 DEF LoopInv, Typed
<1>3. Turning' /\ Numbered' /\ Prompting' /\ WorkIsOwned'
  BY DEF LoopInv, Turning, Numbered, Prompting, WorkIsOwned
<1>4. Opening'
  BY OpeningKept DEF LoopInv, Typed, Runtimes
<1> QED
  BY <1>1, <1>2, <1>3, <1>4 DEF LoopInv

(* A new number is nobody's: a reservation made under it waits for its own *)
(* task only.                                                              *)
LEMMA ReserveKeeps ==
    ASSUME LoopInv, NEW a \in Apps, NEW kind \in {"draft", "replace", "switch"},
           NEW arg \in Modes \cup Sessions \cup {Fresh, None}, NEW p \in Prompts \cup {None},
           NEW previous \in Drivers \cup {None},
           Reserve(a, kind, arg, p, previous),
           rt.ops < MaxOps, rt.reservation = None, handle = None,
           a.shown = app.shown, a.generation = app.generation, a.view = None,
           a.installs = app.installs, a.busy = app.busy,
           p = None => ~a.running,
           previous # None => previous.session = app.shown,
           app.shown = NoSession \/ previous # None,
           kind = "switch" => p = None /\ previous # None /\ arg = None,
           kind = "draft" => arg \in Modes /\ aim' = Fresh,
           kind = "replace" => arg \in Sessions \cup {Fresh} /\ aim' = arg,
           aim' \in Sessions \cup {Fresh, None},
           p # None => ran[p] = 0 /\ a.composer # p,
           a.composer # None => ran[a.composer] = 0,
           UNCHANGED <<queue, stored, granted, handle, responder, turns, ran>>,
           responder = None, at' \in 0..(DrainMax + 1), Redrawn
    PROVE  LoopInv'
<1> DEFINE op == rt.ops + 1
           new == Task("open", kind, op, arg)
           held == [op |-> op, prompt |-> p, previous |-> previous]
<1>1. /\ app' = [a EXCEPT !.busy = @ \cup {"open"}, !.transition = (kind # "switch")]
      /\ rt' = [rt EXCEPT !.ops = op, !.reservation = held]
      /\ tasks' = WithoutSlot(tasks, "open") \cup {new}
      /\ idle' = None
  BY DEF Reserve
<1>2. /\ op \in 1..MaxOps /\ op \in Nat /\ rt.ops \in Nat /\ rt.ops < op
      /\ held \in Reservations
      /\ held.op = op /\ held.prompt = p /\ held.previous = previous
      /\ held # None
  BY BoundsAreNumbers, NoneIsNothing DEF LoopInv, Typed, Runtimes, Reservations
<1>3. /\ app' \in Apps /\ app'.composer = a.composer /\ app'.running = a.running
      /\ app'.generation = app.generation /\ app'.shown = app.shown
      /\ app'.view = None /\ app'.installs = app.installs
      /\ app'.busy = app.busy \cup {"open"}
  BY <1>1 DEF Apps
<1>4. /\ new \in TaskRecords /\ TaskOK(new)
      /\ new.slot = "open" /\ new.kind = kind /\ new.op = op /\ new.arg = arg
  BY <1>2 DEF Task, TaskRecords, TaskOK, LoopInv, Typed, Apps
<1> HIDE DEF held, new
<1>5. /\ rt' \in Runtimes /\ rt'.ops = op /\ rt'.reservation = held
      /\ rt'.work = rt.work /\ rt'.mcp = rt.mcp
  <2>1. op \in 0..MaxOps /\ held \in Reservations \cup {None} /\ rt \in Runtimes
    BY <1>2, BoundsAreNumbers DEF LoopInv, Typed
  <2> HIDE DEF op
  <2> QED
    BY <1>1, <2>1 DEF Runtimes
<1>6. /\ \A t \in tasks' : t = new \/ (t \in tasks /\ t.slot # "open")
      /\ new \in tasks'
  BY <1>1 DEF WithoutSlot
<1>7. Approving' /\ drawn' \in 0..app'.installs
  BY <1>3, ApprovingKept DEF LoopInv, Typed
<1>8. Typed'
  <2>1. tasks' \in SUBSET TaskRecords /\ \A t \in tasks' : TaskOK(t)
    BY <1>4, <1>6 DEF LoopInv, Typed
  <2> QED
    BY <1>1, <1>3, <1>5, <1>7, <2>1 DEF LoopInv, Typed
<1>9. Turning'
  BY <1>1, <1>2, <1>3, <1>5, NoneIsNothing DEF LoopInv, Typed, Turning, TurnRecords, Ends
<1>10. \A t \in tasks : t.op \in Nat /\ t.op < op
  BY <1>2 DEF LoopInv, Typed, TaskRecords, Numbered
<1>11. \A i \in DOMAIN queue : queue[i].op \in Nat /\ queue[i].op < op
  <2> TAKE i \in DOMAIN queue
  <2>1. queue[i] \in Messages
    BY DEF LoopInv, Typed
  <2> QED
    BY <1>2, <2>1, BoundsAreNumbers DEF LoopInv, Messages, Numbered
<1>12. Opening'
  <2>1. \A i \in DOMAIN queue : ~Awaited(queue[i].op)'
    BY <1>2, <1>5, <1>11 DEF Awaited
  <2>2. \A t \in tasks' : t.slot = "open" => t = new
    BY <1>6
  <2> QED
    BY <1>1, <1>2, <1>3, <1>4, <1>5, <1>6, <2>1, <2>2, NoneIsNothing DEF Opening, Awaited
<1>13. Numbered'
  BY <1>2, <1>4, <1>5, <1>6, <1>10, <1>11 DEF LoopInv, Numbered
<1>14. Prompting'
  BY <1>2, <1>3, <1>5 DEF LoopInv, Prompting
<1>15. WorkIsOwned'
  BY <1>2, <1>3, <1>4, <1>5, <1>6 DEF LoopInv, WorkIsOwned
<1> QED
  BY <1>7, <1>8, <1>9, <1>12, <1>13, <1>14, <1>15 DEF LoopInv

(* A turn started with nothing else alive is the one turn of its session. *)
LEMMA StartIsAlone ==
    ASSUME Typed, Turning, NEW a \in Apps, NEW r, NEW d \in Drivers, NEW p \in Prompts,
           handle = None, a.running, a.shown = d.session, r.reservation = None,
           StartTurn(a, r, d, p), queue' \in Seq(Messages),
           \A i \in DOMAIN queue' : \E j \in DOMAIN queue : queue'[i] = queue[j]
    PROVE  /\ Turning' /\ turns' \in SUBSET TurnRecords
           /\ ran' \in [Prompts -> Nat] /\ ran'[p] = ran[p] + 1
           /\ \A q \in Prompts : q # p => ran'[q] = ran[q]
<1> DEFINE new == [prompt |-> p, driver |-> d, generation |-> a.generation,
                   state |-> "spawned", cancelled |-> FALSE, asks |-> 0]
<1>1. /\ new \in TurnRecords
      /\ new.prompt = p /\ new.driver = d /\ new.generation = a.generation
  BY BoundsAreNumbers DEF TurnRecords, Apps
<1>2. /\ app' = a /\ rt' = r /\ idle' = None /\ handle' = p
      /\ turns' = turns \cup {new} /\ ran' = [ran EXCEPT ![p] = @ + 1]
  BY DEF StartTurn
<1> HIDE DEF new
<1>3. turns = {}
  BY NoneIsNothing DEF Typed, Turning, TurnRecords
<1>4. \A i \in DOMAIN queue : ~Ends(queue[i])
  BY DEF Turning
<1>5. \A i \in DOMAIN queue' : ~Ends(queue'[i])
  BY <1>4 DEF Ends
<1>6. turns' = {new}
  BY <1>2, <1>3
<1>7. Turning'
  BY <1>1, <1>2, <1>5, <1>6, NoneIsNothing DEF Turning, Ends
<1> QED
  BY <1>1, <1>2, <1>6, <1>7 DEF Typed

LEMMA SubmitKeeps ==
    ASSUME LoopInv, Submit
    PROVE  LoopInv'
<1> DEFINE p == app.composer
           a == [app EXCEPT !.running = TRUE, !.composer = None]
<1>1. /\ UNCHANGED <<queue, stored, granted, responder>> /\ at' \in 0..(DrainMax + 1)
      /\ Redrawn /\ app.view = None /\ responder = None /\ p # None
  BY MainKeyLeaves DEF Submit
<1>2. p \in Prompts /\ ran[p] = 0 /\ app \in Apps /\ rt \in Runtimes
  BY <1>1 DEF LoopInv, Typed, Prompting, Apps
<1>3. /\ a \in Apps /\ a.running /\ a.composer = None
      /\ a.generation = app.generation /\ a.shown = app.shown
      /\ a.view = app.view /\ a.installs = app.installs /\ a.busy = app.busy
      /\ a.mode = app.mode
  BY <1>2 DEF Apps
<1>4. ASSUME UNCHANGED <<app, rt, idle, handle, turns, tasks, aim, ran>>
      PROVE  LoopInv'
  BY <1>1, <1>4, StillKeeps
<1>5. ASSUME ~app.running, app' = Restore(a, p),
             UNCHANGED <<rt, idle, handle, turns, tasks, aim, ran>>
      PROVE  LoopInv'
  <2>1. app' = [app EXCEPT !.running = FALSE, !.composer = p]
    BY <1>2, <1>5 DEF Restore, Apps
  <2>2. app' = app
    BY <1>2, <1>5, <2>1 DEF Apps
  <2> QED
    BY <1>1, <1>5, <2>2, StillKeeps
<1> HIDE DEF a
<1>6. ASSUME ~app.running, rt.reservation = None, idle # None,
             StartTurn(a, rt, idle, p), UNCHANGED <<tasks, aim>>
      PROVE  LoopInv'
  <2>1. handle = None
    BY <1>6 DEF LoopInv, Turning
  <2>2. idle \in Drivers /\ idle.session = app.shown
    BY <1>6 DEF LoopInv, Typed, Turning
  <2>3. /\ queue' \in Seq(Messages)
        /\ \A i \in DOMAIN queue' : \E j \in DOMAIN queue : queue'[i] = queue[j]
    BY <1>1 DEF LoopInv, Typed
  <2>4. /\ Turning' /\ turns' \in SUBSET TurnRecords
        /\ ran' \in [Prompts -> Nat] /\ ran'[p] = ran[p] + 1
        /\ \A q \in Prompts : q # p => ran'[q] = ran[q]
    BY <1>2, <1>3, <1>6, <2>1, <2>2, <2>3, StartIsAlone DEF LoopInv
  <2>5. app' = a /\ rt' = rt /\ idle' = None /\ handle' = p
    BY <1>6 DEF StartTurn
  <2>6. Approving' /\ drawn' \in 0..app'.installs
    BY <1>1, <1>3, <2>5, ApprovingKept DEF LoopInv
  <2>7. Typed'
    BY <1>1, <1>2, <1>3, <1>6, <2>4, <2>5, <2>6 DEF LoopInv, Typed
  <2>8. Opening' /\ Numbered'
    BY <1>1, <1>6, <2>5, NoneIsNothing DEF LoopInv, Opening, Numbered, Awaited
  <2>9. Prompting'
    BY <1>2, <1>3, <1>6, <2>4, <2>5 DEF LoopInv, Prompting, PromptRunsOnce
  <2>10. WorkIsOwned'
    BY <1>3, <1>6, <2>5 DEF LoopInv, WorkIsOwned
  <2> QED
    BY <2>4, <2>6, <2>7, <2>8, <2>9, <2>10 DEF LoopInv
<1>7. ASSUME ~app.running, rt.reservation = None, idle = None, app.shown = NoSession,
             rt.ops < MaxOps, Reserve(a, "draft", app.mode, p, None), aim' = Fresh,
             UNCHANGED <<handle, turns, ran>>
      PROVE  LoopInv'
  <2>1. handle = None
    BY <1>7 DEF LoopInv, Turning
  <2>2. app.mode \in Modes
    BY <1>2 DEF Apps
  <2> QED
    BY <1>1, <1>2, <1>3, <1>7, <2>1, <2>2, ReserveKeeps
<1>8. Submit => \/ UNCHANGED <<app, rt, idle, handle, turns, tasks, aim, ran>>
                \/ /\ ~app.running /\ app' = Restore(a, p)
                   /\ UNCHANGED <<rt, idle, handle, turns, tasks, aim, ran>>
                \/ /\ ~app.running /\ rt.reservation = None /\ idle # None
                   /\ StartTurn(a, rt, idle, p) /\ UNCHANGED <<tasks, aim>>
                \/ /\ ~app.running /\ rt.reservation = None /\ idle = None
                   /\ app.shown = NoSession /\ rt.ops < MaxOps
                   /\ Reserve(a, "draft", app.mode, p, None) /\ aim' = Fresh
                   /\ UNCHANGED <<handle, turns, ran>>
  BY DEF Submit, a
<1> QED
  BY <1>4, <1>5, <1>6, <1>7, <1>8

(* What cancel_work leaves: nothing in the slot, and every MCP action told *)
(* to stop.                                                                *)
LEMMA CancelledLeaves ==
    ASSUME LoopInv, NEW T, T \in {CancelledTasks, WithoutSlot(CancelledTasks, "open")}
    PROVE  /\ T \in SUBSET TaskRecords
           /\ \A t \in T : TaskOK(t)
           /\ \A t, u \in T : t.op = u.op => t = u
           /\ \A t \in T : \E u \in tasks : t.op = u.op
           /\ \A t \in T : t.slot # "work"
           /\ \A t \in T : t.slot = "mcp" => t.stop
<1> DEFINE S == Signalled(tasks, rt.mcp)
<1>1. /\ S \in SUBSET TaskRecords
      /\ \A t \in S : TaskOK(t)
      /\ \A t, u \in S : t.op = u.op => t = u
      /\ \A t \in S : \E u \in tasks : t.op = u.op /\ t.slot = u.slot
      /\ \A t \in S : t.slot = "mcp" => t.stop \/ (t \in tasks /\ t.op # rt.mcp)
  BY TellingKeepsTasks DEF LoopInv, Typed, Numbered
<1> HIDE DEF S
<1>2. \A t \in S : t.slot = "mcp" => t.stop
  BY <1>1 DEF LoopInv, WorkIsOwned
<1>3. \A t \in T : t \in S /\ t.slot # "work"
  BY DEF CancelledTasks, WithoutSlot, S
<1> QED
  BY <1>1, <1>2, <1>3

LEMMA CancelledBusyIs ==
    ASSUME LoopInv
    PROVE  /\ CancelledBusy(app) \in Apps
           /\ CancelledBusy(app).busy = IF rt.reservation # None THEN {"open"} ELSE {}
           /\ CancelledBusy(app).running = app.running
           /\ CancelledBusy(app).generation = app.generation
           /\ CancelledBusy(app).shown = app.shown
           /\ CancelledBusy(app).view = app.view
           /\ CancelledBusy(app).installs = app.installs
           /\ CancelledBusy(app).composer = app.composer
<1>1. app \in Apps
  BY DEF LoopInv, Typed
<1> DEFINE gone == (IF rt.mcp # 0 THEN {"mcp"} ELSE {})
                   \cup (IF rt.work # None THEN {rt.work.kind} ELSE {})
           b == app.busy \ gone
<1>2. b = IF rt.reservation # None THEN {"open"} ELSE {}
  BY DEF LoopInv, WorkIsOwned, Typed, Runtimes, Works
<1>3. CancelledBusy(app) = [app EXCEPT !.busy = b]
  BY DEF CancelledBusy
<1>4. b \in SUBSET {"open", "list", "definition", "mcp"}
  BY <1>2
<1> HIDE DEF b
<1> QED
  BY <1>1, <1>2, <1>3, <1>4 DEF Apps

(* With no reservation there is none to answer. *)
LEMMA NothingAwaited ==
    ASSUME rt'.reservation = None
    PROVE  Opening'
  BY DEF Opening, Awaited

LEMMA FewerStayNumbered ==
    ASSUME Numbered, UNCHANGED queue, rt'.ops = rt.ops,
           \A t, u \in tasks' : t.op = u.op => t = u,
           \A t \in tasks' : \E u \in tasks : t.op = u.op
    PROVE  Numbered'
  BY DEF Numbered

LEMMA ForgottenSlots ==
    ASSUME rt \in Runtimes,
           rt' = [rt EXCEPT !.mcp = 0, !.work = None, !.reservation = None]
    PROVE  /\ rt' \in Runtimes /\ rt'.ops = rt.ops /\ rt'.reservation = None
           /\ rt'.work = None /\ rt'.mcp = 0
<1>1. 0 \in 0..MaxOps
  BY BoundsAreNumbers
<1> QED
  BY <1>1 DEF Runtimes

LEMMA CancelKeeps ==
    ASSUME LoopInv, Cancel
    PROVE  LoopInv'
<1> DEFINE a == CancelledBusy(app)
<1>1. /\ UNCHANGED <<queue, stored, granted>> /\ at' \in 0..(DrainMax + 1) /\ Redrawn
      /\ app.view = None
  BY MainKeyLeaves DEF Cancel
<1>2. /\ turns' = {IF t.prompt = handle THEN [t EXCEPT !.cancelled = TRUE] ELSE t : t \in turns}
      /\ responder' = None
      /\ rt' = [rt EXCEPT !.mcp = 0, !.work = None, !.reservation = None]
      /\ UNCHANGED <<handle, ran>>
  BY DEF Cancel
<1>3. /\ a \in Apps /\ a.busy = (IF rt.reservation # None THEN {"open"} ELSE {})
      /\ a.running = app.running /\ a.generation = app.generation /\ a.shown = app.shown
      /\ a.view = app.view /\ a.installs = app.installs /\ a.composer = app.composer
  BY CancelledBusyIs
<1>4. /\ rt' \in Runtimes /\ rt'.ops = rt.ops /\ rt'.reservation = None
      /\ rt'.work = None /\ rt'.mcp = 0
  BY <1>2, ForgottenSlots DEF LoopInv, Typed
<1>5. /\ turns' \in SUBSET TurnRecords
      /\ \A t \in turns' : \E u \in turns : /\ t.prompt = u.prompt /\ t.driver = u.driver
                                            /\ t.generation = u.generation
      /\ \A t, u \in turns' : t = u
      /\ turns = {} <=> turns' = {}
  <2> DEFINE told(t) == IF t.prompt = handle THEN [t EXCEPT !.cancelled = TRUE] ELSE t
  <2>1. turns' = {told(t) : t \in turns}
    BY <1>2
  <2>2. \A t \in turns : /\ told(t) \in TurnRecords /\ told(t).prompt = t.prompt
                         /\ told(t).driver = t.driver /\ told(t).generation = t.generation
    BY DEF LoopInv, Typed, TurnRecords
  <2> HIDE DEF told
  <2>3. \A t, u \in turns : t = u
    BY DEF LoopInv, Turning
  <2> QED
    BY <2>1, <2>2, <2>3
<1> HIDE DEF a
<1>6. Opening'
  BY <1>4, NothingAwaited
<1>7. CASE rt.reservation = None
  <2>1. app' = a /\ tasks' = CancelledTasks /\ UNCHANGED <<idle, aim>>
    BY <1>7 DEF Cancel, a
  <2>2. /\ tasks' \in SUBSET TaskRecords /\ \A t \in tasks' : TaskOK(t)
        /\ \A t, u \in tasks' : t.op = u.op => t = u
        /\ \A t \in tasks' : \E u \in tasks : t.op = u.op
        /\ \A t \in tasks' : t.slot # "work" /\ (t.slot = "mcp" => t.stop)
    BY <2>1, CancelledLeaves
  <2>3. Approving' /\ drawn' \in 0..app'.installs
    BY <1>1, <1>2, <1>3, <2>1, ApprovingKept DEF LoopInv
  <2>4. Typed'
    BY <1>1, <1>2, <1>3, <1>4, <1>5, <2>1, <2>2, <2>3 DEF LoopInv, Typed
  <2>5. Turning'
    BY <1>1, <1>2, <1>3, <1>4, <1>5, <1>7, <2>1 DEF LoopInv, Turning, Ends
  <2>6. Numbered'
    BY <1>1, <1>4, <2>2, FewerStayNumbered DEF LoopInv
  <2>7. Prompting'
    BY <1>2, <1>3, <1>4, <2>1 DEF LoopInv, Prompting
  <2>8. WorkIsOwned'
    BY <1>3, <1>4, <1>7, <2>1, <2>2 DEF WorkIsOwned
  <2> QED
    BY <1>6, <2>3, <2>4, <2>5, <2>6, <2>7, <2>8 DEF LoopInv
<1>8. CASE rt.reservation # None
  <2> DEFINE q == rt.reservation.prompt
  <2>1. /\ rt.reservation \in Reservations /\ q \in Prompts \cup {None}
        /\ rt.reservation.previous \in Drivers \cup {None}
    BY <1>8 DEF LoopInv, Typed, Runtimes, Reservations
  <2>2. /\ app' = IF q = None THEN [Released(a) EXCEPT !.running = FALSE]
                  ELSE Restore(Released(a), q)
        /\ tasks' = WithoutSlot(CancelledTasks, "open")
        /\ idle' = rt.reservation.previous /\ aim' = None
    BY <1>8 DEF Cancel, a
  <2>3. /\ app' \in Apps /\ app'.busy = {} /\ ~app'.running
        /\ app'.generation = app.generation /\ app'.shown = app.shown
        /\ app'.view = None /\ app'.installs = app.installs
        /\ app'.composer = IF q = None THEN app.composer ELSE q
    <3> DEFINE r == Released(a)
    <3>1. /\ r \in Apps /\ r.busy = {} /\ r.generation = app.generation
          /\ r.shown = app.shown /\ r.view = None /\ r.installs = app.installs
          /\ r.composer = app.composer
      BY <1>1, <1>3, <1>8 DEF Released, Apps
    <3> HIDE DEF r
    <3>2. app' = IF q = None THEN [r EXCEPT !.running = FALSE]
                 ELSE [r EXCEPT !.running = FALSE, !.composer = q]
      BY <2>2 DEF Restore, r
    <3> HIDE DEF q
    <3> QED
      BY <2>1, <3>1, <3>2 DEF Apps
  <2>4. /\ tasks' \in SUBSET TaskRecords /\ \A t \in tasks' : TaskOK(t)
        /\ \A t, u \in tasks' : t.op = u.op => t = u
        /\ \A t \in tasks' : \E u \in tasks : t.op = u.op
        /\ \A t \in tasks' : t.slot # "work" /\ (t.slot = "mcp" => t.stop)
    BY <2>2, CancelledLeaves
  <2>5. Approving' /\ drawn' \in 0..app'.installs
    BY <1>1, <1>2, <2>3, ApprovingKept DEF LoopInv
  <2>6. Typed'
    BY <1>1, <1>2, <1>4, <1>5, <2>1, <2>2, <2>3, <2>4, <2>5 DEF LoopInv, Typed
  <2>7. handle = None /\ turns' = {}
    BY <1>5, <1>8, NoneIsNothing DEF LoopInv, Typed, Turning, TurnRecords
  <2>8. Turning'
    BY <1>1, <1>2, <1>4, <1>8, <2>1, <2>2, <2>3, <2>7, NoneIsNothing
    DEF LoopInv, Turning, Opening, Ends
  <2>9. Numbered'
    BY <1>1, <1>4, <2>4, FewerStayNumbered DEF LoopInv
  <2>10. Prompting'
    BY <1>2, <1>4, <1>8, <2>3 DEF LoopInv, Prompting
  <2>11. WorkIsOwned'
    BY <1>4, <2>3, <2>4 DEF WorkIsOwned
  <2> QED
    BY <1>6, <2>5, <2>6, <2>8, <2>9, <2>10, <2>11 DEF LoopInv
<1> QED
  BY <1>7, <1>8

LEMMA NewSessionKeeps ==
    ASSUME LoopInv, NewSession
    PROVE  LoopInv'
<1> DEFINE a == CancelledBusy(app)
<1>1. /\ UNCHANGED <<queue, stored, granted>> /\ at' \in 0..(DrainMax + 1) /\ Redrawn
      /\ app.view = None
  BY MainKeyLeaves DEF NewSession
<1>2. /\ app' = [Released(a) EXCEPT !.shown = NoSession, !.running = FALSE, !.generation = @ + 1]
      /\ idle' = None /\ handle' = None /\ responder' = None
      /\ rt' = [rt EXCEPT !.mcp = 0, !.work = None, !.reservation = None]
      /\ tasks' = WithoutSlot(CancelledTasks, "open")
      /\ aim' = None
      /\ UNCHANGED <<turns, ran>>
      /\ ~app.running
  BY DEF NewSession, MayChangeSettings, Editable
<1>3. /\ a \in Apps /\ a.busy = (IF rt.reservation # None THEN {"open"} ELSE {})
      /\ a.view = app.view /\ a.installs = app.installs /\ a.composer = app.composer
  BY CancelledBusyIs
<1> HIDE DEF a
<1>4. /\ app' \in Apps /\ app'.busy = {} /\ ~app'.running /\ app'.shown = NoSession
      /\ app'.view = None /\ app'.installs = app.installs /\ app'.composer = app.composer
  <2> DEFINE r == Released(a)
  <2>1. /\ r \in Apps /\ r.busy = {} /\ r.view = None /\ r.installs = app.installs
        /\ r.composer = app.composer
    BY <1>1, <1>3 DEF Released, Apps
  <2> HIDE DEF r
  <2>2. app' = [r EXCEPT !.shown = NoSession, !.running = FALSE, !.generation = @ + 1]
    BY <1>2 DEF r
  <2>3. r.generation \in Nat /\ r.generation + 1 \in Nat
    BY <2>1 DEF Apps
  <2> QED
    BY <2>1, <2>2, <2>3 DEF Apps
<1>5. /\ rt' \in Runtimes /\ rt'.ops = rt.ops /\ rt'.reservation = None
      /\ rt'.work = None /\ rt'.mcp = 0
  BY <1>2, ForgottenSlots DEF LoopInv, Typed
<1>6. /\ tasks' \in SUBSET TaskRecords /\ \A t \in tasks' : TaskOK(t)
      /\ \A t, u \in tasks' : t.op = u.op => t = u
      /\ \A t \in tasks' : \E u \in tasks : t.op = u.op
      /\ \A t \in tasks' : t.slot # "work" /\ (t.slot = "mcp" => t.stop)
  BY <1>2, CancelledLeaves
<1>7. Opening'
  BY <1>5, NothingAwaited
<1>8. Approving' /\ drawn' \in 0..app'.installs
  BY <1>1, <1>2, <1>4, ApprovingKept DEF LoopInv
<1>9. Typed'
  BY <1>1, <1>2, <1>4, <1>5, <1>6, <1>8 DEF LoopInv, Typed
<1>10. handle = None /\ turns = {} /\ \A i \in DOMAIN queue : ~Ends(queue[i])
  BY <1>2, NoneIsNothing DEF LoopInv, Typed, Turning, TurnRecords
<1>11. Turning'
  BY <1>1, <1>2, <1>4, <1>10 DEF Turning, Ends
<1>12. Numbered'
  BY <1>1, <1>5, <1>6, FewerStayNumbered DEF LoopInv
<1>13. Prompting'
  BY <1>2, <1>4, <1>5 DEF LoopInv, Prompting
<1>14. WorkIsOwned'
  BY <1>4, <1>5, <1>6 DEF WorkIsOwned
<1> QED
  BY <1>7, <1>8, <1>9, <1>11, <1>12, <1>13, <1>14 DEF LoopInv

LEMMA ReplaceKeeps ==
    ASSUME LoopInv, NEW target \in stored \cup {Fresh}, Replace(target)
    PROVE  LoopInv'
<1>1. /\ UNCHANGED <<queue, stored, granted, handle, responder, turns, ran>>
      /\ at' \in 0..(DrainMax + 1) /\ Redrawn /\ app.view = None /\ responder = None
      /\ rt.ops < MaxOps /\ ~app.running /\ handle = None /\ rt.reservation = None
      /\ Reserve(app, "replace", target, None, idle) /\ aim' = target
  BY MainKeyLeaves DEF Replace
<1>2. /\ app \in Apps /\ idle \in Drivers \cup {None} /\ target \in Sessions \cup {Fresh}
      /\ app.composer # None => ran[app.composer] = 0
      /\ idle # None => idle.session = app.shown
      /\ app.shown = NoSession \/ idle # None
  BY <1>1 DEF LoopInv, Typed, Turning, Prompting
<1> QED
  BY <1>1, <1>2, NoneIsNothing, ReserveKeeps

LEMMA SwitchNativeKeeps ==
    ASSUME LoopInv, SwitchNative
    PROVE  LoopInv'
<1>1. /\ UNCHANGED <<queue, stored, granted, handle, responder, turns, ran, aim>>
      /\ at' \in 0..(DrainMax + 1) /\ Redrawn /\ app.view = None /\ responder = None
      /\ rt.ops < MaxOps /\ ~app.running /\ handle = None /\ rt.reservation = None
      /\ idle # None /\ Reserve(app, "switch", None, None, idle)
  BY MainKeyLeaves DEF SwitchNative, Editable
<1>2. /\ app \in Apps /\ idle \in Drivers
      /\ app.composer # None => ran[app.composer] = 0
      /\ idle.session = app.shown /\ aim' \in Sessions \cup {Fresh, None}
  BY <1>1 DEF LoopInv, Typed, Turning, Prompting
<1> QED
  BY <1>1, <1>2, ReserveKeeps

(* A mode set on the driver at hand leaves it the driver of its session. *)
LEMMA ModeKeeps ==
    ASSUME LoopInv, NEW m \in Modes, MainKey,
           idle' = IF idle = None THEN None ELSE [idle EXCEPT !.mode = m],
           app' = [app EXCEPT !.mode = m],
           UNCHANGED <<rt, handle, responder, turns, tasks, aim, ran>>
    PROVE  LoopInv'
<1>1. /\ UNCHANGED <<queue, stored, granted>> /\ at' \in 0..(DrainMax + 1) /\ Redrawn
      /\ app.view = None
  BY MainKeyLeaves
<1>2. /\ app' \in Apps /\ app'.composer = app.composer /\ app'.running = app.running
      /\ app'.generation = app.generation /\ app'.shown = app.shown
      /\ app'.view = app.view /\ app'.installs = app.installs /\ app'.busy = app.busy
  BY DEF LoopInv, Typed, Apps
<1>3. /\ idle' \in Drivers \cup {None} /\ (idle' = None <=> idle = None)
      /\ idle' # None => idle'.session = idle.session
  BY NoneIsNothing DEF LoopInv, Typed, Drivers
<1>4. Approving' /\ drawn' \in 0..app'.installs
  BY <1>1, <1>2, ApprovingKept DEF LoopInv
<1>5. Typed'
  BY <1>1, <1>2, <1>3, <1>4 DEF LoopInv, Typed
<1>6. Turning'
  BY <1>1, <1>2, <1>3, TurningKept DEF LoopInv
<1>7. Opening'
  BY <1>1, <1>2, <1>3, OpeningKept DEF LoopInv, Typed, Runtimes
<1>8. Numbered' /\ Prompting' /\ WorkIsOwned'
  BY <1>1, <1>2 DEF LoopInv, Numbered, Prompting, WorkIsOwned
<1> QED
  BY <1>4, <1>5, <1>6, <1>7, <1>8 DEF LoopInv

LEMMA SetPhaseKeeps ==
    ASSUME LoopInv, NEW m \in Modes, SetPhase(m)
    PROVE  LoopInv'
  BY ModeKeeps DEF SetPhase

LEMMA SetModeKeeps ==
    ASSUME LoopInv, NEW m \in Modes, SetMode(m)
    PROVE  LoopInv'
  BY ModeKeeps DEF SetMode

LEMMA AskForKeeps ==
    ASSUME LoopInv, NEW kind \in {"list", "definition"}, AskFor(kind)
    PROVE  LoopInv'
<1> DEFINE op == rt.ops + 1
           new == Task("work", kind, op, None)
           slot == [kind |-> kind, op |-> op]
           b == (app.busy \ (IF rt.work = None THEN {} ELSE {rt.work.kind})) \cup {kind}
<1>1. /\ UNCHANGED <<queue, stored, granted, idle, handle, responder, turns, aim, ran>>
      /\ at' \in 0..(DrainMax + 1) /\ Redrawn /\ app.view = None
      /\ app' = [app EXCEPT !.busy = b]
      /\ rt' = [rt EXCEPT !.ops = op, !.work = slot]
      /\ tasks' = WithoutSlot(tasks, "work") \cup {new}
      /\ rt.ops < MaxOps
  BY MainKeyLeaves DEF AskFor, Spawn
<1>2. /\ op \in 1..MaxOps /\ op \in 0..MaxOps /\ op \in Nat /\ rt.ops \in Nat /\ rt.ops < op
      /\ app \in Apps /\ rt \in Runtimes
  BY <1>1, BoundsAreNumbers DEF LoopInv, Typed, Runtimes
<1>3. slot \in Works /\ slot # None /\ slot.kind = kind /\ slot.op = op
  BY <1>2, NoneIsNothing DEF Works
<1>4. /\ new \in TaskRecords /\ TaskOK(new)
      /\ new.slot = "work" /\ new.kind = kind /\ new.op = op
  BY <1>2 DEF Task, TaskRecords, TaskOK, Apps
<1>5. b \in SUBSET {"open", "list", "definition", "mcp"}
  BY <1>2 DEF Apps
<1>6. b = (IF rt.reservation # None THEN {"open"} ELSE {})
          \cup (IF rt.mcp # 0 THEN {"mcp"} ELSE {}) \cup {kind}
  BY <1>2 DEF LoopInv, WorkIsOwned, Runtimes, Works
<1> HIDE DEF op, new, slot, b
<1>7. /\ rt' \in Runtimes /\ rt'.ops = op /\ rt'.reservation = rt.reservation
      /\ rt'.work = slot /\ rt'.mcp = rt.mcp
  BY <1>1, <1>2, <1>3 DEF Runtimes
<1>8. /\ app' \in Apps /\ app'.busy = b /\ app'.composer = app.composer
      /\ app'.running = app.running /\ app'.generation = app.generation
      /\ app'.shown = app.shown /\ app'.view = app.view /\ app'.installs = app.installs
  BY <1>1, <1>2, <1>5 DEF Apps
<1>9. \A t \in tasks' : t = new \/ (t \in tasks /\ t.slot # "work")
  BY <1>1 DEF WithoutSlot
<1>10. \A t \in tasks : t.slot = "open" => t \in tasks'
  BY <1>1 DEF WithoutSlot
<1>11. Approving' /\ drawn' \in 0..app'.installs
  BY <1>1, <1>8, ApprovingKept DEF LoopInv
<1>12. tasks' \in SUBSET TaskRecords /\ \A t \in tasks' : TaskOK(t)
  BY <1>4, <1>9 DEF LoopInv, Typed
<1>13. Typed'
  BY <1>1, <1>7, <1>8, <1>11, <1>12 DEF LoopInv, Typed
<1>14. Turning'
  BY <1>1, <1>7, <1>8, TurningKept DEF LoopInv
<1>15. Opening'
  BY <1>1, <1>2, <1>4, <1>7, <1>8, <1>9, <1>10, OpeningKept DEF LoopInv
<1>16. Numbered'
  <2>1. \A t \in tasks : t.op \in Nat /\ t.op < op
    BY <1>2 DEF LoopInv, Typed, TaskRecords, Numbered
  <2>2. \A i \in DOMAIN queue : queue[i].op \in Nat /\ queue[i].op < op
    <3> TAKE i \in DOMAIN queue
    <3>1. queue[i] \in Messages
      BY DEF LoopInv, Typed
    <3> QED
      BY <1>2, <3>1, BoundsAreNumbers DEF LoopInv, Messages, Numbered
  <2> QED
    BY <1>1, <1>2, <1>4, <1>7, <1>9, <2>1, <2>2 DEF LoopInv, Numbered
<1>17. Prompting'
  BY <1>1, <1>7, <1>8, PromptingKept DEF LoopInv
<1>18. WorkIsOwned'
  <2>1. \A t \in tasks' : t.slot = "work" => t.kind = kind /\ t.op = op
    BY <1>4, <1>9
  <2>2. \A t \in tasks' : t.slot = "mcp" => t.stop \/ t.op = rt.mcp
    BY <1>4, <1>9 DEF LoopInv, WorkIsOwned
  <2> QED
    BY <1>3, <1>6, <1>7, <1>8, <2>1, <2>2 DEF WorkIsOwned, slot
<1> QED
  BY <1>11, <1>13, <1>14, <1>15, <1>16, <1>17, <1>18 DEF LoopInv

LEMMA BeginMcpKeeps ==
    ASSUME LoopInv, NEW a \in Apps, BeginMcp(a), rt.ops < MaxOps,
           a.running = app.running, a.shown = app.shown, a.generation = app.generation,
           a.view \in {app.view, None}, a.installs = app.installs, a.busy = app.busy,
           a.composer = app.composer,
           responder = None \/ a.view = app.view,
           UNCHANGED <<queue, stored, granted, idle, handle, responder, turns, aim, ran>>,
           at' \in 0..(DrainMax + 1), Redrawn
    PROVE  LoopInv'
<1> DEFINE op == rt.ops + 1
           new == Task("mcp", "mcp", op, None)
           T == Signalled(tasks, rt.mcp)
<1>1. /\ app' = [a EXCEPT !.busy = @ \cup {"mcp"}]
      /\ rt' = [rt EXCEPT !.ops = op, !.mcp = op]
      /\ tasks' = T \cup {new}
  BY DEF BeginMcp
<1>2. /\ op \in 1..MaxOps /\ op \in 0..MaxOps /\ op \in Nat /\ rt.ops \in Nat /\ rt.ops < op
      /\ rt \in Runtimes /\ app \in Apps
  BY BoundsAreNumbers DEF LoopInv, Typed, Runtimes
<1>3. /\ new \in TaskRecords /\ TaskOK(new)
      /\ new.slot = "mcp" /\ new.op = op
  BY <1>2 DEF Task, TaskRecords, TaskOK, Apps
<1>4. /\ T \in SUBSET TaskRecords /\ \A t \in T : TaskOK(t)
      /\ \A t, u \in T : t.op = u.op => t = u
      /\ \A t \in T : \E u \in tasks : t.op = u.op
      /\ \A t \in T : t.slot # "mcp" => t \in tasks
      /\ \A t \in tasks : t.slot # "mcp" => t \in T
      /\ \A t \in T : t.slot = "mcp" => t.stop \/ (t \in tasks /\ t.op # rt.mcp)
  BY TellingKeepsTasks DEF LoopInv, Typed, Numbered
<1> HIDE DEF op, new, T
<1>5. /\ rt' \in Runtimes /\ rt'.ops = op /\ rt'.reservation = rt.reservation
      /\ rt'.work = rt.work /\ rt'.mcp = op
  BY <1>1, <1>2 DEF Runtimes
<1>6. /\ app' \in Apps /\ app'.busy = app.busy \cup {"mcp"} /\ app'.composer = app.composer
      /\ app'.running = app.running /\ app'.generation = app.generation
      /\ app'.shown = app.shown /\ app'.view = a.view /\ app'.installs = app.installs
  BY <1>1 DEF Apps
<1>7. Approving' /\ drawn' \in 0..app'.installs
  BY <1>6, ApprovingKept DEF LoopInv
<1>8. tasks' \in SUBSET TaskRecords /\ \A t \in tasks' : TaskOK(t)
  BY <1>1, <1>3, <1>4
<1>9. Typed'
  BY <1>5, <1>6, <1>7, <1>8 DEF LoopInv, Typed
<1>10. Turning'
  BY <1>5, <1>6, TurningKept DEF LoopInv
<1>11. Opening'
  BY <1>1, <1>2, <1>3, <1>4, <1>5, <1>6, OpeningKept DEF LoopInv
<1>12. Numbered'
  <2>1. \A t \in T : t.op \in Nat /\ t.op < op
    <3>1. \A t \in tasks : t.op \in Nat /\ t.op < op
      BY <1>2 DEF LoopInv, Typed, TaskRecords, Numbered
    <3> QED
      BY <1>4, <3>1
  <2>2. \A i \in DOMAIN queue : queue[i].op \in Nat /\ queue[i].op < op
    <3> TAKE i \in DOMAIN queue
    <3>1. queue[i] \in Messages
      BY DEF LoopInv, Typed
    <3> QED
      BY <1>2, <3>1, BoundsAreNumbers DEF LoopInv, Messages, Numbered
  <2>3. \A t \in T : \A i \in DOMAIN queue : t.op # queue[i].op
    BY <1>4 DEF LoopInv, Numbered
  <2> QED
    BY <1>1, <1>2, <1>3, <1>4, <1>5, <2>1, <2>2, <2>3 DEF Numbered
<1>13. Prompting'
  BY <1>5, <1>6, PromptingKept DEF LoopInv
<1>14. WorkIsOwned'
  <2>1. \A t \in tasks' : t.slot = "mcp" => t.stop \/ t.op = op
    BY <1>1, <1>3, <1>4 DEF LoopInv, WorkIsOwned
  <2>2. \A t \in tasks' : t.slot = "work" => t \in tasks
    BY <1>1, <1>3, <1>4
  <2>3. op # 0
    BY <1>2, BoundsAreNumbers
  <2> QED
    BY <1>5, <1>6, <2>1, <2>2, <2>3 DEF LoopInv, WorkIsOwned
<1> QED
  BY <1>7, <1>9, <1>10, <1>11, <1>12, <1>13, <1>14 DEF LoopInv

LEMMA McpActionKeeps ==
    ASSUME LoopInv, McpAction
    PROVE  LoopInv'
<1>1. /\ UNCHANGED <<queue, stored, granted, idle, handle, responder, turns, aim, ran>>
      /\ at' \in 0..(DrainMax + 1) /\ Redrawn /\ BeginMcp(app) /\ rt.ops < MaxOps
      /\ app \in Apps
  BY MainKeyLeaves DEF McpAction, LoopInv, Typed
<1> QED
  BY <1>1, BeginMcpKeeps

LEMMA OtherKeyKeeps ==
    ASSUME LoopInv, OtherKey
    PROVE  LoopInv'
  BY MainKeyLeaves, StillKeeps DEF OtherKey

(* The answer goes to the approval on screen, whose frame was drawn before *)
(* the key was taken.                                                      *)
LEMMA AnswerKeeps ==
    ASSUME LoopInv, NEW yes \in BOOLEAN, Answer(yes)
    PROVE  LoopInv'
<1> DEFINE a == [app EXCEPT !.view = None]
<1>1. /\ UNCHANGED <<queue, stored, idle, handle, aim, ran>>
      /\ at' \in 0..(DrainMax + 1) /\ Redrawn
      /\ app.view # None /\ app.view \in seen'
  BY KeyLeaves DEF Answer
<1>2. app \in Apps /\ rt \in Runtimes /\ responder \in Asks \cup {None}
  BY DEF LoopInv, Typed
<1>3. /\ a \in Apps /\ a.view = None /\ a.running = app.running /\ a.shown = app.shown
      /\ a.generation = app.generation /\ a.installs = app.installs
      /\ a.busy = app.busy /\ a.composer = app.composer
  BY <1>2 DEF Apps
<1>4. responder # None => app.view = responder
  BY DEF LoopInv, Approving
<1>5. \/ /\ app.view = McpLaunch /\ rt.ops < MaxOps /\ BeginMcp(a)
         /\ UNCHANGED <<responder, turns, granted>>
      \/ /\ app.view = McpLaunch /\ app' = a
         /\ UNCHANGED <<rt, tasks, responder, turns, granted>>
      \/ /\ app' = a /\ responder' = None
         /\ turns' = {IF t.state = "asking" /\ responder = <<t.prompt, t.asks>>
                      THEN [t EXCEPT !.state = "run"] ELSE t : t \in turns}
         /\ granted' = IF yes /\ \E t \in turns : t.state = "asking"
                                                  /\ responder = <<t.prompt, t.asks>>
                       THEN granted \cup {responder} ELSE granted
         /\ UNCHANGED <<rt, tasks>>
  BY DEF Answer, a
<1> HIDE DEF a
<1>6. CASE /\ app.view = McpLaunch /\ rt.ops < MaxOps /\ BeginMcp(a)
           /\ UNCHANGED <<responder, turns, granted>>
  <2>1. responder = None
    BY <1>2, <1>4, <1>6, LaunchIsNoAsk
  <2> QED
    BY <1>1, <1>3, <1>6, <2>1, BeginMcpKeeps
<1>7. CASE /\ app.view = McpLaunch /\ app' = a
           /\ UNCHANGED <<rt, tasks, responder, turns, granted>>
  <2>1. responder = None
    BY <1>2, <1>4, <1>7, LaunchIsNoAsk
  <2>2. Approving' /\ drawn' \in 0..app'.installs
    BY <1>1, <1>3, <1>7, <2>1, ApprovingKept DEF LoopInv
  <2>3. Typed'
    BY <1>1, <1>3, <1>7, <2>2 DEF LoopInv, Typed
  <2>4. Turning'
    BY <1>1, <1>3, <1>7, TurningKept DEF LoopInv
  <2>5. Opening'
    BY <1>1, <1>2, <1>3, <1>7, OpeningKept DEF LoopInv, Runtimes
  <2>6. Numbered' /\ Prompting' /\ WorkIsOwned'
    BY <1>1, <1>3, <1>7 DEF LoopInv, Numbered, Prompting, WorkIsOwned
  <2> QED
    BY <2>2, <2>3, <2>4, <2>5, <2>6 DEF LoopInv
<1>8. CASE /\ app' = a /\ responder' = None
           /\ turns' = {IF t.state = "asking" /\ responder = <<t.prompt, t.asks>>
                        THEN [t EXCEPT !.state = "run"] ELSE t : t \in turns}
           /\ granted' = IF yes /\ \E t \in turns : t.state = "asking"
                                                    /\ responder = <<t.prompt, t.asks>>
                         THEN granted \cup {responder} ELSE granted
           /\ UNCHANGED <<rt, tasks>>
  <2>1. /\ turns' \in SUBSET TurnRecords
        /\ \A t \in turns' : \E u \in turns : /\ t.prompt = u.prompt /\ t.driver = u.driver
                                              /\ t.generation = u.generation
        /\ \A t, u \in turns' : t = u
        /\ turns = {} <=> turns' = {}
    <3> DEFINE told(t) == IF t.state = "asking" /\ responder = <<t.prompt, t.asks>>
                          THEN [t EXCEPT !.state = "run"] ELSE t
    <3>1. turns' = {told(t) : t \in turns}
      BY <1>8
    <3>2. \A t \in turns : /\ told(t) \in TurnRecords /\ told(t).prompt = t.prompt
                           /\ told(t).driver = t.driver /\ told(t).generation = t.generation
      BY DEF LoopInv, Typed, TurnRecords
    <3> HIDE DEF told
    <3>3. \A t, u \in turns : t = u
      BY DEF LoopInv, Turning
    <3> QED
      BY <3>1, <3>2, <3>3
  <2>2. granted' \subseteq granted \cup {responder}
    BY <1>8
  <2>3. granted' # granted => responder # None
    <3> SUFFICES ASSUME granted' # granted PROVE responder # None
      OBVIOUS
    <3>1. PICK t \in turns : responder = <<t.prompt, t.asks>>
      BY <1>8
    <3>2. t.prompt \in Prompts /\ t.asks \in 0..MaxAsks
      BY DEF LoopInv, Typed, TurnRecords
    <3> QED
      BY <3>1, <3>2, NoneIsNothing
  <2>4. Approving' /\ drawn' \in 0..app'.installs /\ granted' \in SUBSET Asks
    <3>1. drawn' \in 0..app.installs /\ seen \subseteq seen'
      BY <1>1, DrawingIsHonest DEF LoopInv
    <3>2. granted' \subseteq seen'
      BY <1>1, <1>4, <2>2, <2>3, <3>1 DEF LoopInv, Approving
    <3>3. granted' \in SUBSET Asks
      BY <1>2, <2>2, <2>3 DEF LoopInv, Typed
    <3> QED
      BY <1>3, <1>8, <3>1, <3>2, <3>3 DEF Approving
  <2>5. Typed'
    BY <1>1, <1>3, <1>8, <2>1, <2>4 DEF LoopInv, Typed
  <2>6. Turning'
    BY <1>1, <1>3, <1>8, <2>1 DEF LoopInv, Turning, Ends
  <2>7. Opening'
    BY <1>1, <1>2, <1>3, <1>8, OpeningKept DEF LoopInv, Runtimes
  <2>8. Numbered' /\ Prompting' /\ WorkIsOwned'
    BY <1>1, <1>3, <1>8 DEF LoopInv, Numbered, Prompting, WorkIsOwned
  <2> QED
    BY <2>4, <2>5, <2>6, <2>7, <2>8 DEF LoopInv
<1> QED
  BY <1>5, <1>6, <1>7, <1>8

-----------------------------------------------------------------------------
(* Messages. *)

(* The message at the head is taken from the channel. *)
Taken == /\ queue # <<>> /\ queue' = Tail(queue)
         /\ UNCHANGED <<stored, granted>> /\ Redrawn /\ at' \in 0..(DrainMax + 1)

LEMMA TakenLeaves ==
    ASSUME Typed, Taken
    PROVE  /\ queue' \in Seq(Messages) /\ Msg \in Messages /\ MessageOK(Msg)
           /\ \A i \in DOMAIN queue' : MessageOK(queue'[i])
           /\ 1 \in DOMAIN queue /\ queue[1] = Msg
           /\ \A i \in DOMAIN queue' : /\ i \in Nat /\ i + 1 \in DOMAIN queue /\ i + 1 # 1
                                       /\ queue'[i] = queue[i + 1]
           /\ \A j \in DOMAIN queue : /\ j \in Nat
                                      /\ j # 1 => /\ j - 1 \in DOMAIN queue'
                                                  /\ queue'[j - 1] = queue[j]
<1>1. queue \in Seq(Messages) /\ queue # <<>> /\ queue' = Tail(queue)
  BY DEF Typed, Taken
<1>2. /\ queue' \in Seq(Messages) /\ Msg \in Messages
      /\ 1 \in DOMAIN queue /\ queue[1] = Msg
      /\ \A i \in DOMAIN queue' :
            i + 1 \in DOMAIN queue /\ i + 1 # 1 /\ queue'[i] = queue[i + 1]
      /\ \A j \in DOMAIN queue : j # 1 => /\ j - 1 \in DOMAIN queue'
                                          /\ queue'[j - 1] = queue[j]
  BY <1>1, TakenFrom DEF Msg
<1>3. /\ \A i \in DOMAIN queue' : i \in Nat
      /\ \A j \in DOMAIN queue : j \in Nat
  BY <1>1, <1>2
<1>4. MessageOK(Msg) /\ \A i \in DOMAIN queue' : MessageOK(queue'[i])
  BY <1>2 DEF Typed
<1> QED
  BY <1>2, <1>3, <1>4

LEMMA TakenTurning ==
    ASSUME Typed, Turning, Taken, ~Ends(Msg), UNCHANGED <<handle, turns, idle>>,
           app'.running = app.running, app'.generation = app.generation,
           app'.shown = app.shown, rt'.reservation = rt.reservation
    PROVE  Turning'
<1>1. \A i \in DOMAIN queue' : Ends(queue'[i]) =>
          /\ handle # None /\ turns = {}
          /\ queue'[i].generation = app.generation /\ queue'[i].arg.session = app.shown
          /\ \A j \in DOMAIN queue' : Ends(queue'[j]) => i = j
  <2> TAKE i \in DOMAIN queue'
  <2>1. i \in Nat /\ i + 1 \in DOMAIN queue /\ queue'[i] = queue[i + 1]
    BY TakenLeaves
  <2>2. \A j \in DOMAIN queue' : j \in Nat /\ j + 1 \in DOMAIN queue /\ queue'[j] = queue[j + 1]
    BY TakenLeaves
  <2> QED
    BY <2>1, <2>2 DEF Turning
<1>2. (\E i \in DOMAIN queue : Ends(queue[i])) => \E i \in DOMAIN queue' : Ends(queue'[i])
  BY TakenLeaves
<1> QED
  BY <1>1, <1>2 DEF Turning, Ends

LEMMA TakenOpening ==
    ASSUME Typed, Opening, Taken, ~(Answers(Msg) /\ Awaited(Msg.op)),
           UNCHANGED <<idle, aim, tasks>>,
           app'.running = app.running, app'.shown = app.shown,
           rt'.reservation = rt.reservation, rt'.ops = rt.ops
    PROVE  Opening'
<1>1. \A i \in DOMAIN queue' : i + 1 \in DOMAIN queue /\ queue'[i] = queue[i + 1]
  BY TakenLeaves
<1>2. ASSUME rt.reservation # None, NEW j \in DOMAIN queue,
             Answers(queue[j]), queue[j].op = rt.reservation.op
      PROVE  \E i \in DOMAIN queue' : Answers(queue'[i]) /\ queue'[i].op = rt.reservation.op
  <2>1. queue[1] = Msg
    BY TakenLeaves
  <2>2. j # 1
    BY <1>2, <2>1 DEF Awaited
  <2>3. j - 1 \in DOMAIN queue' /\ queue'[j - 1] = queue[j]
    BY <2>2, TakenLeaves
  <2> QED
    BY <1>2, <2>3
<1> QED
  BY <1>1, <1>2 DEF Opening, Awaited, Answers

LEMMA TakenNumbered ==
    ASSUME Typed, Numbered, Taken, rt'.ops = rt.ops, tasks' \subseteq tasks
    PROVE  Numbered'
<1>1. \A i \in DOMAIN queue' : i + 1 \in DOMAIN queue /\ queue'[i] = queue[i + 1]
  BY TakenLeaves
<1> QED
  BY <1>1 DEF Numbered

LEMMA OnApprovalKeeps ==
    ASSUME LoopInv, Taken, OnApproval
    PROVE  LoopInv'
<1>1. /\ Msg.kind = "approval" /\ Msg.arg \in Asks
      /\ UNCHANGED <<rt, idle, handle, turns, tasks, aim, ran>>
  BY TakenLeaves DEF OnApproval, MessageOK, LoopInv
<1>2. app \in Apps /\ responder \in Asks \cup {None} /\ app.installs \in Nat
  BY DEF LoopInv, Typed, Apps
<1>3. /\ app' \in Apps /\ app'.composer = app.composer /\ app'.running = app.running
      /\ app'.generation = app.generation /\ app'.shown = app.shown /\ app'.busy = app.busy
      /\ \/ app' = app /\ responder' = responder
         \/ /\ app'.view = Msg.arg /\ app'.installs = app.installs + 1 /\ responder' = Msg.arg
  <2>1. \/ app' = app /\ responder' = responder
        \/ app' = Install(app, Msg.arg) /\ responder' = Msg.arg
    BY ZenonT(20) DEF OnApproval
  <2>2. CASE app' = Install(app, Msg.arg) /\ responder' = Msg.arg
    <3>1. app' = [app EXCEPT !.view = Msg.arg, !.installs = @ + 1]
      BY <2>2 DEF Install
    <3>2. Msg.arg \in {None, McpLaunch} \cup Asks /\ app.installs + 1 \in Nat
      BY <1>1, <1>2
    <3> QED
      BY <1>2, <2>2, <3>1, <3>2 DEF Apps
  <2> QED
    BY <1>2, <2>1, <2>2
<1>4. /\ Approving' /\ drawn' \in 0..app'.installs
  <2>1. CASE app' = app /\ responder' = responder
    BY <2>1, ApprovingKept DEF LoopInv, Taken
  <2>2. CASE app'.view = Msg.arg /\ app'.installs = app.installs + 1 /\ responder' = Msg.arg
    <3>1. drawn' \in 0..app.installs /\ seen \subseteq seen'
      BY DrawingIsHonest DEF LoopInv, Taken
    <3> QED
      BY <1>2, <2>2, <3>1 DEF LoopInv, Approving, Taken
  <2> QED
    BY <1>3, <2>1, <2>2
<1>5. Typed'
  BY <1>1, <1>2, <1>3, <1>4, TakenLeaves DEF LoopInv, Typed, Taken
<1>6. Turning'
  BY <1>1, <1>3, TakenTurning DEF LoopInv, Ends
<1>7. Opening'
  BY <1>1, <1>3, TakenOpening DEF LoopInv, Answers
<1>8. Numbered'
  BY <1>1, TakenNumbered DEF LoopInv
<1>9. Prompting' /\ WorkIsOwned'
  BY <1>1, <1>3 DEF LoopInv, Prompting, WorkIsOwned
<1> QED
  BY <1>4, <1>5, <1>6, <1>7, <1>8, <1>9 DEF LoopInv

(* The message that ends the turn carries the driver of the session on     *)
(* screen, and is the only one.                                            *)
LEMMA OnFinishedKeeps ==
    ASSUME LoopInv, Taken, OnFinished
    PROVE  LoopInv'
<1>1. /\ Msg.kind = "finished" /\ Msg.arg \in Drivers /\ Msg.arg # None
      /\ UNCHANGED <<rt, responder, turns, tasks, aim, ran>>
  BY TakenLeaves, NoneIsNothing DEF OnFinished, MessageOK, LoopInv
<1>2. /\ handle # None /\ turns = {} /\ Msg.generation = app.generation
      /\ Msg.arg.session = app.shown
      /\ \A j \in DOMAIN queue : Ends(queue[j]) => j = 1
      /\ rt.reservation = None
  <2>1. 1 \in DOMAIN queue /\ queue[1] = Msg /\ Ends(queue[1])
    BY <1>1, TakenLeaves DEF Ends, LoopInv
  <2> QED
    BY <2>1 DEF LoopInv, Turning
<1>3. app' = [app EXCEPT !.running = FALSE] /\ handle' = None /\ idle' = Msg.arg
  BY <1>2 DEF OnFinished
<1>4. /\ app' \in Apps /\ app'.composer = app.composer /\ ~app'.running
      /\ app'.generation = app.generation /\ app'.shown = app.shown /\ app'.busy = app.busy
      /\ app'.view = app.view /\ app'.installs = app.installs
  BY <1>3 DEF LoopInv, Typed, Apps
<1>5. Approving' /\ drawn' \in 0..app'.installs
  BY <1>1, <1>4, ApprovingKept DEF LoopInv, Taken
<1>6. Typed'
  BY <1>1, <1>3, <1>4, <1>5, TakenLeaves DEF LoopInv, Typed, Taken
<1>7. \A i \in DOMAIN queue' : ~Ends(queue'[i])
  BY <1>2, TakenLeaves DEF LoopInv
<1>8. Turning'
  BY <1>1, <1>2, <1>3, <1>4, <1>7 DEF Turning, Ends
<1>9. Opening'
  BY <1>1, <1>2, NothingAwaited
<1>10. Numbered'
  BY <1>1, TakenNumbered DEF LoopInv
<1>11. Prompting' /\ WorkIsOwned'
  BY <1>1, <1>4 DEF LoopInv, Prompting, WorkIsOwned
<1> QED
  BY <1>5, <1>6, <1>8, <1>9, <1>10, <1>11 DEF LoopInv

LEMMA ReservedIs ==
    ASSUME Typed, rt.reservation # None
    PROVE  /\ rt.reservation \in Reservations
           /\ rt.reservation.prompt \in Prompts \cup {None}
           /\ rt.reservation.previous \in Drivers \cup {None}
  BY DEF Typed, Runtimes, Reservations

(* What every answer to the change waited for does to the reservation, and *)
(* what a composer given a waiting prompt back holds.                      *)
LEMMA ReleasedIs ==
    ASSUME LoopInv, rt.reservation # None, rt' = [rt EXCEPT !.reservation = None]
    PROVE  /\ rt' \in Runtimes /\ rt'.ops = rt.ops /\ rt'.reservation = None
           /\ rt'.work = rt.work /\ rt'.mcp = rt.mcp
           /\ Released(app) \in Apps
           /\ Released(app).running = app.running
           /\ Released(app).generation = app.generation
           /\ Released(app).shown = app.shown /\ Released(app).view = app.view
           /\ Released(app).installs = app.installs
           /\ Released(app).composer = app.composer
           /\ Released(app).busy = (IF rt.mcp # 0 THEN {"mcp"} ELSE {})
                                   \cup (IF rt.work # None THEN {rt.work.kind} ELSE {})
<1>1. app \in Apps /\ rt \in Runtimes
  BY DEF LoopInv, Typed
<1>2. /\ rt' \in Runtimes /\ rt'.ops = rt.ops /\ rt'.reservation = None
      /\ rt'.work = rt.work /\ rt'.mcp = rt.mcp
  BY <1>1 DEF Runtimes
<1>3. /\ Released(app) \in Apps
      /\ Released(app).running = app.running
      /\ Released(app).generation = app.generation
      /\ Released(app).shown = app.shown /\ Released(app).view = app.view
      /\ Released(app).installs = app.installs
      /\ Released(app).composer = app.composer
      /\ Released(app).busy = app.busy \ {"open"}
  BY <1>1 DEF Released, Apps
<1>4. app.busy \ {"open"} = (IF rt.mcp # 0 THEN {"mcp"} ELSE {})
                            \cup (IF rt.work # None THEN {rt.work.kind} ELSE {})
  BY <1>1 DEF LoopInv, WorkIsOwned, Runtimes, Works
<1> QED
  BY <1>2, <1>3, <1>4

(* A session change that ends with the session that was open keeps the     *)
(* invariant, whatever the answer was.                                     *)
LEMMA PutBackKeeps ==
    ASSUME LoopInv, Taken, rt.reservation # None, ~Ends(Msg),
           rt' = [rt EXCEPT !.reservation = None],
           tasks' = WithoutSlot(tasks, "open"), idle' = rt.reservation.previous,
           UNCHANGED <<handle, turns, ran, responder>>, aim' \in {aim, None},
           app' \in Apps, ~app'.running, app'.generation = app.generation,
           app'.shown = app.shown, app'.view = app.view, app'.installs = app.installs,
           app'.composer \in {app.composer, rt.reservation.prompt},
           app'.busy = Released(app).busy
    PROVE  LoopInv'
<1>1. /\ rt' \in Runtimes /\ rt'.ops = rt.ops /\ rt'.reservation = None
      /\ rt'.work = rt.work /\ rt'.mcp = rt.mcp
      /\ app'.busy = (IF rt.mcp # 0 THEN {"mcp"} ELSE {})
                     \cup (IF rt.work # None THEN {rt.work.kind} ELSE {})
  BY ReleasedIs
<1>2. /\ rt.reservation.prompt \in Prompts \cup {None}
      /\ rt.reservation.previous \in Drivers \cup {None}
  BY ReservedIs DEF LoopInv
<1>3. /\ tasks' \in SUBSET TaskRecords /\ \A t \in tasks' : TaskOK(t) /\ t \in tasks
      /\ tasks' \subseteq tasks
  BY DEF WithoutSlot, LoopInv, Typed
<1>4. Approving' /\ drawn' \in 0..app'.installs
  BY ApprovingKept DEF LoopInv, Taken
<1>5. Typed'
  BY <1>1, <1>2, <1>3, <1>4, TakenLeaves DEF LoopInv, Typed, Taken
<1>6. handle = None /\ turns = {} /\ \A i \in DOMAIN queue : ~Ends(queue[i])
  BY NoneIsNothing DEF LoopInv, Typed, Turning, TurnRecords
<1>7. \A i \in DOMAIN queue' : ~Ends(queue'[i])
  BY <1>6, TakenLeaves DEF LoopInv
<1>8. /\ rt.reservation.previous # None => rt.reservation.previous.session = app.shown
      /\ app.shown = NoSession \/ rt.reservation.previous # None
  BY DEF LoopInv, Opening
<1>9. Turning'
  BY <1>1, <1>6, <1>7, <1>8 DEF Turning, Ends
<1>10. Opening'
  BY <1>1, NothingAwaited
<1>11. Numbered'
  BY <1>1, <1>3, TakenNumbered DEF LoopInv
<1>12. Prompting'
  BY <1>1 DEF LoopInv, Prompting, PromptRunsOnce
<1>13. WorkIsOwned'
  BY <1>1, <1>3 DEF LoopInv, WorkIsOwned
<1> QED
  BY <1>4, <1>5, <1>9, <1>10, <1>11, <1>12, <1>13 DEF LoopInv

(* A message nobody waits for changes nothing but the channel. *)
LEMMA DroppedKeeps ==
    ASSUME LoopInv, Taken, ~Ends(Msg), ~(Answers(Msg) /\ Awaited(Msg.op)),
           UNCHANGED <<app, rt, idle, handle, responder, turns, tasks, aim, ran>>
    PROVE  LoopInv'
<1>1. Approving' /\ drawn' \in 0..app'.installs
  BY ApprovingKept DEF LoopInv, Taken
<1>2. Typed'
  BY <1>1, TakenLeaves DEF LoopInv, Typed, Taken
<1>3. Turning' /\ Opening' /\ Numbered'
  BY TakenTurning, TakenOpening, TakenNumbered DEF LoopInv
<1>4. Prompting' /\ WorkIsOwned'
  BY DEF LoopInv, Prompting, WorkIsOwned
<1> QED
  BY <1>1, <1>2, <1>3, <1>4 DEF LoopInv

(* What the answer waited for says fits the reservation it answers. *)
LEMMA AnswerFits ==
    ASSUME LoopInv, Taken, Awaited(Msg.op)
    PROVE  /\ rt.reservation # None
           /\ Msg.kind = "switch" =>
                /\ rt.reservation.prompt = None /\ rt.reservation.previous # None
                /\ ~app.running
           /\ Msg.kind = "opened" /\ Msg.arg # None =>
                \/ Msg.arg.session = aim
                \/ aim = Fresh /\ Msg.arg.session \notin Stored
  BY TakenLeaves DEF LoopInv, Opening, Awaited

LEMMA UnwantedKeeps ==
    ASSUME LoopInv, Taken, Answers(Msg), Unwanted, UNCHANGED responder
    PROVE  LoopInv'
<1>1. ~Ends(Msg) /\ Msg.kind \in {"opened", "switch"} /\ UNCHANGED <<handle, turns, aim, ran>>
  BY DEF Unwanted, Answers, Ends
<1>2. CASE ~Awaited(Msg.op)
  <2>1. UNCHANGED <<app, rt, idle, tasks>>
    BY <1>2 DEF Unwanted
  <2> QED
    BY <1>1, <1>2, <2>1, DroppedKeeps
<1>3. CASE Awaited(Msg.op)
  <2>1. /\ app' = [Released(app) EXCEPT
                     !.running = IF Msg.kind = "opened" THEN FALSE ELSE @]
        /\ rt' = [rt EXCEPT !.reservation = None]
        /\ idle' = rt.reservation.previous
        /\ tasks' = WithoutSlot(tasks, "open")
    BY <1>3 DEF Unwanted
  <2>2. rt.reservation # None /\ (Msg.kind = "switch" => ~app.running)
    BY <1>3, AnswerFits
  <2> DEFINE r == Released(app)
  <2>3. /\ r \in Apps /\ r.running = app.running
        /\ r.generation = app.generation /\ r.shown = app.shown /\ r.view = app.view
        /\ r.installs = app.installs /\ r.composer = app.composer
    BY <2>1, <2>2, ReleasedIs
  <2>4. app' = [r EXCEPT !.running = IF Msg.kind = "opened" THEN FALSE ELSE @]
    BY <2>1
  <2> HIDE DEF r
  <2>5. /\ app' \in Apps /\ ~app'.running
        /\ app'.generation = app.generation /\ app'.shown = app.shown
        /\ app'.view = app.view /\ app'.installs = app.installs
        /\ app'.composer = app.composer /\ app'.busy = r.busy
    BY <1>1, <2>2, <2>3, <2>4 DEF Apps
  <2> QED
    BY <1>1, <2>1, <2>2, <2>5, PutBackKeeps DEF r
<1> QED
  BY <1>2, <1>3

LEMMA OpenFailedKeeps ==
    ASSUME LoopInv, Taken, Answers(Msg), OpenFailed, UNCHANGED responder
    PROVE  LoopInv'
<1> DEFINE r == Released(app)
           q == rt.reservation.prompt
<1>1. /\ ~Ends(Msg) /\ Awaited(Msg.op)
      /\ rt' = [rt EXCEPT !.reservation = None]
      /\ tasks' = WithoutSlot(tasks, "open") /\ idle' = rt.reservation.previous
      /\ aim' = None /\ UNCHANGED <<handle, turns, ran>>
      /\ app' = IF q = None THEN [r EXCEPT !.running = FALSE]
                ELSE [r EXCEPT !.running = FALSE, !.composer = q]
  BY DEF OpenFailed, Answers, Ends, Restore
<1>2. rt.reservation # None
  BY <1>1, AnswerFits
<1>3. /\ r \in Apps
      /\ r.generation = app.generation /\ r.shown = app.shown /\ r.view = app.view
      /\ r.installs = app.installs /\ r.composer = app.composer
      /\ q \in Prompts \cup {None}
  BY <1>1, <1>2, ReleasedIs, ReservedIs DEF LoopInv
<1> HIDE DEF r, q
<1>4. /\ app' \in Apps /\ ~app'.running
      /\ app'.generation = app.generation /\ app'.shown = app.shown
      /\ app'.view = app.view /\ app'.installs = app.installs
      /\ app'.composer \in {app.composer, q} /\ app'.busy = r.busy
  BY <1>1, <1>3 DEF Apps
<1> QED
  BY <1>1, <1>2, <1>4, PutBackKeeps DEF r, q

LEMMA OnSwitchReadyKeeps ==
    ASSUME LoopInv, Taken, OnSwitchReady
    PROVE  LoopInv'
<1>1. Msg.kind = "switch" /\ Answers(Msg) /\ ~Ends(Msg) /\ UNCHANGED responder
  BY DEF OnSwitchReady, Answers, Ends
<1>2. CASE Unwanted
  BY <1>1, <1>2, UnwantedKeeps
<1>3. ASSUME Awaited(Msg.op), idle' = rt.reservation.previous,
             rt' = [rt EXCEPT !.reservation = None], tasks' = WithoutSlot(tasks, "open"),
             \/ app' = [Released(app) EXCEPT !.mode = rt.reservation.previous.mode]
             \/ app' = [Released(app) EXCEPT !.running = FALSE]
             \/ app' = Released(app),
             UNCHANGED <<handle, turns, aim, ran>>
      PROVE  LoopInv'
  <2> DEFINE r == Released(app)
  <2>1. rt.reservation # None /\ rt.reservation.previous # None /\ ~app.running
    BY <1>1, <1>3, AnswerFits
  <2>2. rt.reservation.previous.mode \in Modes
    BY <2>1, ReservedIs DEF LoopInv, Drivers
  <2>3. /\ r \in Apps /\ r.running = app.running
        /\ r.generation = app.generation /\ r.shown = app.shown /\ r.view = app.view
        /\ r.installs = app.installs /\ r.composer = app.composer
    BY <1>3, <2>1, ReleasedIs
  <2>4. \/ app' = [r EXCEPT !.mode = rt.reservation.previous.mode]
        \/ app' = [r EXCEPT !.running = FALSE]
        \/ app' = r
    BY <1>3
  <2> HIDE DEF r
  <2>5. /\ app' \in Apps /\ ~app'.running
        /\ app'.generation = app.generation /\ app'.shown = app.shown
        /\ app'.view = app.view /\ app'.installs = app.installs
        /\ app'.composer = app.composer /\ app'.busy = r.busy
    BY <2>1, <2>2, <2>3, <2>4 DEF Apps
  <2> QED
    BY <1>1, <1>3, <2>1, <2>5, PutBackKeeps DEF r
<1> QED
  BY <1>2, <1>3 DEF OnSwitchReady

(* The driver adopted is the only one: the change it answers held the last.*)
LEMMA AdoptKeeps ==
    ASSUME LoopInv, Taken, Msg.kind = "opened", Adopt, UNCHANGED responder
    PROVE  LoopInv'
<1> DEFINE d == Msg.arg
           q == rt.reservation.prompt
           r == [rt EXCEPT !.reservation = None]
           s == Released(app)
           a == [s EXCEPT !.generation = @ + 1, !.shown = d.session,
                          !.mode = d.mode, !.running = (q # None)]
<1>1. /\ Awaited(Msg.op) /\ d # None
      /\ tasks' = WithoutSlot(tasks, "open") /\ aim' = None
      /\ IF q # None THEN StartTurn(a, r, d, q)
         ELSE app' = a /\ rt' = r /\ idle' = d /\ UNCHANGED <<handle, turns, ran>>
  BY DEF Adopt
<1>2. /\ rt.reservation # None /\ ~Ends(Msg)
      /\ d \in Drivers /\ d.session \in Sessions /\ d.mode \in Modes
      /\ q \in Prompts \cup {None}
      /\ app' = a /\ rt' = r
  BY <1>1, AnswerFits, TakenLeaves, ReservedIs DEF LoopInv, MessageOK, Drivers, Ends, StartTurn
<1>3. /\ r \in Runtimes /\ r.ops = rt.ops /\ r.reservation = None
      /\ r.work = rt.work /\ r.mcp = rt.mcp
      /\ s \in Apps /\ s.view = app.view /\ s.installs = app.installs
      /\ s.composer = app.composer
      /\ s.busy = (IF rt.mcp # 0 THEN {"mcp"} ELSE {})
                  \cup (IF rt.work # None THEN {rt.work.kind} ELSE {})
  BY <1>2, ReleasedIs
<1> HIDE DEF s
<1>4. /\ a \in Apps /\ a.running = (q # None) /\ a.shown = d.session
      /\ a.view = app.view /\ a.installs = app.installs /\ a.composer = app.composer
      /\ a.busy = s.busy
  <2>1. s.generation + 1 \in Nat /\ (q # None) \in BOOLEAN
    BY <1>3 DEF Apps
  <2> HIDE DEF q, d
  <2> QED
    BY <1>2, <1>3, <2>1 DEF Apps
<1> HIDE DEF a, r, d, q
<1>5. handle = None /\ turns = {} /\ \A i \in DOMAIN queue : ~Ends(queue[i])
  BY <1>2, NoneIsNothing DEF LoopInv, Typed, Turning, TurnRecords
<1>6. /\ queue' \in Seq(Messages) /\ \A i \in DOMAIN queue' : MessageOK(queue'[i])
      /\ \A i \in DOMAIN queue' : ~Ends(queue'[i])
      /\ \A i \in DOMAIN queue' : \E j \in DOMAIN queue : queue'[i] = queue[j]
  BY <1>5, TakenLeaves DEF LoopInv
<1>7. tasks' \in SUBSET TaskRecords /\ tasks' \subseteq tasks
  BY <1>1 DEF WithoutSlot, LoopInv, Typed
<1>8. Approving' /\ drawn' \in 0..app'.installs
  BY <1>2, <1>4, ApprovingKept DEF LoopInv, Taken
<1>9. /\ Turning' /\ turns' \in SUBSET TurnRecords /\ ran' \in [Prompts -> Nat]
      /\ idle' \in Drivers \cup {None} /\ handle' \in Prompts \cup {None}
      /\ q # None => ran'[q] = ran[q] + 1
      /\ \A p \in Prompts : p # q => ran'[p] = ran[p]
  <2>1. CASE q # None
    <3>1. StartTurn(a, r, d, q) /\ q \in Prompts
      BY <1>1, <1>2, <2>1
    <3>2. idle' = None /\ handle' = q
      BY <3>1 DEF StartTurn
    <3>3. a.running
      BY <1>4, <2>1
    <3> QED
      BY <1>2, <1>3, <1>4, <1>5, <1>6, <3>1, <3>2, <3>3, StartIsAlone DEF LoopInv
  <2>2. CASE q = None
    <3>1. idle' = d /\ UNCHANGED <<handle, turns, ran>>
      BY <1>1, <2>2
    <3>2. Turning'
      BY <1>2, <1>3, <1>4, <1>5, <1>6, <2>2, <3>1, NoneIsNothing DEF Turning, Ends
    <3> QED
      BY <1>2, <2>2, <3>1, <3>2, NoneIsNothing DEF LoopInv, Typed
  <2> QED
    BY <2>1, <2>2
<1>10. Typed'
  BY <1>1, <1>2, <1>3, <1>4, <1>6, <1>7, <1>8, <1>9 DEF LoopInv, Typed, Taken
<1>11. Opening'
  BY <1>2, <1>3, NothingAwaited
<1>12. Numbered'
  BY <1>2, <1>3, <1>7, TakenNumbered DEF LoopInv
<1>13. Prompting'
  <2>1. /\ q # None => ran[q] = 0 /\ app.composer # q
        /\ app.composer # None => ran[app.composer] = 0
        /\ \A p \in Prompts : ran[p] <= 1
        /\ app.composer \in Prompts \cup {None}
    BY <1>2 DEF q, LoopInv, Prompting, PromptRunsOnce, Typed, Apps
  <2>2. \A p \in Prompts : ran'[p] <= 1
    <3> TAKE p \in Prompts
    <3>1. CASE p = q
      BY <1>2, <1>9, <2>1, <3>1, NoneIsNothing
    <3>2. CASE p # q
      BY <1>9, <2>1, <3>2
    <3> QED
      BY <3>1, <3>2
  <2>3. app'.composer = app.composer /\ rt'.reservation = None
    BY <1>2, <1>3, <1>4
  <2>4. app.composer # None => ran'[app.composer] = 0
    BY <1>2, <1>9, <2>1
  <2> QED
    BY <2>2, <2>3, <2>4 DEF Prompting
<1>14. WorkIsOwned'
  BY <1>2, <1>3, <1>4, <1>7 DEF LoopInv, WorkIsOwned
<1> QED
  BY <1>8, <1>9, <1>10, <1>11, <1>12, <1>13, <1>14 DEF LoopInv

LEMMA OnOpenedKeeps ==
    ASSUME LoopInv, Taken, OnOpened
    PROVE  LoopInv'
<1>1. Msg.kind = "opened" /\ Answers(Msg) /\ UNCHANGED responder
  BY DEF OnOpened, Answers
<1> QED
  BY <1>1, UnwantedKeeps, AdoptKeeps, OpenFailedKeeps DEF OnOpened

(* Only the request that owns the slot gives it back. *)
LEMMA OnWorkKeeps ==
    ASSUME LoopInv, Taken, OnWork
    PROVE  LoopInv'
<1> DEFINE a == [app EXCEPT !.busy = @ \ {Msg.kind}]
<1>1. /\ Msg.kind \in {"list", "definition"} /\ ~Ends(Msg) /\ ~Answers(Msg)
      /\ UNCHANGED <<idle, handle, responder, turns, tasks, aim, ran>>
  BY DEF OnWork, Ends, Answers
<1>2. CASE ~OwnsSlot(Msg.kind, Msg.op)
  <2>1. UNCHANGED <<rt, app>>
    BY <1>2 DEF OnWork
  <2> QED
    BY <1>1, <2>1, DroppedKeeps
<1>3. CASE OwnsSlot(Msg.kind, Msg.op)
  <2>1. /\ rt' = [rt EXCEPT !.work = None]
        /\ \/ app' = a
           \/ app' = Install(a, McpLaunch) /\ Editable(a)
    BY <1>3 DEF OnWork
  <2>2. app \in Apps /\ rt \in Runtimes
    BY DEF LoopInv, Typed
  <2>3. /\ rt' \in Runtimes /\ rt'.ops = rt.ops /\ rt'.reservation = rt.reservation
        /\ rt'.work = None /\ rt'.mcp = rt.mcp
    BY <2>1, <2>2 DEF Runtimes
  <2>4. rt.work = [kind |-> Msg.kind, op |-> Msg.op]
    BY <1>3 DEF OwnsSlot
  <2>5. rt.work \in Works /\ rt.work # None /\ rt.work.kind = Msg.kind /\ rt.work.op = Msg.op
    <3>1. rt.work.kind = Msg.kind /\ rt.work.op = Msg.op
      BY <2>4
    <3>2. Msg.op \in 1..MaxOps
      BY <1>1, TakenLeaves, BoundsAreNumbers DEF LoopInv, Messages, MessageOK
    <3>3. [kind |-> Msg.kind, op |-> Msg.op] # None
      BY <1>1, <3>2, NoneIsNothing DEF Works
    <3> QED
      BY <2>2, <2>4, <3>1, <3>3 DEF Runtimes
  <2>6. /\ a \in Apps /\ a.running = app.running /\ a.generation = app.generation
        /\ a.shown = app.shown /\ a.view = app.view /\ a.installs = app.installs
        /\ a.composer = app.composer /\ a.busy = app.busy \ {Msg.kind}
    BY <2>2 DEF Apps
  <2> HIDE DEF a
  <2>7. /\ app' \in Apps /\ app'.running = app.running /\ app'.generation = app.generation
        /\ app'.shown = app.shown /\ app'.composer = app.composer
        /\ app'.busy = app.busy \ {Msg.kind}
        /\ \/ app'.view = app.view /\ app'.installs = app.installs
           \/ app.view = None /\ app'.view = McpLaunch /\ app'.installs = app.installs + 1
    <3>1. CASE app' = a
      BY <2>6, <3>1
    <3>2. CASE app' = Install(a, McpLaunch) /\ Editable(a)
      <4>1. app' = [a EXCEPT !.view = McpLaunch, !.installs = @ + 1] /\ app.view = None
        BY <2>6, <3>2 DEF Install, Editable
      <4>2. a.installs \in Nat /\ a.installs + 1 \in Nat
        BY <2>6 DEF Apps
      <4> QED
        BY <2>6, <4>1, <4>2 DEF Apps
    <3> QED
      BY <2>1, <3>1, <3>2
  <2>8. Approving' /\ drawn' \in 0..app'.installs
    <3>1. CASE app'.view = app.view /\ app'.installs = app.installs
      BY <1>1, <3>1, ApprovingKept DEF LoopInv, Taken
    <3>2. CASE app.view = None /\ app'.view = McpLaunch /\ app'.installs = app.installs + 1
      <4>1. drawn' \in 0..app.installs /\ seen \subseteq seen' /\ app.installs \in Nat
        BY <2>2, DrawingIsHonest DEF LoopInv, Taken, Apps
      <4> QED
        BY <1>1, <3>2, <4>1 DEF LoopInv, Approving, Taken
    <3> QED
      BY <2>7, <3>1, <3>2
  <2>9. Typed'
    BY <1>1, <2>3, <2>7, <2>8, TakenLeaves DEF LoopInv, Typed, Taken
  <2>10. Turning' /\ Opening' /\ Numbered'
    BY <1>1, <2>3, <2>7, TakenTurning, TakenOpening, TakenNumbered DEF LoopInv
  <2>11. Prompting'
    BY <1>1, <2>3, <2>7 DEF LoopInv, Prompting
  <2>12. WorkIsOwned'
    <3>1. \A t \in tasks : t.slot # "work"
      <4> SUFFICES ASSUME NEW t \in tasks, t.slot = "work" PROVE FALSE
        OBVIOUS
      <4>1. rt.work = [kind |-> t.kind, op |-> t.op]
        BY DEF LoopInv, WorkIsOwned
      <4>2. rt.work.op = t.op
        BY <4>1
      <4>3. 1 \in DOMAIN queue /\ queue[1] = Msg
        BY TakenLeaves DEF LoopInv
      <4> QED
        BY <2>5, <4>2, <4>3 DEF LoopInv, Numbered
    <3>2. app'.busy = (IF rt.reservation # None THEN {"open"} ELSE {})
                      \cup (IF rt.mcp # 0 THEN {"mcp"} ELSE {})
      BY <1>1, <2>5, <2>7 DEF LoopInv, WorkIsOwned
    <3> QED
      BY <1>1, <2>3, <3>1, <3>2 DEF LoopInv, WorkIsOwned
  <2> QED
    BY <2>8, <2>9, <2>10, <2>11, <2>12 DEF LoopInv
<1> QED
  BY <1>2, <1>3

LEMMA OnMcpOutcomeKeeps ==
    ASSUME LoopInv, Taken, OnMcpOutcome
    PROVE  LoopInv'
<1>1. /\ Msg.kind = "mcp" /\ ~Ends(Msg) /\ ~Answers(Msg)
      /\ UNCHANGED <<idle, handle, responder, turns, tasks, aim, ran>>
  BY DEF OnMcpOutcome, Ends, Answers
<1>2. CASE rt.mcp # Msg.op
  BY <1>1, <1>2, DroppedKeeps DEF OnMcpOutcome
<1>3. CASE rt.mcp = Msg.op
  <2>1. rt' = [rt EXCEPT !.mcp = 0] /\ app' = [app EXCEPT !.busy = @ \ {"mcp"}]
    BY <1>3 DEF OnMcpOutcome
  <2>2. app \in Apps /\ rt \in Runtimes /\ 0 \in 0..MaxOps
    BY BoundsAreNumbers DEF LoopInv, Typed
  <2>3. /\ rt' \in Runtimes /\ rt'.ops = rt.ops /\ rt'.reservation = rt.reservation
        /\ rt'.work = rt.work /\ rt'.mcp = 0
    BY <2>1, <2>2 DEF Runtimes
  <2>4. /\ app' \in Apps /\ app'.running = app.running /\ app'.generation = app.generation
        /\ app'.shown = app.shown /\ app'.view = app.view /\ app'.installs = app.installs
        /\ app'.composer = app.composer /\ app'.busy = app.busy \ {"mcp"}
    BY <2>1, <2>2 DEF Apps
  <2>5. Approving' /\ drawn' \in 0..app'.installs
    BY <1>1, <2>4, ApprovingKept DEF LoopInv, Taken
  <2>6. Typed'
    BY <1>1, <2>3, <2>4, <2>5, TakenLeaves DEF LoopInv, Typed, Taken
  <2>7. Turning' /\ Opening' /\ Numbered'
    BY <1>1, <2>3, <2>4, TakenTurning, TakenOpening, TakenNumbered DEF LoopInv
  <2>8. Prompting'
    BY <1>1, <2>3, <2>4 DEF LoopInv, Prompting
  <2>9. WorkIsOwned'
    <3>1. \A t \in tasks : t.slot = "mcp" => t.stop
      <4>1. 1 \in DOMAIN queue /\ queue[1] = Msg
        BY TakenLeaves DEF LoopInv
      <4> QED
        BY <1>3, <4>1 DEF LoopInv, WorkIsOwned, Numbered
    <3>2. app'.busy = (IF rt.reservation # None THEN {"open"} ELSE {})
                      \cup (IF rt.work # None THEN {rt.work.kind} ELSE {})
      BY <2>2, <2>4 DEF LoopInv, WorkIsOwned, Runtimes, Works
    <3> QED
      BY <1>1, <2>3, <3>1, <3>2 DEF LoopInv, WorkIsOwned
  <2> QED
    BY <2>5, <2>6, <2>7, <2>8, <2>9 DEF LoopInv
<1> QED
  BY <1>2, <1>3

-----------------------------------------------------------------------------
(* Turns and background tasks. *)

LEMMA SentLeaves ==
    ASSUME Typed, NEW m \in Messages, MessageOK(m), Send(m)
    PROVE  /\ queue' \in Seq(Messages) /\ \A i \in DOMAIN queue' : MessageOK(queue'[i])
           /\ Len(queue) + 1 \in DOMAIN queue' /\ queue'[Len(queue) + 1] = m
           /\ \A i \in DOMAIN queue : i \in DOMAIN queue' /\ queue'[i] = queue[i]
           /\ \A i \in DOMAIN queue' : \/ i \in DOMAIN queue
                                       \/ i = Len(queue) + 1
<1>1. queue \in Seq(Messages) /\ queue' = Append(queue, m)
  BY DEF Typed, Send
<1> DEFINE n == Len(queue) + 1
<1>2. /\ queue' \in Seq(Messages)
      /\ n \in DOMAIN queue' /\ queue'[n] = m
      /\ \A i \in DOMAIN queue : i \in DOMAIN queue' /\ queue'[i] = queue[i]
      /\ \A i \in DOMAIN queue' : \/ i \in DOMAIN queue
                                  \/ i = n
  BY <1>1, AddedTo
<1> HIDE DEF n
<1>3. \A i \in DOMAIN queue' : MessageOK(queue'[i])
  BY <1>2 DEF Typed
<1> QED
  BY <1>2, <1>3 DEF n

LEMMA SilentApproving ==
    ASSUME LoopInv, UNCHANGED <<app, responder, drawn, granted, seen>>
    PROVE  Approving'
  BY DEF LoopInv, Approving

(* The one turn goes on, asking or not. *)
LEMMA TurnGoesOn ==
    ASSUME LoopInv, UNCHANGED loopVars, UNCHANGED <<tasks, stored, history>>,
           NEW t \in turns, NEW new \in TurnRecords, Update(t, new),
           new.prompt = t.prompt, new.driver = t.driver, new.generation = t.generation,
           \/ queue' = queue
           \/ \E m \in Messages : m.kind = "approval" /\ m.op = 0 /\ m.arg \in Asks /\ Send(m)
    PROVE  LoopInv'
<1>1. /\ UNCHANGED <<app, rt, idle, handle, responder, drawn, at>>
      /\ UNCHANGED <<aim, ran, granted, seen>>
  BY DEF loopVars, history
<1>2. turns' = {new} /\ turns = {t}
  BY DEF Update, LoopInv, Turning
<1>3. /\ queue' \in Seq(Messages) /\ \A i \in DOMAIN queue' : MessageOK(queue'[i])
      /\ \A i \in DOMAIN queue : i \in DOMAIN queue' /\ queue'[i] = queue[i]
      /\ \A i \in DOMAIN queue' :
            \/ i \in DOMAIN queue
            \/ queue'[i].kind = "approval" /\ queue'[i].op = 0
  <2>1. CASE queue' = queue
    BY <2>1 DEF LoopInv, Typed
  <2>2. ASSUME NEW m \in Messages, m.kind = "approval", m.op = 0, m.arg \in Asks, Send(m)
        PROVE  /\ queue' \in Seq(Messages) /\ \A i \in DOMAIN queue' : MessageOK(queue'[i])
               /\ \A i \in DOMAIN queue : i \in DOMAIN queue' /\ queue'[i] = queue[i]
               /\ \A i \in DOMAIN queue' :
                     \/ i \in DOMAIN queue
                     \/ queue'[i].kind = "approval" /\ queue'[i].op = 0
    <3>1. MessageOK(m)
      BY <2>2 DEF MessageOK
    <3> QED
      BY <2>2, <3>1, SentLeaves DEF LoopInv
  <2> QED
    BY <2>1, <2>2
<1>4. Typed'
  BY <1>1, <1>2, <1>3 DEF LoopInv, Typed
<1>5. \A i \in DOMAIN queue : ~Ends(queue[i])
  BY <1>2 DEF LoopInv, Turning
<1>6. \A i \in DOMAIN queue' : ~Ends(queue'[i])
  BY <1>3, <1>5 DEF Ends
<1>7. Turning'
  BY <1>1, <1>2, <1>6 DEF LoopInv, Turning, Ends
<1>8. Opening'
  <2>1. rt.reservation = None
    BY <1>2, NoneIsNothing DEF LoopInv, Turning, Typed, TurnRecords
  <2> QED
    BY <1>1, <2>1, NothingAwaited
<1>9. Numbered'
  <2>1. \A i \in DOMAIN queue' : queue'[i].op <= rt.ops /\ \A u \in tasks : u.op # queue'[i].op
    <3> TAKE i \in DOMAIN queue'
    <3>1. CASE i \in DOMAIN queue
      BY <1>3, <3>1 DEF LoopInv, Numbered
    <3>2. CASE queue'[i].op = 0
      BY <3>2, BoundsAreNumbers DEF LoopInv, Typed, Runtimes, TaskRecords
    <3> QED
      BY <1>3, <3>1, <3>2
  <2> QED
    BY <1>1, <2>1 DEF LoopInv, Numbered
<1>10. Prompting' /\ WorkIsOwned' /\ Approving'
  BY <1>1, SilentApproving DEF LoopInv, Prompting, WorkIsOwned
<1> QED
  BY <1>4, <1>7, <1>8, <1>9, <1>10 DEF LoopInv

LEMMA BeginTurnKeeps ==
    ASSUME LoopInv, UNCHANGED loopVars, NEW t \in turns, BeginTurn(t)
    PROVE  LoopInv'
<1> DEFINE new == [t EXCEPT !.state = "run", !.cancelled = FALSE]
<1>1. /\ new \in TurnRecords /\ new.prompt = t.prompt /\ new.driver = t.driver
      /\ new.generation = t.generation
  BY DEF LoopInv, Typed, TurnRecords
<1>2. Update(t, new) /\ UNCHANGED <<tasks, stored, history>> /\ queue' = queue
  BY DEF BeginTurn
<1> HIDE DEF new
<1> QED
  BY <1>1, <1>2, TurnGoesOn

LEMMA AskApprovalKeeps ==
    ASSUME LoopInv, UNCHANGED loopVars, NEW t \in turns, AskApproval(t)
    PROVE  LoopInv'
<1> DEFINE s == IF t.cancelled THEN "run" ELSE "asking"
           new == [t EXCEPT !.asks = @ + 1, !.state = s]
           m == Message("approval", 0, t.generation, <<t.prompt, t.asks + 1>>)
<1>1. /\ t \in TurnRecords /\ t.asks + 1 \in 1..MaxAsks /\ t.asks + 1 \in 0..MaxAsks
      /\ s \in {"run", "asking"}
  BY BoundsAreNumbers DEF LoopInv, Typed, TurnRecords, AskApproval
<1>2. /\ new \in TurnRecords /\ new.prompt = t.prompt /\ new.driver = t.driver
      /\ new.generation = t.generation
  <2> HIDE DEF s
  <2> QED
    BY <1>1 DEF TurnRecords
<1>3. m.arg \in Asks /\ m \in Messages /\ m.kind = "approval" /\ m.op = 0
  <2>1. <<t.prompt, t.asks + 1>> \in Asks /\ t.generation \in Nat /\ 0 \in 0..MaxOps
    BY <1>1, BoundsAreNumbers DEF Asks, TurnRecords
  <2> QED
    BY <2>1 DEF Message, Messages
<1>4. Update(t, new) /\ UNCHANGED <<tasks, stored, history>> /\ Send(m)
  BY DEF AskApproval
<1> HIDE DEF new, m
<1> QED
  BY <1>2, <1>3, <1>4, TurnGoesOn

LEMMA ApprovalDeniedKeeps ==
    ASSUME LoopInv, UNCHANGED loopVars, NEW t \in turns, ApprovalDenied(t)
    PROVE  LoopInv'
<1> DEFINE new == [t EXCEPT !.state = "run"]
<1>1. /\ new \in TurnRecords /\ new.prompt = t.prompt /\ new.driver = t.driver
      /\ new.generation = t.generation
  BY DEF LoopInv, Typed, TurnRecords
<1>2. Update(t, new) /\ UNCHANGED <<tasks, stored, history>> /\ queue' = queue
  BY DEF ApprovalDenied
<1> HIDE DEF new
<1> QED
  BY <1>1, <1>2, TurnGoesOn

(* The turn hands its driver to the message that ends it. *)
LEMMA FinishTurnKeeps ==
    ASSUME LoopInv, UNCHANGED loopVars, NEW t \in turns, FinishTurn(t)
    PROVE  LoopInv'
<1> DEFINE m == Message("finished", 0, t.generation, t.driver)
           n == Len(queue) + 1
<1>1. /\ UNCHANGED <<app, rt, idle, handle, responder, drawn, at>>
      /\ UNCHANGED <<aim, ran, granted, seen, tasks, stored>>
      /\ Send(m) /\ turns' = turns \ {t}
  BY DEF loopVars, history, FinishTurn
<1>2. /\ t \in TurnRecords /\ t.prompt = handle /\ t.generation = app.generation
      /\ t.driver.session = app.shown /\ t.driver \in Drivers
      /\ turns = {t} /\ handle # None
      /\ \A i \in DOMAIN queue : ~Ends(queue[i])
  BY NoneIsNothing DEF LoopInv, Turning, Typed, TurnRecords
<1>3. /\ m \in Messages /\ m.kind = "finished" /\ m.op = 0 /\ m.generation = t.generation
      /\ m.arg = t.driver
  <2>1. t.generation \in Nat /\ 0 \in 0..MaxOps
    BY <1>2, BoundsAreNumbers DEF TurnRecords
  <2> QED
    BY <1>2, <2>1 DEF Message, Messages
<1> HIDE DEF m
<1>4. /\ queue' \in Seq(Messages) /\ \A i \in DOMAIN queue' : MessageOK(queue'[i])
      /\ n \in DOMAIN queue' /\ queue'[n] = m
      /\ \A i \in DOMAIN queue : i \in DOMAIN queue' /\ queue'[i] = queue[i]
      /\ \A i \in DOMAIN queue' : \/ i \in DOMAIN queue
                                  \/ i = n
  <2>1. MessageOK(m)
    BY <1>2, <1>3 DEF MessageOK
  <2> QED
    BY <1>1, <1>3, <2>1, SentLeaves DEF LoopInv
<1> HIDE DEF n
<1>5. turns' = {}
  BY <1>1, <1>2
<1>6. Typed'
  BY <1>1, <1>4, <1>5 DEF LoopInv, Typed
<1>7. \A i \in DOMAIN queue' : Ends(queue'[i]) => i = n
  BY <1>2, <1>4
<1>8. Turning'
  BY <1>1, <1>2, <1>3, <1>4, <1>5, <1>7 DEF LoopInv, Turning, Ends
<1>9. Opening'
  BY <1>1, <1>2, NothingAwaited DEF LoopInv, Turning
<1>10. Numbered'
  <2>1. \A i \in DOMAIN queue' : queue'[i].op <= rt.ops /\ \A u \in tasks : u.op # queue'[i].op
    <3> TAKE i \in DOMAIN queue'
    <3>1. CASE i \in DOMAIN queue
      BY <1>4, <3>1 DEF LoopInv, Numbered
    <3>2. CASE i = n
      BY <1>3, <1>4, <3>2, BoundsAreNumbers DEF LoopInv, Typed, Runtimes, TaskRecords
    <3> QED
      BY <1>4, <3>1, <3>2
  <2> QED
    BY <1>1, <2>1 DEF LoopInv, Numbered
<1>11. Prompting' /\ WorkIsOwned' /\ Approving'
  BY <1>1, SilentApproving DEF LoopInv, Prompting, WorkIsOwned
<1> QED
  BY <1>6, <1>8, <1>9, <1>10, <1>11 DEF LoopInv

(* A task hands its number to its answer. *)
LEMMA HandedOver ==
    ASSUME LoopInv, UNCHANGED loopVars, UNCHANGED <<turns, history>>,
           NEW t \in tasks, tasks' = tasks \ {t}, NEW m \in Messages, MessageOK(m), Send(m),
           m.op = t.op, ~Ends(m),
           stored' \in SUBSET Sessions, stored \subseteq stored',
           t.slot = "open" => Answers(m),
           Awaited(m.op) =>
             /\ m.kind = "switch" => rt.reservation.prompt = None /\ rt.reservation.previous # None
             /\ m.kind = "opened" /\ m.arg # None =>
                  m.arg.session = aim \/ (aim = Fresh /\ m.arg.session \notin Stored)
    PROVE  LoopInv'
<1> DEFINE n == Len(queue) + 1
<1>1. /\ UNCHANGED <<app, rt, idle, handle, responder, drawn, at>>
      /\ UNCHANGED <<aim, ran, granted, seen, turns>>
  BY DEF loopVars, history
<1>2. /\ queue' \in Seq(Messages) /\ \A i \in DOMAIN queue' : MessageOK(queue'[i])
      /\ n \in DOMAIN queue' /\ queue'[n] = m
      /\ \A i \in DOMAIN queue : i \in DOMAIN queue' /\ queue'[i] = queue[i]
      /\ \A i \in DOMAIN queue' : \/ i \in DOMAIN queue
                                  \/ i = n
  BY SentLeaves DEF LoopInv
<1> HIDE DEF n
<1>3. Typed'
  BY <1>1, <1>2 DEF LoopInv, Typed
<1>4. \A i \in DOMAIN queue' : Ends(queue'[i]) => i \in DOMAIN queue /\ Ends(queue[i])
  BY <1>2
<1>5. Turning'
  <2>1. (\E i \in DOMAIN queue : Ends(queue[i])) => \E i \in DOMAIN queue' : Ends(queue'[i])
    BY <1>2
  <2>2. \A i \in DOMAIN queue' : Ends(queue'[i]) =>
          /\ handle # None /\ turns = {}
          /\ queue'[i].generation = app.generation /\ queue'[i].arg.session = app.shown
          /\ \A j \in DOMAIN queue' : Ends(queue'[j]) => i = j
    BY <1>2, <1>4 DEF LoopInv, Turning
  <2> QED
    BY <1>1, <2>1, <2>2 DEF LoopInv, Turning, Ends
<1>6. Opening'
  <2>1. rt.reservation # None =>
           \/ \E u \in tasks' : u.slot = "open" /\ u.op = rt.reservation.op
           \/ \E i \in DOMAIN queue' : Answers(queue'[i]) /\ queue'[i].op = rt.reservation.op
    <3> SUFFICES ASSUME rt.reservation # None
                 PROVE  \/ \E u \in tasks' : u.slot = "open" /\ u.op = rt.reservation.op
                        \/ \E i \in DOMAIN queue' : /\ Answers(queue'[i])
                                                    /\ queue'[i].op = rt.reservation.op
      OBVIOUS
    <3>1. CASE \E i \in DOMAIN queue : Answers(queue[i]) /\ queue[i].op = rt.reservation.op
      BY <1>2, <3>1
    <3>2. ASSUME NEW u \in tasks, u.slot = "open", u.op = rt.reservation.op
          PROVE  \/ \E v \in tasks' : v.slot = "open" /\ v.op = rt.reservation.op
                 \/ \E i \in DOMAIN queue' : /\ Answers(queue'[i])
                                             /\ queue'[i].op = rt.reservation.op
      <4>1. CASE u = t
        BY <1>2, <3>2, <4>1
      <4>2. CASE u # t
        BY <3>2, <4>2
      <4> QED
        BY <4>1, <4>2
    <3> QED
      BY <3>1, <3>2 DEF LoopInv, Opening
  <2>2. \A i \in DOMAIN queue' : Awaited(queue'[i].op) =>
         /\ queue'[i].kind = "switch" =>
              rt.reservation.prompt = None /\ rt.reservation.previous # None
         /\ queue'[i].kind = "opened" /\ queue'[i].arg # None =>
              \/ queue'[i].arg.session = aim
              \/ aim = Fresh /\ queue'[i].arg.session \notin Stored
    <3> TAKE i \in DOMAIN queue'
    <3>1. CASE i \in DOMAIN queue
      BY <1>2, <3>1 DEF LoopInv, Opening
    <3>2. CASE i = n
      BY <1>2, <3>2
    <3> QED
      BY <1>2, <3>1, <3>2
  <2> QED
    BY <1>1, <2>1, <2>2 DEF LoopInv, Opening, Awaited, Answers
<1>7. Numbered'
  <2>1. \A i \in DOMAIN queue' : queue'[i].op <= rt.ops /\ \A u \in tasks' : u.op # queue'[i].op
    <3> TAKE i \in DOMAIN queue'
    <3>1. CASE i \in DOMAIN queue
      BY <1>2, <3>1 DEF LoopInv, Numbered
    <3>2. CASE i = n
      BY <1>2, <3>2 DEF LoopInv, Numbered
    <3> QED
      BY <1>2, <3>1, <3>2
  <2> QED
    BY <1>1, <2>1 DEF LoopInv, Numbered
<1>8. Prompting' /\ WorkIsOwned' /\ Approving'
  BY <1>1, SilentApproving DEF LoopInv, Prompting, WorkIsOwned
<1> QED
  BY <1>3, <1>5, <1>6, <1>7, <1>8 DEF LoopInv

LEMMA OpenAnswerKeeps ==
    ASSUME LoopInv, UNCHANGED loopVars, UNCHANGED <<turns, history>>,
           NEW t \in tasks, t.slot = "open", tasks' = tasks \ {t},
           NEW kind \in {"opened", "switch"}, NEW arg \in Drivers \cup {None},
           Send(Message(kind, t.op, t.generation, arg)),
           stored' \in SUBSET Sessions, stored \subseteq stored',
           Awaited(t.op) =>
             /\ kind = "switch" => rt.reservation.prompt = None /\ rt.reservation.previous # None
             /\ kind = "opened" /\ arg # None =>
                  arg.session = aim \/ (aim = Fresh /\ arg.session \notin Stored)
    PROVE  LoopInv'
<1> DEFINE m == Message(kind, t.op, t.generation, arg)
<1>1. /\ m \in Messages /\ m.kind = kind /\ m.op = t.op /\ m.arg = arg
  <2>1. t.op \in 0..MaxOps /\ t.generation \in Nat
    BY BoundsAreNumbers DEF LoopInv, Typed, TaskRecords
  <2> QED
    BY <2>1 DEF Message, Messages
<1> HIDE DEF m
<1>2. MessageOK(m) /\ Answers(m) /\ ~Ends(m)
  BY <1>1 DEF MessageOK, Answers, Ends
<1>3. Send(m)
  BY DEF m
<1> QED
  BY <1>1, <1>2, <1>3, HandedOver

LEMMA FinishOpenKeeps ==
    ASSUME LoopInv, UNCHANGED loopVars, NEW t \in tasks, FinishOpen(t)
    PROVE  LoopInv'
<1>1. /\ t.slot = "open" /\ tasks' = tasks \ {t} /\ UNCHANGED <<turns, history>>
      /\ stored \in SUBSET Sessions /\ Stored \subseteq stored
      /\ t \in TaskRecords /\ TaskOK(t)
  BY DEF FinishOpen, LoopInv, Typed
<1>2. Awaited(t.op) =>
         /\ t.kind = "switch" => rt.reservation.prompt = None /\ rt.reservation.previous # None
         /\ t.kind = "draft" => aim = Fresh
         /\ t.kind = "replace" => aim = t.arg
  BY <1>1 DEF LoopInv, Opening
<1>3. CASE t.kind = "switch" /\ Send(Message("switch", t.op, t.generation, None))
           /\ UNCHANGED stored
  BY <1>1, <1>2, <1>3, OpenAnswerKeeps
<1>4. CASE t.kind # "switch" /\ Send(Message("opened", t.op, t.generation, None))
           /\ UNCHANGED stored
  BY <1>1, <1>4, OpenAnswerKeeps
<1>5. ASSUME t.kind = "draft" \/ t.arg = Fresh, NEW s \in Sessions \ stored,
             stored' = stored \cup {s},
             Send(Message("opened", t.op, t.generation,
                          [session |-> s,
                           mode |-> IF t.kind = "draft" THEN t.arg ELSE "planning"]))
      PROVE  LoopInv'
  <2> DEFINE d == [session |-> s, mode |-> IF t.kind = "draft" THEN t.arg ELSE "planning"]
  <2>1. t.kind = "draft" => t.arg \in Modes
    BY <1>1 DEF TaskOK
  <2>2. d \in Drivers /\ d.session = s /\ s \notin Stored
    BY <1>1, <1>5, <2>1 DEF Drivers, Modes
  <2> HIDE DEF d
  <2>3. Awaited(t.op) => aim = Fresh
    BY <1>1, <1>2, <1>5, NoneIsNothing DEF TaskOK
  <2>4. Send(Message("opened", t.op, t.generation, d))
    BY <1>5 DEF d
  <2> QED
    BY <1>1, <1>5, <2>2, <2>3, <2>4, OpenAnswerKeeps
<1>6. ASSUME t.kind = "replace", t.arg # Fresh, NEW m \in Modes, UNCHANGED stored,
             Send(Message("opened", t.op, t.generation, [session |-> t.arg, mode |-> m]))
      PROVE  LoopInv'
  <2> DEFINE d == [session |-> t.arg, mode |-> m]
  <2>1. d \in Drivers /\ d.session = t.arg
    BY <1>1, <1>6 DEF Drivers, TaskOK
  <2> HIDE DEF d
  <2>2. Send(Message("opened", t.op, t.generation, d))
    BY <1>6 DEF d
  <2> QED
    BY <1>1, <1>2, <1>6, <2>1, <2>2, OpenAnswerKeeps
<1> QED
  BY <1>3, <1>4, <1>5, <1>6 DEF FinishOpen

LEMMA FinishWorkKeeps ==
    ASSUME LoopInv, UNCHANGED loopVars, NEW t \in tasks, FinishWork(t)
    PROVE  LoopInv'
<1> DEFINE m == Message(t.kind, t.op, t.generation, None)
<1>1. /\ t.slot # "open" /\ tasks' = tasks \ {t} /\ UNCHANGED <<turns, stored, history>>
      /\ Send(m) /\ stored' \in SUBSET Sessions
  BY DEF FinishWork, LoopInv, Typed
<1>2. t.kind \in {"list", "definition", "mcp"} /\ t.op \in 1..MaxOps /\ t.generation \in Nat
  BY <1>1 DEF LoopInv, Typed, TaskOK, TaskRecords
<1>3. m \in Messages /\ m.kind = t.kind /\ m.op = t.op
  <2>1. t.op \in 0..MaxOps
    BY <1>2, BoundsAreNumbers
  <2> QED
    BY <1>2, <2>1 DEF Message, Messages
<1> HIDE DEF m
<1>4. MessageOK(m) /\ ~Ends(m)
  BY <1>2, <1>3, BoundsAreNumbers DEF MessageOK, Ends
<1> QED
  BY <1>1, <1>2, <1>3, <1>4, HandedOver

-----------------------------------------------------------------------------
(* The invariant, and what it shows. *)

LEMMA InitLoop == Init => LoopInv
<1> SUFFICES ASSUME Init PROVE LoopInv
  OBVIOUS
<1> DEFINE started(d) ==
       [running |-> FALSE, transition |-> FALSE, view |-> None, installs |-> 0,
        shown |-> IF d = None THEN NoSession ELSE d.session,
        generation |-> IF d = None THEN 0 ELSE 1,
        mode |-> IF d = None THEN "planning" ELSE d.mode,
        composer |-> None, busy |-> {}]
<1>1. PICK d \in {None} \cup [session : Stored, mode : Modes] : idle = d /\ app = started(d)
  BY DEF Init
<1>2. /\ rt = [reservation |-> None, work |-> None, mcp |-> 0, ops |-> 0]
      /\ handle = None /\ responder = None /\ drawn = 0 /\ at = Top
      /\ queue = <<>> /\ turns = {} /\ tasks = {} /\ stored = Stored
      /\ aim = None /\ ran = [p \in Prompts |-> 0] /\ granted = {} /\ seen = {}
  BY DEF Init
<1>3. d \in Drivers \cup {None} /\ (d # None => d.session \in Sessions /\ d.mode \in Modes)
  BY SessionsAssumption DEF Drivers
<1>4. /\ app.running = FALSE /\ app.view = None /\ app.installs = 0
      /\ app.composer = None /\ app.busy = {}
      /\ app.shown = IF d = None THEN NoSession ELSE d.session
  BY <1>1
<1>5. app \in Apps
  <2>1. /\ (IF d = None THEN NoSession ELSE d.session) \in Sessions \cup {NoSession}
        /\ (IF d = None THEN 0 ELSE 1) \in Nat
        /\ (IF d = None THEN "planning" ELSE d.mode) \in Modes
    BY <1>3 DEF Modes
  <2> QED
    BY <1>1, <2>1 DEF Apps
<1>6. rt \in Runtimes /\ rt.reservation = None /\ rt.work = None /\ rt.mcp = 0 /\ rt.ops = 0
  <2>1. 0 \in 0..MaxOps
    BY BoundsAreNumbers
  <2> QED
    BY <1>2, <2>1 DEF Runtimes
<1>7. Typed
  BY <1>1, <1>2, <1>3, <1>4, <1>5, <1>6, SessionsAssumption, BoundsAreNumbers DEF Typed, Top
<1>8. Turning
  BY <1>1, <1>2, <1>3, <1>4, <1>6 DEF Turning
<1>9. Opening /\ Numbered
  BY <1>2, <1>6 DEF Opening, Numbered, Awaited
<1>10. Prompting /\ Approving
  BY <1>2, <1>4, <1>6 DEF Prompting, Approving
<1>11. WorkIsOwned
  BY <1>2, <1>4, <1>6 DEF WorkIsOwned
<1> QED
  BY <1>7, <1>8, <1>9, <1>10, <1>11 DEF LoopInv

LEMMA KeysKeep ==
    ASSUME LoopInv, Key
    PROVE  LoopInv'
<1>1. ASSUME NEW p \in Prompts, TypePrompt(p) PROVE LoopInv'
  BY <1>1, TypePromptKeeps
<1>2. CASE Submit
  BY <1>2, SubmitKeeps
<1>3. CASE Cancel
  BY <1>3, CancelKeeps
<1>4. CASE NewSession
  BY <1>4, NewSessionKeeps
<1>5. CASE SwitchNative
  BY <1>5, SwitchNativeKeeps
<1>6. CASE McpAction
  BY <1>6, McpActionKeeps
<1>7. CASE OtherKey
  BY <1>7, OtherKeyKeeps
<1>8. ASSUME NEW s \in stored \cup {Fresh}, Replace(s) PROVE LoopInv'
  BY <1>8, ReplaceKeeps
<1>9. ASSUME NEW m \in Modes, SetPhase(m) \/ SetMode(m) PROVE LoopInv'
  BY <1>9, SetPhaseKeeps, SetModeKeeps
<1>10. ASSUME NEW k \in {"list", "definition"}, AskFor(k) PROVE LoopInv'
  BY <1>10, AskForKeeps
<1>11. ASSUME NEW yes \in BOOLEAN, Answer(yes) PROVE LoopInv'
  BY <1>11, AnswerKeeps
<1> QED
  BY <1>1, <1>2, <1>3, <1>4, <1>5, <1>6, <1>7, <1>8, <1>9, <1>10, <1>11 DEF Key

LEMMA MessagesKeep ==
    ASSUME LoopInv, OnMessage, Redrawn, at' \in 0..(DrainMax + 1)
    PROVE  LoopInv'
<1>1. Taken
  BY DEF Taken, OnMessage
<1> QED
  BY <1>1, OnApprovalKeeps, OnFinishedKeeps, OnOpenedKeeps, OnSwitchReadyKeeps, OnWorkKeeps,
     OnMcpOutcomeKeeps DEF OnMessage

LEMMA NextLoop == LoopInv /\ [Next]_vars => LoopInv'
<1> SUFFICES ASSUME LoopInv, [Next]_vars PROVE LoopInv'
  OBVIOUS
<1>1. CASE Key
  BY <1>1, KeysKeep
<1>2. CASE TakeMessage
  BY <1>2, MessagesKeep, BoundsAreNumbers DEF TakeMessage, Redrawn
<1>3. CASE Drain
  <2>1. CASE queue # <<>> /\ at <= DrainMax /\ at' = at + 1 /\ OnMessage /\ UNCHANGED <<drawn, seen>>
    <3>1. at' \in 0..(DrainMax + 1) /\ Redrawn
      BY <2>1, BoundsAreNumbers DEF Redrawn, LoopInv, Typed
    <3> QED
      BY <2>1, <3>1, MessagesKeep
  <2>2. CASE /\ at' = Top
             /\ UNCHANGED <<app, rt, idle, handle, responder, drawn,
                            queue, turns, tasks, stored, history>>
    <3>1. at' \in 0..(DrainMax + 1) /\ Redrawn /\ UNCHANGED <<aim, ran, granted>>
      BY <2>2, BoundsAreNumbers DEF Redrawn, Top, history
    <3> QED
      BY <2>2, <3>1, StillKeeps
  <2> QED
    BY <1>3, <2>1, <2>2 DEF Drain
<1>4. CASE Tasks
  <2>1. UNCHANGED loopVars
    BY <1>4 DEF Tasks
  <2> QED
    BY <1>4, <2>1, BeginTurnKeeps, AskApprovalKeeps, ApprovalDeniedKeeps, FinishTurnKeeps,
       FinishOpenKeeps, FinishWorkKeeps DEF Tasks
<1>5. CASE UNCHANGED vars
  <2>1. /\ UNCHANGED <<app, rt, idle, handle, responder, turns, tasks, queue, stored,
                       aim, ran, granted>>
        /\ Redrawn /\ at' = at
    BY <1>5 DEF vars, loopVars, history, Redrawn
  <2> QED
    BY <2>1, StillKeeps DEF LoopInv, Typed
<1> QED
  BY <1>1, <1>2, <1>3, <1>4, <1>5 DEF Next, Loop

THEOREM LoopInvariant == Spec => []LoopInv
  BY InitLoop, NextLoop, PTL DEF Spec

(* No session has a turn running and a second driver beside it, idle,      *)
(* reserved or running, however session changes, turns and answers         *)
(* interleave (run.rs NewSession, Resume, SwitchNative, Opened).           *)
THEOREM OneDriver == Spec => []OneDriverPerSession
<1>1. LoopInv => OneDriverPerSession
  <2> SUFFICES ASSUME LoopInv, NEW t \in turns
               PROVE  /\ idle = None /\ rt.reservation = None
                      /\ \A u \in turns \ {t} : u.driver.session # t.driver.session
    BY DEF OneDriverPerSession
  <2> QED
    BY NoneIsNothing DEF LoopInv, Typed, Turning, TurnRecords
<1> QED
  BY <1>1, LoopInvariant, PTL

(* What the screen says is going on is going on and can be stopped or      *)
(* answered: the driver of the session shown is at hand or on its way, a   *)
(* reservation has its answer coming, and work in flight has its owner and *)
(* its label (run.rs PendingOpen, open_work, finish_work, begin_mcp).      *)
THEOREM ScreenAlwaysAccounts == Spec => []ScreenAccounts
<1>1. LoopInv => TypeOK
  BY DEF LoopInv, Typed, TypeOK, Apps, Runtimes, TurnRecords
<1>2. LoopInv => NeverStranded
  <2> SUFFICES ASSUME LoopInv PROVE NeverStranded
    OBVIOUS
  <2>1. ~app.running /\ rt.reservation = None =>
          /\ handle = None
          /\ IF app.shown = NoSession THEN idle = None
             ELSE idle # None /\ idle.session = app.shown
    <3>1. idle # None => idle.session \in Sessions
      BY DEF LoopInv, Typed, Drivers
    <3> QED
      BY <3>1, NoneIsNothing DEF LoopInv, Turning
  <2>2. app.running =>
          \/ rt.reservation # None
          \/ \E t \in turns : t.prompt = handle /\ t.generation = app.generation
          \/ \E i \in DOMAIN queue : queue[i].kind = "finished"
                                     /\ queue[i].generation = app.generation
    BY DEF LoopInv, Turning, Ends
  <2>3. rt.reservation # None =>
          \/ \E t \in tasks : t.slot = "open" /\ t.op = rt.reservation.op
          \/ \E i \in DOMAIN queue : queue[i].kind \in {"opened", "switch"}
                                     /\ queue[i].op = rt.reservation.op
    BY DEF LoopInv, Opening, Answers
  <2> QED
    BY <2>1, <2>2, <2>3 DEF NeverStranded
<1>3. LoopInv => ScreenAccounts
  BY <1>1, <1>2 DEF ScreenAccounts, LoopInv
<1> QED
  BY <1>3, LoopInvariant, PTL

(* A prompt given back by a cancelled or failed open is not run by it as   *)
(* well, and an approval is granted only after its own frame was drawn     *)
(* (run.rs restore_draft, drawn_approval).                                 *)
THEOREM NothingIsUnasked == Spec => []NothingUnasked
<1>1. LoopInv => NothingUnasked
  BY DEF LoopInv, Prompting, Approving, NothingUnasked, PromptRunsOnce, GrantedWasSeen
<1> QED
  BY <1>1, LoopInvariant, PTL

(* Only an answer to the change still waited for brings a session on       *)
(* screen: every other step keeps the one shown, or shows none.            *)
LEMMA ShownChangesByAdopt ==
    ASSUME LoopInv, Next, app'.shown # app.shown, app'.shown # NoSession
    PROVE  Taken /\ Msg.kind = "opened" /\ Adopt
<1>1. app \in Apps
  BY DEF LoopInv, Typed
<1>2. CASE Key
  <2>1. ASSUME NEW p \in Prompts, TypePrompt(p) PROVE FALSE
    BY <1>1, <2>1 DEF TypePrompt, Apps
  <2>2. CASE Submit
    BY <1>1, <2>2 DEF Submit, Restore, StartTurn, Reserve, Apps
  <2>3. CASE Cancel
    <3>1. CancelledBusy(app) \in Apps /\ CancelledBusy(app).shown = app.shown
      BY CancelledBusyIs
    <3> DEFINE a == CancelledBusy(app)
    <3>2. \/ app' = a
          \/ app' = [Released(a) EXCEPT !.running = FALSE]
          \/ app' = Restore(Released(a), rt.reservation.prompt)
      BY <2>3 DEF Cancel
    <3> HIDE DEF a
    <3>3. a \in Apps /\ a.shown = app.shown
      BY <3>1 DEF a
    <3> QED
      BY <3>2, <3>3 DEF Released, Restore, Apps
  <2>4. CASE NewSession
    <3> DEFINE a == CancelledBusy(app)
    <3>1. /\ app' = [Released(a) EXCEPT !.shown = NoSession, !.running = FALSE,
                                        !.generation = @ + 1]
          /\ a \in Apps
      BY <2>4, CancelledBusyIs DEF NewSession
    <3> HIDE DEF a
    <3> QED
      BY <3>1 DEF Released, Apps
  <2>5. CASE SwitchNative
    BY <1>1, <2>5 DEF SwitchNative, Reserve, Apps
  <2>6. CASE McpAction
    BY <1>1, <2>6 DEF McpAction, BeginMcp, Apps
  <2>7. CASE OtherKey
    BY <2>7 DEF OtherKey
  <2>8. ASSUME NEW s \in stored \cup {Fresh}, Replace(s) PROVE FALSE
    BY <1>1, <2>8 DEF Replace, Reserve, Apps
  <2>9. ASSUME NEW m \in Modes, SetPhase(m) \/ SetMode(m) PROVE FALSE
    BY <1>1, <2>9 DEF SetPhase, SetMode, Apps
  <2>10. ASSUME NEW k \in {"list", "definition"}, AskFor(k) PROVE FALSE
    BY <1>1, <2>10 DEF AskFor, Spawn, Apps
  <2>11. ASSUME NEW yes \in BOOLEAN, Answer(yes) PROVE FALSE
    BY <1>1, <2>11 DEF Answer, BeginMcp, Apps
  <2> QED
    BY <1>2, <2>1, <2>2, <2>3, <2>4, <2>5, <2>6, <2>7, <2>8, <2>9, <2>10, <2>11 DEF Key
<1>3. ASSUME OnMessage, Redrawn, at' \in 0..(DrainMax + 1)
      PROVE  Taken /\ Msg.kind = "opened" /\ Adopt
  <2>1. Taken
    BY <1>3 DEF OnMessage, Taken
  <2>2. ASSUME OnApproval PROVE FALSE
    BY <1>1, <2>2 DEF OnApproval, Install, Apps
  <2>3. ASSUME OnFinished PROVE FALSE
    BY <1>1, <2>3 DEF OnFinished, Apps
  <2>4. ASSUME Unwanted PROVE FALSE
    BY <1>1, <2>4 DEF Unwanted, Released, Apps
  <2>5. ASSUME OpenFailed PROVE FALSE
    BY <1>1, <2>5 DEF OpenFailed, Released, Restore, Apps
  <2>6. ASSUME OnSwitchReady PROVE FALSE
    BY <1>1, <2>4, <2>6 DEF OnSwitchReady, Released, Apps
  <2>7. ASSUME OnWork PROVE FALSE
    BY <1>1, <2>7 DEF OnWork, Install, Apps
  <2>8. ASSUME OnMcpOutcome PROVE FALSE
    BY <1>1, <2>8 DEF OnMcpOutcome, Apps
  <2> QED
    BY <1>3, <2>1, <2>2, <2>3, <2>4, <2>5, <2>6, <2>7, <2>8 DEF OnMessage, OnOpened
<1>4. CASE TakeMessage
  BY <1>3, <1>4, BoundsAreNumbers DEF TakeMessage, Redrawn
<1>5. CASE Drain
  <2>1. CASE queue # <<>> /\ at <= DrainMax /\ at' = at + 1 /\ OnMessage /\ UNCHANGED <<drawn, seen>>
    <3>1. at' \in 0..(DrainMax + 1) /\ Redrawn
      BY <2>1, BoundsAreNumbers DEF Redrawn, LoopInv, Typed
    <3> QED
      BY <1>3, <2>1, <3>1
  <2> QED
    BY <1>5, <2>1 DEF Drain
<1>6. CASE Tasks
  BY <1>6 DEF Tasks, loopVars
<1> QED
  BY <1>2, <1>4, <1>5, <1>6 DEF Next, Loop

(* A session comes on screen only as the answer to the change the user is  *)
(* still waiting for, and a new one only if a new one was asked for (run.rs *)
(* Opened, SwitchReady, pending_open).                                     *)
THEOREM AdoptedWasAsked == Spec => AdoptsWhatWasAsked
<1>1. LoopInv /\ [Next]_vars =>
        [app'.shown # app.shown /\ app'.shown # NoSession =>
           \/ app'.shown = aim
           \/ aim = Fresh /\ app'.shown \notin Stored]_vars
  <2> SUFFICES ASSUME LoopInv, Next, app'.shown # app.shown, app'.shown # NoSession
               PROVE  \/ app'.shown = aim
                      \/ aim = Fresh /\ app'.shown \notin Stored
    BY DEF vars
  <2>1. Taken /\ Msg.kind = "opened" /\ Adopt
    BY ShownChangesByAdopt
  <2>2. Awaited(Msg.op) /\ Msg.arg # None
    BY <2>1 DEF Adopt
  <2>3. Msg.arg.session = aim \/ (aim = Fresh /\ Msg.arg.session \notin Stored)
    BY <2>1, <2>2, AnswerFits
  <2>4. app'.shown = Msg.arg.session
    <3>1. Released(app) \in Apps
      BY DEF LoopInv, Typed, Released, Apps
    <3> DEFINE s == Released(app)
               g == s.generation + 1
               go == (rt.reservation.prompt # None)
    <3>2. app' = [s EXCEPT !.generation = g, !.shown = Msg.arg.session,
                           !.mode = Msg.arg.mode, !.running = go]
      BY <2>1 DEF Adopt, StartTurn
    <3>3. s \in Apps
      BY <3>1
    <3> HIDE DEF s, g, go
    <3> QED
      BY <3>2, <3>3 DEF Apps
  <2> QED
    BY <2>3, <2>4
<1> QED
  BY <1>1, LoopInvariant, PTL DEF Spec, AdoptsWhatWasAsked

=============================================================================
