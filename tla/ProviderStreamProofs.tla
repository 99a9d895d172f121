------------------------- MODULE ProviderStreamProofs -------------------------
(***************************************************************************)
(* What stands between gritt and the outside, checked by TLAPS: what         *)
(* ProviderStream promises for every protocol, any number of calls, pieces   *)
(* and requests, what Discovery shows for any checks, and what Protocols      *)
(* reads for any calls.                                                     *)
(***************************************************************************)
EXTENDS MCOutside, FiniteSetTheorems, SequenceTheorems, TLAPS

-------------------------------------------------------------------------------
(* Finite sets of numbers: `Assembled` enumerates one in its order.  The     *)
(* library's induction theorems take operators; least elements do as well.   *)

LEMMA Least ==
    ASSUME NEW S \in SUBSET Nat, S # {}
    PROVE  \E m \in S : \A n \in S : m <= n
<1> DEFINE I == {1 .. n : n \in S}
<1>1. \A n \in S : n \in Nat
  OBVIOUS
<1>2. I \subseteq FiniteSubsetsOf(Nat)
  BY <1>1, FS_Interval DEF FiniteSubsetsOf
<1> I # {}
  OBVIOUS
<1>3. PICK x \in I : \A y \in I : <<y, x>> \notin StrictSubsetOrdering(Nat)
  BY <1>2, FS_StrictSubsetOrderingWellFounded, WFMin
<1>4. PICK m \in S : x = 1 .. m
  OBVIOUS
<1>5. ASSUME NEW n \in S, n < m
      PROVE  FALSE
  <2>1. 1 .. n \subseteq 1 .. m /\ 1 .. n # 1 .. m /\ 1 .. n \in I
    <3>1. m \in 1 .. m /\ m \notin 1 .. n
      BY <1>1, <1>5
    <3> QED
      BY <1>1, <1>5, <3>1
  <2>2. <<1 .. n, 1 .. m>> \in StrictSubsetOrdering(Nat)
    BY <1>1, <2>1 DEF StrictSubsetOrdering
  <2> QED
    BY <1>3, <1>4, <2>1, <2>2
<1> QED
  BY <1>1, <1>5

Below(S, c) == {d \in S : d < c}

Ranked(S) == \A k \in Nat : k < Cardinality(S) =>
                \E c \in S : Cardinality(Below(S, c)) = k

LEMMA BelowFinite ==
    ASSUME NEW S \in SUBSET Nat, IsFiniteSet(S), NEW c
    PROVE  IsFiniteSet(Below(S, c)) /\ Cardinality(Below(S, c)) \in Nat
BY FS_Subset, FS_CardinalityType DEF Below

\* One element more, below all the others.
LEMMA RankStep ==
    ASSUME NEW S \in SUBSET Nat, IsFiniteSet(S), NEW m \in S, \A n \in S : m <= n,
           Ranked(S \ {m})
    PROVE  Ranked(S)
<1> DEFINE R == S \ {m}
<1>1. IsFiniteSet(R) /\ Cardinality(S) = Cardinality(R) + 1 /\ Cardinality(R) \in Nat
  <2>1. IsFiniteSet(R) /\ Cardinality(R) = Cardinality(S) - 1
    BY FS_RemoveElement
  <2>2. Cardinality(R) \in Nat /\ Cardinality(S) \in Nat
    BY <2>1, FS_CardinalityType
  <2> QED
    BY <2>1, <2>2
<1>n. \A n \in S : n \in Nat
  OBVIOUS
<1> SUFFICES ASSUME NEW k \in Nat, k < Cardinality(S)
             PROVE  \E c \in S : Cardinality(Below(S, c)) = k
  BY DEF Ranked
<1>2. CASE k = 0
  <2>1. Below(S, m) = {}
    <3>1. \A d \in S : ~(d < m)
      BY <1>n
    <3> QED
      BY <3>1 DEF Below
  <2> QED
    BY <1>2, <2>1, FS_EmptySet
<1>3. CASE k # 0
  <2>1. k - 1 \in Nat /\ k - 1 < Cardinality(R)
    BY <1>1, <1>3
  <2>2. PICK c \in R : Cardinality(Below(R, c)) = k - 1
    BY <2>1 DEF Ranked
  <2>3. Below(S, c) = Below(R, c) \cup {m} /\ m \notin Below(R, c)
    BY <1>n, <2>2 DEF Below
  <2>4. IsFiniteSet(Below(R, c)) /\ R \in SUBSET Nat
    BY <1>1, BelowFinite
  <2>5. Cardinality(Below(R, c) \cup {m}) = Cardinality(Below(R, c)) + 1
    BY <2>3, <2>4, FS_AddElement
  <2>6. Cardinality(Below(S, c)) = k
    BY <2>1, <2>2, <2>3, <2>5
  <2> QED
    BY <2>2, <2>6
<1> QED
  BY <1>2, <1>3

LEMMA EverySetRanked ==
    \A n \in Nat : \A S \in SUBSET Nat :
       IsFiniteSet(S) /\ Cardinality(S) = n => Ranked(S)
<1> DEFINE Bad == {n \in Nat : \E S \in SUBSET Nat :
                      IsFiniteSet(S) /\ Cardinality(S) = n /\ ~Ranked(S)}
<1>1. SUFFICES Bad = {}
  OBVIOUS
<1>2. SUFFICES ASSUME Bad # {} PROVE FALSE
  OBVIOUS
<1>3. PICK n \in Bad : \A k \in Bad : n <= k
  BY <1>2, Least
<1>4. PICK S \in SUBSET Nat : IsFiniteSet(S) /\ Cardinality(S) = n /\ ~Ranked(S)
  BY <1>3
<1>5. S # {}
  BY <1>4, FS_EmptySet DEF Ranked
<1>6. PICK m \in S : \A k \in S : m <= k
  BY <1>4, <1>5, Least
<1>7. ~Ranked(S \ {m})
  BY <1>4, <1>6, RankStep
<1>8. IsFiniteSet(S \ {m}) /\ Cardinality(S \ {m}) = n - 1 /\ Cardinality(S \ {m}) \in Nat
  BY <1>4, <1>6, FS_RemoveElement, FS_CardinalityType
<1>9. n - 1 \in Bad
  BY <1>4, <1>7, <1>8
<1> QED
  BY <1>3, <1>9

\* Below distinguishes two elements.
LEMMA BelowInjective ==
    ASSUME NEW S \in SUBSET Nat, IsFiniteSet(S), NEW c \in S, NEW d \in S,
           Cardinality(Below(S, c)) = Cardinality(Below(S, d))
    PROVE  c = d
<1>2. \A n \in S : n \in Nat
  OBVIOUS
<1>1. \A a, b \in S : a < b => Cardinality(Below(S, a)) # Cardinality(Below(S, b))
  <2> SUFFICES ASSUME NEW a \in S, NEW b \in S, a < b
               PROVE  Cardinality(Below(S, a)) # Cardinality(Below(S, b))
    OBVIOUS
  <2>1. Below(S, a) \in SUBSET Below(S, b) /\ a \in Below(S, b) /\ a \notin Below(S, a)
    <3>1. \A e \in S : e < a => e < b
      BY <1>2
    <3>2. ~(a < a)
      BY <1>2
    <3> QED
      BY <3>1, <3>2 DEF Below
  <2> QED
    BY <2>1, BelowFinite, FS_Subset
<1> QED
  BY <1>1, <1>2

LEMMA BelowBounded ==
    ASSUME NEW S \in SUBSET Nat, IsFiniteSet(S), NEW c \in S
    PROVE  Cardinality(Below(S, c)) + 1 \in 1 .. Cardinality(S)
<1>1. Below(S, c) \in SUBSET S /\ c \notin Below(S, c)
  BY DEF Below
<1>2. Cardinality(Below(S, c)) <= Cardinality(S) /\ Cardinality(Below(S, c)) # Cardinality(S)
  BY <1>1, FS_Subset
<1> QED
  BY <1>2, BelowFinite, FS_CardinalityType

-------------------------------------------------------------------------------
(* The inductive invariant. *)

(* The events produced for the last request, taken or not. *)
Produced == out \o pending

Ids   == Nat \X Calls
Args  == Seq(Calls \X Nat)
Kinds == {"text", "call", "completed", "error", "cancelled"}
Events == {e \in [kind : Kinds, call : {<<>>} \cup Ids, args : Args] :
              e.kind = "call" \/ e.call = <<>>}
Items == [event : Events, warning : Nat]
Entries == [role : {"user", "assistant", "tool"}, calls : SUBSET ({<<>>} \cup Ids)]

Partials == UNION {[D -> Args] : D \in SUBSET Calls}

Typed ==
    /\ protocol \in Protocols /\ phase \in Phases /\ request \in 0..MaxRequests
    /\ cancelled \in BOOLEAN /\ warned \in BOOLEAN /\ warning \in {0, request}
    /\ norm \in [partial : Partials,
                 finished : Seq(Ids), text : Nat, terminal : BOOLEAN]
    /\ pending \in Seq(Items) /\ out \in Seq(Items)
    /\ messages \in Seq(Entries) /\ previous \in 0..request
    /\ server \in [text : Nat, calls : [Calls -> Args], opened : SUBSET Calls,
                   closed : SUBSET Calls, created : BOOLEAN, whole : BOOLEAN, cut : BOOLEAN]

Partial == DOMAIN norm.partial
\* The calls that were reported.
Done == server.opened \ Partial

\* What is being put together is what the server sent of it.
Assembling ==
    /\ IsFiniteSet(Partial) /\ Partial \subseteq server.opened
    /\ server.closed \subseteq server.opened
    /\ Has({"chat_completions"}) => server.closed = {} /\ (~norm.terminal => Done = {})
    /\ ~Has({"chat_completions"}) => Done = server.closed
    /\ ToSet(norm.finished) = {Id(c) : c \in server.closed}
    /\ \A c \in Partial : norm.partial[c] = server.calls[c]
    /\ \A c \in Calls \ server.opened : server.calls[c] = <<>>
    /\ server.whole => norm.terminal /\ Partial = {}

\* Every call that is done was reported once, as the server sent it.
IsCall(i) == Produced[i].event.kind = "call"
ReportsDone ==
    /\ \A i \in DOMAIN Produced : IsCall(i) =>
          \E c \in Done : Produced[i].event = CallEvent(c, server.calls[c])
    /\ \A c \in Done : \E i \in DOMAIN Produced : IsCall(i) /\ Produced[i].event.call = Id(c)
    /\ \A i, j \in DOMAIN Produced :
          IsCall(i) /\ IsCall(j) /\ Produced[i].event.call = Produced[j].event.call => i = j
    /\ Cardinality({i \in DOMAIN Produced : Produced[i].event.kind = "text"}) = server.text
    /\ \A i \in DOMAIN Produced : Produced[i].event.kind \in {"text", "call"} \/ i = Len(Produced)

\* Where the turn is and what is still to come.
Placed ==
    /\ phase \in {"connecting", "refused"} =>
          out = <<>> /\ pending = <<>> /\ norm = Fresh /\ server = NoAnswer
    /\ phase = "open" =>
          /\ \A i \in DOMAIN out : ~Terminal(out[i].event)
          /\ norm.terminal => pending # <<>> /\ Terminal(Last(pending).event)
          /\ ~norm.terminal => \A i \in DOMAIN pending : ~Terminal(pending[i].event)
    /\ phase = "tools" => out # <<>> /\ Last(out).event.kind = "completed"

Recorded ==
    /\ (\E i \in DOMAIN Produced : Produced[i].event.kind = "completed")
       /\ (server.cut => Has({"chat_completions"}))
          => OnRecord = {Id(c) : c \in Done}

Warned ==
    /\ \A i \in DOMAIN Produced :
          IF i = 1 /\ warned /\ Produced[1].event.kind # "cancelled"
          THEN Produced[i].warning = request
          ELSE Produced[i].warning \in (IF i = 1 /\ warned THEN {0, request} ELSE {0})
    /\ phase \in {"connecting", "refused", "open"} =>
          warning = IF warned /\ Produced = <<>> THEN request ELSE 0

StreamInv == Assembling /\ ReportsDone /\ Placed /\ Recorded /\ Warned
-------------------------------------------------------------------------------
(* Types *)

LEMMA PartialsAre ==
    /\ \A D \in SUBSET Calls : \A f \in [D -> Args] : f \in Partials
    /\ \A f \in Partials : DOMAIN f \subseteq Calls /\ f \in [DOMAIN f -> Args]
BY DEF Partials

LEMMA BoundsAre == Calls \subseteq Nat /\ MaxRequests \in Nat
BY BoundsAssumption

LEMMA RequestIs == Typed => request \in Nat /\ warning \in Nat /\ previous \in Nat
BY BoundsAre DEF Typed

LEMMA OneInSeq ==
    ASSUME NEW S, NEW x \in S
    PROVE  <<x>> \in Seq(S) /\ Len(<<x>>) = 1 /\ <<x>>[1] = x
OBVIOUS

LEMMA FreshType ==
    /\ Fresh \in [partial : Partials, finished : Seq(Ids), text : Nat, terminal : BOOLEAN]
    /\ NoAnswer \in [text : Nat, calls : [Calls -> Args], opened : SUBSET Calls,
                     closed : SUBSET Calls, created : BOOLEAN, whole : BOOLEAN, cut : BOOLEAN]
<1>1. [c \in {} |-> <<>>] \in Partials
  BY PartialsAre
<1>2. <<>> \in Args /\ <<>> \in Seq(Ids)
  BY DEF Args
<1> QED
  BY <1>1, <1>2 DEF Fresh, NoAnswer

LEMMA EventType ==
    ASSUME Typed
    PROVE  /\ TextEvent \in Events
           /\ \A kind \in Kinds : End(kind) \in Events
           /\ \A c \in Calls, as \in Args : CallEvent(c, as) \in Events
<1>1. <<>> \in Args
  BY DEF Args
<1>2. \A c \in Calls : Id(c) \in Ids
  BY RequestIs DEF Id, Ids
<1> QED
  BY <1>1, <1>2 DEF TextEvent, End, CallEvent, Events, Kinds

LEMMA StampedType ==
    ASSUME Typed, NEW events \in Seq(Events)
    PROVE  /\ Stamped(events) \in Seq(Items)
           /\ Len(Stamped(events)) = Len(events)
           /\ \A i \in 1 .. Len(events) : Stamped(events)[i] =
                 [event |-> events[i], warning |-> IF i = 1 THEN warning ELSE 0]
<1>1. DOMAIN events = 1 .. Len(events) /\ Len(events) \in Nat
  OBVIOUS
<1>2. \A i \in 1 .. Len(events) :
         [event |-> events[i], warning |-> IF i = 1 THEN warning ELSE 0] \in Items
  BY RequestIs DEF Items
<1>3. Stamped(events) \in [1 .. Len(events) -> Items]
  BY <1>1, <1>2 DEF Stamped
<1> QED
  BY <1>1, <1>3 DEF Stamped

LEMMA EmittedType ==
    ASSUME Typed, NEW events \in Seq(Events), Emitted(events)
    PROVE  /\ pending' \in Seq(Items)
           /\ warning' \in {0, request}
BY StampedType DEF Emitted, Typed

LEMMA EntryType ==
    ASSUME Typed, NEW role \in {"user", "assistant", "tool"}, NEW ids \in SUBSET ({<<>>} \cup Ids)
    PROVE  Append(messages, Entry(role, ids)) \in Seq(Entries)
<1>1. Entry(role, ids) \in Entries
  BY DEF Entry, Entries
<1> QED
  BY <1>1 DEF Typed

LEMMA PartialType ==
    ASSUME Typed
    PROVE  /\ Partial \subseteq Calls /\ norm.partial \in [Partial -> Args]
           /\ Partial \subseteq Nat
BY PartialsAre, BoundsAre DEF Typed, Partial

LEMMA AssembledLists ==
    ASSUME Typed, IsFiniteSet(Partial)
    PROVE  /\ Cardinality(Partial) \in Nat
           /\ Assembled \in [1 .. Cardinality(Partial) -> Partial]
           /\ \A c \in Partial : \E i \in 1 .. Cardinality(Partial) : Assembled[i] = c
           /\ \A i, j \in 1 .. Cardinality(Partial) : Assembled[i] = Assembled[j] => i = j
<1>1. Partial \in SUBSET Nat
  BY PartialType
<1>2. Cardinality(Partial) \in Nat
  BY FS_CardinalityType
<1>3. Assembled = [i \in 1 .. Cardinality(Partial) |->
                      CHOOSE c \in Partial : Cardinality(Below(Partial, c)) = i - 1]
  BY DEF Assembled, Below, Partial
<1>4. ASSUME NEW i \in 1 .. Cardinality(Partial)
      PROVE  Assembled[i] \in Partial /\ Cardinality(Below(Partial, Assembled[i])) = i - 1
  <2>1. i - 1 \in Nat /\ i - 1 < Cardinality(Partial)
    BY <1>2
  <2>2. \E c \in Partial : Cardinality(Below(Partial, c)) = i - 1
    BY <1>1, <1>2, <2>1, EverySetRanked DEF Ranked
  <2> QED
    BY <1>3, <2>2
<1>5. \A i, j \in 1 .. Cardinality(Partial) : Assembled[i] = Assembled[j] => i = j
  BY <1>2, <1>4
<1>6. ASSUME NEW c \in Partial
      PROVE  \E i \in 1 .. Cardinality(Partial) : Assembled[i] = c
  <2>1. Cardinality(Below(Partial, c)) \in Nat
        /\ Cardinality(Below(Partial, c)) + 1 \in 1 .. Cardinality(Partial)
    BY <1>1, BelowBounded, BelowFinite
  <2>2. PICK i \in 1 .. Cardinality(Partial) : i = Cardinality(Below(Partial, c)) + 1
    BY <2>1
  <2>3. /\ Assembled[i] \in Partial
        /\ Cardinality(Below(Partial, Assembled[i])) = Cardinality(Below(Partial, c))
    BY <1>4, <2>1, <2>2
  <2> DEFINE a == Assembled[i]
  <2> HIDE DEF a
  <2>4. a \in Partial /\ Cardinality(Below(Partial, a)) = Cardinality(Below(Partial, c))
    BY <2>3 DEF a
  <2>5. a = c
    BY <1>1, <2>4, BelowInjective
  <2> QED
    BY <2>5 DEF a
<1> QED
  BY <1>2, <1>3, <1>4, <1>5, <1>6

\* What ChatNormalizer::finalize reports.
Final == [i \in DOMAIN Assembled |-> CallEvent(Assembled[i], norm.partial[Assembled[i]])]
         \o <<End("completed")>>

LEMMA FinalIs ==
    ASSUME Typed, IsFiniteSet(Partial)
    PROVE  LET n == Cardinality(Partial) IN
           /\ n \in Nat /\ Final \in Seq(Events) /\ Len(Final) = n + 1
           /\ \A i \in 1 .. n : Final[i] = CallEvent(Assembled[i], norm.partial[Assembled[i]])
           /\ Final[n + 1] = End("completed")
<1> DEFINE n == Cardinality(Partial)
           calls == [i \in 1 .. n |-> CallEvent(Assembled[i], norm.partial[Assembled[i]])]
<1>1. n \in Nat /\ Assembled \in [1 .. n -> Partial]
  BY AssembledLists
<1>2. \A i \in 1 .. n : CallEvent(Assembled[i], norm.partial[Assembled[i]]) \in Events
  BY <1>1, PartialType, EventType
<1>3. calls \in Seq(Events) /\ Len(calls) = n
  BY <1>1, <1>2
<1>4. End("completed") \in Events
  BY EventType DEF Kinds
<1>5. Final = calls \o <<End("completed")>>
  BY <1>1 DEF Final
<1>6. \A i \in 1 .. n : calls[i] = CallEvent(Assembled[i], norm.partial[Assembled[i]])
  OBVIOUS
<1> HIDE DEF calls, n
<1>7. Final \in Seq(Events) /\ Len(Final) = n + 1
  BY <1>1, <1>3, <1>4, <1>5
<1>8. /\ \A i \in 1 .. n : Final[i] = calls[i]
      /\ Final[n + 1] = End("completed")
  BY <1>1, <1>3, <1>4, <1>5
<1> QED
  BY <1>1, <1>6, <1>7, <1>8 DEF n

\* The parts of the type the steps change together.
OfSystem == /\ protocol \in Protocols /\ phase \in Phases /\ request \in 0..MaxRequests
            /\ cancelled \in BOOLEAN /\ warned \in BOOLEAN
OfNorm   == norm \in [partial : Partials, finished : Seq(Ids), text : Nat,
                      terminal : BOOLEAN]
OfEvents == pending \in Seq(Items) /\ out \in Seq(Items) /\ warning \in {0, request}
OfRecord == messages \in Seq(Entries) /\ previous \in 0..request
OfServer == server \in [text : Nat, calls : [Calls -> Args], opened : SUBSET Calls,
                        closed : SUBSET Calls, created : BOOLEAN, whole : BOOLEAN,
                        cut : BOOLEAN]

LEMMA TypedIs ==
    /\ Typed <=> OfSystem /\ OfNorm /\ OfEvents /\ OfRecord /\ OfServer
    /\ Typed' <=> (OfSystem /\ OfNorm /\ OfEvents /\ OfRecord /\ OfServer)'
BY DEF Typed, OfSystem, OfNorm, OfEvents, OfRecord, OfServer

LEMMA TypedInit == Init => Typed
<1> SUFFICES ASSUME Init PROVE Typed
  OBVIOUS
<1>1. OfSystem
  <2>1. 0 \in 0 .. MaxRequests
    BY BoundsAre
  <2> QED
    BY <2>1 DEF Init, OfSystem, Phases
<1>2. OfNorm /\ OfServer
  BY FreshType DEF Init, OfNorm, OfServer
<1>3. OfEvents /\ OfRecord
  BY DEF Init, OfEvents, OfRecord
<1> QED
  BY <1>1, <1>2, <1>3, TypedIs

LEMMA CallsInType ==
    ASSUME Typed
    PROVE  CallsIn(out) \subseteq {<<>>} \cup Ids
<1> SUFFICES ASSUME NEW i \in DOMAIN out, out[i].event.kind = "call"
             PROVE  out[i].event.call \in {<<>>} \cup Ids
  BY DEF CallsIn
<1>1. out[i] \in Items
  BY DEF Typed
<1>2. out[i].event \in Events
  BY <1>1 DEF Items
<1> QED
  BY <1>2 DEF Events

LEMMA KeepType ==
    ASSUME Typed, NEW role \in {"user", "assistant", "tool"},
           NEW ids \in SUBSET ({<<>>} \cup Ids), Keep(Entry(role, ids))
    PROVE  messages' \in Seq(Entries)
BY EntryType DEF Keep, Typed

\* While the body is read, the calls being put together are the open ones.
LEMMA ReadingPartial ==
    ASSUME Assembling, Reading
    PROVE  Partial = server.opened \ server.closed
BY DEF Assembling, Reading, Done

LEMMA TypedNext == Typed /\ Assembling /\ [Next]_vars => Typed'
<1> SUFFICES ASSUME Typed, Assembling, [Next]_vars
             PROVE  Typed'
  OBVIOUS
<1>a. IsFiniteSet(Partial)
  BY DEF Assembling
<1>t. OfSystem /\ OfNorm /\ OfEvents /\ OfRecord /\ OfServer
  BY TypedIs
<1>n. <<>> \in Seq(Items)
  OBVIOUS
<1>1. ASSUME NEW warns \in BOOLEAN, Send(warns)
      PROVE  Typed'
  <2>1. request' \in 0 .. MaxRequests /\ request' = request + 1 /\ request \in Nat
    BY <1>1, RequestIs, BoundsAre DEF Send
  <2>2. OfSystem'
    BY <1>1, <1>t, <2>1 DEF Send, Gate, OfSystem, Phases
  <2>3. OfNorm' /\ OfServer'
    BY <1>1, FreshType DEF Send, OfNorm, OfServer
  <2>4. OfEvents'
    BY <1>1, <1>n, <2>1 DEF Send, Gate, OfEvents
  <2>5. messages' \in Seq(Entries)
    BY <1>1, <1>t, KeepType DEF Send, OfRecord
  <2>6. OfRecord'
    BY <1>1, <1>t, <2>1, <2>5 DEF Send, OfRecord
  <2> QED
    BY <2>2, <2>3, <2>4, <2>6, TypedIs
<1>2. CASE SubmitToolResults
  <2>1. request' \in 0 .. MaxRequests /\ request' = request + 1 /\ request \in Nat
    BY <1>2, RequestIs, BoundsAre DEF SubmitToolResults
  <2>2. OfSystem'
    BY <1>2, <1>t, <2>1 DEF SubmitToolResults, OfSystem, Phases
  <2>3. OfNorm' /\ OfServer'
    BY <1>2, FreshType DEF SubmitToolResults, OfNorm, OfServer
  <2>4. OfEvents'
    BY <1>2, <1>n, <2>1 DEF SubmitToolResults, OfEvents
  <2>5. messages' \in Seq(Entries)
    BY <1>2, CallsInType, KeepType DEF SubmitToolResults
  <2>6. OfRecord'
    BY <1>2, <1>t, <2>1, <2>5 DEF SubmitToolResults, OfRecord
  <2> QED
    BY <2>2, <2>3, <2>4, <2>6, TypedIs
<1>3. CASE LeaveTools \/ Cancel \/ Refused \/ Drop
  <2>1. OfSystem'
    BY <1>3, <1>t DEF LeaveTools, Cancel, Refused, Drop, OfSystem, Phases
  <2>2. OfEvents'
    BY <1>3, <1>t DEF LeaveTools, Cancel, Refused, Drop, OfEvents
  <2>3. (OfNorm /\ OfServer /\ OfRecord)'
    BY <1>3, <1>t DEF LeaveTools, Cancel, Refused, Drop, OfNorm, OfServer, OfRecord
  <2> QED
    BY <2>1, <2>2, <2>3, TypedIs
<1>s. ASSUME NEW k \in Kinds, NEW w \in Nat
      PROVE  [event |-> End(k), warning |-> w] \in Items
  BY EventType DEF Items
<1>4. CASE Connect
  <2>1. OfSystem'
    BY <1>4, <1>t DEF Connect, OfSystem, Phases
  <2> DEFINE x == [event |-> End("cancelled"), warning |-> 0]
  <2>2. x \in Items
    BY <1>s DEF Kinds
  <2>6. out' = <<x>> \/ out' = out
    BY <1>4 DEF Connect
  <2> HIDE DEF x
  <2>5. out' \in Seq(Items)
    BY <1>t, <2>2, <2>6, OneInSeq DEF OfEvents
  <2>3. OfEvents'
    BY <1>4, <1>t, <2>5 DEF Connect, OfEvents
  <2>4. (OfNorm /\ OfServer /\ OfRecord)'
    BY <1>4, <1>t DEF Connect, OfNorm, OfServer, OfRecord
  <2> QED
    BY <2>1, <2>3, <2>4, TypedIs
<1>5. CASE StreamCancelled
  <2>1. <<End("cancelled")>> \in Seq(Events)
    BY EventType DEF Kinds
  <2>2. Stamped(<<End("cancelled")>>) \in Seq(Items)
    BY <2>1, StampedType
  <2>3. OfEvents'
    BY <1>5, <1>t, <2>2 DEF StreamCancelled, OfEvents
  <2>4. OfSystem'
    BY <1>5, <1>t DEF StreamCancelled, OfSystem, Phases
  <2>5. (OfNorm /\ OfServer /\ OfRecord)'
    BY <1>5, <1>t DEF StreamCancelled, OfNorm, OfServer, OfRecord
  <2> QED
    BY <2>3, <2>4, <2>5, TypedIs
<1>6. CASE Deliver
  <2>1. OfSystem'
    BY <1>6, <1>t DEF Deliver, OfSystem, Phases
  <2>2. OfEvents'
    BY <1>6, <1>t DEF Deliver, OfEvents
  <2>3. (OfNorm /\ OfServer /\ OfRecord)'
    BY <1>6, <1>t DEF Deliver, OfNorm, OfServer, OfRecord
  <2> QED
    BY <2>1, <2>2, <2>3, TypedIs
\* The steps that read the body leave the turn where it is.
<1>r. ASSUME UNCHANGED streamRest, OfNorm', OfServer', OfRecord',
             UNCHANGED <<warning, pending>> \/ \E es \in Seq(Events) : Emitted(es)
      PROVE  Typed'
  <2>1. OfSystem'
    BY <1>r, <1>t DEF OfSystem, streamRest
  <2>2. OfEvents'
    BY <1>r, <1>t, EmittedType DEF OfEvents, streamRest
  <2> QED
    BY <1>r, <2>1, <2>2, TypedIs
<1>c. /\ norm.text \in Nat /\ norm.finished \in Seq(Ids) /\ norm.partial \in Partials
      /\ server.text \in Nat /\ server.calls \in [Calls -> Args]
      /\ server.opened \subseteq Calls /\ server.closed \subseteq Calls
  BY <1>t DEF OfNorm, OfServer
<1>7. CASE Created
  <2>1. OfRecord'
    BY <1>7, <1>t, RequestIs DEF Created, OfRecord, streamRest
  <2>2. OfServer' /\ OfNorm'
    BY <1>7, <1>t DEF Created, OfServer, OfNorm
  <2> QED
    BY <1>7, <1>r, <2>1, <2>2 DEF Created
<1>8. CASE TextPiece
  <2>1. <<TextEvent>> \in Seq(Events)
    BY EventType
  <2>2. OfServer' /\ OfNorm'
    <3>1. OfServer'
      BY <1>8, <1>t, <1>c DEF TextPiece, OfServer
    <3>2. OfNorm'
      BY <1>8, <1>t, <1>c DEF TextPiece, OfNorm
    <3> QED
      BY <3>1, <3>2
  <2>3. OfRecord'
    BY <1>8, <1>t DEF TextPiece, OfRecord, streamRest
  <2> QED
    BY <1>8, <1>r, <2>1, <2>2, <2>3 DEF TextPiece
<1>e. <<>> \in Args
  BY DEF Args
<1>9. ASSUME NEW c \in Calls, OpenCall(c)
      PROVE  Typed'
  <2> DEFINE f == [d \in Partial \cup {c} |-> IF d = c THEN <<>> ELSE norm.partial[d]]
  <2>1. f \in [Partial \cup {c} -> Args]
    BY <1>e, PartialType
  <2>2. f \in Partials
    BY <2>1, PartialType, PartialsAre
  <2>3. norm' = [norm EXCEPT !.partial = f]
    BY <1>9 DEF OpenCall, Partial
  <2> HIDE DEF f
  <2>4. OfServer' /\ OfNorm'
    BY <1>9, <1>t, <1>c, <2>2, <2>3 DEF OpenCall, OfServer, OfNorm
  <2>5. OfRecord'
    BY <1>9, <1>t DEF OpenCall, OfRecord, streamRest
  <2> QED
    BY <1>9, <1>r, <2>4, <2>5 DEF OpenCall
<1>10. ASSUME NEW c \in Calls, ArgumentPiece(c)
       PROVE  Typed'
  <2>p. c \in Partial
    BY <1>10, ReadingPartial DEF ArgumentPiece
  <2> DEFINE piece == Len(server.calls[c]) + 1
             f == [norm.partial EXCEPT ![c] = Append(@, <<c, piece>>)]
             g == [server.calls EXCEPT ![c] = Append(@, <<c, piece>>)]
  <2>1. piece \in Nat
    BY <1>c DEF Args
  <2>2. g \in [Calls -> Args]
    BY <1>c, <2>1 DEF Args
  <2>3. f \in [Partial -> Args]
    BY <2>1, <2>p, PartialType DEF Args
  <2>4. f \in Partials
    BY <2>3, PartialType, PartialsAre
  <2>5. norm' = [norm EXCEPT !.partial = f] /\ server' = [server EXCEPT !.calls = g]
    BY <1>10, <1>t DEF ArgumentPiece, Index, OfNorm, OfServer
  <2> HIDE DEF f, g, piece
  <2>6. OfServer' /\ OfNorm'
    BY <1>t, <2>2, <2>4, <2>5 DEF OfServer, OfNorm
  <2>7. OfRecord'
    BY <1>10, <1>t DEF ArgumentPiece, OfRecord, streamRest
  <2> QED
    BY <1>10, <1>r, <2>6, <2>7 DEF ArgumentPiece
<1>11. ASSUME NEW c \in Calls, CloseCall(c)
       PROVE  Typed'
  <2>p. c \in Partial
    BY <1>11, ReadingPartial DEF CloseCall
  <2> DEFINE f == [d \in Partial \ {c} |-> norm.partial[d]]
  <2>1. f \in [Partial \ {c} -> Args] /\ norm.partial[c] \in Args
    BY <2>p, PartialType
  <2>2. f \in Partials
    BY <2>1, PartialType, PartialsAre
  <2>3. norm' = [norm EXCEPT !.partial = f, !.finished = Append(@, Id(c))]
    BY <1>11 DEF CloseCall, Partial
  <2>4. Id(c) \in Ids
    BY RequestIs DEF Id, Ids
  <2> HIDE DEF f
  <2>5. OfServer' /\ OfNorm'
    <3>1. OfServer'
      BY <1>11, <1>t, <1>c DEF CloseCall, OfServer
    <3>2. Append(norm.finished, Id(c)) \in Seq(Ids)
      BY <1>c, <2>4
    <3>3. OfNorm'
      BY <1>t, <2>2, <2>3, <3>2 DEF OfNorm
    <3> QED
      BY <3>1, <3>3
  <2>6. OfRecord'
    BY <1>11, <1>t DEF CloseCall, OfRecord, streamRest
  <2>7. PICK as \in {norm.partial[c], server.calls[c]} : Emitted(<<CallEvent(c, as)>>)
    BY <1>11 DEF CloseCall
  <2>8. as \in Args
    BY <1>c, <2>1
  <2>9. CallEvent(c, as) \in Events
    BY <2>8, EventType
  <2>10. <<CallEvent(c, as)>> \in Seq(Events)
    BY <2>9, OneInSeq
  <2> QED
    BY <1>11, <1>r, <2>5, <2>6, <2>7, <2>10 DEF CloseCall
<1>i. \A c \in Calls : Id(c) \in Ids
  BY RequestIs DEF Id, Ids
<1>12. ASSUME Finalize
       PROVE  /\ OfNorm' /\ messages' \in Seq(Entries)
              /\ \E es \in Seq(Events) : Emitted(es)
  <2>1. [c \in {} |-> <<>>] \in Partials
    BY PartialsAre
  <2>2. OfNorm'
    BY <1>12, <1>t, <2>1 DEF Finalize, OfNorm
  <2>3. {Id(c) : c \in Partial} \subseteq Ids
    BY <1>i, PartialType
  <2>4. messages' \in Seq(Entries)
    BY <1>12, <2>3, EntryType DEF Finalize, Partial
  <2>5. Final \in Seq(Events)
    BY <1>a, FinalIs
  <2>6. Emitted(Final)
    BY <1>12 DEF Finalize, Final
  <2> QED
    BY <2>2, <2>4, <2>5, <2>6
<1>f. ToSet(norm.finished) \subseteq Ids
  BY <1>c DEF ToSet
<1>13. \A k \in Kinds : <<End(k)>> \in Seq(Events)
  BY EventType
<1>14. CASE Whole
  <2>1. OfServer'
    BY <1>14, <1>t DEF Whole, OfServer
  <2>2. \/ Finalize /\ previous' = previous
        \/ /\ messages' = Append(messages, Entry("assistant", ToSet(norm.finished)))
           /\ Emitted(<<End("completed")>>)
           /\ norm' = [norm EXCEPT !.terminal = TRUE] /\ previous' = previous
        \/ /\ previous' = request /\ messages' = messages
           /\ Emitted(<<End("completed")>>)
           /\ norm' = [norm EXCEPT !.terminal = TRUE]
    BY <1>14 DEF Whole
  <2>3. messages' \in Seq(Entries)
    BY <1>12, <1>f, <1>t, <2>2, EntryType DEF OfRecord
  <2>4. OfNorm'
    BY <1>12, <1>t, <2>2 DEF OfNorm
  <2>5. OfRecord'
    BY <1>14, <1>t, <2>2, <2>3, RequestIs DEF OfRecord, Whole, streamRest
  <2>6. \E es \in Seq(Events) : Emitted(es)
    BY <1>12, <1>13, <2>2 DEF Kinds
  <2> QED
    BY <1>14, <1>r, <2>1, <2>4, <2>5, <2>6 DEF Whole
<1>15. CASE CutShort
  <2>1. OfServer'
    BY <1>15, <1>t DEF CutShort, OfServer
  <2>2. \/ Finalize
        \/ /\ messages' = messages
           /\ Emitted(<<End("completed")>>)
           /\ norm' = [norm EXCEPT !.terminal = TRUE]
    BY <1>15 DEF CutShort
  <2>3. OfNorm' /\ messages' \in Seq(Entries)
    BY <1>12, <1>t, <2>2 DEF OfNorm, OfRecord
  <2>4. OfRecord'
    BY <1>15, <1>t, <2>3 DEF OfRecord, CutShort, streamRest
  <2>5. \E es \in Seq(Events) : Emitted(es)
    BY <1>12, <1>13, <2>2 DEF Kinds
  <2> QED
    BY <1>15, <1>r, <2>1, <2>3, <2>4, <2>5 DEF CutShort
<1>16. CASE Broken
  <2>1. OfServer' /\ OfNorm'
    BY <1>16, <1>t DEF Broken, OfServer, OfNorm
  <2>2. OfRecord'
    BY <1>16, <1>t DEF Broken, OfRecord, streamRest
  <2>3. \E es \in Seq(Events) : Emitted(es)
    BY <1>13, <1>16 DEF Broken, Kinds
  <2> QED
    BY <1>16, <1>r, <2>1, <2>2, <2>3 DEF Broken
<1>17. CASE UNCHANGED vars
  BY <1>17, <1>t, TypedIs DEF vars, OfSystem, OfNorm, OfEvents, OfRecord, OfServer
<1> QED
  BY <1>1, <1>2, <1>3, <1>4, <1>5, <1>6, <1>7, <1>8, <1>9, <1>10, <1>11, <1>14, <1>15,
     <1>16, <1>17
     DEF Next

-------------------------------------------------------------------------------
(* Putting calls together *)

LEMMA AssemblingFresh == norm = Fresh /\ server = NoAnswer => Assembling
<1> SUFFICES ASSUME norm = Fresh, server = NoAnswer
             PROVE  Assembling
  OBVIOUS
<1>1. Partial = {} /\ norm.finished = <<>> /\ server.opened = {} /\ server.closed = {}
      /\ server.whole = FALSE /\ \A c \in Calls : server.calls[c] = <<>>
  BY DEF Fresh, NoAnswer, Partial
<1>2. ToSet(norm.finished) = {}
  BY <1>1 DEF ToSet
<1>3. IsFiniteSet(Partial)
  BY <1>1, FS_EmptySet
<1> QED
  BY <1>1, <1>2, <1>3 DEF Assembling, Done

\* What it depends on.
LEMMA AssemblingKept ==
    ASSUME Assembling, UNCHANGED <<protocol, request>>, Partial' = Partial,
           UNCHANGED <<norm.partial, norm.finished, norm.terminal, server.calls,
                       server.opened, server.closed, server.whole>>
    PROVE  Assembling'
BY DEF Assembling, Done, Has, Id

LEMMA ToSetAppend ==
    ASSUME NEW S, NEW s \in Seq(S), NEW x \in S
    PROVE  ToSet(Append(s, x)) = ToSet(s) \cup {x}
<1>1. /\ DOMAIN s = 1 .. Len(s) /\ DOMAIN Append(s, x) = 1 .. Len(s) + 1 /\ Len(s) \in Nat
      /\ \A i \in 1 .. Len(s) : Append(s, x)[i] = s[i]
      /\ Append(s, x)[Len(s) + 1] = x
  OBVIOUS
<1>2. 1 .. Len(s) + 1 = 1 .. Len(s) \cup {Len(s) + 1}
  BY <1>1
<1> QED
  BY <1>1, <1>2 DEF ToSet

LEMMA AssemblingNext == Typed /\ Assembling /\ [Next]_vars => Assembling'
<1> SUFFICES ASSUME Typed, Assembling, [Next]_vars
             PROVE  Assembling'
  OBVIOUS
<1>t. OfNorm /\ OfServer
  BY TypedIs
<1>k. ASSUME UNCHANGED <<protocol, request, norm, server>>
      PROVE  Assembling'
  BY <1>k, AssemblingKept DEF Partial
<1>f. (norm = Fresh /\ server = NoAnswer)' => Assembling'
  BY AssemblingFresh, PTL
<1>1. CASE SubmitToolResults \/ \E warns \in BOOLEAN : Send(warns)
  BY <1>1, <1>f DEF SubmitToolResults, Send
<1>2. CASE LeaveTools \/ Cancel \/ Connect \/ Refused \/ StreamCancelled \/ Deliver \/ Drop
              \/ UNCHANGED vars
  BY <1>2, <1>k DEF LeaveTools, Cancel, Connect, Refused, StreamCancelled, Deliver, Drop, vars
<1>3. CASE Created
  <2>1. UNCHANGED <<protocol, request, norm>>
        /\ UNCHANGED <<server.calls, server.opened, server.closed, server.whole>>
    BY <1>3, <1>t DEF Created, streamRest, OfServer
  <2> QED
    BY <2>1, AssemblingKept DEF Partial
<1>4. CASE TextPiece
  <2>1. UNCHANGED <<protocol, request>>
        /\ UNCHANGED <<server.calls, server.opened, server.closed, server.whole>>
    BY <1>4, <1>t DEF TextPiece, streamRest, OfServer
  <2>2. UNCHANGED <<norm.partial, norm.finished, norm.terminal>>
    BY <1>4, <1>t DEF TextPiece, OfNorm
  <2> QED
    BY <2>1, <2>2, AssemblingKept DEF Partial
<1>5. CASE Broken
  <2>1. /\ UNCHANGED <<protocol, request, server, norm.partial, norm.finished>>
        /\ norm'.terminal = TRUE
    BY <1>5, <1>t DEF Broken, streamRest, OfNorm
  <2>2. ~norm.terminal
    BY <1>5 DEF Broken, Reading
  <2> QED
    BY <2>1, <2>2 DEF Assembling, Done, Partial, Has, Id
<1>6. ASSUME NEW c \in Calls, OpenCall(c)
      PROVE  Assembling'
  <2>1. /\ UNCHANGED <<protocol, request, server.calls, server.closed, server.whole>>
        /\ server'.opened = server.opened \cup {c}
        /\ c \notin server.opened
    BY <1>6, <1>t DEF OpenCall, streamRest, OfServer
  <2>2. /\ UNCHANGED <<norm.finished, norm.terminal>> /\ ~norm.terminal
        /\ norm'.partial = [d \in Partial \cup {c} |-> IF d = c THEN <<>> ELSE norm.partial[d]]
    BY <1>6, <1>t DEF OpenCall, OfNorm, Partial, Reading
  <2>3. Partial' = Partial \cup {c} /\ Done' = Done
    BY <2>1, <2>2 DEF Partial, Done, Assembling
  <2>4. IsFiniteSet(Partial')
    BY <2>3, FS_AddElement DEF Assembling
  <2>5. server.calls[c] = <<>>
    BY <2>1 DEF Assembling
  <2>6. \A d \in Partial' : norm'.partial[d] = server'.calls[d]
    BY <2>1, <2>2, <2>3, <2>5 DEF Assembling
  <2> QED
    BY <2>1, <2>2, <2>3, <2>4, <2>6 DEF Assembling, Has, Id
<1>7. ASSUME NEW c \in Calls, ArgumentPiece(c)
      PROVE  Assembling'
  <2> DEFINE piece == Len(server.calls[c]) + 1
             g == [server.calls EXCEPT ![c] = Append(@, <<c, piece>>)]
             f == [norm.partial EXCEPT ![c] = Append(@, <<c, piece>>)]
  <2>1. c \in Partial /\ c \in server.opened
    BY <1>7, ReadingPartial DEF ArgumentPiece
  <2>2. /\ UNCHANGED <<protocol, request, server.opened, server.closed, server.whole>>
        /\ server'.calls = g
    BY <1>7, <1>t DEF ArgumentPiece, streamRest, OfServer
  <2>3. UNCHANGED <<norm.finished, norm.terminal>> /\ norm'.partial = f
    BY <1>7, <1>t DEF ArgumentPiece, Index, OfNorm
  <2>4. norm.partial \in [Partial -> Args] /\ server.calls \in [Calls -> Args]
        /\ Partial \subseteq Calls
    BY <1>t, PartialType DEF OfServer
  <2>5. Partial' = Partial
    BY <2>3, <2>4 DEF Partial
  <2>6. \A d \in Partial : f[d] = g[d]
    BY <2>1, <2>4 DEF Assembling
  <2>7. \A d \in Calls \ server.opened : g[d] = server.calls[d]
    BY <2>1, <2>4
  <2> HIDE DEF f, g
  <2>8. ~server.whole
    BY <1>7 DEF ArgumentPiece, Reading, Assembling
  <2> QED
    BY <2>2, <2>3, <2>5, <2>6, <2>7, <2>8 DEF Assembling, Done, Has, Id
<1>8. ASSUME NEW c \in Calls, CloseCall(c)
      PROVE  Assembling'
  <2>1. c \in Partial /\ c \in server.opened /\ ~Has({"chat_completions"})
        /\ ~norm.terminal
    BY <1>8, ReadingPartial DEF CloseCall, Reading
  <2>2. /\ UNCHANGED <<protocol, request, server.opened, server.calls, server.whole>>
        /\ server'.closed = server.closed \cup {c}
    BY <1>8, <1>t DEF CloseCall, streamRest, OfServer
  <2>3. /\ UNCHANGED norm.terminal
        /\ norm'.partial = [d \in Partial \ {c} |-> norm.partial[d]]
        /\ norm'.finished = Append(norm.finished, Id(c))
    BY <1>8, <1>t DEF CloseCall, OfNorm, Partial
  <2>4. Partial' = Partial \ {c} /\ \A d \in Partial' : norm'.partial[d] = norm.partial[d]
    BY <2>3 DEF Partial
  <2>5. Done' = Done \cup {c}
    BY <2>1, <2>2, <2>4 DEF Done
  <2>6. IsFiniteSet(Partial')
    BY <2>4, FS_RemoveElement DEF Assembling
  <2>7. Id(c) \in Ids /\ norm.finished \in Seq(Ids)
    BY <1>t, RequestIs DEF Id, Ids, OfNorm
  <2>8. ToSet(norm'.finished) = ToSet(norm.finished) \cup {Id(c)}
    BY <2>3, <2>7, ToSetAppend
  <2>9. ToSet(norm'.finished) = {Id(d) : d \in server'.closed}
    BY <2>2, <2>8 DEF Assembling
  <2>10. ~server.whole
    BY <2>1 DEF Assembling
  <2> QED
    BY <2>1, <2>2, <2>3, <2>4, <2>5, <2>6, <2>9, <2>10 DEF Assembling, Has, Id
\* The end of the body.
<1>9. ASSUME Finalize, Has({"chat_completions"}), Reading, UNCHANGED <<protocol, request>>,
             UNCHANGED <<server.opened, server.calls, server.closed>>
      PROVE  Assembling'
  <2>1. /\ norm'.terminal = TRUE /\ norm'.finished = norm.finished
        /\ norm'.partial = [c \in {} |-> <<>>]
    BY <1>9, <1>t DEF Finalize, OfNorm
  <2>2. Partial' = {} /\ IsFiniteSet(Partial')
    BY <2>1, FS_EmptySet DEF Partial
  <2> QED
    BY <1>9, <2>1, <2>2 DEF Assembling, Done, Has, Id
<1>10. ASSUME norm' = [norm EXCEPT !.terminal = TRUE], Reading,
              UNCHANGED <<protocol, request>>,
              UNCHANGED <<server.opened, server.calls, server.closed>>,
              ~Has({"chat_completions"}),
              server'.whole => Partial = {}
       PROVE  Assembling'
  <2>1. /\ norm'.terminal = TRUE /\ norm'.finished = norm.finished
        /\ norm'.partial = norm.partial
    BY <1>10, <1>t DEF OfNorm
  <2> QED
    BY <1>10, <2>1 DEF Assembling, Done, Partial, Has, Id
<1>11. CASE Whole
  <2>1. UNCHANGED <<protocol, request>> /\ Reading
        /\ UNCHANGED <<server.opened, server.calls, server.closed>>
    BY <1>11, <1>t DEF Whole, streamRest, OfServer
  <2>2. CASE Has({"chat_completions"}) /\ Finalize
    BY <1>9, <2>1, <2>2
  <2>3. CASE ~Has({"chat_completions"}) /\ norm' = [norm EXCEPT !.terminal = TRUE]
    <3>1. server.opened = server.closed
      BY <1>11, <2>3 DEF Whole
    <3>2. Partial = {}
      BY <2>1, <3>1, ReadingPartial
    <3> QED
      BY <1>10, <2>1, <2>3, <3>2
  <2> QED
    BY <1>11, <2>2, <2>3 DEF Whole, Has
<1>12. CASE CutShort
  <2>1. UNCHANGED <<protocol, request>> /\ Reading
        /\ UNCHANGED <<server.opened, server.calls, server.closed, server.whole>>
    BY <1>12, <1>t DEF CutShort, streamRest, OfServer
  <2>2. CASE Has({"chat_completions"}) /\ Finalize
    BY <1>9, <2>1, <2>2
  <2>3. CASE ~Has({"chat_completions"}) /\ norm' = [norm EXCEPT !.terminal = TRUE]
    <3>1. ~server'.whole
      BY <2>1 DEF Assembling, Reading
    <3> QED
      BY <1>10, <2>1, <2>3, <3>1
  <2> QED
    BY <1>12, <2>2, <2>3 DEF CutShort
<1> QED
  BY <1>1, <1>2, <1>3, <1>4, <1>5, <1>6, <1>7, <1>8, <1>11, <1>12 DEF Next

-------------------------------------------------------------------------------
(* The events of a request *)

LEMMA ConcatAt ==
    ASSUME NEW S, NEW s \in Seq(S), NEW t \in Seq(S)
    PROVE  /\ s \o t \in Seq(S) /\ Len(s) \in Nat /\ Len(t) \in Nat
           /\ Len(s \o t) = Len(s) + Len(t)
           /\ \A i \in 1 .. Len(s) : (s \o t)[i] = s[i]
           /\ \A i \in 1 .. Len(t) : (s \o t)[Len(s) + i] = t[i]
OBVIOUS

LEMMA ProducedIs ==
    ASSUME Typed
    PROVE  /\ Produced \in Seq(Items) /\ Len(Produced) \in Nat
           /\ Len(out) \in Nat /\ Len(pending) \in Nat
           /\ Len(Produced) = Len(out) + Len(pending)
           /\ DOMAIN Produced = 1 .. Len(Produced)
           /\ DOMAIN out = 1 .. Len(out) /\ DOMAIN pending = 1 .. Len(pending)
           /\ \A i \in 1 .. Len(out) : Produced[i] = out[i]
           /\ \A i \in 1 .. Len(pending) : Produced[Len(out) + i] = pending[i]
<1>1. out \in Seq(Items) /\ pending \in Seq(Items)
  BY DEF Typed
<1> QED
  BY <1>1 DEF Produced

\* A step adds the events `es` to those produced.
Extends(es) ==
    LET n == Len(Produced) IN
    /\ Len(Produced') = n + Len(es)
    /\ \A i \in 1 .. n : Produced'[i] = Produced[i]
    /\ \A j \in 1 .. Len(es) : /\ Produced'[n + j].event = es[j]
                               /\ Produced'[n + j].warning = IF j = 1 THEN warning ELSE 0

LEMMA StampedExtends ==
    ASSUME Typed, NEW es \in Seq(Events), Produced' = Produced \o Stamped(es)
    PROVE  Extends(es)
<1> DEFINE s == Stamped(es)
<1>0. /\ s \in Seq(Items) /\ Len(s) = Len(es)
      /\ \A j \in 1 .. Len(es) :
            s[j] = [event |-> es[j], warning |-> IF j = 1 THEN warning ELSE 0]
  BY StampedType
<1>1. \A j \in 1 .. Len(es) : s[j].event = es[j] /\ s[j].warning = IF j = 1 THEN warning ELSE 0
  <2> SUFFICES ASSUME NEW j \in 1 .. Len(es)
               PROVE  s[j].event = es[j] /\ s[j].warning = IF j = 1 THEN warning ELSE 0
    OBVIOUS
  <2>1. s[j] = [event |-> es[j], warning |-> IF j = 1 THEN warning ELSE 0]
    BY <1>0
  <2> QED
    BY <2>1
<1>a. s \in Seq(Items)
  BY <1>0
<1> HIDE DEF s
<1>2. Produced \in Seq(Items)
  BY ProducedIs
<1>3. /\ Len(Produced \o s) = Len(Produced) + Len(s)
      /\ \A i \in 1 .. Len(Produced) : (Produced \o s)[i] = Produced[i]
      /\ \A j \in 1 .. Len(s) : (Produced \o s)[Len(Produced) + j] = s[j]
  BY <1>2, <1>a, ConcatAt
<1>6. Produced' = Produced \o s
  BY DEF s
<1> QED
  BY <1>0, <1>1, <1>3, <1>6 DEF Extends

LEMMA EmittedExtends ==
    ASSUME Typed, NEW es \in Seq(Events), Emitted(es), out' = out
    PROVE  Extends(es)
<1>1. out \in Seq(Items) /\ pending \in Seq(Items) /\ Stamped(es) \in Seq(Items)
  BY StampedType DEF Typed
<1>2. (out \o pending) \o Stamped(es) = out \o (pending \o Stamped(es))
  BY <1>1, ConcatAssociative
<1> QED
  BY <1>2, StampedExtends DEF Emitted, Produced

LEMMA Delivered ==
    ASSUME Typed, Deliver
    PROVE  /\ Produced' = Produced
           /\ out' \in Seq(Items) /\ pending' \in Seq(Items)
           /\ Len(out') = Len(out) + 1 /\ out'[Len(out) + 1] = Head(pending)
           /\ \A i \in 1 .. Len(out) : out'[i] = out[i]
           /\ Len(pending) \in Nat \ {0} /\ Len(pending') = Len(pending) - 1
           /\ Head(pending) = pending[1]
           /\ \A i \in 1 .. Len(pending') : pending'[i] = pending[i + 1]
<1>1. out \in Seq(Items) /\ pending \in Seq(Items) /\ pending # <<>>
  BY DEF Typed, Deliver
<1>2. out' = Append(out, Head(pending)) /\ pending' = Tail(pending)
  BY DEF Deliver
<1>3. Append(out, Head(pending)) \o Tail(pending) = out \o pending
  <2>1. Head(pending) \in Items /\ Tail(pending) \in Seq(Items)
        /\ Len(pending) \in Nat \ {0} /\ Len(Tail(pending)) = Len(pending) - 1
        /\ Head(pending) = pending[1]
        /\ \A i \in 1 .. Len(Tail(pending)) : Tail(pending)[i] = pending[i + 1]
    BY <1>1
  <2> DEFINE h == Head(pending)
             t == Tail(pending)
             l == Append(out, h)
  <2> HIDE DEF h, t
  <2>2. /\ l \in Seq(Items) /\ Len(l) = Len(out) + 1 /\ Len(out) \in Nat
        /\ l[Len(out) + 1] = h
        /\ \A i \in 1 .. Len(out) : l[i] = out[i]
    BY <1>1, <2>1 DEF h
  <2> HIDE DEF l
  <2>3. /\ l \o t \in Seq(Items) /\ out \o pending \in Seq(Items)
        /\ Len(l \o t) = Len(out \o pending)
    BY <1>1, <2>1, <2>2 DEF t
  <2>6. Len(out \o pending) \in Nat
    BY <2>3
  <2>4. ASSUME NEW i \in 1 .. Len(out \o pending)
        PROVE  (l \o t)[i] = (out \o pending)[i]
    <3>1. CASE i <= Len(out)
      BY <1>1, <2>1, <2>2, <3>1 DEF t
    <3>2. CASE i = Len(out) + 1
      BY <1>1, <2>1, <2>2, <3>2 DEF t, h
    <3>3. CASE i > Len(out) + 1
      <4>5. /\ i \in 1 .. Len(out) + Len(pending) /\ Len(out) \in Nat /\ Len(l) = Len(out) + 1
            /\ Len(pending) \in Nat /\ Len(t) = Len(pending) - 1
        BY <1>1, <2>1, <2>2, ConcatAt DEF t
      <4>6. i - Len(out) - 1 \in 1 .. Len(t)
        BY <3>3, <4>5
      <4>0. i - Len(out) - 1 \in 1 .. Len(t) /\ i = Len(l) + (i - Len(out) - 1)
        BY <4>5, <4>6
      <4>4. t \in Seq(Items)
        BY <2>1 DEF t
      <4>1. (l \o t)[i] = t[i - Len(out) - 1]
        BY <2>2, <4>0, <4>4, ConcatAt
      <4>2. t[i - Len(out) - 1] = pending[i - Len(out)]
        BY <1>1, <2>1, <2>2, <3>3 DEF t
      <4>3. (out \o pending)[i] = pending[i - Len(out)]
        BY <1>1, <2>1, <2>2, <3>3
      <4> QED
        BY <4>1, <4>2, <4>3
    <3>0. i \in Nat /\ Len(out) \in Nat
      BY <2>2, <2>6
    <3>4. i <= Len(out) \/ i = Len(out) + 1 \/ i > Len(out) + 1
      BY <3>0
    <3> QED
      BY <3>1, <3>2, <3>3, <3>4
  <2>5. l \o t = out \o pending
    BY <2>3, <2>4, SeqEqual
  <2> QED
    BY <2>5 DEF l, h, t
<1>4. Produced' = Produced
  BY <1>2, <1>3 DEF Produced
<1> QED
  BY <1>1, <1>2, <1>4

\* Nothing ends the events while the body is read.
LEMMA OpenEvents ==
    ASSUME Typed, Placed, phase = "open", pending = <<>>, ~norm.terminal
    PROVE  /\ Produced = out
           /\ \A i \in DOMAIN Produced : Produced[i].event.kind \in {"text", "call"}
<1>1. Produced = out
  BY ConcatEmptySeq DEF Typed, Produced
<1>2. ASSUME NEW i \in DOMAIN Produced
      PROVE  Produced[i].event.kind \in {"text", "call"}
  <2>1. Produced[i] \in Items
    BY ProducedIs
  <2>2. Produced[i].event \in Events
    BY <2>1 DEF Items
  <2>3. Produced[i].event.kind \in Kinds
    BY <2>2 DEF Events
  <2>4. ~Terminal(Produced[i].event)
    BY <1>1 DEF Placed
  <2> QED
    BY <2>3, <2>4 DEF Kinds, Terminal
<1> QED
  BY <1>1, <1>2

LEMMA ReadingEvents ==
    ASSUME Typed, Placed, Reading
    PROVE  /\ Produced = out /\ pending = <<>> /\ phase = "open" /\ ~norm.terminal
           /\ \A i \in DOMAIN Produced : Produced[i].event.kind \in {"text", "call"}
BY OpenEvents DEF Reading

LEMMA ProducedThen ==
    ASSUME Typed'
    PROVE  Produced' \in Seq(Items) /\ DOMAIN Produced' = 1 .. Len(Produced')
           /\ Len(Produced') \in Nat
<1>1. out' \in Seq(Items) /\ pending' \in Seq(Items)
  BY DEF Typed
<1> QED
  BY <1>1 DEF Produced

\* One step of the stream, which adds the events `es`.
Adds(es) == Reading /\ UNCHANGED streamRest /\ Emitted(es)

LEMMA AddsExtends ==
    ASSUME Typed, Placed, NEW es \in Seq(Events), Adds(es)
    PROVE  /\ Extends(es) /\ Len(pending') = Len(es) /\ pending' \in Seq(Items)
           /\ \A j \in 1 .. Len(es) : pending'[j].event = es[j]
           /\ UNCHANGED <<protocol, phase, request, cancelled, warned, out>>
           /\ warning' = IF es = <<>> THEN warning ELSE 0
<1>1. pending = <<>> /\ out' = out
  BY DEF Adds, Reading, streamRest
<1>2. /\ Stamped(es) \in Seq(Items) /\ Len(Stamped(es)) = Len(es)
      /\ \A j \in 1 .. Len(es) : Stamped(es)[j] =
            [event |-> es[j], warning |-> IF j = 1 THEN warning ELSE 0]
  BY StampedType
<1>a. Stamped(es) \in Seq(Items)
  BY <1>2
<1>3. pending' = Stamped(es)
  BY <1>1, <1>a, ConcatEmptySeq DEF Adds, Emitted
<1>4. ASSUME NEW j \in 1 .. Len(es)
      PROVE  pending'[j].event = es[j]
  <2>1. pending'[j] = [event |-> es[j], warning |-> IF j = 1 THEN warning ELSE 0]
    BY <1>2, <1>3
  <2> QED
    BY <2>1
<1>5. Extends(es)
  BY <1>1, EmittedExtends DEF Adds
<1> QED
  BY <1>2, <1>3, <1>4, <1>5 DEF Adds, streamRest, Emitted

-------------------------------------------------------------------------------
(* Every call that is done is reported once *)

LEMMA ReportsKept ==
    ASSUME ReportsDone, Produced' = Produced, Done' = Done, request' = request,
           \A c \in Done : server'.calls[c] = server.calls[c],
           server'.text = server.text
    PROVE  ReportsDone'
BY ZenonT(40) DEF ReportsDone, IsCall, CallEvent, Id

\* No event: the state at the start of a request, or of none.
LEMMA ReportsNothing ==
    ASSUME Produced' = <<>>, Done' = {}, server'.text = 0
    PROVE  ReportsDone'
<1>1. DOMAIN Produced' = {}
  OBVIOUS
<1>2. {i \in DOMAIN Produced' : Produced'[i].event.kind = "text"} = {}
  BY <1>1
<1>3. Cardinality({i \in DOMAIN Produced' : Produced'[i].event.kind = "text"}) = 0
  BY <1>2, FS_EmptySet
<1> QED
  BY <1>1, <1>3 DEF ReportsDone

Frame == request' = request /\ \A c \in Done : server'.calls[c] = server.calls[c]

\* One event more.
LEMMA ReportsMore ==
    ASSUME Typed, Typed', ReportsDone, Frame, Done' = Done,
           NEW e, Extends(<<e>>), e.kind # "call",
           \A i \in DOMAIN Produced : Produced[i].event.kind \in {"text", "call"},
           Cardinality({i \in DOMAIN Produced' : Produced'[i].event.kind = "text"})
              = server'.text
    PROVE  ReportsDone'
<1> DEFINE n == Len(Produced)
<1>1. /\ n \in Nat /\ DOMAIN Produced = 1 .. n /\ DOMAIN Produced' = 1 .. n + 1
      /\ Len(Produced') = n + 1
      /\ \A i \in 1 .. n : Produced'[i] = Produced[i]
      /\ Produced'[n + 1].event = e
  BY ProducedIs, ProducedThen DEF Extends
<1> HIDE DEF n
<1>2. \A i \in DOMAIN Produced' : IsCall(i)' => i \in DOMAIN Produced /\ IsCall(i)
  BY <1>1 DEF IsCall
<1>3. \A i \in DOMAIN Produced : i \in DOMAIN Produced' /\ Produced'[i] = Produced[i]
                                 /\ (IsCall(i)' <=> IsCall(i))
  BY <1>1 DEF IsCall
<1>4. \A d \in Done : CallEvent(d, server.calls[d])' = CallEvent(d, server.calls[d])
                      /\ Id(d)' = Id(d)
  BY DEF CallEvent, Frame, Id
<1>5. \A i \in DOMAIN Produced' : IsCall(i)' =>
         \E c \in Done' : Produced'[i].event = CallEvent(c, server.calls[c])'
  BY <1>2, <1>3, <1>4 DEF ReportsDone
<1>6. \A c \in Done' : \E i \in DOMAIN Produced' :
         IsCall(i)' /\ Produced'[i].event.call = Id(c)'
  BY <1>3, <1>4 DEF ReportsDone
<1>7. \A i, j \in DOMAIN Produced' :
          IsCall(i)' /\ IsCall(j)' /\ Produced'[i].event.call = Produced'[j].event.call => i = j
  BY <1>2, <1>3 DEF ReportsDone
<1>8. \A i \in DOMAIN Produced' :
         Produced'[i].event.kind \in {"text", "call"} \/ i = Len(Produced')
  BY <1>1
<1> QED
  BY <1>5, <1>6, <1>7, <1>8 DEF ReportsDone

LEMMA ReportsEnd ==
    ASSUME Typed, Typed', ReportsDone, Frame, Done' = Done, server'.text = server.text,
           NEW e, Extends(<<e>>), e.kind \notin {"text", "call"},
           \A i \in DOMAIN Produced : Produced[i].event.kind \in {"text", "call"}
    PROVE  ReportsDone'
<1> DEFINE n == Len(Produced)
<1>1. /\ n \in Nat /\ DOMAIN Produced = 1 .. n /\ DOMAIN Produced' = 1 .. n + 1
      /\ \A i \in 1 .. n : Produced'[i] = Produced[i]
      /\ Produced'[n + 1].event = e
  BY ProducedIs, ProducedThen DEF Extends
<1> HIDE DEF n
<1>2. {i \in DOMAIN Produced' : Produced'[i].event.kind = "text"} =
         {i \in DOMAIN Produced : Produced[i].event.kind = "text"}
  BY <1>1
<1>3. Cardinality({i \in DOMAIN Produced' : Produced'[i].event.kind = "text"})
         = server'.text
  BY <1>2 DEF ReportsDone
<1> QED
  BY <1>3, ReportsMore

LEMMA ReportsText ==
    ASSUME Typed, Typed', ReportsDone, Frame, Done' = Done, server'.text = server.text + 1,
           NEW e, Extends(<<e>>), e.kind = "text",
           \A i \in DOMAIN Produced : Produced[i].event.kind \in {"text", "call"}
    PROVE  ReportsDone'
<1> DEFINE n == Len(Produced)
           T == {i \in DOMAIN Produced : Produced[i].event.kind = "text"}
<1>1. /\ n \in Nat /\ DOMAIN Produced = 1 .. n /\ DOMAIN Produced' = 1 .. n + 1
      /\ \A i \in 1 .. n : Produced'[i] = Produced[i]
      /\ Produced'[n + 1].event = e
  BY ProducedIs, ProducedThen DEF Extends
<1>2. IsFiniteSet(T) /\ n + 1 \notin T
  <2>1. IsFiniteSet(1 .. n)
    <3>1. n \in Nat
      BY <1>1
    <3> HIDE DEF n
    <3> QED
      BY <3>1, FS_Interval
  <2>2. T \in SUBSET (1 .. n)
    BY <1>1
  <2>3. n + 1 \notin 1 .. n
    BY <1>1
  <2> QED
    BY <2>1, <2>2, <2>3, FS_Subset
<1> HIDE DEF n
<1>3. {i \in DOMAIN Produced' : Produced'[i].event.kind = "text"} = T \cup {n + 1}
  BY <1>1
<1>4. Cardinality(T) = server.text
  BY DEF ReportsDone
<1> HIDE DEF T
<1>5. Cardinality(T \cup {n + 1}) = Cardinality(T) + 1
  BY <1>2, FS_AddElement
<1>6. Cardinality({i \in DOMAIN Produced' : Produced'[i].event.kind = "text"})
         = server'.text
  BY <1>3, <1>4, <1>5
<1> QED
  BY <1>6, ReportsMore

LEMMA ReportsCall ==
    ASSUME Typed, Typed', ReportsDone, Frame, server'.text = server.text,
           NEW c \in Calls \ Done, Done' = Done \cup {c},
           server'.calls[c] = server.calls[c],
           Extends(<<CallEvent(c, server.calls[c])>>),
           \A i \in DOMAIN Produced : Produced[i].event.kind \in {"text", "call"}
    PROVE  ReportsDone'
<1> DEFINE n == Len(Produced)
           e == CallEvent(c, server.calls[c])
<1>1. /\ n \in Nat /\ DOMAIN Produced = 1 .. n /\ DOMAIN Produced' = 1 .. n + 1
      /\ Len(Produced') = n + 1
      /\ \A i \in 1 .. n : Produced'[i] = Produced[i]
      /\ Produced'[n + 1].event = e
  BY ProducedIs, ProducedThen DEF Extends
<1>e. e.kind = "call" /\ e.call = Id(c) /\ e = CallEvent(c, server.calls[c])'
      /\ Id(c)' = Id(c)
  BY DEF CallEvent, Frame, Id
<1>d. \A d \in Done : CallEvent(d, server.calls[d])' = CallEvent(d, server.calls[d])
                      /\ Id(d)' = Id(d)
  BY DEF CallEvent, Frame, Id
<1>u. \A d \in Done : Id(d) # Id(c)
  BY DEF Id
<1>k. \A d \in Done : CallEvent(d, server.calls[d]).call = Id(d)
  BY DEF CallEvent
<1> HIDE DEF n, e
<1>2. {i \in DOMAIN Produced' : Produced'[i].event.kind = "text"} =
         {i \in DOMAIN Produced : Produced[i].event.kind = "text"}
  BY <1>1, <1>e
<1>3. \A i \in DOMAIN Produced' : i \in DOMAIN Produced \/ i = n + 1
  BY <1>1
<1>4. \A i \in DOMAIN Produced : i \in DOMAIN Produced' /\ Produced'[i] = Produced[i]
                                 /\ (IsCall(i)' <=> IsCall(i))
  BY <1>1 DEF IsCall
<1>5. \A i \in DOMAIN Produced' : IsCall(i)' =>
         \E d \in Done' : Produced'[i].event = CallEvent(d, server.calls[d])'
  BY <1>1, <1>3, <1>4, <1>e, <1>d DEF ReportsDone
<1>6. \A d \in Done' : \E i \in DOMAIN Produced' :
         IsCall(i)' /\ Produced'[i].event.call = Id(d)'
  <2> SUFFICES ASSUME NEW d \in Done'
               PROVE  \E i \in DOMAIN Produced' : IsCall(i)' /\ Produced'[i].event.call = Id(d)'
    OBVIOUS
  <2>1. CASE d \in Done
    BY <1>4, <1>d, <2>1 DEF ReportsDone
  <2>2. CASE d = c
    <3>1. n + 1 \in DOMAIN Produced' /\ Produced'[n + 1].event.kind = "call"
          /\ Produced'[n + 1].event.call = Id(c)'
      BY <1>1, <1>e
    <3> QED
      BY <2>2, <3>1 DEF IsCall
  <2> QED
    BY <2>1, <2>2
<1>n. \A i \in DOMAIN Produced : IsCall(i) => Produced[i].event.call # Id(c)
  BY <1>u, <1>k DEF ReportsDone
<1>7. \A i, j \in DOMAIN Produced' :
          IsCall(i)' /\ IsCall(j)' /\ Produced'[i].event.call = Produced'[j].event.call => i = j
  BY <1>1, <1>3, <1>4, <1>e, <1>n DEF ReportsDone
<1>8. \A i \in DOMAIN Produced' :
         Produced'[i].event.kind \in {"text", "call"} \/ i = Len(Produced')
  BY <1>1
<1> QED
  BY <1>2, <1>5, <1>6, <1>7, <1>8 DEF ReportsDone

LEMMA ReportsFinal ==
    ASSUME Typed, Typed', ReportsDone, Assembling, request' = request,
           server'.text = server.text, Done = {}, Done' = Partial,
           \A c \in Partial : server'.calls[c] = server.calls[c],
           Extends(Final),
           \A i \in DOMAIN Produced : Produced[i].event.kind \in {"text", "call"}
    PROVE  ReportsDone'
<1> DEFINE n == Len(Produced)
           k == Cardinality(Partial)
<1>f. IsFiniteSet(Partial)
  BY DEF Assembling
<1>a. /\ k \in Nat /\ Len(Final) = k + 1
      /\ \A j \in 1 .. k : Final[j] = CallEvent(Assembled[j], norm.partial[Assembled[j]])
      /\ Final[k + 1] = End("completed")
  BY <1>f, FinalIs
<1>b. /\ \A j \in 1 .. k : Assembled[j] \in Partial
      /\ \A c \in Partial : \E j \in 1 .. k : Assembled[j] = c
      /\ \A i, j \in 1 .. k : Assembled[i] = Assembled[j] => i = j
  BY <1>f, AssembledLists
<1>1. /\ n \in Nat /\ DOMAIN Produced = 1 .. n /\ DOMAIN Produced' = 1 .. n + k + 1
      /\ Len(Produced') = n + k + 1
      /\ \A i \in 1 .. n : Produced'[i] = Produced[i]
      /\ \A j \in 1 .. k + 1 : Produced'[n + j].event = Final[j]
  <2>1. Len(Produced') = n + (k + 1) /\ n \in Nat /\ DOMAIN Produced = 1 .. n
    BY <1>a, ProducedIs DEF Extends
  <2>2. /\ \A i \in 1 .. n : Produced'[i] = Produced[i]
        /\ \A j \in 1 .. k + 1 : Produced'[n + j].event = Final[j]
    BY <1>a DEF Extends
  <2>3. DOMAIN Produced' = 1 .. Len(Produced')
    BY ProducedThen
  <2> QED
    BY <1>a, <2>1, <2>2, <2>3
<1>c. \A c \in Partial : /\ CallEvent(c, norm.partial[c]) = CallEvent(c, server.calls[c])'
                         /\ CallEvent(c, norm.partial[c]).kind = "call"
                         /\ CallEvent(c, norm.partial[c]).call = Id(c)
                         /\ Id(c)' = Id(c)
  BY DEF CallEvent, Id, Assembling
<1>i. \A c, d \in Partial : Id(c) = Id(d) => c = d
  BY DEF Id
<1>e. End("completed").kind = "completed"
  BY DEF End
<1>o. \A i \in DOMAIN Produced : Produced[i].event.kind = "text"
  BY DEF ReportsDone, IsCall
<1> HIDE DEF n, k
\* The places after the old ones: a call for each, then the end.
<1>2. \A i \in DOMAIN Produced' :
         \/ i \in DOMAIN Produced
         \/ i = n + k + 1
         \/ \E j \in 1 .. k : i = n + j
  <2> SUFFICES ASSUME NEW i \in DOMAIN Produced', i \notin DOMAIN Produced, i # n + k + 1
               PROVE  \E j \in 1 .. k : i = n + j
    OBVIOUS
  <2>1. i \in 1 .. n + k + 1 /\ n \in Nat /\ k \in Nat /\ i \notin 1 .. n
    BY <1>1, <1>a
  <2>2. i - n \in 1 .. k /\ i = n + (i - n)
    BY <2>1
  <2> QED
    BY <2>2
<1>3. \A j \in 1 .. k : /\ n + j \in DOMAIN Produced'
                        /\ Produced'[n + j].event =
                              CallEvent(Assembled[j], norm.partial[Assembled[j]])
  BY <1>1, <1>a
<1>4. n + k + 1 \in DOMAIN Produced' /\ Produced'[n + k + 1].event.kind = "completed"
  <2>1. k + 1 \in 1 .. k + 1 /\ n + (k + 1) = n + k + 1
    BY <1>1, <1>a
  <2>2. Produced'[n + (k + 1)].event = Final[k + 1]
    BY <1>1, <2>1
  <2> QED
    BY <1>1, <1>a, <1>e, <2>1, <2>2
<1>5. \A i \in DOMAIN Produced : i \in DOMAIN Produced' /\ Produced'[i].event.kind = "text"
  BY <1>1, <1>a, <1>o
\* A call is at one of the new places.
<1>6. \A i \in DOMAIN Produced' : Produced'[i].event.kind = "call" =>
         \E j \in 1 .. k : i = n + j
  BY <1>2, <1>4, <1>5
<1>7. \A i \in DOMAIN Produced' : Produced'[i].event.kind = "call" =>
         \E c \in Done' : Produced'[i].event = CallEvent(c, server.calls[c])'
  BY <1>3, <1>6, <1>b, <1>c
<1>8. \A c \in Done' : \E i \in DOMAIN Produced' :
         Produced'[i].event.kind = "call" /\ Produced'[i].event.call = Id(c)'
  <2> SUFFICES ASSUME NEW c \in Partial
               PROVE  \E i \in DOMAIN Produced' :
                         Produced'[i].event.kind = "call" /\ Produced'[i].event.call = Id(c)'
    OBVIOUS
  <2>1. PICK j \in 1 .. k : Assembled[j] = c
    BY <1>b
  <2> QED
    BY <1>3, <1>c, <2>1
<1>9. ASSUME NEW i \in DOMAIN Produced', NEW j \in DOMAIN Produced',
             Produced'[i].event.kind = "call", Produced'[j].event.kind = "call",
             Produced'[i].event.call = Produced'[j].event.call
      PROVE  i = j
  <2>1. PICK a \in 1 .. k : i = n + a
    BY <1>6, <1>9
  <2>2. PICK b \in 1 .. k : j = n + b
    BY <1>6, <1>9
  <2>3. Id(Assembled[a]) = Id(Assembled[b])
    BY <1>3, <1>b, <1>c, <1>9, <2>1, <2>2
  <2> QED
    BY <1>b, <1>i, <2>1, <2>2, <2>3
<1>10. {i \in DOMAIN Produced' : Produced'[i].event.kind = "text"} =
          {i \in DOMAIN Produced : Produced[i].event.kind = "text"}
  <2>1. \A j \in 1 .. k : Produced'[n + j].event.kind = "call"
    BY <1>3, <1>b, <1>c
  <2>2. \A i \in DOMAIN Produced' : Produced'[i].event.kind = "text" => i \in DOMAIN Produced
    BY <1>2, <1>4, <2>1
  <2> QED
    BY <1>5, <1>o, <2>2
<1>11. \A i \in DOMAIN Produced' :
          Produced'[i].event.kind \in {"text", "call"} \/ i = Len(Produced')
  <2>1. \A j \in 1 .. k : Produced'[n + j].event.kind = "call"
    BY <1>3, <1>b, <1>c
  <2> QED
    BY <1>1, <1>2, <1>5, <2>1
<1> QED
  BY <1>7, <1>8, <1>9, <1>10, <1>11 DEF ReportsDone, IsCall

-------------------------------------------------------------------------------
(* Steps *)

\* The steps of the stream, by what they add to the events.
LEMMA TextAdds ==
    ASSUME Typed, Assembling, TextPiece
    PROVE  /\ Adds(<<TextEvent>>) /\ <<TextEvent>> \in Seq(Events)
           /\ Frame /\ Done' = Done /\ server'.text = server.text + 1
           /\ ~norm'.terminal
           /\ UNCHANGED <<messages, previous, server.cut, server.whole>>
<1>t. OfNorm /\ OfServer
  BY TypedIs
<1>1. <<TextEvent>> \in Seq(Events)
  BY EventType
<1>2. UNCHANGED <<server.calls, server.opened, server.cut, server.whole>>
      /\ server'.text = server.text + 1
  BY <1>t DEF TextPiece, OfServer
<1>3. UNCHANGED <<norm.partial, norm.terminal>> /\ ~norm.terminal
  BY <1>t DEF TextPiece, Reading, OfNorm
<1> QED
  BY <1>1, <1>2, <1>3 DEF TextPiece, Adds, Frame, streamRest, Done, Partial

LEMMA CloseAdds ==
    ASSUME Typed, Assembling, NEW c \in Calls, CloseCall(c)
    PROVE  LET e == CallEvent(c, server.calls[c]) IN
           /\ Adds(<<e>>) /\ e \in Events /\ <<e>> \in Seq(Events)
           /\ Frame /\ c \notin Done /\ Done' = Done \cup {c} /\ server'.text = server.text
           /\ ~norm'.terminal
           /\ server'.calls[c] = server.calls[c]
           /\ UNCHANGED <<messages, previous, server.cut, server.whole>>
<1>t. OfNorm /\ OfServer
  BY TypedIs
<1>1. c \in Partial /\ c \in server.opened /\ norm.partial[c] = server.calls[c]
  BY ReadingPartial DEF CloseCall, Assembling
<1>2. Emitted(<<CallEvent(c, server.calls[c])>>)
  BY <1>1 DEF CloseCall
<1>3. CallEvent(c, server.calls[c]) \in Events
  BY <1>t, EventType DEF OfServer
<1>4. <<CallEvent(c, server.calls[c])>> \in Seq(Events)
  BY <1>3, OneInSeq
<1>5. UNCHANGED <<server.calls, server.opened, server.text, server.cut, server.whole>>
  BY <1>t DEF CloseCall, OfServer
<1>6. /\ norm'.terminal = norm.terminal /\ ~norm.terminal
      /\ norm'.partial = [d \in Partial \ {c} |-> norm.partial[d]]
  BY <1>t DEF CloseCall, OfNorm, Partial, Reading
<1>7. Partial' = Partial \ {c}
  BY <1>6 DEF Partial
<1>8. Done' = Done \cup {c} /\ c \notin Done
  BY <1>1, <1>5, <1>7 DEF Done
<1> QED
  BY <1>2, <1>3, <1>4, <1>5, <1>6, <1>8 DEF CloseCall, Adds, Frame, streamRest

LEMMA FinalAdds ==
    ASSUME Typed, Assembling, Whole \/ CutShort, Has({"chat_completions"})
    PROVE  /\ Adds(Final) /\ Final \in Seq(Events) /\ Finalize
           /\ request' = request /\ server'.text = server.text /\ Done = {}
           /\ Done' = Partial
           /\ \A c \in Partial : server'.calls[c] = server.calls[c]
           /\ norm'.terminal
<1>t. OfNorm /\ OfServer
  BY TypedIs
<1>1. Finalize /\ Reading /\ UNCHANGED streamRest
  BY DEF Whole, CutShort, Has
<1>2. Emitted(Final)
  BY <1>1 DEF Finalize, Final
<1>3. Final \in Seq(Events)
  BY FinalIs DEF Assembling
<1>4. Done = {} /\ server.opened = Partial
  BY <1>1 DEF Assembling, Reading, Done
<1>5. norm'.terminal = TRUE /\ norm'.partial = [c \in {} |-> <<>>]
  BY <1>1, <1>t DEF Finalize, OfNorm
<1>6. UNCHANGED <<server.opened, server.calls, server.text>>
  BY <1>t DEF Whole, CutShort, OfServer
<1>7. Done' = Partial
  BY <1>4, <1>5, <1>6 DEF Done, Partial
<1> QED
  BY <1>1, <1>2, <1>3, <1>4, <1>5, <1>6, <1>7 DEF Adds, streamRest

LEMMA EndAdds ==
    ASSUME Typed, Assembling,
           Broken \/ ((Whole \/ CutShort) /\ ~Has({"chat_completions"}))
    PROVE  /\ \E k \in {"completed", "error"} :
                 /\ Adds(<<End(k)>>) /\ <<End(k)>> \in Seq(Events)
                 /\ k = "completed" => Whole \/ CutShort
                 /\ End(k).kind = k
           /\ Frame /\ Done' = Done /\ server'.text = server.text
           /\ norm'.terminal
<1>t. OfNorm /\ OfServer
  BY TypedIs
<1>1. Reading /\ UNCHANGED streamRest /\ norm' = [norm EXCEPT !.terminal = TRUE]
  BY DEF Whole, CutShort, Broken, Has
<1>2. UNCHANGED <<server.opened, server.calls, server.text>>
  BY <1>t DEF Whole, CutShort, Broken, OfServer
<1>3. norm'.terminal = TRUE /\ norm'.partial = norm.partial
  BY <1>1, <1>t DEF OfNorm
<1>4. Frame /\ Done' = Done
  BY <1>1, <1>2, <1>3 DEF Frame, Done, Partial, streamRest
<1>5. \A k \in {"completed", "error"} : <<End(k)>> \in Seq(Events) /\ End(k).kind = k
  BY EventType DEF Kinds, End
<1>6. \/ Broken /\ Emitted(<<End("error")>>)
      \/ ~Has({"chat_completions"}) /\ (Whole \/ CutShort) /\ Emitted(<<End("completed")>>)
  BY DEF Whole, CutShort, Broken, Has
<1>7. \E k \in {"completed", "error"} :
         Emitted(<<End(k)>>) /\ (k = "completed" => Whole \/ CutShort)
  BY <1>6
<1>8. Reading /\ UNCHANGED streamRest
  BY <1>1
<1> QED
  BY <1>2, <1>3, <1>4, <1>5, <1>7, <1>8 DEF Adds

LEMMA LastIs ==
    ASSUME NEW S, NEW s \in Seq(S), s # <<>>
    PROVE  Len(s) \in Nat \ {0} /\ DOMAIN s = 1 .. Len(s) /\ Len(s) \in DOMAIN s
           /\ Last(s) = s[Len(s)]
BY DEF Last

\* What the reading steps leave behind when they add no event.
LEMMA QuietKeeps ==
    ASSUME Typed, Assembling,
           \/ Created
           \/ \E c \in Calls : OpenCall(c) \/ ArgumentPiece(c)
    PROVE  /\ Reading /\ UNCHANGED streamRest /\ UNCHANGED <<warning, pending, messages>>
           /\ Produced' = Produced /\ Done' = Done
           /\ \A c \in Done : server'.calls[c] = server.calls[c]
           /\ UNCHANGED <<norm.terminal, server.text, server.cut>>
<1>t. OfNorm /\ OfServer
  BY TypedIs
<1>p. UNCHANGED <<pending, out>> => Produced' = Produced
  BY DEF Produced
<1>1. CASE Created
  <2>1. UNCHANGED <<norm, server.opened, server.calls, server.text, server.cut>>
    BY <1>1, <1>t DEF Created, OfServer
  <2> QED
    BY <1>1, <1>p, <2>1 DEF Created, streamRest, Done, Partial
<1>2. ASSUME NEW c \in Calls, OpenCall(c)
      PROVE  /\ Reading /\ UNCHANGED streamRest /\ UNCHANGED <<warning, pending, messages>>
             /\ Produced' = Produced /\ Done' = Done
             /\ \A d \in Done : server'.calls[d] = server.calls[d]
             /\ UNCHANGED <<norm.terminal, server.text, server.cut>>
  <2>1. /\ UNCHANGED <<server.calls, server.text, server.cut>> /\ c \notin server.opened
        /\ server'.opened = server.opened \cup {c}
    BY <1>2, <1>t DEF OpenCall, OfServer
  <2>2. /\ norm'.terminal = norm.terminal
        /\ norm'.partial = [d \in Partial \cup {c} |-> IF d = c THEN <<>> ELSE norm.partial[d]]
    BY <1>2, <1>t DEF OpenCall, OfNorm, Partial
  <2>3. Partial' = Partial \cup {c}
    BY <2>2 DEF Partial
  <2> QED
    BY <1>2, <1>p, <2>1, <2>2, <2>3 DEF OpenCall, streamRest, Done, Assembling
<1>3. ASSUME NEW c \in Calls, ArgumentPiece(c)
      PROVE  /\ Reading /\ UNCHANGED streamRest /\ UNCHANGED <<warning, pending, messages>>
             /\ Produced' = Produced /\ Done' = Done
             /\ \A d \in Done : server'.calls[d] = server.calls[d]
             /\ UNCHANGED <<norm.terminal, server.text, server.cut>>
  <2>1. /\ UNCHANGED <<server.opened, server.text, server.cut>>
        /\ \A d \in Calls \ {c} : server'.calls[d] = server.calls[d]
    BY <1>3, <1>t DEF ArgumentPiece, OfServer
  <2>2. c \in Partial
    BY <1>3, ReadingPartial DEF ArgumentPiece
  <2>3. norm'.terminal = norm.terminal /\ Partial' = Partial
    BY <1>3, <1>t, <2>2, PartialType DEF ArgumentPiece, Index, OfNorm, Partial
  <2>4. Done \subseteq Calls \ {c}
    BY <1>t, <2>2 DEF Done, OfServer
  <2> QED
    BY <1>3, <1>p, <2>1, <2>3, <2>4 DEF ArgumentPiece, streamRest, Done
<1> QED
  BY <1>1, <1>2, <1>3

\* A step that adds events leaves the turn where it is.
LEMMA PlacedAdds ==
    ASSUME Typed, Placed, NEW es \in Seq(Events), Adds(es), es # <<>>,
           IF norm'.terminal THEN Terminal(es[Len(es)])
           ELSE \A j \in 1 .. Len(es) : ~Terminal(es[j])
    PROVE  Placed'
<1>1. /\ Len(pending') = Len(es) /\ pending' \in Seq(Items)
      /\ \A j \in 1 .. Len(es) : pending'[j].event = es[j]
      /\ UNCHANGED <<phase, out>>
  BY AddsExtends
<1>2. phase = "open" /\ Len(es) \in Nat \ {0} /\ pending' # <<>>
  BY <1>1 DEF Adds, Reading
<1>3. DOMAIN pending' = 1 .. Len(es) /\ Last(pending') = pending'[Len(es)]
  BY <1>1, <1>2, LastIs
<1>4. Last(pending').event = es[Len(es)]
  BY <1>1, <1>2, <1>3
<1>5. \A i \in DOMAIN out : ~Terminal(out[i].event)
  BY <1>2 DEF Placed
<1> QED
  BY <1>1, <1>2, <1>3, <1>4, <1>5 DEF Placed, Terminal

LEMMA CallIsOpen ==
    /\ ~Terminal(TextEvent)
    /\ \A c, as : ~Terminal(CallEvent(c, as))
    /\ \A k \in {"completed", "error"} : Terminal(End(k))
BY DEF Terminal, TextEvent, CallEvent, End

LEMMA FinalNonempty ==
    ASSUME Typed, Assembling
    PROVE  Final # <<>> /\ Terminal(Final[Len(Final)])
<1> DEFINE n == Cardinality(Partial)
<1>1. n \in Nat /\ Final \in Seq(Events) /\ Len(Final) = n + 1 /\ Final[n + 1] = End("completed")
  BY FinalIs DEF Assembling
<1> HIDE DEF n
<1>2. Final # <<>>
  BY <1>1
<1> QED
  BY <1>1, <1>2, CallIsOpen

LEMMA PlacedNext == Typed /\ Assembling /\ Placed /\ [Next]_vars => Placed'
<1> SUFFICES ASSUME Typed, Assembling, Placed, [Next]_vars
             PROVE  Placed'
  OBVIOUS
<1>i. phase' = "idle" => Placed'
  BY DEF Placed
<1>1. CASE SubmitToolResults \/ \E warns \in BOOLEAN : Send(warns)
  <2>1. phase' \in {"idle", "connecting"} /\ out' = <<>> /\ pending' = <<>>
        /\ norm' = Fresh /\ server' = NoAnswer
    BY <1>1 DEF SubmitToolResults, Send
  <2>2. Fresh' = Fresh /\ NoAnswer' = NoAnswer
    BY DEF Fresh, NoAnswer
  <2> QED
    BY <2>1, <2>2 DEF Placed
<1>2. CASE LeaveTools \/ Refused \/ StreamCancelled \/ Drop
  BY <1>2, <1>i DEF LeaveTools, Refused, StreamCancelled, Drop
<1>3. CASE Cancel \/ UNCHANGED vars
  BY <1>3 DEF Cancel, vars, Placed, Fresh, NoAnswer, Terminal
<1>4. CASE Connect
  <2>1. CASE phase' = "idle"
    BY <1>i, <2>1
  <2>2. CASE phase' \in {"open", "refused"} /\ UNCHANGED out
    <3>1. out = <<>> /\ pending = <<>> /\ norm = Fresh /\ server = NoAnswer
          /\ UNCHANGED <<pending, norm, server>>
      BY <1>4 DEF Connect, Placed
    <3>2. ~norm.terminal
      BY <3>1 DEF Fresh
    <3> QED
      BY <2>2, <3>1, <3>2 DEF Placed, Fresh, NoAnswer
  <2> QED
    BY <1>4, <2>1, <2>2 DEF Connect
<1>5. CASE Deliver
  <2> DEFINE h == Head(pending)
  <2>1. /\ phase = "open" /\ pending # <<>> /\ pending \in Seq(Items)
        /\ out' \in Seq(Items) /\ pending' \in Seq(Items)
        /\ Len(out') = Len(out) + 1 /\ out'[Len(out) + 1] = h
        /\ \A i \in 1 .. Len(out) : out'[i] = out[i]
        /\ Len(pending) \in Nat \ {0} /\ Len(pending') = Len(pending) - 1
        /\ h = pending[1]
        /\ \A i \in 1 .. Len(pending') : pending'[i] = pending[i + 1]
        /\ Len(out) \in Nat /\ DOMAIN out = 1 .. Len(out)
        /\ norm' = norm
    BY <1>5, Delivered, ProducedIs DEF Deliver, Typed
  <2>p. \/ phase' = "open" /\ ~Terminal(h.event)
        \/ phase' = "tools" /\ Terminal(h.event) /\ h.event.kind = "completed"
        \/ phase' = "idle"
    BY <1>5 DEF Deliver, Terminal
  <2> HIDE DEF h
  <2>2. /\ DOMAIN out' = 1 .. Len(out) + 1 /\ DOMAIN pending = 1 .. Len(pending)
        /\ DOMAIN pending' = 1 .. Len(pending')
    BY <2>1
  <2>3. phase' = "tools" => Terminal(h.event) /\ h.event.kind = "completed"
    BY <2>p
  <2>4. phase' = "open" => ~Terminal(h.event)
    BY <2>p
  <2>5. Last(out') = h /\ out' # <<>>
    BY <2>1, LastIs
  <2>6. CASE phase' = "open"
    <3>1. \A i \in DOMAIN out' : ~Terminal(out'[i].event)
      <4>1. \A i \in DOMAIN out' : i \in DOMAIN out \/ i = Len(out) + 1
        BY <2>1, <2>2
      <4>2. \A i \in DOMAIN out : ~Terminal(out[i].event)
        BY <2>1 DEF Placed
      <4> QED
        BY <2>1, <2>4, <2>6, <4>1, <4>2
    <3>2. CASE norm.terminal
      <4>1. Terminal(Last(pending).event) /\ Last(pending) = pending[Len(pending)]
        BY <2>1, <3>2, LastIs DEF Placed
      <4>2. Len(pending) # 1
        BY <2>1, <2>4, <2>6, <4>1
      <4>3. Len(pending') \in 1 .. Len(pending') /\ Len(pending') \in Nat \ {0}
            /\ Len(pending') + 1 = Len(pending)
        BY <2>1, <4>2
      <4>4. pending' # <<>>
        BY <4>3
      <4>5. Last(pending') = pending'[Len(pending')]
        BY <2>1, <4>4, LastIs
      <4>6. pending'[Len(pending')] = pending[Len(pending)]
        BY <2>1, <4>3
      <4> QED
        BY <2>1, <2>6, <3>1, <3>2, <4>1, <4>4, <4>5, <4>6 DEF Placed, Terminal
    <3>3. CASE ~norm.terminal
      <4>1. \A i \in DOMAIN pending : ~Terminal(pending[i].event)
        BY <2>1, <3>3 DEF Placed
      <4>2. \A i \in DOMAIN pending' : i + 1 \in DOMAIN pending /\ pending'[i] = pending[i + 1]
        BY <2>1, <2>2
      <4>3. \A i \in DOMAIN pending' : ~Terminal(pending'[i].event)
        BY <4>1, <4>2
      <4> QED
        BY <2>1, <2>6, <3>1, <3>3, <4>3 DEF Placed, Terminal
    <3> QED
      BY <3>2, <3>3
  <2>7. CASE phase' = "tools"
    BY <2>3, <2>5, <2>7 DEF Placed
  <2> QED
    BY <1>i, <2>p, <2>6, <2>7
<1>6. CASE Created \/ \E c \in Calls : OpenCall(c) \/ ArgumentPiece(c)
  <2>1. Reading /\ UNCHANGED streamRest /\ pending' = pending /\ norm'.terminal = norm.terminal
    BY <1>6, QuietKeeps
  <2> QED
    BY <2>1 DEF Placed, Reading, streamRest, Terminal
<1>7. CASE TextPiece
  <2>1. Adds(<<TextEvent>>) /\ <<TextEvent>> \in Seq(Events) /\ ~norm'.terminal
    BY <1>7, TextAdds
  <2>2. \A j \in 1 .. Len(<<TextEvent>>) : ~Terminal(<<TextEvent>>[j])
    BY CallIsOpen
  <2> QED
    BY <2>1, <2>2, PlacedAdds
<1>8. ASSUME NEW c \in Calls, CloseCall(c)
      PROVE  Placed'
  <2> DEFINE e == CallEvent(c, server.calls[c])
  <2>1. Adds(<<e>>) /\ <<e>> \in Seq(Events) /\ ~norm'.terminal
    BY <1>8, CloseAdds
  <2>2. ~Terminal(e)
    BY CallIsOpen
  <2> HIDE DEF e
  <2>3. \A j \in 1 .. Len(<<e>>) : ~Terminal(<<e>>[j])
    BY <2>2
  <2> QED
    BY <2>1, <2>3, PlacedAdds
<1>9. CASE (Whole \/ CutShort) /\ Has({"chat_completions"})
  <2>1. Adds(Final) /\ Final \in Seq(Events) /\ norm'.terminal
    BY <1>9, FinalAdds
  <2> QED
    BY <2>1, FinalNonempty, PlacedAdds
<1>10. CASE Broken \/ ((Whole \/ CutShort) /\ ~Has({"chat_completions"}))
  <2>1. norm'.terminal /\ \E k \in {"completed", "error"} :
           Adds(<<End(k)>>) /\ <<End(k)>> \in Seq(Events)
    BY <1>10, EndAdds
  <2>2. PICK k \in {"completed", "error"} : Adds(<<End(k)>>) /\ <<End(k)>> \in Seq(Events)
    BY <2>1
  <2> DEFINE e == End(k)
  <2>3. Terminal(e)
    BY CallIsOpen
  <2> HIDE DEF e
  <2>4. <<e>> # <<>> /\ Terminal(<<e>>[Len(<<e>>)])
    BY <2>3
  <2> QED
    BY <2>1, <2>2, <2>4, PlacedAdds DEF e
<1> QED
  BY <1>1, <1>2, <1>3, <1>4, <1>5, <1>6, <1>7, <1>8, <1>9, <1>10 DEF Next


-------------------------------------------------------------------------------
(* Warnings *)

Stampings(p, q, w) ==
    \A i \in DOMAIN p :
        IF i = 1 /\ w /\ p[1].event.kind # "cancelled"
        THEN p[i].warning = q
        ELSE p[i].warning \in (IF i = 1 /\ w THEN {0, q} ELSE {0})

LEMMA WarnedIs ==
    /\ Warned <=> /\ Stampings(Produced, request, warned)
                  /\ phase \in {"connecting", "refused", "open"} =>
                        warning = IF warned /\ Produced = <<>> THEN request ELSE 0
    /\ Warned' <=> /\ Stampings(Produced', request', warned')
                   /\ phase' \in {"connecting", "refused", "open"} =>
                         warning' = IF warned' /\ Produced' = <<>> THEN request' ELSE 0
BY DEF Warned, Stampings

\* The events a stream adds.
LEMMA StampingsExtend ==
    ASSUME Typed, Typed', Warned, phase = "open", NEW es, Len(es) \in Nat, Extends(es)
    PROVE  Stampings(Produced', request, warned)
<1> DEFINE n == Len(Produced)
<1>1. n \in Nat /\ DOMAIN Produced = 1 .. n /\ DOMAIN Produced' = 1 .. Len(Produced')
      /\ (Produced = <<>> <=> n = 0)
  BY ProducedIs, ProducedThen
<1>2. /\ Len(Produced') = n + Len(es)
      /\ \A i \in 1 .. n : Produced'[i] = Produced[i]
      /\ \A j \in 1 .. Len(es) : Produced'[n + j].warning = IF j = 1 THEN warning ELSE 0
  BY DEF Extends
<1>3. Stampings(Produced, request, warned) /\ warning = IF warned /\ n = 0 THEN request ELSE 0
  BY <1>1, WarnedIs
<1> HIDE DEF n
<1> SUFFICES ASSUME NEW i \in DOMAIN Produced'
             PROVE  IF i = 1 /\ warned /\ Produced'[1].event.kind # "cancelled"
                    THEN Produced'[i].warning = request
                    ELSE Produced'[i].warning \in (IF i = 1 /\ warned THEN {0, request} ELSE {0})
  BY DEF Stampings
<1>4. CASE i \in 1 .. n
  <2>1. Produced'[i] = Produced[i] /\ Produced'[1] = Produced[1]
    BY <1>1, <1>2, <1>4
  <2> QED
    BY <1>1, <1>3, <1>4, <2>1 DEF Stampings
<1>5. CASE i \notin 1 .. n
  <2>0. i \in 1 .. n + Len(es)
    BY <1>1, <1>2
  <2>1. i - n \in 1 .. Len(es) /\ n + (i - n) = i
    BY <1>1, <1>5, <2>0
  <2>2. Produced'[i].warning = IF i - n = 1 THEN warning ELSE 0
    BY <1>2, <2>1
  <2>3. i - n = 1 /\ n = 0 <=> i = 1
    BY <1>1, <1>5, <2>0
  <2> QED
    BY <1>3, <2>2, <2>3
<1> QED
  BY <1>4, <1>5

LEMMA WarnedAdds ==
    ASSUME Typed, Typed', Placed, Warned, NEW es \in Seq(Events), es # <<>>, Adds(es)
    PROVE  Warned'
<1>1. Extends(es) /\ UNCHANGED <<phase, request, warned>> /\ warning' = 0
  BY AddsExtends
<1>2. phase = "open" /\ Len(es) \in Nat \ {0}
  BY DEF Adds, Reading
<1>3. Stampings(Produced', request, warned)
  BY <1>1, <1>2, StampingsExtend
<1>4. Produced' # <<>>
  BY <1>1, <1>2, ProducedIs DEF Extends
<1> QED
  BY <1>1, <1>3, <1>4, WarnedIs

LEMMA WarnedNext ==
    Typed /\ Typed' /\ Assembling /\ Placed /\ Warned /\ [Next]_vars => Warned'
<1> SUFFICES ASSUME Typed, Typed', Assembling, Placed, Warned, [Next]_vars
             PROVE  Warned'
  OBVIOUS
<1>w. Stampings(Produced, request, warned)
  BY WarnedIs
<1>k. ASSUME Produced' = Produced, UNCHANGED <<request, warned>>,
             phase' = "idle" \/ UNCHANGED <<phase, warning>>
      PROVE  Warned'
  BY <1>k, <1>w, WarnedIs
<1>p. UNCHANGED <<out, pending>> => Produced' = Produced
  BY DEF Produced
<1>e. <<>> \o <<>> = <<>>
  OBVIOUS
<1>1. CASE SubmitToolResults \/ \E warns \in BOOLEAN : Send(warns)
  <2>1. Produced' = <<>>
    BY <1>1, <1>e DEF SubmitToolResults, Send, Produced
  <2>2. Stampings(Produced', request', warned')
    BY <2>1 DEF Stampings
  <2>3. phase' \in {"idle", "connecting"}
        /\ (phase' = "connecting" => warning' = IF warned' THEN request' ELSE 0)
    BY <1>1 DEF SubmitToolResults, Send, Gate
  <2> QED
    BY <2>1, <2>2, <2>3, WarnedIs
<1>2. CASE LeaveTools \/ Refused \/ Drop \/ Cancel \/ UNCHANGED vars
  BY <1>2, <1>k, <1>p DEF LeaveTools, Refused, Drop, Cancel, vars
<1>3. CASE Connect
  <2>1. CASE phase' = "idle" /\ out' = <<[event |-> End("cancelled"), warning |-> 0]>>
    <3>1. pending' = <<>>
      BY <1>3 DEF Connect, Placed
    <3>2. Produced' = <<[event |-> End("cancelled"), warning |-> 0]>>
      BY <2>1, <3>1 DEF Produced
    <3>3. Stampings(Produced', request', warned')
      BY <3>2 DEF Stampings, End
    <3> QED
      BY <2>1, <3>3, WarnedIs
  <2>2. CASE UNCHANGED out
    <3>1. Produced' = Produced /\ UNCHANGED <<request, warned>> /\ phase = "connecting"
      BY <1>3, <1>p, <2>2 DEF Connect
    <3>2. phase' = "idle" \/ warning' = warning
      BY <1>3, <2>2 DEF Connect
    <3> QED
      BY <3>1, <3>2, <1>w, WarnedIs
  <2> QED
    BY <1>3, <2>1, <2>2 DEF Connect
<1>4. CASE StreamCancelled
  <2>1. <<End("cancelled")>> \in Seq(Events)
    BY EventType DEF Kinds
  <2> DEFINE es == <<End("cancelled")>>
  <2>2. Stamped(es) \in Seq(Items) /\ out \in Seq(Items) /\ Len(es) \in Nat
    BY <2>1, StampedType DEF Typed
  <2>3. phase = "open" /\ pending = <<>> /\ pending' = <<>> /\ out' = out \o Stamped(es)
        /\ phase' = "idle" /\ UNCHANGED <<request, warned>>
    BY <1>4 DEF StreamCancelled
  <2> HIDE DEF es
  <2>4. Produced' = Produced \o Stamped(es)
    BY <2>2, <2>3, ConcatEmptySeq DEF Produced
  <2>5. Extends(es)
    BY <2>1, <2>4, StampedExtends DEF es
  <2>6. Stampings(Produced', request, warned)
    BY <2>2, <2>3, <2>5, StampingsExtend
  <2> QED
    BY <2>3, <2>6, WarnedIs
<1>5. CASE Deliver
  <2>1. Produced' = Produced /\ UNCHANGED <<request, warned, warning>> /\ phase = "open"
    BY <1>5, Delivered DEF Deliver
  <2> QED
    BY <2>1, <1>w, WarnedIs
<1>6. CASE Created \/ \E c \in Calls : OpenCall(c) \/ ArgumentPiece(c)
  <2>1. UNCHANGED streamRest /\ warning' = warning /\ Produced' = Produced
    BY <1>6, QuietKeeps
  <2> QED
    BY <1>k, <2>1 DEF streamRest
<1>7. CASE TextPiece
  <2>1. Adds(<<TextEvent>>) /\ <<TextEvent>> \in Seq(Events)
    BY <1>7, TextAdds
  <2> QED
    BY <2>1, WarnedAdds
<1>8. ASSUME NEW c \in Calls, CloseCall(c)
      PROVE  Warned'
  <2> DEFINE e == CallEvent(c, server.calls[c])
  <2>1. Adds(<<e>>) /\ <<e>> \in Seq(Events)
    BY <1>8, CloseAdds
  <2> HIDE DEF e
  <2> QED
    BY <2>1, WarnedAdds
<1>9. CASE (Whole \/ CutShort) /\ Has({"chat_completions"})
  <2>1. Adds(Final) /\ Final \in Seq(Events)
    BY <1>9, FinalAdds
  <2> QED
    BY <2>1, FinalNonempty, WarnedAdds
<1>10. CASE Broken \/ ((Whole \/ CutShort) /\ ~Has({"chat_completions"}))
  <2>1. \E k \in {"completed", "error"} : Adds(<<End(k)>>) /\ <<End(k)>> \in Seq(Events)
    BY <1>10, EndAdds
  <2>2. PICK k \in {"completed", "error"} : Adds(<<End(k)>>) /\ <<End(k)>> \in Seq(Events)
    BY <2>1
  <2> DEFINE e == End(k)
  <2> HIDE DEF e
  <2>3. Adds(<<e>>) /\ <<e>> \in Seq(Events)
    BY <2>2 DEF e
  <2> QED
    BY <2>3, WarnedAdds
<1> QED
  BY <1>1, <1>2, <1>3, <1>4, <1>5, <1>6, <1>7, <1>8, <1>9, <1>10 DEF Next


-------------------------------------------------------------------------------
(* The answer on record *)

LEMMA RecordedKept ==
    ASSUME Recorded, Produced' = Produced, Done' = Done,
           UNCHANGED <<protocol, request, messages, previous, server.opened, server.cut>>
    PROVE  Recorded'
BY DEF Recorded, OnRecord, Has, Id

\* No answer is whole yet.
LEMMA NoneRecorded ==
    ASSUME \A i \in DOMAIN Produced' : Produced'[i].event.kind # "completed"
    PROVE  Recorded'
BY DEF Recorded

\* One event more, and it does not end a whole answer.
LEMMA NoneRecordedThen ==
    ASSUME Typed, Typed', NEW e, e.kind # "completed", Extends(<<e>>),
           \A i \in DOMAIN Produced : Produced[i].event.kind \in {"text", "call"}
    PROVE  Recorded'
<1> DEFINE n == Len(Produced)
<1>1. /\ n \in Nat /\ DOMAIN Produced = 1 .. n /\ DOMAIN Produced' = 1 .. n + 1
      /\ \A i \in 1 .. n : Produced'[i] = Produced[i]
      /\ Produced'[n + 1].event = e
  BY ProducedIs, ProducedThen DEF Extends
<1> HIDE DEF n
<1>2. \A i \in DOMAIN Produced' : i \in DOMAIN Produced \/ i = n + 1
  BY <1>1
<1> QED
  BY <1>1, <1>2, NoneRecorded

LEMMA LastAppended ==
    ASSUME NEW S, NEW s \in Seq(S), NEW x \in S
    PROVE  Append(s, x) # <<>> /\ Last(Append(s, x)) = x
BY DEF Last

\* What the entry of the answer makes of the record.
LEMMA EntryRecorded ==
    ASSUME Typed, ~Has({"responses"}), protocol' = protocol,
           NEW ids \in SUBSET ({<<>>} \cup Ids),
           messages' = Append(messages, Entry("assistant", ids))
    PROVE  OnRecord' = ids
<1> DEFINE e == Entry("assistant", ids)
<1>1. e \in Entries /\ messages \in Seq(Entries) /\ e.role = "assistant" /\ e.calls = ids
  BY DEF Typed, Entry, Entries
<1> HIDE DEF e
<1>2. Append(messages, e) # <<>> /\ Last(Append(messages, e)) = e
  BY <1>1, LastAppended
<1>3. messages' = Append(messages, e) /\ protocol' # "responses"
  BY DEF e, Has
<1> QED
  BY <1>1, <1>2, <1>3 DEF OnRecord

LEMMA RecordedNext ==
    Typed /\ Typed' /\ Assembling /\ Placed /\ Recorded /\ [Next]_vars => Recorded'
<1> SUFFICES ASSUME Typed, Typed', Assembling, Placed, Recorded, [Next]_vars
             PROVE  Recorded'
  OBVIOUS
<1>t. OfNorm /\ OfServer
  BY TypedIs
<1>p. UNCHANGED <<out, pending>> => Produced' = Produced
  BY DEF Produced
<1>e. <<>> \o <<>> = <<>>
  OBVIOUS
<1>i. \A S \in SUBSET Calls : {Id(c) : c \in S} \in SUBSET ({<<>>} \cup Ids)
  BY RequestIs DEF Id, Ids
<1>d. UNCHANGED <<norm, server>> => Done' = Done
  BY DEF Done, Partial
<1>s. DOMAIN <<>> = {}
  OBVIOUS
<1>1. CASE SubmitToolResults \/ \E warns \in BOOLEAN : Send(warns)
  <2>1. Produced' = <<>>
    BY <1>1, <1>e DEF SubmitToolResults, Send, Produced
  <2> QED
    BY <2>1, <1>s, NoneRecorded
<1>2. CASE LeaveTools \/ Refused \/ Drop \/ Cancel \/ UNCHANGED vars
  <2>1. UNCHANGED <<out, pending, norm, server, protocol, request, messages, previous>>
    BY <1>2 DEF LeaveTools, Refused, Drop, Cancel, vars
  <2> QED
    BY <2>1, <1>p, <1>d, RecordedKept
<1>3. CASE Connect
  <2>1. CASE phase' = "idle" /\ out' = <<[event |-> End("cancelled"), warning |-> 0]>>
    <3>1. pending' = <<>>
      BY <1>3 DEF Connect, Placed
    <3>2. Produced' = <<[event |-> End("cancelled"), warning |-> 0]>>
      BY <2>1, <3>1 DEF Produced
    <3> QED
      BY <3>2, NoneRecorded DEF End
  <2>2. CASE UNCHANGED out
    <3>1. UNCHANGED <<out, pending, norm, server, protocol, request, messages, previous>>
      BY <1>3, <2>2 DEF Connect
    <3> QED
      BY <3>1, <1>p, <1>d, RecordedKept
  <2> QED
    BY <1>3, <2>1, <2>2 DEF Connect
<1>4. CASE StreamCancelled
  <2> DEFINE e == End("cancelled")
  <2>1. e \in Events /\ e.kind = "cancelled"
    BY EventType DEF Kinds, End
  <2> HIDE DEF e
  <2>2. <<e>> \in Seq(Events)
    BY <2>1, OneInSeq
  <2>3. phase = "open" /\ pending = <<>> /\ pending' = <<>> /\ out' = out \o Stamped(<<e>>)
        /\ ~norm.terminal
    BY <1>4 DEF StreamCancelled, e
  <2>4. Stamped(<<e>>) \in Seq(Items) /\ out \in Seq(Items)
    BY <2>2, StampedType DEF Typed
  <2>5. Produced' = Produced \o Stamped(<<e>>)
    BY <2>3, <2>4, ConcatEmptySeq DEF Produced
  <2>6. Extends(<<e>>)
    BY <2>2, <2>5, StampedExtends
  <2> QED
    BY <2>1, <2>3, <2>6, OpenEvents, NoneRecordedThen
<1>5. CASE Deliver
  <2>1. UNCHANGED <<norm, server, protocol, request, messages, previous>>
    BY <1>5 DEF Deliver
  <2> QED
    BY <1>5, <2>1, <1>d, Delivered, RecordedKept
<1>6. CASE Created \/ \E c \in Calls : OpenCall(c) \/ ArgumentPiece(c)
  <2>1. Produced' = Produced /\ Reading
    BY <1>6, QuietKeeps
  <2>2. \A i \in DOMAIN Produced' : Produced'[i].event.kind \in {"text", "call"}
    BY <2>1, ReadingEvents
  <2> QED
    BY <2>2, NoneRecorded
<1>7. CASE TextPiece
  <2>1. Adds(<<TextEvent>>) /\ <<TextEvent>> \in Seq(Events)
    BY <1>7, TextAdds
  <2>2. Extends(<<TextEvent>>) /\ Reading
    BY <2>1, AddsExtends DEF Adds
  <2>3. TextEvent.kind # "completed"
    BY DEF TextEvent
  <2> QED
    BY <2>2, <2>3, ReadingEvents, NoneRecordedThen
<1>8. ASSUME NEW c \in Calls, CloseCall(c)
      PROVE  Recorded'
  <2> DEFINE e == CallEvent(c, server.calls[c])
  <2>1. Adds(<<e>>) /\ <<e>> \in Seq(Events)
    BY <1>8, CloseAdds
  <2>2. e.kind # "completed"
    BY DEF CallEvent
  <2> HIDE DEF e
  <2>3. Extends(<<e>>) /\ Reading
    BY <2>1, AddsExtends DEF Adds
  <2> QED
    BY <2>2, <2>3, ReadingEvents, NoneRecordedThen
<1>9. CASE (Whole \/ CutShort) /\ Has({"chat_completions"})
  <2>1. Finalize /\ request' = request /\ Done' = Partial
    BY <1>9, FinalAdds
  <2>2. messages' = Append(messages, Entry("assistant", {Id(c) : c \in Partial}))
        /\ protocol' = protocol
    BY <1>9, <2>1 DEF Finalize, Partial, Whole, CutShort, streamRest
  <2>3. {Id(c) : c \in Partial} \in SUBSET ({<<>>} \cup Ids)
    BY <1>i, PartialType
  <2>4. ~Has({"responses"})
    BY <1>9 DEF Has
  <2>5. OnRecord' = {Id(c) : c \in Partial}
    BY <2>2, <2>3, <2>4, EntryRecorded
  <2> QED
    BY <2>1, <2>5 DEF Recorded, Id
<1>10. CASE Whole /\ ~Has({"chat_completions"})
  <2>1. server.opened = server.closed /\ Reading /\ UNCHANGED <<protocol, request>>
        /\ UNCHANGED <<server.opened, server.calls>>
    BY <1>10, <1>t DEF Whole, streamRest, OfServer
  <2>2. Done = server.closed /\ Partial = {}
    BY <1>10, <2>1, ReadingPartial DEF Assembling
  <2>3. Done' = Done
    BY <1>10, EndAdds
  <2>4. ToSet(norm.finished) = {Id(c) : c \in Done}
    BY <2>2 DEF Assembling
  <2>5. CASE Has({"messages"})
    <3>1. messages' = Append(messages, Entry("assistant", {Id(c) : c \in Done}))
      BY <1>10, <2>4, <2>5 DEF Whole, Has
    <3>2. {Id(c) : c \in Done} \in SUBSET ({<<>>} \cup Ids)
      BY <1>i, <1>t DEF Done, OfServer
    <3>3. ~Has({"responses"})
      BY <2>5 DEF Has
    <3>4. OnRecord' = {Id(c) : c \in Done}
      BY <2>1, <3>1, <3>2, <3>3, EntryRecorded
    <3> QED
      BY <2>1, <2>3, <3>4 DEF Recorded, Id
  <2>6. CASE Has({"responses"})
    <3>1. previous' = request' /\ protocol' = "responses"
      BY <1>10, <2>1, <2>6 DEF Whole, Has
    <3>2. OnRecord' = {Id(c) : c \in server.opened}
      BY <2>1, <3>1 DEF OnRecord, Id
    <3> QED
      BY <2>1, <2>2, <2>3, <3>2 DEF Recorded, Id
  <2> QED
    BY <1>10, <2>5, <2>6 DEF Whole
<1>11. CASE CutShort /\ ~Has({"chat_completions"})
  <2>1. server'.cut = TRUE /\ protocol' = protocol
    BY <1>11, <1>t DEF CutShort, streamRest, OfServer
  <2> QED
    BY <1>11, <2>1 DEF Recorded, Has
<1>12. CASE Broken
  <2> DEFINE e == End("error")
  <2>1. e \in Events /\ e.kind = "error"
    BY EventType DEF Kinds, End
  <2>2. Reading /\ Emitted(<<e>>) /\ UNCHANGED streamRest
    BY <1>12 DEF Broken
  <2> HIDE DEF e
  <2>3. <<e>> \in Seq(Events)
    BY <2>1, OneInSeq
  <2>4. Extends(<<e>>)
    BY <2>2, <2>3, AddsExtends DEF Adds
  <2> QED
    BY <2>1, <2>2, <2>4, ReadingEvents, NoneRecordedThen
<1> QED
  BY <1>1, <1>2, <1>3, <1>4, <1>5, <1>6, <1>7, <1>8, <1>9, <1>10, <1>11, <1>12 DEF Next


-------------------------------------------------------------------------------
(* Reports *)

LEMMA ReportsNext ==
    Typed /\ Typed' /\ Assembling /\ Placed /\ ReportsDone /\ [Next]_vars => ReportsDone'
<1> SUFFICES ASSUME Typed, Typed', Assembling, Placed, ReportsDone, [Next]_vars
             PROVE  ReportsDone'
  OBVIOUS
<1>t. OfNorm /\ OfServer
  BY TypedIs
<1>e. <<>> \o <<>> = <<>>
  OBVIOUS
<1>k. ASSUME Produced' = Produced, UNCHANGED <<request, norm, server>>
      PROVE  ReportsDone'
  <2>1. Done' = Done
    BY <1>k DEF Done, Partial
  <2> QED
    BY <1>k, <2>1, ReportsKept
<1>p. UNCHANGED <<out, pending>> => Produced' = Produced
  BY DEF Produced
<1>1. CASE SubmitToolResults \/ \E warns \in BOOLEAN : Send(warns)
  <2>1. Produced' = <<>>
    BY <1>1, <1>e DEF SubmitToolResults, Send, Produced
  <2>2. server'.opened = {} /\ server'.text = 0
    BY <1>1 DEF SubmitToolResults, Send, NoAnswer
  <2> QED
    BY <2>1, <2>2, ReportsNothing DEF Done
<1>2. CASE LeaveTools \/ Refused \/ Drop \/ Cancel \/ UNCHANGED vars
  BY <1>2, <1>k, <1>p DEF LeaveTools, Refused, Drop, Cancel, vars
<1>3. CASE Connect
  <2>1. CASE phase' = "idle" /\ out' = <<[event |-> End("cancelled"), warning |-> 0]>>
    <3>1. pending' = <<>> /\ server'.opened = {} /\ server'.text = 0
      BY <1>3 DEF Connect, Placed, NoAnswer
    <3>2. Produced' = <<[event |-> End("cancelled"), warning |-> 0]>>
      BY <2>1, <3>1 DEF Produced
    <3>3. DOMAIN Produced' = {1} /\ Produced'[1].event.kind = "cancelled" /\ Len(Produced') = 1
      BY <3>2 DEF End
    <3>4. {i \in DOMAIN Produced' : Produced'[i].event.kind = "text"} = {}
      BY <3>3
    <3>5. Cardinality({i \in DOMAIN Produced' : Produced'[i].event.kind = "text"}) = 0
      BY <3>4, FS_EmptySet
    <3> QED
      BY <3>1, <3>3, <3>5 DEF ReportsDone, IsCall, Done
  <2>2. CASE UNCHANGED out
    BY <1>3, <1>k, <1>p, <2>2 DEF Connect
  <2> QED
    BY <1>3, <2>1, <2>2 DEF Connect
<1>4. CASE StreamCancelled
  <2> DEFINE e == End("cancelled")
  <2>1. e \in Events /\ e.kind = "cancelled"
    BY EventType DEF Kinds, End
  <2> HIDE DEF e
  <2>2. <<e>> \in Seq(Events)
    BY <2>1, OneInSeq
  <2>3. phase = "open" /\ pending = <<>> /\ pending' = <<>> /\ out' = out \o Stamped(<<e>>)
        /\ ~norm.terminal /\ UNCHANGED <<request, norm, server>>
    BY <1>4 DEF StreamCancelled, e
  <2>4. Stamped(<<e>>) \in Seq(Items) /\ out \in Seq(Items)
    BY <2>2, StampedType DEF Typed
  <2>5. Produced' = Produced \o Stamped(<<e>>)
    BY <2>3, <2>4, ConcatEmptySeq DEF Produced
  <2>6. Extends(<<e>>)
    BY <2>2, <2>5, StampedExtends
  <2>7. Frame /\ Done' = Done
    BY <2>3 DEF Frame, Done, Partial
  <2> QED
    BY <2>1, <2>3, <2>6, <2>7, OpenEvents, ReportsEnd
<1>5. CASE Deliver
  BY <1>5, <1>k, Delivered DEF Deliver
<1>6. CASE Created \/ \E c \in Calls : OpenCall(c) \/ ArgumentPiece(c)
  BY <1>6, QuietKeeps, ReportsKept DEF streamRest
<1>7. CASE TextPiece
  <2>1. Adds(<<TextEvent>>) /\ <<TextEvent>> \in Seq(Events)
        /\ Frame /\ Done' = Done /\ server'.text = server.text + 1
    BY <1>7, TextAdds
  <2>2. Extends(<<TextEvent>>) /\ Reading
    BY <2>1, AddsExtends DEF Adds
  <2>3. TextEvent.kind = "text"
    BY DEF TextEvent
  <2> QED
    BY <2>1, <2>2, <2>3, ReadingEvents, ReportsText
<1>8. ASSUME NEW c \in Calls, CloseCall(c)
      PROVE  ReportsDone'
  <2> DEFINE e == CallEvent(c, server.calls[c])
  <2>1. /\ Adds(<<e>>) /\ <<e>> \in Seq(Events)
        /\ Frame /\ c \notin Done /\ Done' = Done \cup {c} /\ server'.text = server.text
        /\ server'.calls[c] = server.calls[c]
    BY <1>8, CloseAdds
  <2>2. Extends(<<e>>) /\ Reading
    BY <2>1, AddsExtends DEF Adds
  <2> QED
    BY <2>1, <2>2, ReadingEvents, ReportsCall
<1>9. CASE (Whole \/ CutShort) /\ Has({"chat_completions"})
  <2>1. /\ Adds(Final) /\ Final \in Seq(Events)
        /\ request' = request /\ server'.text = server.text /\ Done = {}
        /\ Done' = Partial
        /\ \A c \in Partial : server'.calls[c] = server.calls[c]
    BY <1>9, FinalAdds
  <2>2. Extends(Final) /\ Reading
    BY <2>1, AddsExtends DEF Adds
  <2> QED
    BY <2>1, <2>2, ReadingEvents, ReportsFinal
<1>10. CASE Broken \/ ((Whole \/ CutShort) /\ ~Has({"chat_completions"}))
  <2>1. PICK k \in {"completed", "error"} :
           Adds(<<End(k)>>) /\ <<End(k)>> \in Seq(Events) /\ End(k).kind = k
    BY <1>10, EndAdds
  <2>2. Frame /\ Done' = Done /\ server'.text = server.text
    BY <1>10, EndAdds
  <2> DEFINE e == End(k)
  <2>3. e.kind \notin {"text", "call"} /\ Adds(<<e>>) /\ <<e>> \in Seq(Events)
    BY <2>1
  <2> HIDE DEF e
  <2>4. Extends(<<e>>) /\ Reading
    BY <2>3, AddsExtends DEF Adds
  <2> QED
    BY <2>2, <2>3, <2>4, ReadingEvents, ReportsEnd
<1> QED
  BY <1>1, <1>2, <1>3, <1>4, <1>5, <1>6, <1>7, <1>8, <1>9, <1>10 DEF Next


-------------------------------------------------------------------------------
(* The invariant and what follows from it *)

Kept == Typed /\ StreamInv

LEMMA KeptInit == Init => Kept
<1> SUFFICES ASSUME Init
             PROVE  Kept
  OBVIOUS
<1>1. /\ phase = "idle" /\ norm = Fresh /\ server = NoAnswer
      /\ out = <<>> /\ pending = <<>>
  BY DEF Init
<1>2. Produced = <<>> /\ Done = {} /\ server.text = 0
  BY <1>1 DEF Produced, Done, NoAnswer
<1>3. Assembling
  BY <1>1, AssemblingFresh
<1>4. ReportsDone
  <2>1. {i \in DOMAIN Produced : Produced[i].event.kind = "text"} = {}
    BY <1>2
  <2>2. Cardinality({i \in DOMAIN Produced : Produced[i].event.kind = "text"}) = 0
    BY <2>1, FS_EmptySet
  <2> QED
    BY <1>2, <2>2 DEF ReportsDone
<1>5. Placed /\ Recorded /\ Warned
  BY <1>1, <1>2 DEF Placed, Recorded, Warned
<1> QED
  BY <1>3, <1>4, <1>5, TypedInit DEF Kept, StreamInv

LEMMA KeptNext == Kept /\ [Next]_vars => Kept'
<1> SUFFICES ASSUME Kept, [Next]_vars
             PROVE  Kept'
  OBVIOUS
<1>1. Typed /\ Assembling /\ ReportsDone /\ Placed /\ Recorded /\ Warned
  BY DEF Kept, StreamInv
<1>2. Typed'
  BY <1>1, TypedNext
<1>3. Assembling' /\ ReportsDone' /\ Placed' /\ Recorded' /\ Warned'
  BY <1>1, <1>2, AssemblingNext, ReportsNext, PlacedNext, RecordedNext, WarnedNext
<1> QED
  BY <1>2, <1>3 DEF Kept, StreamInv

\* Once the turn took the end of an answer, it took all there is.
LEMMA TookAll ==
    ASSUME Kept, out # <<>>, Last(out).event.kind = "completed"
    PROVE  Produced = out /\ \E i \in DOMAIN out : out[i].event.kind = "completed"
<1>1. out \in Seq(Items) /\ pending \in Seq(Items) /\ Typed /\ ReportsDone
  BY DEF Kept, Typed, StreamInv
<1>2. /\ Len(out) \in Nat \ {0} /\ Len(out) \in DOMAIN out /\ DOMAIN out = 1 .. Len(out)
      /\ Last(out) = out[Len(out)]
  BY <1>1, LastIs
<1>3. Len(out) \in DOMAIN Produced /\ Produced[Len(out)] = out[Len(out)]
      /\ Len(Produced) = Len(out) + Len(pending) /\ Len(pending) \in Nat
  BY <1>1, <1>2, ProducedIs
<1>4. Len(out) = Len(Produced)
  BY <1>1, <1>2, <1>3 DEF ReportsDone
<1>5. pending = <<>>
  BY <1>1, <1>2, <1>3, <1>4
<1>6. Produced = out
  BY <1>1, <1>5, ConcatEmptySeq DEF Produced
<1> QED
  BY <1>2, <1>6

LEMMA KeptWhole == Kept => AnswerArrivesWhole
<1> SUFFICES ASSUME Kept, server.whole, out # <<>>, Last(out).event.kind = "completed"
             PROVE  /\ Cardinality({i \in DOMAIN out : out[i].event.kind = "text"}) = server.text
                    /\ \A c \in server.opened :
                          \E i \in DOMAIN out :
                             /\ out[i].event.call = Id(c)
                             /\ out[i].event.args = server.calls[c]
                             /\ \A j \in DOMAIN out \ {i} : out[j].event.call # Id(c)
  BY DEF AnswerArrivesWhole
<1>1. Produced = out
  BY TookAll
<1>2. Typed /\ Assembling /\ ReportsDone
  BY DEF Kept, StreamInv
<1>3. Done = server.opened
  BY <1>2 DEF Assembling, Done
<1>4. Cardinality({i \in DOMAIN out : out[i].event.kind = "text"}) = server.text
  BY <1>1, <1>2 DEF ReportsDone
<1>5. ASSUME NEW c \in server.opened
      PROVE  \E i \in DOMAIN out :
                /\ out[i].event.call = Id(c)
                /\ out[i].event.args = server.calls[c]
                /\ \A j \in DOMAIN out \ {i} : out[j].event.call # Id(c)
  <2>1. PICK i \in DOMAIN out : out[i].event.kind = "call" /\ out[i].event.call = Id(c)
    BY <1>1, <1>2, <1>3 DEF ReportsDone, IsCall
  <2>2. PICK d \in Done : out[i].event = CallEvent(d, server.calls[d])
    BY <1>1, <1>2, <2>1 DEF ReportsDone, IsCall
  <2>3. d = c
    BY <2>1, <2>2 DEF CallEvent, Id
  <2>4. out[i].event.args = server.calls[c]
    BY <2>2, <2>3 DEF CallEvent
  <2>5. ASSUME NEW j \in DOMAIN out \ {i}
        PROVE  out[j].event.call # Id(c)
    <3>1. CASE out[j].event.kind = "call"
      BY <1>1, <1>2, <2>1, <2>5, <3>1 DEF ReportsDone, IsCall
    <3>2. CASE out[j].event.kind # "call"
      <4>1. out[j] \in Items
        BY <1>2 DEF Typed
      <4>2. out[j].event \in Events
        BY <4>1 DEF Items
      <4>3. out[j].event.call = <<>>
        BY <3>2, <4>2 DEF Events
      <4> QED
        BY <4>3 DEF Id
    <3> QED
      BY <3>1, <3>2
  <2> QED
    BY <2>1, <2>4, <2>5
<1> QED
  BY <1>4, <1>5

LEMMA KeptApart == Kept => RequestsKeptApart
<1> SUFFICES ASSUME Kept
             PROVE  TypeOK /\ ResultsAnswerTheRecord /\ WarningIsOfItsRequest
  BY DEF RequestsKeptApart
<1>1. Typed /\ Assembling /\ ReportsDone /\ Placed /\ Recorded /\ Warned
  BY DEF Kept, StreamInv
<1>2. TypeOK
  <2>1. DOMAIN norm.partial \subseteq Calls
    BY <1>1, PartialType DEF Partial
  <2>2. \A i \in DOMAIN messages : messages[i].role \in {"user", "assistant", "tool"}
    <3>1. \A i \in DOMAIN messages : messages[i] \in Entries
      BY <1>1 DEF Typed
    <3> QED
      BY <3>1 DEF Entries
  <2> QED
    BY <1>1, <2>1, <2>2 DEF TypeOK, Typed, Assembling
<1>3. ResultsAnswerTheRecord
  <2> SUFFICES ASSUME phase = "tools", server.cut => Has({"chat_completions"})
               PROVE  CallsIn(out) = OnRecord
    BY DEF ResultsAnswerTheRecord
  <2>1. Produced = out /\ \E i \in DOMAIN out : out[i].event.kind = "completed"
    BY <1>1, TookAll DEF Placed
  <2>2. OnRecord = {Id(c) : c \in Done}
    BY <1>1, <2>1 DEF Recorded
  <2>3. \A i \in DOMAIN out : out[i].event.kind = "call" =>
           \E c \in Done : out[i].event.call = Id(c)
    <3>1. \A c : CallEvent(c, server.calls[c]).call = Id(c)
      BY DEF CallEvent
    <3>2. \A i \in DOMAIN out : out[i].event.kind = "call" =>
             \E c \in Done : out[i].event = CallEvent(c, server.calls[c])
      BY <1>1, <2>1 DEF ReportsDone, IsCall
    <3> QED
      BY <3>1, <3>2
  <2>4. \A c \in Done : \E i \in DOMAIN out :
           out[i].event.kind = "call" /\ out[i].event.call = Id(c)
    BY <1>1, <2>1 DEF ReportsDone, IsCall
  <2>5. CallsIn(out) = {Id(c) : c \in Done}
    BY <2>3, <2>4 DEF CallsIn
  <2> QED
    BY <2>2, <2>5
<1>4. WarningIsOfItsRequest
  <2>1. \A i \in DOMAIN out : /\ i \in DOMAIN Produced /\ Produced[i] = out[i]
                              /\ Produced[1] = out[1]
    BY <1>1, ProducedIs
  <2> QED
    BY <1>1, <2>1 DEF WarningIsOfItsRequest, Warned
<1> QED
  BY <1>2, <1>3, <1>4

(* A completed answer that the server marked whole reached the turn as it was *)
(* sent, whatever the order of its pieces: for any number of calls, of pieces   *)
(* and of requests.                                                              *)
THEOREM AnswersArriveWhole == Spec => []AnswerArrivesWhole
BY KeptInit, KeptNext, KeptWhole, PTL DEF Spec

(* What one request leaves behind is never taken for another's: the results    *)
(* sent back answer the calls on record, and a warning is shown with the        *)
(* request that raised it.                                                       *)
THEOREM RequestsAreKeptApart == Spec => []RequestsKeptApart
BY KeptInit, KeptNext, KeptApart, PTL DEF Spec

-------------------------------------------------------------------------------
(* The promise *)

\* What the stream of the last request shows, in the words of EventStream.
State    == CASE phase = "open" -> "streaming"
              [] phase \in {"connecting", "refused"} -> "waiting"
              [] OTHER -> "idle"
Reported == {c \in Calls : Id(c) \in CallsIn(out)}
Ending   == IF out # <<>> /\ Terminal(Last(out).event) THEN Last(out).event.kind ELSE "none"

shown == <<State, Reported, Ending>>

LEMMA StateIs ==
    /\ phase = "open" => State = "streaming"
    /\ phase \in {"connecting", "refused"} => State = "waiting"
    /\ phase \in {"idle", "tools"} => State = "idle"
BY DEF State

LEMMA StateThen ==
    /\ phase' = "open" => State' = "streaming"
    /\ phase' \in {"connecting", "refused"} => State' = "waiting"
    /\ phase' \in {"idle", "tools"} => State' = "idle"
BY DEF State

\* Nothing taken, nothing shown.
LEMMA NothingShown ==
    /\ out = <<>> => Reported = {} /\ Ending = "none"
    /\ out' = <<>> => Reported' = {} /\ Ending' = "none"
BY DEF Reported, Ending, CallsIn

\* One event more: `e` after those in `out`.
LEMMA ShownAppend ==
    ASSUME Kept, Kept', request' = request, NEW e, Len(out') = Len(out) + 1,
           out'[Len(out) + 1] = e, \A i \in 1 .. Len(out) : out'[i] = out[i],
           \A i \in DOMAIN out : ~Terminal(out[i].event)
    PROVE  /\ Ending = "none"
           /\ Ending' = IF Terminal(e.event) THEN e.event.kind ELSE "none"
           /\ CallsIn(out') = CallsIn(out) \cup
                              (IF e.event.kind = "call" THEN {e.event.call} ELSE {})
<1>1. out \in Seq(Items) /\ out' \in Seq(Items)
  BY DEF Kept, Typed
<1>2. /\ DOMAIN out = 1 .. Len(out) /\ Len(out) \in Nat /\ DOMAIN out' = 1 .. Len(out) + 1
      /\ out' # <<>>
  BY <1>1
<1>3. Last(out') = e
  BY <1>1, <1>2, LastIs
<1>4. Ending = "none"
  BY <1>1, LastIs DEF Ending
<1>5. Ending' = IF Terminal(e.event) THEN e.event.kind ELSE "none"
  BY <1>2, <1>3 DEF Ending, Terminal
<1>6. \A i \in DOMAIN out' : i \in DOMAIN out \/ i = Len(out) + 1
  BY <1>2
<1>7. Len(out) + 1 \in DOMAIN out' /\ \A i \in DOMAIN out : i \in DOMAIN out' /\ out'[i] = out[i]
  BY <1>2
<1>8. CallsIn(out') = CallsIn(out) \cup (IF e.event.kind = "call" THEN {e.event.call} ELSE {})
  <2> DEFINE m == Len(out) + 1
             Is(s, i) == s[i].event.kind = "call"
  <2>1. CallsIn(out') = {out'[i].event.call : i \in {j \in DOMAIN out' : Is(out', j)}}
        /\ CallsIn(out) = {out[i].event.call : i \in {j \in DOMAIN out : Is(out, j)}}
    BY DEF CallsIn
  <2> HIDE DEF m
  <2>2. /\ out'[m] = e /\ m \in DOMAIN out'
        /\ \A i \in DOMAIN out' : i \in DOMAIN out \/ i = m
    BY <1>6, <1>7 DEF m
  <2> QED
    BY <1>7, <2>1, <2>2
<1> QED
  BY <1>4, <1>5, <1>8

LEMMA Refines ==
    Kept /\ Kept' /\ [Next]_vars => [Promised!Next]_shown
<1> SUFFICES ASSUME Kept, Kept', [Next]_vars
             PROVE  [Promised!Next]_shown
  OBVIOUS
<1>t. Typed /\ Assembling /\ ReportsDone /\ Placed
  BY DEF Kept, StreamInv
<1>u. UNCHANGED <<out, request>> => UNCHANGED <<Reported, Ending>>
  BY DEF Reported, Ending, Id, CallsIn, Terminal
<1>d. /\ Promised!Ask <=> /\ State = "idle" /\ State' = "waiting" /\ Reported' = {}
                          /\ Ending' = "none"
      /\ Promised!Refuse <=> /\ State \in {"idle", "waiting"} /\ State' = "idle"
                             /\ Reported' = {} /\ Ending' \in {"none", "cancelled"}
      /\ Promised!Open <=> /\ State = "waiting" /\ State' = "streaming"
                           /\ UNCHANGED <<Reported, Ending>>
      /\ Promised!End <=> /\ State = "streaming" /\ State' = "idle"
                          /\ Ending' \in {"completed", "error", "cancelled"}
                          /\ UNCHANGED Reported
      /\ Promised!Abandon <=> /\ State = "streaming" /\ State' = "idle"
                              /\ UNCHANGED <<Reported, Ending>>
      /\ \A c : Promised!Report(c) <=>
             /\ State = "streaming" /\ c \notin Reported /\ Reported' = Reported \cup {c}
             /\ UNCHANGED <<State, Ending>>
  BY DEF Promised!Ask, Promised!Refuse, Promised!Open, Promised!End, Promised!Abandon,
         Promised!Report, Promised!Endings, State, Reported, Ending
<1>n. Promised!Next <=> \/ Promised!Ask \/ Promised!Refuse \/ Promised!Open \/ Promised!End
                        \/ Promised!Abandon \/ \E c \in Calls : Promised!Report(c)
  BY DEF Promised!Next
<1>s. UNCHANGED <<State, Reported, Ending>> => UNCHANGED shown
  BY DEF shown
<1>v. State' = State \/ phase' # phase
  BY DEF State
<1>1. CASE SubmitToolResults \/ \E warns \in BOOLEAN : Send(warns)
  <2>1. phase \in {"idle", "tools"} /\ phase' \in {"idle", "connecting"} /\ out' = <<>>
    BY <1>1 DEF SubmitToolResults, Send
  <2>2. State = "idle" /\ State' \in {"idle", "waiting"} /\ Reported' = {} /\ Ending' = "none"
    BY <2>1, StateIs, StateThen, NothingShown
  <2> QED
    BY <2>2, <1>d, <1>n
<1>2. CASE LeaveTools
  <2>1. State = "idle" /\ State' = "idle" /\ UNCHANGED <<out, request>>
    BY <1>2, StateIs, StateThen DEF LeaveTools
  <2> QED
    BY <2>1, <1>u, <1>s
<1>3. CASE Cancel \/ UNCHANGED vars
  <2>1. UNCHANGED <<phase, out, request>>
    BY <1>3 DEF Cancel, vars
  <2> QED
    BY <2>1, <1>u, <1>s, <1>v
<1>4. CASE Connect
  <2>1. State = "waiting" /\ out = <<>> /\ request' = request
    BY <1>4, <1>t, StateIs DEF Connect, Placed
  <2>2. CASE phase' = "idle" /\ out' = <<[event |-> End("cancelled"), warning |-> 0]>>
    <3> DEFINE e == [event |-> End("cancelled"), warning |-> 0]
    <3>1. e.event.kind = "cancelled" /\ Terminal(e.event) /\ out' = <<e>>
      BY <2>2 DEF End, Terminal
    <3> HIDE DEF e
    <3>2. out' # <<>> /\ Last(out') = e /\ DOMAIN out' = {1} /\ out'[1] = e
      BY <3>1 DEF Last
    <3>3. CallsIn(out') = {}
      BY <3>1, <3>2 DEF CallsIn
    <3>4. Reported' = {} /\ Ending' = "cancelled" /\ State' = "idle"
      BY <2>2, <3>1, <3>2, <3>3, StateThen DEF Reported, Ending, Terminal
    <3> QED
      BY <2>1, <3>4, <1>d, <1>n
  <2>3. CASE phase' = "idle" /\ UNCHANGED out
    <3>1. Reported' = {} /\ Ending' = "none" /\ State' = "idle"
      BY <2>1, <2>3, StateThen, NothingShown
    <3> QED
      BY <2>1, <3>1, <1>d, <1>n
  <2>4. CASE phase' \in {"open", "refused"} /\ UNCHANGED out
    <3>1. State' = "streaming" \/ State' = "waiting"
      BY <2>4, StateThen
    <3> QED
      BY <2>1, <2>4, <3>1, <1>d, <1>n, <1>s, <1>u
  <2> QED
    BY <1>4, <2>2, <2>3, <2>4 DEF Connect
<1>5. CASE Refused
  <2>1. State = "waiting" /\ State' = "idle" /\ out' = <<>>
    BY <1>5, <1>t, StateIs, StateThen DEF Refused, Placed
  <2> QED
    BY <2>1, <1>d, <1>n, NothingShown
<1>6. CASE StreamCancelled
  <2> DEFINE e == End("cancelled")
             x == [event |-> e, warning |-> warning]
  <2>1. /\ phase = "open" /\ pending = <<>> /\ ~norm.terminal /\ phase' = "idle"
        /\ out' = out \o Stamped(<<e>>) /\ request' = request
    BY <1>6 DEF StreamCancelled
  <2>2. e \in Events /\ e.kind = "cancelled"
    BY <1>t, EventType DEF Kinds, End
  <2> HIDE DEF e
  <2>3. <<e>> \in Seq(Events) /\ Len(<<e>>) = 1 /\ <<e>>[1] = e
    BY <2>2, OneInSeq
  <2> DEFINE s == Stamped(<<e>>)
  <2>a. s \in Seq(Items) /\ Len(s) = 1 /\ s[1] = x
    <3> DEFINE es == <<e>>
    <3>1. /\ Stamped(es) \in Seq(Items) /\ Len(Stamped(es)) = Len(es)
          /\ \A j \in 1 .. Len(es) : Stamped(es)[j] =
                [event |-> es[j], warning |-> IF j = 1 THEN warning ELSE 0]
      BY <1>t, <2>3, StampedType
    <3>2. Len(es) = 1 /\ es[1] = e
      BY <2>3
    <3> HIDE DEF es
    <3> QED
      BY <3>1, <3>2 DEF es
  <2>4. x.event.kind = "cancelled" /\ Terminal(x.event)
    BY <2>2 DEF Terminal
  <2> HIDE DEF x, s
  <2>5. out \in Seq(Items) /\ \A i \in DOMAIN out : ~Terminal(out[i].event)
    BY <1>t, <2>1 DEF Typed, Placed
  <2>6. /\ Len(out') = Len(out) + 1 /\ out'[Len(out) + 1] = x
        /\ \A i \in 1 .. Len(out) : out'[i] = out[i]
    <3>1. out' = out \o s
      BY <2>1 DEF s
    <3>0. out \in Seq(Items) /\ s \in Seq(Items)
      BY <2>5, <2>a
    <3>2. /\ Len(out \o s) = Len(out) + Len(s)
          /\ \A i \in 1 .. Len(out) : (out \o s)[i] = out[i]
          /\ \A i \in 1 .. Len(s) : (out \o s)[Len(out) + i] = s[i]
      BY <3>0, ConcatAt
    <3> QED
      BY <2>a, <3>1, <3>2
  <2>7. Ending' = "cancelled" /\ CallsIn(out') = CallsIn(out)
    BY <2>1, <2>4, <2>5, <2>6, ShownAppend
  <2>8. Reported' = Reported
    BY <2>1, <2>7 DEF Reported, Id
  <2> QED
    BY <2>1, <2>7, <2>8, <1>d, <1>n, StateIs, StateThen
<1>7. CASE Deliver
  <2> DEFINE h == Head(pending)
  <2>1. /\ Len(out') = Len(out) + 1 /\ out'[Len(out) + 1] = h
        /\ \A i \in 1 .. Len(out) : out'[i] = out[i]
        /\ Len(pending) \in Nat \ {0} /\ h = pending[1]
        /\ phase = "open" /\ request' = request
    BY <1>7, <1>t, Delivered DEF Deliver
  <2>p. \/ phase' = "open" /\ ~Terminal(h.event)
        \/ phase' \in {"idle", "tools"} /\ Terminal(h.event)
    BY <1>7 DEF Deliver, Terminal
  <2>k. /\ 1 \in DOMAIN pending /\ Len(out) + 1 \in DOMAIN Produced
        /\ Produced[Len(out) + 1] = h
        /\ \A i \in DOMAIN out : i \in DOMAIN Produced /\ Produced[i] = out[i]
                                 /\ i # Len(out) + 1
    BY <1>t, <2>1, ProducedIs
  <2> HIDE DEF h
  <2>2. \A i \in DOMAIN out : ~Terminal(out[i].event)
    BY <1>t, <2>1 DEF Placed
  <2>3. /\ Ending = "none"
        /\ Ending' = IF Terminal(h.event) THEN h.event.kind ELSE "none"
        /\ CallsIn(out') = CallsIn(out) \cup (IF h.event.kind = "call" THEN {h.event.call} ELSE {})
    BY <2>1, <2>2, ShownAppend
  <2>4. State = "streaming"
    BY <2>1, StateIs
  <2>5. CASE Terminal(h.event)
    <3>1. h.event.kind \in {"completed", "error", "cancelled"}
      BY <2>5 DEF Terminal
    <3>2. Reported' = Reported
      BY <2>1, <2>3, <3>1 DEF Reported, Id
    <3> QED
      BY <2>3, <2>4, <2>5, <2>p, <3>1, <3>2, <1>d, <1>n, StateThen
  <2>6. CASE ~Terminal(h.event) /\ h.event.kind # "call"
    <3>1. Reported' = Reported /\ Ending' = Ending
      BY <2>1, <2>3, <2>6 DEF Reported, Id
    <3>2. State' = State
      BY <2>4, <2>6, <2>p, StateThen
    <3> QED
      BY <3>1, <3>2, <1>s
  <2>7. CASE ~Terminal(h.event) /\ h.event.kind = "call"
    <3>1. PICK c \in Done : h.event = CallEvent(c, server.calls[c])
      BY <1>t, <2>7, <2>k DEF ReportsDone, IsCall
    <3>2. h.event.call = Id(c)
      BY <3>1 DEF CallEvent
    <3>3. c \in Calls
      BY <1>t DEF Done, Typed
    <3>4. c \notin Reported
      <4> SUFFICES ASSUME Id(c) \in CallsIn(out)
                   PROVE  FALSE
        BY DEF Reported
      <4>1. PICK i \in DOMAIN out : out[i].event.kind = "call" /\ out[i].event.call = Id(c)
        BY DEF CallsIn
      <4> QED
        BY <1>t, <2>7, <2>k, <3>2, <4>1 DEF ReportsDone, IsCall
    <3>5. \A d \in Calls : Id(d)' = Id(d) /\ (Id(d) = Id(c) <=> d = c)
      BY <2>1 DEF Id
    <3>6. Reported' = Reported \cup {c}
      BY <2>3, <2>7, <3>2, <3>3, <3>5 DEF Reported
    <3>7. State' = State /\ Ending' = Ending
      BY <2>3, <2>4, <2>7, <2>p, StateThen
    <3> QED
      BY <2>4, <3>3, <3>4, <3>6, <3>7, <1>d, <1>n
  <2> QED
    BY <2>5, <2>6, <2>7
<1>8. CASE Drop
  <2>1. State = "streaming" /\ State' = "idle" /\ UNCHANGED <<out, request>>
    BY <1>8, StateIs, StateThen DEF Drop
  <2> QED
    BY <2>1, <1>u, <1>d, <1>n
<1>9. CASE \/ Created \/ TextPiece \/ Whole \/ CutShort \/ Broken
           \/ \E c \in Calls : OpenCall(c) \/ ArgumentPiece(c) \/ CloseCall(c)
  <2>1. UNCHANGED streamRest
    BY <1>9 DEF Created, TextPiece, Whole, CutShort, Broken, OpenCall, ArgumentPiece, CloseCall
  <2> QED
    BY <2>1, <1>u, <1>s, <1>v DEF streamRest
<1> QED
  BY <1>1, <1>2, <1>3, <1>4, <1>5, <1>6, <1>7, <1>8, <1>9 DEF Next

(* The adapter implements EventStream: a call is reported once, one terminal   *)
(* event ends a stream and nothing follows it, for any number of calls, pieces  *)
(* and requests, on each of the three protocols.                                *)
THEOREM StreamKeepsPromise == Spec => KeepsPromise
<1>1. Init => Promised!Init
  BY NothingShown, StateIs DEF Init, Promised!Init, State, Reported, Ending
<1>2. Kept /\ Kept' /\ [Next]_vars => [Promised!Next]_shown
  BY Refines
<1> QED
  BY <1>1, <1>2, KeptInit, KeptNext, PTL
     DEF Spec, KeepsPromise, Promised!Spec, Promised!vars, shown, State, Reported, Ending
-------------------------------------------------------------------------------
(* Discovery (v1 is what is asked for, v2 the clock, v3 the program, v4 when   *)
(* each version came out, v5 the cache file, v6 the checks, v7 the update).    *)

\* A value that is known to have been the newest at a time.
Honest(value, at) ==
    /\ value.number \in 1 .. Len(v4) /\ at \in Nat /\ at <= v2
    /\ Found!NewestSince(value, at)

Named(value, owner) == v1 = "version" => value.of = owner

\* What a cache file, or a copy of one, says of an owner's installation.
Claims(r, owner) ==
    /\ r.at \in Nat
    /\ r.at # 0 => Honest(r.value, r.at) /\ Named(r.value, owner)

\* What a check says it shows.
Shows(ch, r) ==
    /\ Honest(r.value, r.at) /\ Named(r.value, ch.owner)
    /\ r.mark = "current" =>
          r.at = ch.now \/ (ch.mode # "refresh" /\ ch.now < r.at + Interval)
    /\ ch.offer => ch.owner \in Found!Owners /\ ch.installed < r.value.number

CheckTyped(ch) ==
    /\ DOMAIN ch = {"step", "mode", "installed", "owner", "offer", "now", "cached", "answer",
                    "result"}
    /\ ch.step \in {"idle", "looking", "asking", "writing", "done"} /\ ch.offer \in BOOLEAN

CheckInv(ch) ==
    /\ CheckTyped(ch)
    /\ ch.step \in {"asking", "writing"} =>
          /\ ch.now \in Nat /\ ch.now <= v2
          /\ ch.offer => ch.owner \in Found!Owners
          /\ Claims(ch.cached, ch.owner)
    /\ ch.step = "writing" /\ ch.answer # None =>
          Honest(ch.answer, ch.now) /\ Named(ch.answer, ch.owner)
    /\ ch.step = "done" /\ ch.result.value # None => Shows(ch, ch.result)

WorldTyped == v2 \in Nat /\ v4 \in Seq(Nat) /\ Len(v4) > 0

UpdateInv ==
    /\ DOMAIN v7 = {"step", "child", "cancel", "check"}
    /\ Found!NoInstallerLeft
    /\ v7.step = "rechecking" => v7.check \in Checks

FoundInv ==
    /\ WorldTyped /\ UpdateInv
    /\ \A f \in {v5} : Claims(f, f.owner)
    /\ DOMAIN v6 = Checks /\ \A ch \in {v6[c] : c \in Checks} : CheckInv(ch)

\* Time passes, and versions come out, one at a time.
WorldMoves == /\ v1' = v1 /\ v2' \in Nat /\ v2 <= v2' /\ v4' \in {v4, Append(v4, v2)}

(* What was the newest once was so ever after. *)
LEMMA HonestStays ==
    ASSUME WorldTyped, WorldMoves, NEW value, NEW at, Honest(value, at) PROVE Honest(value, at)'
<1>1. v2 \in Nat /\ v4 \in Seq(Nat) /\ Len(v4) \in Nat
  BY DEF WorldTyped
<1>2. /\ value.number \in 1 .. Len(v4) /\ at \in Nat /\ at <= v2
      /\ value.number = Len(v4) \/ v4[value.number + 1] >= at
  BY DEF Honest, Found!NewestSince, Found!Newest
<1>3. at <= v2'
  BY <1>1, <1>2 DEF WorldMoves
<1>4. CASE v4' = v4
  BY <1>2, <1>3, <1>4 DEF Honest, Found!NewestSince, Found!Newest
<1>5. CASE v4' = Append(v4, v2)
  <2>1. /\ Len(v4') = Len(v4) + 1 /\ v4'[Len(v4) + 1] = v2
        /\ \A i \in 1 .. Len(v4) : v4'[i] = v4[i]
    BY <1>1, <1>5
  <2>2. value.number \in 1 .. Len(v4')
    BY <1>1, <1>2, <2>1
  <2>3. v4'[value.number + 1] >= at
    <3>1. CASE value.number = Len(v4)
      BY <1>1, <1>2, <2>1, <3>1
    <3>2. CASE value.number # Len(v4)
      <4>1. value.number + 1 \in 1 .. Len(v4)
        BY <1>1, <1>2, <3>2
      <4> QED
        BY <4>1, <1>2, <2>1, <3>2
    <3> QED
      BY <3>1, <3>2
  <2> QED
    BY <1>2, <1>3, <2>2, <2>3 DEF Honest, Found!NewestSince, Found!Newest
<1> QED
  BY <1>4, <1>5 DEF WorldMoves

LEMMA ClaimsStay ==
    ASSUME WorldTyped, WorldMoves, NEW r, NEW owner, Claims(r, owner) PROVE Claims(r, owner)'
<1>1. r.at # 0 => Honest(r.value, r.at)'
  BY HonestStays DEF Claims
<1> QED
  BY <1>1 DEF Claims, Named, WorldMoves

LEMMA CheckStays ==
    ASSUME WorldTyped, WorldMoves, NEW ch, CheckInv(ch) PROVE CheckInv(ch)'
<1>1. ch.step \in {"asking", "writing"} => ch.now <= v2' /\ Claims(ch.cached, ch.owner)'
  BY ClaimsStay DEF CheckInv, WorldTyped, WorldMoves
<1>2. ch.step = "writing" /\ ch.answer # None =>
        Honest(ch.answer, ch.now)' /\ Named(ch.answer, ch.owner)'
  BY HonestStays DEF CheckInv, Named, WorldMoves
<1>3. ch.step = "done" /\ ch.result.value # None => Shows(ch, ch.result)'
  <2> SUFFICES ASSUME ch.step = "done", ch.result.value # None PROVE Shows(ch, ch.result)'
    OBVIOUS
  <2>1. Shows(ch, ch.result)
    BY DEF CheckInv
  <2>2. Honest(ch.result.value, ch.result.at)'
    BY <2>1, HonestStays DEF Shows
  <2> QED
    BY <2>1, <2>2 DEF Shows, Named, WorldMoves
<1> QED
  BY <1>1, <1>2, <1>3 DEF CheckInv, CheckTyped

LEMMA FileIs == ASSUME FoundInv, NEW f, f = v5 PROVE Claims(f, f.owner)
  BY DEF FoundInv

LEMMA CheckIs == ASSUME FoundInv, NEW c \in Checks, NEW ch, ch = v6[c] PROVE CheckInv(ch)
  BY DEF FoundInv

(* Steps of the world, and of an update, leave the checks alone. *)
LEMMA ChecksStand ==
    ASSUME FoundInv, WorldMoves, UNCHANGED <<v5, v6>>, UpdateInv' PROVE FoundInv'
<1>1. WorldTyped
  BY DEF FoundInv
<1>2. WorldTyped'
  BY <1>1 DEF WorldTyped, WorldMoves
<1>3. ASSUME NEW f, f = v5 PROVE Claims(f, f.owner)'
  BY <1>1, <1>3, FileIs, ClaimsStay
<1>4. ASSUME NEW c \in Checks, NEW ch, ch = v6[c] PROVE CheckInv(ch)'
  BY <1>1, <1>4, CheckIs, CheckStays
<1> QED
  BY <1>2, <1>3, <1>4 DEF FoundInv

(* A step of a check that leaves its own record right. *)
LEMMA CheckMoves ==
    ASSUME FoundInv, UNCHANGED <<v1, v2, v4>>, UpdateInv',
           NEW c \in Checks, NEW s, Found!Move(c, s), CheckInv(s),
           NEW f, f = v5', Claims(f, f.owner)
    PROVE  FoundInv'
<1>1. WorldTyped /\ WorldMoves
  BY DEF FoundInv, WorldTyped, WorldMoves
<1>2. WorldTyped'
  BY <1>1 DEF WorldTyped, WorldMoves
<1>3. Claims(f, f.owner)' /\ CheckInv(s)'
  BY <1>1, ClaimsStay, CheckStays
<1>4. DOMAIN v6' = Checks /\ v6'[c] = s /\ \A d \in Checks : d # c => v6'[d] = v6[d]
  BY DEF FoundInv, Found!Move
<1>5. ASSUME NEW d \in Checks, NEW ch, ch = v6'[d] PROVE CheckInv(ch)'
  <2>1. CASE d = c
    BY <1>3, <1>4, <1>5, <2>1
  <2>2. CASE d # c
    <3>1. ch = v6[d]
      BY <1>4, <1>5, <2>2
    <3> QED
      BY <3>1, <1>1, CheckIs, CheckStays
  <2> QED
    BY <2>1, <2>2
<1>6. \A g \in {v5'} : Claims(g, g.owner)'
  BY <1>3
<1> QED
  BY <1>2, <1>4, <1>5, <1>6 DEF FoundInv

LEMMA StartedIs == ASSUME NEW mode PROVE CheckInv(Found!Idle) /\ CheckInv(Found!Started(mode))
  BY DEF CheckInv, CheckTyped, Found!Idle, Found!Started, Found!NoResult, Found!Missing, Found!Record

LEMMA FoundInit == Found!Init => FoundInv
<1> SUFFICES ASSUME Found!Init PROVE FoundInv
  OBVIOUS
<1>1. v2 = 1 /\ v4 = <<1>>
  BY DEF Found!Init
<1>2. WorldTyped
  BY <1>1 DEF WorldTyped
<1>3. UpdateInv
  BY DEF Found!Init, UpdateInv, Found!NoInstallerLeft, Found!NoUpdate, Found!Ended
<1>4. ASSUME NEW f, f = v5 PROVE Claims(f, f.owner)
  <2>1. CASE f = Found!Missing
    BY <2>1 DEF Claims, Found!Missing, Found!Record
  <2>2. CASE f = Found!Record(IF v1 = "version" THEN "brew" ELSE None, 1, 1, Found!Entry("brew", 1))
    <3>1. Len(v4) = 1
      BY <1>1
    <3>2. f.at = 1 /\ f.value.number = 1 /\ f.value.of = "brew" /\ (v1 = "version" => f.owner = "brew")
      BY <2>2 DEF Found!Record, Found!Entry
    <3> QED
      BY <3>1, <3>2, <1>1 DEF Claims, Honest, Named, Found!NewestSince, Found!Newest
  <2> QED
    BY <1>4, <2>1, <2>2 DEF Found!Init
<1>5. DOMAIN v6 = Checks /\ \A ch \in {v6[c] : c \in Checks} : ch = Found!Idle
  BY DEF Found!Init
<1> QED
  BY <1>2, <1>3, <1>4, <1>5, StartedIs DEF FoundInv

(* A check that is done shows what it found. *)
LEMMA DoneShows ==
    ASSUME FoundInv, NEW c \in Checks, NEW owner, NEW offer \in BOOLEAN, NEW found,
           Found!Done(c, owner, offer, found), UNCHANGED <<v1, v2, v4>>, UpdateInv',
           NEW now, now = IF v6[c].step = "looking" THEN v2 ELSE v6[c].now,
           offer => owner \in Found!Owners,
           found.value # None =>
              /\ Honest(found.value, found.at) /\ Named(found.value, owner)
              /\ found.mark = "current" =>
                    found.at = now \/ (v6[c].mode # "refresh" /\ now < found.at + Interval),
           NEW f, f = v5', Claims(f, f.owner)
    PROVE  FoundInv'
<1>1. PICK q : q = v6[c] /\ CheckTyped(q)
  BY CheckIs DEF CheckInv
<1>2. PICK offered \in BOOLEAN : offered <=> offer /\ (found.value = None \/ q.installed < found.value.number)
  OBVIOUS
<1>3. PICK s : s = [q EXCEPT !.step = "done", !.owner = owner, !.cached = Found!Missing,
                             !.answer = None, !.now = now, !.offer = offered, !.result = found]
  OBVIOUS
<1>4. Found!Move(c, s)
  <2>1. s = [q EXCEPT !.step = "done", !.owner = owner, !.cached = Found!Missing, !.answer = None,
                      !.now = IF q.step = "looking" THEN v2 ELSE @,
                      !.offer = offer /\ (found.value = None \/ q.installed < found.value.number),
                      !.result = found]
    BY <1>1, <1>2, <1>3 DEF CheckTyped
  <2> QED
    BY <2>1, <1>1 DEF Found!Done
<1>5. /\ CheckTyped(s) /\ s.step = "done" /\ s.owner = owner /\ s.now = now /\ s.offer = offered
      /\ s.result = found /\ s.mode = q.mode /\ s.installed = q.installed
  BY <1>1, <1>3 DEF CheckTyped
<1>6. found.value # None => Shows(s, found)
  BY <1>1, <1>2, <1>5 DEF Shows
<1>7. CheckInv(s)
  BY <1>5, <1>6 DEF CheckInv
<1> QED
  BY <1>4, <1>7, CheckMoves

(* What is read from the cache holds of the installation it is read for. *)
LEMMA CachedClaims ==
    ASSUME FoundInv, NEW owner, NEW r, r = Found!Cached(owner) PROVE Claims(r, owner)
<1>1. PICK f : f = v5
  OBVIOUS
<1>2. Claims(f, f.owner)
  BY <1>1, FileIs
<1>3. CASE v1 = "version" /\ f.owner # owner
  BY <1>1, <1>3 DEF Found!Cached, Claims, Found!Missing, Found!Record
<1>4. CASE ~(v1 = "version" /\ f.owner # owner)
  <2>1. r = f
    BY <1>1, <1>4 DEF Found!Cached
  <2> QED
    BY <2>1, <1>2, <1>4 DEF Claims, Named
<1> QED
  BY <1>3, <1>4

LEMMA FallbackIs ==
    ASSUME NEW r, NEW owner, Claims(r, owner), NEW found, found = Found!Fallback(r)
    PROVE  found.mark # "current"
           /\ (found.value # None => Honest(found.value, found.at) /\ Named(found.value, owner))
  BY DEF Found!Fallback, Found!Found, Claims

LEMMA UpdateStands == ASSUME FoundInv, UNCHANGED v7 PROVE UpdateInv'
  BY DEF FoundInv, UpdateInv, Found!NoInstallerLeft

LEMMA LookKeeps == ASSUME FoundInv, NEW c \in Checks, Found!Look(c) PROVE FoundInv'
<1>1. PICK q : q = v6[c] /\ CheckTyped(q)
  BY CheckIs DEF CheckInv
<1>2. PICK f : f = v5 /\ Claims(f, f.owner)
  BY FileIs
<1>3. q.step = "looking" /\ UNCHANGED <<v1, v2, v4, v5, v7>> /\ f = v5'
  BY <1>1, <1>2 DEF Found!Look, Found!CheckKeeps, Found!world
<1>4. UpdateInv' /\ v2 \in Nat
  BY <1>3, UpdateStands DEF FoundInv, WorldTyped
<1>5. PICK o, r : o = Found!Owner(v3.evidence) /\ r = Found!Cached(o)
  OBVIOUS
<1>6. Claims(r, o)
  BY <1>5, CachedClaims
<1>7. PICK offer \in IF v1 = "version" THEN Found!Action(o, q.mode) ELSE {FALSE} :
        \/ Found!Done(c, o, offer, Found!Found("none", None, 0))
        \/ /\ Found!Good(q.mode, r)
           /\ Found!Done(c, o, offer, Found!Found("current", r.value, r.at))
        \/ Found!Done(c, o, offer, Found!Fallback(r))
        \/ Found!Move(c, [v6[c] EXCEPT !.step = "asking", !.now = v2, !.owner = o,
                                       !.offer = offer, !.cached = r])
  BY <1>1, <1>5 DEF Found!Look
<1>8. offer \in BOOLEAN /\ (offer => o \in Found!Owners)
  BY <1>7 DEF Found!Action, Found!Owners, Found!Queried
<1>9. CASE Found!Done(c, o, offer, Found!Found("none", None, 0))
  <2>1. PICK found : found = Found!Found("none", None, 0)
    OBVIOUS
  <2>2. found.value = None
    BY <2>1 DEF Found!Found
  <2> QED
    BY <2>1, <2>2, <1>2, <1>3, <1>4, <1>8, <1>9, DoneShows
<1>10. CASE /\ Found!Good(q.mode, r)
            /\ Found!Done(c, o, offer, Found!Found("current", r.value, r.at))
  <2>1. PICK found : found = Found!Found("current", r.value, r.at)
    OBVIOUS
  <2>2. found.value = r.value /\ found.at = r.at
    BY <2>1 DEF Found!Found
  <2>3. r.at # 0 /\ r.at \in Nat /\ v2 - r.at < Interval /\ q.mode # "refresh"
    BY <1>6, <1>10 DEF Found!Good, Found!Fresh, Claims
  <2>4. v2 < r.at + Interval
    BY <2>3, <1>4, ChecksAssumption
  <2>5. Honest(r.value, r.at) /\ Named(r.value, o)
    BY <2>3, <1>6 DEF Claims
  <2> QED
    BY <2>1, <2>2, <2>3, <2>4, <2>5, <1>1, <1>2, <1>3, <1>4, <1>8, <1>10, DoneShows
<1>11. CASE Found!Done(c, o, offer, Found!Fallback(r))
  <2>1. PICK found : found = Found!Fallback(r)
    OBVIOUS
  <2>2. found.mark # "current"
        /\ (found.value # None => Honest(found.value, found.at) /\ Named(found.value, o))
    BY <2>1, <1>6, FallbackIs
  <2> QED
    BY <2>1, <2>2, <1>2, <1>3, <1>4, <1>8, <1>11, DoneShows
<1>12. CASE Found!Move(c, [v6[c] EXCEPT !.step = "asking", !.now = v2, !.owner = o,
                                        !.offer = offer, !.cached = r])
  <2>1. PICK s : s = [q EXCEPT !.step = "asking", !.now = v2, !.owner = o, !.offer = offer,
                               !.cached = r]
    OBVIOUS
  <2>2. /\ CheckTyped(s) /\ s.step = "asking" /\ s.now = v2 /\ s.owner = o /\ s.offer = offer
        /\ s.cached = r
    BY <2>1, <1>1, <1>8 DEF CheckTyped
  <2>3. CheckInv(s)
    BY <2>2, <1>4, <1>6, <1>8 DEF CheckInv
  <2>4. Found!Move(c, s)
    BY <2>1, <1>1, <1>12
  <2> QED
    BY <2>3, <2>4, <1>2, <1>3, <1>4, CheckMoves
<1> QED
  BY <1>7, <1>9, <1>10, <1>11, <1>12

LEMMA AnswerKeeps == ASSUME FoundInv, NEW c \in Checks, Found!Answer(c) PROVE FoundInv'
<1>1. PICK q : q = v6[c] /\ CheckTyped(q) /\ CheckInv(q)
  BY CheckIs DEF CheckInv
<1>2. q.step = "asking" /\ UNCHANGED <<v1, v2, v4, v7>> /\ v5' = Found!Missing
  BY <1>1 DEF Found!Answer, Found!CheckKeeps, Found!world
<1>3. PICK good \in BOOLEAN :
        Found!Move(c, [v6[c] EXCEPT
          !.step = "writing",
          !.answer = IF good THEN Found!Entry(IF v1 = "version" THEN v6[c].owner
                                              ELSE Found!Owner(v3.evidence), Found!Newest)
                     ELSE None])
  BY DEF Found!Answer
<1>4. PICK answer :
        answer = IF good THEN Found!Entry(IF v1 = "version" THEN q.owner
                                          ELSE Found!Owner(v3.evidence), Found!Newest)
                 ELSE None
  OBVIOUS
<1>5. answer # None => Honest(answer, q.now) /\ Named(answer, q.owner)
  <2> SUFFICES ASSUME answer # None PROVE Honest(answer, q.now) /\ Named(answer, q.owner)
    OBVIOUS
  <2>1. answer.number = Len(v4) /\ (v1 = "version" => answer.of = q.owner)
    BY <1>4 DEF Found!Entry, Found!Newest
  <2>2. Len(v4) \in 1 .. Len(v4) /\ q.now \in Nat /\ q.now <= v2
    BY <1>1, <1>2 DEF CheckInv, FoundInv, WorldTyped
  <2> QED
    BY <2>1, <2>2 DEF Honest, Named, Found!NewestSince, Found!Newest
<1>6. PICK s : s = [q EXCEPT !.step = "writing", !.answer = answer]
  OBVIOUS
<1>7. /\ CheckTyped(s) /\ s.step = "writing" /\ s.answer = answer /\ s.now = q.now
      /\ s.owner = q.owner /\ s.offer = q.offer /\ s.cached = q.cached
  BY <1>1, <1>6 DEF CheckTyped
<1>8. CheckInv(s)
  BY <1>1, <1>2, <1>5, <1>7 DEF CheckInv
<1>9. Found!Move(c, s)
  BY <1>1, <1>3, <1>4, <1>6
<1>10. PICK f : f = v5' /\ Claims(f, f.owner)
  BY <1>2 DEF Claims, Found!Missing, Found!Record
<1> QED
  BY <1>2, <1>8, <1>9, <1>10, UpdateStands, CheckMoves

LEMMA WriteKeeps == ASSUME FoundInv, NEW c \in Checks, Found!Write(c) PROVE FoundInv'
<1>1. PICK q : q = v6[c] /\ CheckTyped(q) /\ CheckInv(q)
  BY CheckIs DEF CheckInv
<1>2. q.step = "writing" /\ UNCHANGED <<v1, v2, v4, v7>> /\ UpdateInv'
  BY <1>1, UpdateStands DEF Found!Write, Found!CheckKeeps, Found!world
<1>3. /\ q.now \in Nat /\ Claims(q.cached, q.owner) /\ q.offer \in BOOLEAN
      /\ q.offer => q.owner \in Found!Owners
      /\ q.answer # None => Honest(q.answer, q.now) /\ Named(q.answer, q.owner)
  BY <1>1, <1>2 DEF CheckInv, CheckTyped
<1>4. CASE q.answer # None
  <2>1. /\ v5' = Found!Record(q.owner, q.now, q.now, q.answer)
        /\ Found!Done(c, q.owner, q.offer, Found!Found("current", q.answer, q.now))
    BY <1>1, <1>4 DEF Found!Write
  <2>2. PICK f : f = v5' /\ Claims(f, f.owner)
    BY <2>1, <1>3, <1>4 DEF Claims, Found!Record
  <2>3. PICK found : found = Found!Found("current", q.answer, q.now)
    OBVIOUS
  <2>4. found.value = q.answer /\ found.at = q.now
    BY <2>3 DEF Found!Found
  <2> QED
    BY <2>1, <2>2, <2>3, <2>4, <1>1, <1>2, <1>3, <1>4, DoneShows, SMTT(20)
<1>5. CASE q.answer = None
  <2>1. /\ v5' = Found!Record(q.owner, q.cached.at, q.now, q.cached.value)
        /\ Found!Done(c, q.owner, q.offer, Found!Fallback(q.cached))
    BY <1>1, <1>5 DEF Found!Write
  <2>2. PICK f : f = v5' /\ Claims(f, f.owner)
    BY <2>1, <1>3 DEF Claims, Found!Record
  <2>3. PICK found : found = Found!Fallback(q.cached)
    OBVIOUS
  <2>4. found.mark # "current"
        /\ (found.value # None => Honest(found.value, found.at) /\ Named(found.value, q.owner))
    BY <2>3, <1>3, FallbackIs
  <2> QED
    BY <2>1, <2>2, <2>3, <2>4, <1>1, <1>2, <1>3, DoneShows
<1> QED
  BY <1>4, <1>5

(* A check that begins, or is dropped. *)
LEMMA CheckResets ==
    ASSUME FoundInv, NEW c \in Checks, NEW s, Found!Move(c, s), CheckInv(s),
           UNCHANGED <<v1, v2, v4, v5>>, UpdateInv'
    PROVE  FoundInv'
<1>1. PICK f : f = v5' /\ Claims(f, f.owner)
  BY FileIs
<1> QED
  BY <1>1, CheckMoves

LEMMA UpdateKeeps ==
    ASSUME FoundInv, Found!UpdateStep PROVE FoundInv'
<1>1. /\ DOMAIN v7 = {"step", "child", "cancel", "check"} /\ Found!NoInstallerLeft
      /\ v7.step = "rechecking" => v7.check \in Checks
  BY DEF FoundInv, UpdateInv
<1>2. UNCHANGED <<v1, v2, v4, v5>> /\ WorldMoves
  <2>1. UNCHANGED <<v1, v2, v4, v5>>
    BY DEF Found!UpdateStep, Found!Agree, Found!CancelUpdate, Found!Install, Found!Silent,
           Found!Stop, Found!ExitFails, Found!ExitsWell, Found!Rechecked, Found!UpdateKeeps,
           Found!world
  <2> QED
    BY <2>1 DEF FoundInv, WorldTyped, WorldMoves
<1>3. UpdateInv'
  <2>1. CASE Found!Agree
    BY <2>1 DEF Found!Agree, UpdateInv, Found!NoInstallerLeft, Found!Ended
  <2>2. CASE Found!CancelUpdate
    BY <2>2, <1>1 DEF Found!CancelUpdate, UpdateInv, Found!NoInstallerLeft, Found!Ended
  <2>3. CASE Found!Install
    BY <2>3, <1>1 DEF Found!Install, UpdateInv, Found!NoInstallerLeft
  <2>4. CASE Found!Silent
    <3>1. /\ v7' = [v7 EXCEPT !.step = "waiting", !.child = v7.child, !.check = None]
          /\ DOMAIN v7 = {"step", "child", "cancel", "check"}
      BY <2>4, <1>1 DEF Found!Silent, Found!Updating
    <3>2. DOMAIN v7' = {"step", "child", "cancel", "check"} /\ v7'.step = "waiting"
      BY <3>1
    <3>3. v7'.step \notin Found!Ended \cup {"rechecking"}
      BY <3>2 DEF Found!Ended
    <3> QED
      BY <3>2, <3>3 DEF UpdateInv, Found!NoInstallerLeft
  <2>5. CASE Found!Stop
    <3>1. /\ DOMAIN v7 = {"step", "child", "cancel", "check"}
          /\ \E step \in {"cancelled", "timed_out", "failed"} :
               v7' = [v7 EXCEPT !.step = step, !.child = "killed", !.check = None]
      BY <2>5, <1>1 DEF Found!Stop, Found!Stopped, Found!Updating
    <3>2. /\ DOMAIN v7' = {"step", "child", "cancel", "check"}
          /\ v7'.child = "killed" /\ v7'.step # "rechecking"
      BY <3>1
    <3> QED
      BY <3>2 DEF UpdateInv, Found!NoInstallerLeft
  <2>6. CASE Found!ExitFails
    BY <2>6, <1>1 DEF Found!ExitFails, Found!Updating, UpdateInv, Found!NoInstallerLeft
  <2>7. CASE Found!ExitsWell
    BY <2>7, <1>1 DEF Found!ExitsWell, UpdateInv, Found!NoInstallerLeft
  <2>8. CASE Found!Rechecked
    <3>1. /\ DOMAIN v7 = {"step", "child", "cancel", "check"} /\ v7.child # "running"
          /\ \E step \in {"updated", "cancelled"} :
               v7' = [v7 EXCEPT !.step = step, !.child = v7.child, !.check = None]
      BY <2>8, <1>1 DEF Found!Rechecked, Found!Updating, Found!NoInstallerLeft
    <3>2. /\ DOMAIN v7' = {"step", "child", "cancel", "check"}
          /\ v7'.child # "running" /\ v7'.step # "rechecking"
      BY <3>1
    <3> QED
      BY <3>2 DEF UpdateInv, Found!NoInstallerLeft
  <2> QED
    BY <2>1, <2>2, <2>3, <2>4, <2>5, <2>6, <2>7, <2>8 DEF Found!UpdateStep
<1>4. CASE UNCHANGED v6
  BY <1>2, <1>3, <1>4, ChecksStand
<1>5. CASE Found!ExitsWell
  BY <1>2, <1>3, <1>5, StartedIs, CheckResets DEF Found!ExitsWell
<1>6. CASE Found!Rechecked /\ v6' # v6
  <2>1. v7.check \in Checks /\ Found!Move(v7.check, Found!Idle)
    BY <1>1, <1>6 DEF Found!Rechecked
  <2> QED
    BY <2>1, <1>2, <1>3, StartedIs, CheckResets
<1> QED
  BY <1>4, <1>5, <1>6
     DEF Found!UpdateStep, Found!Agree, Found!CancelUpdate, Found!Install, Found!Silent,
         Found!Stop, Found!ExitFails

LEMMA FoundNext == ASSUME FoundInv, Found!Next PROVE FoundInv'
<1>1. WorldTyped
  BY DEF FoundInv
<1>2. CASE Found!Tick \/ Found!Publish \/ Found!Reinstall
  <2>1. WorldMoves /\ UNCHANGED <<v5, v6, v7>>
    BY <1>1, <1>2 DEF WorldTyped, WorldMoves, Found!Tick, Found!Publish, Found!Reinstall,
                      Found!WorldTurns
  <2> QED
    BY <2>1, UpdateStands, ChecksStand
<1>3. CASE Found!UpdateStep
  BY <1>3, UpdateKeeps
<1>4. CASE Found!Crash
  <2>1. /\ v6' = [c \in Checks |-> Found!Idle] /\ v7' = Found!NoUpdate /\ UNCHANGED <<v1, v2, v4, v5>>
    BY <1>4 DEF Found!Crash, Found!world
  <2>2. WorldMoves
    BY <2>1, <1>1 DEF WorldTyped, WorldMoves
  <2>3. UpdateInv'
    BY <2>1 DEF UpdateInv, Found!NoInstallerLeft, Found!NoUpdate, Found!Ended
  <2>4. ASSUME NEW f, f = v5 PROVE Claims(f, f.owner)'
    BY <2>2, <2>4, <1>1, FileIs, ClaimsStay
  <2>5. CheckInv(Found!Idle)'
    BY <2>2, <1>1, StartedIs, CheckStays
  <2> QED
    BY <2>1, <2>3, <2>4, <2>5, <1>1 DEF FoundInv, WorldTyped
<1>5. ASSUME NEW c \in Checks, Found!CheckStep(c) PROVE FoundInv'
  BY <1>5, LookKeeps, AnswerKeeps, WriteKeeps DEF Found!CheckStep
<1>6. ASSUME NEW c \in Checks, Found!Drop(c) PROVE FoundInv'
  BY <1>6, StartedIs, UpdateStands, CheckResets DEF Found!Drop, Found!CheckKeeps, Found!world
<1>7. ASSUME NEW c \in Checks, NEW mode \in Found!Modes, Found!Begin(c, mode) PROVE FoundInv'
  BY <1>7, StartedIs, UpdateStands, CheckResets DEF Found!Begin, Found!CheckKeeps, Found!world
<1> QED
  BY <1>2, <1>3, <1>4, <1>5, <1>6, <1>7 DEF Found!Next

LEMMA FoundStays == ASSUME FoundInv, UNCHANGED pool PROVE FoundInv'
<1>1. UNCHANGED <<v1, v2, v4, v5, v6, v7>>
  BY DEF pool
<1>2. WorldMoves
  BY <1>1 DEF FoundInv, WorldTyped, WorldMoves
<1> QED
  BY <1>1, <1>2, UpdateStands, ChecksStand

(* A behaviour is one component's. *)
LEMMA OutsideStep ==
    ASSUME [OutsideNext]_<<part, vars, pool>>
    PROVE  /\ part' = part
           /\ part = "discovery" => Found!Next \/ UNCHANGED pool
           /\ part = "lines" => Lines!Next \/ UNCHANGED pool
  BY DEF OutsideNext

(* supervise.rs: for any checks, installers and interval, whatever else goes     *)
(* through the cache, what a check shows is of the installation it examined and   *)
(* was the newest at the time it says, what it calls current is, an update is      *)
(* offered only to the owner of an older one, and no installer outlives the        *)
(* outcome of its update.                                                          *)
THEOREM ShownStaysHonest == OutsideSpec => []ShownIsHonest
<1> DEFINE Inv == part = "discovery" => FoundInv
<1>1. OutsideInit => Inv
  BY FoundInit DEF OutsideInit
<1>2. Inv /\ [OutsideNext]_<<part, vars, pool>> => Inv'
  BY OutsideStep, FoundNext, FoundStays
<1>3. Inv => ShownIsHonest
  <2> SUFFICES ASSUME FoundInv PROVE Found!ShownIsHonest /\ Found!NoInstallerLeft
    BY DEF ShownIsHonest
  <2>1. ASSUME NEW c \in Checks, NEW ch, ch = v6[c], ch.step = "done", ch.result.value # None
        PROVE  Shows(ch, ch.result)
    BY <2>1, CheckIs DEF CheckInv
  <2> QED
    BY <2>1 DEF FoundInv, UpdateInv, Found!ShownIsHonest, Shows, Honest, Named
<1> QED
  BY <1>1, <1>2, <1>3, PTL DEF OutsideSpec

-------------------------------------------------------------------------------
(* Protocols (v1 is the protocol, v2 to v4 the normalizer, v5 the events of the *)
(* line in hand, v6 those sent, v7 the driver's verdict, v8 that nobody reads,   *)
(* v9 how far the agent is with each call, v10 the end it said, v11 its lines).  *)

CallOf(c)   == Lines!Call(c, Lines!Tool(c))
ResultOf(c) == Lines!Result(c, Lines!Tool(c))

Said == [kind : {"progress", "call", "result"} \cup Lines!Ends, id : ToolCalls \cup {None},
         tool : {Lines!Tool(c) : c \in ToolCalls} \cup {None}]

Never(h, e) == \A j \in DOMAIN h : ~(h[j].kind = e.kind /\ h[j].id = e.id)
Once(h, e, i) == /\ i \in DOMAIN h /\ h[i] = e
                 /\ \A j \in DOMAIN h : h[j].kind = e.kind /\ h[j].id = e.id => j = i

\* What the events say of a call, and the normalizer keeps of it.
CallInv(h, c, state, tool) ==
    /\ state \in {"new", "open", "ended"}
    /\ state = "new" => Never(h, CallOf(c)) /\ Never(h, ResultOf(c)) /\ tool = None
    /\ state = "open" => /\ \E i \in DOMAIN h : Once(h, CallOf(c), i)
                         /\ Never(h, ResultOf(c)) /\ tool = Lines!Tool(c)
    /\ state = "ended" => \E i, j \in DOMAIN h :
                             i < j /\ Once(h, CallOf(c), i) /\ Once(h, ResultOf(c), j)

\* Only calls of the turn are told of.
Known(h) == \A i \in DOMAIN h : h[i].kind \in {"call", "result"} => h[i].id \in ToolCalls

\* The events of the calls so far, sent or not.
Story ==
    /\ DOMAIN v9 = ToolCalls /\ DOMAIN v4 = ToolCalls
    /\ \A h : h = v6 \o v5 =>
          /\ Known(h)
          /\ \A c \in ToolCalls : \A state, tool : state = v9[c] /\ tool = v4[c] =>
                CallInv(h, c, state, tool)

\* An end comes last in its line.
Verdict ==
    /\ v3 <=> v10 # "none"
    /\ \A i \in DOMAIN v5 : v5[i].kind \in Lines!Ends => i = Len(v5) /\ v5[i].kind = v10
    /\ (\A i \in DOMAIN v5 : v5[i].kind \notin Lines!Ends) => v7 = v10

Thread == /\ v2 \in {None, "main"} /\ v11 \in Nat
          /\ v11 # 0 /\ v1 # "codex" => v2 = "main"

LinesInv ==
    /\ Lines!ToolsPaired /\ Thread
    /\ v1 \in Lines!Protocol /\ v5 \in Seq(Said) /\ v6 \in Seq(Said)
    /\ ~v8 => Story /\ Verdict

LEMMA EventsAre ==
    ASSUME NEW c \in ToolCalls
    PROVE  /\ CallOf(c) \in Said /\ CallOf(c).kind = "call" /\ CallOf(c).id = c
           /\ ResultOf(c) \in Said /\ ResultOf(c).kind = "result" /\ ResultOf(c).id = c
           /\ CallOf(c).tool = Lines!Tool(c) /\ ResultOf(c).tool = Lines!Tool(c)
  BY DEF CallOf, ResultOf, Said, Lines!Call, Lines!Result, Lines!Event

LEMMA OthersAre ==
    /\ Lines!Progress \in Said /\ Lines!Progress.kind = "progress"
    /\ \A how \in Lines!Ends : Lines!End(how) \in Said /\ Lines!End(how).kind = how
  BY DEF Said, Lines!Progress, Lines!End, Lines!Event, Lines!Ends

(* Of two stretches of events. *)
LEMMA Joined ==
    ASSUME NEW h \in Seq(Said), NEW q \in Seq(Said), NEW e
    PROVE  /\ Never(h, e) /\ Never(q, e) => Never(h \o q, e)
           /\ \A i \in DOMAIN h : Once(h, e, i) /\ Never(q, e) => Once(h \o q, e, i)
           /\ \A i \in DOMAIN q : Never(h, e) /\ Once(q, e, i) => Once(h \o q, e, Len(h) + i)
           /\ \A i \in DOMAIN h : i \in DOMAIN (h \o q)
           /\ \A i \in DOMAIN q : Len(h) + i \in DOMAIN (h \o q)
           /\ Len(h) \in Nat /\ DOMAIN h = 1 .. Len(h) /\ DOMAIN q = 1 .. Len(q)
<1>1. PICK g : g = h \o q
  OBVIOUS
<1>2. /\ Len(h) \in Nat /\ Len(q) \in Nat /\ DOMAIN h = 1 .. Len(h) /\ DOMAIN q = 1 .. Len(q)
      /\ DOMAIN g = 1 .. Len(h) + Len(q)
      /\ \A i \in 1 .. Len(h) : g[i] = h[i]
      /\ \A i \in 1 .. Len(q) : g[Len(h) + i] = q[i]
  BY <1>1
<1>3. \A j \in DOMAIN g : \/ j \in DOMAIN h /\ g[j] = h[j]
                          \/ \E i \in DOMAIN q : j = Len(h) + i /\ g[j] = q[i]
  <2> TAKE j \in DOMAIN g
  <2>1. CASE j <= Len(h)
    BY <1>2, <2>1
  <2>2. CASE j > Len(h)
    <3>1. j - Len(h) \in 1 .. Len(q) /\ j = Len(h) + (j - Len(h))
      BY <1>2, <2>2
    <3> QED
      BY <3>1, <1>2
  <2> QED
    BY <1>2, <2>1, <2>2
<1>4. Never(h, e) /\ Never(q, e) => Never(g, e)
  BY <1>3 DEF Never
<1>5. \A i \in DOMAIN h : Once(h, e, i) /\ Never(q, e) => Once(g, e, i)
  <2> SUFFICES ASSUME NEW i \in DOMAIN h, Once(h, e, i), Never(q, e) PROVE Once(g, e, i)
    OBVIOUS
  <2>1. i \in DOMAIN g /\ g[i] = e
    BY <1>2 DEF Once
  <2>2. \A j \in DOMAIN g : g[j].kind = e.kind /\ g[j].id = e.id => j = i
    BY <1>3 DEF Once, Never
  <2> QED
    BY <2>1, <2>2 DEF Once
<1>6. \A i \in DOMAIN q : Never(h, e) /\ Once(q, e, i) => Once(g, e, Len(h) + i)
  <2> SUFFICES ASSUME NEW i \in DOMAIN q, Never(h, e), Once(q, e, i)
               PROVE  Once(g, e, Len(h) + i)
    OBVIOUS
  <2>1. Len(h) + i \in DOMAIN g /\ g[Len(h) + i] = e
    BY <1>2 DEF Once
  <2>2. \A j \in DOMAIN g : g[j].kind = e.kind /\ g[j].id = e.id => j = Len(h) + i
    BY <1>3 DEF Once, Never
  <2> QED
    BY <2>1, <2>2 DEF Once
<1>7. /\ \A i \in DOMAIN h : i \in DOMAIN g
      /\ \A i \in DOMAIN q : Len(h) + i \in DOMAIN g
  BY <1>2
<1> QED
  BY <1>1, <1>2, <1>4, <1>5, <1>6, <1>7

(* A line that is not about a call. *)
LEMMA CallRests ==
    ASSUME NEW h \in Seq(Said), NEW q \in Seq(Said), NEW c \in ToolCalls, NEW state, NEW tool,
           CallInv(h, c, state, tool), Never(q, CallOf(c)), Never(q, ResultOf(c))
    PROVE  CallInv(h \o q, c, state, tool)
<1>1. CASE state = "new"
  BY <1>1, Joined DEF CallInv
<1>2. CASE state = "open"
  <2>1. PICK i \in DOMAIN h : Once(h, CallOf(c), i)
    BY <1>2 DEF CallInv
  <2>2. i \in DOMAIN (h \o q) /\ Once(h \o q, CallOf(c), i) /\ Never(h \o q, ResultOf(c))
    BY <1>2, <2>1, Joined DEF CallInv
  <2> QED
    BY <2>2, <1>2 DEF CallInv
<1>3. CASE state = "ended"
  <2>1. PICK i, j \in DOMAIN h : i < j /\ Once(h, CallOf(c), i) /\ Once(h, ResultOf(c), j)
    BY <1>3 DEF CallInv
  <2>2. /\ {i, j} \subseteq DOMAIN (h \o q)
        /\ Once(h \o q, CallOf(c), i) /\ Once(h \o q, ResultOf(c), j)
    BY <2>1, Joined
  <2> QED
    BY <2>1, <2>2, <1>3 DEF CallInv
<1> QED
  BY <1>1, <1>2, <1>3 DEF CallInv

(* A line that announces a call. *)
LEMMA CallOpens ==
    ASSUME NEW h \in Seq(Said), NEW q \in Seq(Said), NEW c \in ToolCalls, NEW tool,
           CallInv(h, c, "new", tool),
           NEW i \in DOMAIN q, Once(q, CallOf(c), i), Never(q, ResultOf(c))
    PROVE  CallInv(h \o q, c, "open", Lines!Tool(c))
<1>1. Never(h, CallOf(c)) /\ Never(h, ResultOf(c))
  BY DEF CallInv
<1>2. /\ Len(h) + i \in DOMAIN (h \o q) /\ Once(h \o q, CallOf(c), Len(h) + i)
      /\ Never(h \o q, ResultOf(c))
  BY <1>1, Joined
<1> QED
  BY <1>2 DEF CallInv

(* A line that ends a call, and announces it when nothing did before. *)
LEMMA CallEnds ==
    ASSUME NEW h \in Seq(Said), NEW q \in Seq(Said), NEW c \in ToolCalls, NEW state, NEW tool,
           CallInv(h, c, state, tool), NEW other,
           NEW j \in DOMAIN q, Once(q, ResultOf(c), j),
           \/ state = "open" /\ Never(q, CallOf(c))
           \/ state = "new" /\ \E i \in DOMAIN q : i < j /\ Once(q, CallOf(c), i)
    PROVE  CallInv(h \o q, c, "ended", other)
<1>1. Never(h, ResultOf(c))
  BY DEF CallInv
<1>2. /\ Len(h) + j \in DOMAIN (h \o q) /\ Once(h \o q, ResultOf(c), Len(h) + j)
      /\ Len(h) \in Nat /\ DOMAIN h = 1 .. Len(h) /\ DOMAIN q = 1 .. Len(q)
  BY <1>1, Joined
<1>3. j \in Nat /\ j > 0
  BY <1>2
<1>4. CASE state = "open" /\ Never(q, CallOf(c))
  <2>1. PICK i \in DOMAIN h : Once(h, CallOf(c), i)
    BY <1>4 DEF CallInv
  <2>2. i \in DOMAIN (h \o q) /\ Once(h \o q, CallOf(c), i)
    BY <2>1, <1>4, Joined
  <2>3. i < Len(h) + j
    BY <1>2, <1>3
  <2> QED
    BY <2>2, <2>3, <1>2 DEF CallInv
<1>5. CASE state = "new" /\ \E i \in DOMAIN q : i < j /\ Once(q, CallOf(c), i)
  <2>1. PICK i \in DOMAIN q : i < j /\ Once(q, CallOf(c), i)
    BY <1>5
  <2>2. Never(h, CallOf(c))
    BY <1>5 DEF CallInv
  <2>3. Len(h) + i \in DOMAIN (h \o q) /\ Once(h \o q, CallOf(c), Len(h) + i)
    BY <2>1, <2>2, Joined
  <2>4. Len(h) + i < Len(h) + j
    BY <2>1, <1>2, <1>3
  <2> QED
    BY <2>3, <2>4, <1>2 DEF CallInv
<1> QED
  BY <1>4, <1>5

(* What was told when a new line comes. *)
LEMMA StoryIs ==
    ASSUME LinesInv, ~v8, v5 = <<>>
    PROVE  /\ v6 \in Seq(Said) /\ Known(v6) /\ DOMAIN v9 = ToolCalls /\ DOMAIN v4 = ToolCalls
           /\ \A c \in ToolCalls : \A h, state, tool :
                h = v6 /\ state = v9[c] /\ tool = v4[c] => CallInv(h, c, state, tool)
<1>1. v6 \in Seq(Said) /\ Story
  BY DEF LinesInv
<1>2. v6 \o v5 = v6
  BY <1>1
<1> QED
  BY <1>1, <1>2 DEF Story

LEMMA LineKeeps ==
    ASSUME LinesInv, ~v8, v5 = <<>>, UNCHANGED <<v1, v6, v8>>, Thread', Verdict',
           NEW q \in Seq(Said), v5' = q, Known(q),
           DOMAIN v9' = ToolCalls, DOMAIN v4' = ToolCalls, NEW o, o = v6,
           \A c \in ToolCalls : \A state, tool : state = v9'[c] /\ tool = v4'[c] =>
              CallInv(o \o q, c, state, tool)
    PROVE  LinesInv'
<1>1. Known(o) /\ o \in Seq(Said)
  BY StoryIs
<1>2. PICK g : g = o \o q
  OBVIOUS
<1>3. Known(g)
  <2>1. /\ DOMAIN g = 1 .. Len(o) + Len(q) /\ Len(o) \in Nat /\ Len(q) \in Nat
        /\ DOMAIN o = 1 .. Len(o) /\ DOMAIN q = 1 .. Len(q)
        /\ \A i \in 1 .. Len(o) : g[i] = o[i]
        /\ \A i \in 1 .. Len(q) : g[Len(o) + i] = q[i]
    BY <1>1, <1>2
  <2>2. \A j \in DOMAIN g : (\E i \in DOMAIN o : g[j] = o[i]) \/ (\E i \in DOMAIN q : g[j] = q[i])
    <3> TAKE j \in DOMAIN g
    <3>1. CASE j <= Len(o)
      BY <2>1, <3>1
    <3>2. CASE j > Len(o)
      <4>1. j - Len(o) \in 1 .. Len(q) /\ j = Len(o) + (j - Len(o))
        BY <2>1, <3>2
      <4> QED
        BY <4>1, <2>1
    <3> QED
      BY <2>1, <3>1, <3>2
  <2> QED
    BY <2>2, <1>1 DEF Known
<1>4. v6' \o v5' = g
  BY <1>2
<1>5. \A c \in ToolCalls : \A state, tool : state = v9'[c] /\ tool = v4'[c] =>
         CallInv(g, c, state, tool)
  BY <1>2
<1>7. DOMAIN v9' = ToolCalls /\ DOMAIN v4' = ToolCalls
  OBVIOUS
<1>8. \A h : h = v6' \o v5' =>
         /\ Known(h)
         /\ \A c \in ToolCalls : \A state, tool : state = v9'[c] /\ tool = v4'[c] =>
               CallInv(h, c, state, tool)
  <2> TAKE h
  <2> HAVE h = v6' \o v5'
  <2>1. h = g
    BY <1>4
  <2> QED
    BY <2>1, <1>3, <1>5
<1>9. Story'
  BY <1>7, <1>8 DEF Story, Known, CallInv, Never, Once, CallOf, ResultOf, Lines!Call, Lines!Result,
     Lines!Tool, Lines!Event
<1>6. Lines!ToolsPaired'
  BY DEF LinesInv, Lines!ToolsPaired, Lines!At
<1> QED
  BY <1>9, <1>6 DEF LinesInv

LEMMA PrintedIs ==
    ASSUME LinesInv, NEW thread \in Lines!Threads, Lines!Printed(thread)
    PROVE  v5 = <<>> /\ ~v8 /\ UNCHANGED <<v1, v6, v7, v8>> /\ Thread'
<1>1. /\ v5 = <<>> /\ ~v8 /\ UNCHANGED <<v1, v6, v7, v8>> /\ v11' = v11 + 1
      /\ v2' = IF v2 = None /\ v1 # "codex" THEN thread ELSE v2
      /\ (v11 = 0 => thread = "main") /\ (v1 = "codex" => thread = "main")
  BY DEF Lines!Printed, Lines!Is
<1>2. v2 \in {None, "main"} /\ v11 \in Nat /\ (v11 # 0 /\ v1 # "codex" => v2 = "main")
  BY DEF LinesInv, Thread
<1>3. None # "main"
  BY ToolsAssumption
<1>4. v2' \in {None, "main"} /\ (v1 # "codex" => v2' = "main")
  BY <1>1, <1>2, <1>3
<1>5. v11' \in Nat
  BY <1>1, <1>2
<1> QED
  BY <1>1, <1>4, <1>5 DEF Thread

(* A line without an end leaves the verdict as it was. *)
LEMMA VerdictStands ==
    ASSUME LinesInv, ~v8, v5 = <<>>, UNCHANGED <<v3, v7, v10>>,
           NEW q, v5' = q, \A i \in DOMAIN q : q[i].kind \notin Lines!Ends
    PROVE  Verdict'
<1>1. Verdict /\ \A i \in DOMAIN v5 : v5[i].kind \notin Lines!Ends
  BY DEF LinesInv
<1> QED
  BY <1>1 DEF Verdict

(* A line that is about no call. *)
LEMMA QuietLineKeeps ==
    ASSUME LinesInv, ~v8, v5 = <<>>, UNCHANGED <<v1, v4, v6, v8, v9>>, Thread', Verdict',
           NEW q \in Seq(Said), v5' = q, \A i \in DOMAIN q : q[i].kind \notin {"call", "result"}
    PROVE  LinesInv'
<1>1. PICK o : o = v6
  OBVIOUS
<1>2. /\ o \in Seq(Said) /\ DOMAIN v9 = ToolCalls /\ DOMAIN v4 = ToolCalls
      /\ \A c \in ToolCalls : \A state, tool : state = v9[c] /\ tool = v4[c] =>
            CallInv(o, c, state, tool)
  BY <1>1, StoryIs
<1>3. Known(q) /\ \A c \in ToolCalls : Never(q, CallOf(c)) /\ Never(q, ResultOf(c))
  BY EventsAre DEF Known, Never
<1>4. \A c \in ToolCalls : \A state, tool : state = v9'[c] /\ tool = v4'[c] =>
         CallInv(o \o q, c, state, tool)
  BY <1>2, <1>3, CallRests
<1> QED
  BY <1>1, <1>2, <1>3, <1>4, LineKeeps

LEMMA ProgressLine ==
    ASSUME NEW q \in {<<Lines!Progress>>, <<>>}
    PROVE  /\ q \in Seq(Said)
           /\ \A i \in DOMAIN q : q[i].kind \notin {"call", "result"} \cup Lines!Ends
<1>1. PICK p : p = Lines!Progress
  OBVIOUS
<1>2. p \in Said /\ p.kind = "progress"
  BY <1>1, OthersAre
<1>3. CASE q = <<p>>
  BY <1>2, <1>3 DEF Lines!Ends
<1>4. CASE q = <<>>
  BY <1>4
<1> QED
  BY <1>1, <1>3, <1>4

LEMMA TalkKeeps ==
    ASSUME LinesInv, NEW thread \in Lines!Threads, Lines!Talk(thread) PROVE LinesInv'
<1>1. v5 = <<>> /\ ~v8 /\ UNCHANGED <<v1, v6, v7, v8>> /\ Thread' /\ UNCHANGED <<v3, v4, v9, v10>>
  BY PrintedIs DEF Lines!Talk
<1>2. PICK q \in {<<Lines!Progress>>, <<>>} : v5' = q
  BY DEF Lines!Talk
<1> QED
  BY <1>1, <1>2, ProgressLine, VerdictStands, QuietLineKeeps

LEMMA StepEndsKeeps ==
    ASSUME LinesInv, NEW thread \in Lines!Threads, Lines!StepEnds(thread) PROVE LinesInv'
<1>1. v5 = <<>> /\ ~v8 /\ UNCHANGED <<v1, v6, v7, v8>> /\ Thread' /\ UNCHANGED <<v3, v4, v9, v10>>
  BY PrintedIs DEF Lines!StepEnds
<1>2. PICK q \in {<<Lines!Progress>>, <<>>} : v5' = q
  BY DEF Lines!StepEnds
<1> QED
  BY <1>1, <1>2, ProgressLine, VerdictStands, QuietLineKeeps

LEMMA RepeatKeeps ==
    ASSUME LinesInv, NEW thread \in Lines!Threads, NEW c \in ToolCalls, Lines!Repeat(thread, c)
    PROVE  LinesInv'
<1>1. v5 = <<>> /\ ~v8 /\ UNCHANGED <<v1, v6, v7, v8>> /\ Thread' /\ UNCHANGED <<v3, v4, v9, v10>>
  BY PrintedIs DEF Lines!Repeat
<1>2. PICK q \in {<<Lines!Progress>>, <<>>} : v5' = q
  BY DEF Lines!Repeat
<1> QED
  BY <1>1, <1>2, ProgressLine, VerdictStands, QuietLineKeeps

LEMMA ThreadStartedKeeps == ASSUME LinesInv, Lines!ThreadStarted PROVE LinesInv'
<1>1. v5 = <<>> /\ ~v8 /\ UNCHANGED <<v1, v3, v4, v6, v7, v8, v9, v10>> /\ Thread'
  BY DEF LinesInv, Thread, Lines!ThreadStarted, Lines!Is
<1>2. PICK q \in {<<Lines!Progress>>, <<>>} : v5' = q
  BY DEF Lines!ThreadStarted
<1> QED
  BY <1>1, <1>2, ProgressLine, VerdictStands, QuietLineKeeps

LEMMA TurnEndsKeeps ==
    ASSUME LinesInv, NEW thread \in Lines!Threads, NEW how \in Lines!Ends,
           Lines!TurnEnds(thread, how)
    PROVE  LinesInv'
<1>1. /\ v5 = <<>> /\ ~v8 /\ UNCHANGED <<v1, v6, v7, v8>> /\ Thread' /\ UNCHANGED <<v4, v9>>
      /\ v3' = TRUE /\ v10' = how
  BY PrintedIs DEF Lines!TurnEnds
<1>2. PICK q : v5' = q /\ q \in {<<Lines!End(how)>>, <<Lines!Progress, Lines!End(how)>>}
  BY DEF Lines!TurnEnds
<1>3. PICK e, p : e = Lines!End(how) /\ p = Lines!Progress
  OBVIOUS
<1>4. {e, p} \subseteq Said /\ e.kind = how /\ p.kind = "progress"
  BY <1>3, OthersAre
<1>5. /\ q \in Seq(Said) /\ Len(q) \in DOMAIN q /\ q[Len(q)].kind = how
      /\ \A i \in DOMAIN q : i # Len(q) => q[i].kind = "progress"
  <2>1. CASE q = <<e>>
    BY <2>1, <1>4
  <2>2. CASE q = <<p, e>>
    BY <2>2, <1>4
  <2> QED
    BY <2>1, <2>2, <1>2, <1>3
<1>6. \A i \in DOMAIN q : q[i].kind \notin {"call", "result"}
  BY <1>5 DEF Lines!Ends
<1>7. Verdict'
  BY <1>1, <1>2, <1>5 DEF Verdict, Lines!Ends
<1> QED
  BY <1>1, <1>2, <1>5, <1>6, <1>7, QuietLineKeeps

\* A line that ends a call, and announces it when it has no name yet.
EndingLine(c, tool, q) ==
    /\ q \in Seq(Said)
    /\ \A i \in DOMAIN q : /\ q[i].kind \notin Lines!Ends
                           /\ q[i].kind \in {"call", "result"} => q[i].id = c
    /\ \E j \in DOMAIN q :
         /\ Once(q, ResultOf(c), j)
         /\ tool # None => Never(q, CallOf(c))
         /\ tool = None => \E i \in DOMAIN q : i < j /\ Once(q, CallOf(c), i)

LEMMA EndedLine ==
    ASSUME NEW c \in ToolCalls, NEW p \in Lines!Protocol, NEW tool, NEW q,
           \/ tool = Lines!Tool(c)
           \/ tool = None /\ p \in {"codex", "opencode"},
           q = IF tool # None THEN <<ResultOf(c)>>
               ELSE IF p = "codex" THEN <<CallOf(c), ResultOf(c)>>
               ELSE <<Lines!Progress, CallOf(c), ResultOf(c)>>
    PROVE  EndingLine(c, tool, q)
<1>1. PICK a, r, t : a = CallOf(c) /\ r = ResultOf(c) /\ t = Lines!Progress
  OBVIOUS
<1>2. /\ {a, r, t} \subseteq Said /\ a.kind = "call" /\ a.id = c /\ r.kind = "result" /\ r.id = c
      /\ t.kind = "progress"
  BY <1>1, EventsAre, OthersAre
<1>3. CASE tool # None
  <2>1. q = <<r>>
    BY <1>1, <1>3
  <2>2. Once(q, r, 1) /\ Never(q, a)
    BY <2>1, <1>2 DEF Once, Never
  <2> QED
    BY <2>1, <2>2, <1>1, <1>2, <1>3 DEF EndingLine, Lines!Ends
<1>4. CASE tool = None /\ q = <<a, r>>
  <2>1. Once(q, r, 2) /\ Once(q, a, 1)
    BY <1>2, <1>4 DEF Once
  <2> QED
    BY <2>1, <1>1, <1>2, <1>4 DEF EndingLine, Lines!Ends
<1>5. CASE tool = None /\ q = <<t, a, r>>
  <2>1. Once(q, r, 3) /\ Once(q, a, 2)
    BY <1>2, <1>5 DEF Once
  <2> QED
    BY <2>1, <1>1, <1>2, <1>5 DEF EndingLine, Lines!Ends
<1> QED
  BY <1>1, <1>3, <1>4, <1>5

(* The events of a call that ends stand for what Ended says. *)
LEMMA FinishKeeps ==
    ASSUME LinesInv, NEW thread \in Lines!Threads, NEW c \in ToolCalls, Lines!Finish(thread, c)
    PROVE  LinesInv'
<1>1. v5 = <<>> /\ ~v8 /\ UNCHANGED <<v1, v6, v7, v8>> /\ Thread' /\ UNCHANGED <<v3, v10>>
  BY PrintedIs DEF Lines!Finish
<1>2. PICK o : o = v6
  OBVIOUS
<1>3. /\ o \in Seq(Said) /\ DOMAIN v9 = ToolCalls /\ DOMAIN v4 = ToolCalls
      /\ \A d \in ToolCalls : \A state, tool : state = v9[d] /\ tool = v4[d] =>
            CallInv(o, d, state, tool)
  BY <1>1, <1>2, StoryIs
<1>4. PICK was, name : was = v9[c] /\ name = v4[c]
  OBVIOUS
<1>5. was = "open" \/ (was = "new" /\ v1 \in {"codex", "opencode"})
  BY <1>4 DEF Lines!Finish, Lines!Is
<1>6. CallInv(o, c, was, name)
  BY <1>3, <1>4
<1>7. was = "open" => name = Lines!Tool(c)
  BY <1>6 DEF CallInv
<1>8. was = "new" => name = None
  BY <1>6 DEF CallInv
<1>9. None # Lines!Tool(c)
  BY ToolsAssumption DEF Lines!Tool
<1>10. v1 \in Lines!Protocol
  BY DEF LinesInv
<1>11. PICK q : q = Lines!Ended(c) /\ v5' = q
  BY DEF Lines!Finish
<1>12. q = IF name # None THEN <<ResultOf(c)>>
           ELSE IF v1 = "codex" THEN <<CallOf(c), ResultOf(c)>>
           ELSE <<Lines!Progress, CallOf(c), ResultOf(c)>>
  <2>1. CASE was = "open"
    <3>1. name = Lines!Tool(c) /\ name # None
      BY <2>1, <1>7, <1>9
    <3>2. v4[c] = Lines!Tool(c) /\ v4[c] # None
      BY <3>1, <1>4
    <3>3. ASSUME v1 \in {"claude_code", "cursor", "codex"} PROVE q = <<ResultOf(c)>>
      BY <3>2, <3>3, <1>11 DEF Lines!Ended, Lines!Is, ResultOf
    <3>4. ASSUME v1 = "opencode" PROVE q = <<ResultOf(c)>>
      <4>1. PICK r : r = ResultOf(c)
        OBVIOUS
      <4>2. q = <<>> \o <<r>>
        BY <3>2, <3>4, <4>1, <1>11 DEF Lines!Ended, Lines!Is, ResultOf
      <4>3. q = <<r>>
        BY <4>2
      <4> QED
        BY <4>1, <4>3
    <3>5. q = <<ResultOf(c)>>
      BY <3>3, <3>4, <1>10 DEF Lines!Protocol
    <3> QED
      BY <3>1, <3>5
  <2>2. CASE was = "new"
    <3>1. name = None /\ v1 \in {"codex", "opencode"}
      BY <2>2, <1>5, <1>8
    <3>2. v4[c] = None
      BY <3>1, <1>4
    <3>3. CASE v1 = "codex"
      BY <3>1, <3>2, <3>3, <1>11 DEF Lines!Ended, Lines!Is, ResultOf, CallOf
    <3>4. CASE v1 = "opencode"
      <4>1. PICK a, r, t : a = CallOf(c) /\ r = ResultOf(c) /\ t = Lines!Progress
        OBVIOUS
      <4>2. q = <<t, a>> \o <<r>>
        BY <3>2, <3>4, <4>1, <1>11 DEF Lines!Ended, Lines!Is, Lines!Opening, ResultOf, CallOf
      <4>3. PICK u : u = <<t, a>>
        OBVIOUS
      <4>4. u \in Seq({t, a, r})
        BY <4>3
      <4>5. q = Append(u, r)
        BY <4>2, <4>3, <4>4, AppendIsConcat
      <4>7. q \in Seq({t, a, r}) /\ Len(q) = 3 /\ q[1] = t /\ q[2] = a /\ q[3] = r
        BY <4>3, <4>4, <4>5, AppendProperties
      <4>8. PICK z : z = <<t, a, r>>
        OBVIOUS
      <4>9. z \in Seq({t, a, r}) /\ Len(z) = 3 /\ z[1] = t /\ z[2] = a /\ z[3] = r
        BY <4>8
      <4>10. \A i \in 1 .. 3 : q[i] = z[i]
        BY <4>7, <4>9
      <4>11. q = z
        BY <4>7, <4>9, <4>10, SeqEqual
      <4>6. q = <<t, a, r>>
        BY <4>8, <4>11
      <4> QED
        BY <4>1, <4>6, <3>1, <3>4
    <3> QED
      BY <3>1, <3>3, <3>4
  <2> QED
    BY <2>1, <2>2, <1>5
<1>13. name = Lines!Tool(c) \/ (name = None /\ v1 \in {"codex", "opencode"})
  BY <1>5, <1>7, <1>8
<1>14. PICK p \in Lines!Protocol : p = v1
  BY <1>10
<1>21. q = IF name # None THEN <<ResultOf(c)>>
           ELSE IF p = "codex" THEN <<CallOf(c), ResultOf(c)>>
           ELSE <<Lines!Progress, CallOf(c), ResultOf(c)>>
  BY <1>12, <1>14
<1>22. \/ name = Lines!Tool(c)
       \/ name = None /\ p \in {"codex", "opencode"}
  BY <1>13, <1>14
<1>23. EndingLine(c, name, q)
  BY <1>21, <1>22, EndedLine
<1>15. /\ q \in Seq(Said)
       /\ \A i \in DOMAIN q : /\ q[i].kind \notin Lines!Ends
                              /\ q[i].kind \in {"call", "result"} => q[i].id = c
       /\ \E j \in DOMAIN q :
            /\ Once(q, ResultOf(c), j)
            /\ name # None => Never(q, CallOf(c))
            /\ name = None => \E i \in DOMAIN q : i < j /\ Once(q, CallOf(c), i)
  BY <1>23 DEF EndingLine
<1>16. DOMAIN v9' = ToolCalls /\ DOMAIN v4' = ToolCalls
  BY <1>3 DEF Lines!Finish
<1>17. v9'[c] = "ended" /\ \A d \in ToolCalls \ {c} : v9'[d] = v9[d] /\ v4'[d] = v4[d]
  BY <1>3 DEF Lines!Finish
<1>18. ASSUME NEW d \in ToolCalls, NEW state, NEW tool, state = v9'[d], tool = v4'[d]
       PROVE  CallInv(o \o q, d, state, tool)
  <2>1. CASE d = c
    <3>1. PICK j \in DOMAIN q :
            /\ Once(q, ResultOf(c), j)
            /\ name # None => Never(q, CallOf(c))
            /\ name = None => \E i \in DOMAIN q : i < j /\ Once(q, CallOf(c), i)
      BY <1>15
    <3>2. \/ was = "open" /\ Never(q, CallOf(c))
          \/ was = "new" /\ \E i \in DOMAIN q : i < j /\ Once(q, CallOf(c), i)
      BY <3>1, <1>5, <1>7, <1>8, <1>9
    <3>3. CallInv(o \o q, c, "ended", tool)
      BY <3>1, <3>2, <1>3, <1>6, <1>15, CallEnds
    <3> QED
      BY <3>3, <2>1, <1>17, <1>18
  <2>2. CASE d # c
    <3>1. CallInv(o, d, state, tool)
      BY <2>2, <1>3, <1>17, <1>18
    <3>2. Never(q, CallOf(d)) /\ Never(q, ResultOf(d))
      BY <2>2, <1>15, EventsAre DEF Never
    <3> QED
      BY <3>1, <3>2, <1>3, <1>15, CallRests
  <2> QED
    BY <2>1, <2>2
<1>19. Known(q)
  BY <1>15 DEF Known
<1>20. Verdict'
  BY <1>1, <1>11, <1>15, VerdictStands
<1> QED
  BY <1>1, <1>2, <1>11, <1>15, <1>16, <1>18, <1>19, <1>20, LineKeeps

(* The events of the calls announced in one line, in any order. *)
LEMMA OpeningsAre ==
    ASSUME NEW S \in SUBSET ToolCalls, NEW n \in Nat, NEW order \in Lines!Bijection(1 .. n, S),
           NEW q, q = Lines!Openings(order)
    PROVE  /\ q \in Seq(Said)
           /\ \A i \in DOMAIN q : /\ q[i].kind \in {"progress", "call"}
                                  /\ q[i].kind = "call" => q[i].id \in S
           /\ \A c \in S : \E i \in DOMAIN q : Once(q, CallOf(c), i)
<1>1. /\ order \in [1 .. n -> S]
      /\ \A a, b \in 1 .. n : order[a] = order[b] => a = b
      /\ \A c \in S : \E k \in 1 .. n : order[k] = c
  BY DEF Lines!Bijection, Lines!Injection, Lines!Surjection, Lines!IsInjective
<1>2. order \in Seq(S) /\ Len(order) = n
  BY <1>1
<1>3. PICK t : t = Lines!Progress
  OBVIOUS
<1>4. t \in Said /\ t.kind = "progress"
  BY <1>3, OthersAre
<1>5. q = [i \in 1 .. 2*n |-> IF i % 2 = 1 THEN t ELSE CallOf(order[i \div 2])]
  BY <1>2, <1>3 DEF Lines!Openings, CallOf
<1>6. ASSUME NEW i \in 1 .. 2*n, i % 2 # 1 PROVE i \div 2 \in 1 .. n /\ i = 2 * (i \div 2)
  BY <1>6
<1>7. ASSUME NEW k \in 1 .. n PROVE 2*k \in 1 .. 2*n /\ (2*k) % 2 # 1 /\ (2*k) \div 2 = k
  OBVIOUS
<1>8. DOMAIN q = 1 .. 2*n
  BY <1>5
<1>9. ASSUME NEW i \in 1 .. 2*n, i % 2 = 1 PROVE q[i] = t
  BY <1>5, <1>9
<1>10. ASSUME NEW i \in 1 .. 2*n, i % 2 # 1
       PROVE  \E k \in 1 .. n : i = 2*k /\ q[i] = CallOf(order[k]) /\ order[k] \in S
  <2>1. i \div 2 \in 1 .. n /\ i = 2 * (i \div 2)
    BY <1>6, <1>10
  <2>2. q[i] = CallOf(order[i \div 2])
    BY <1>5, <1>10
  <2> QED
    BY <2>1, <2>2, <1>1
<1>11. \A i \in 1 .. 2*n : q[i] \in Said /\ q[i].kind \in {"progress", "call"}
                           /\ (q[i].kind = "call" => q[i].id \in S)
  <2> TAKE i \in 1 .. 2*n
  <2>1. CASE i % 2 = 1
    BY <2>1, <1>9, <1>4
  <2>2. CASE i % 2 # 1
    <3>1. PICK k \in 1 .. n : q[i] = CallOf(order[k]) /\ order[k] \in S
      BY <2>2, <1>10
    <3> QED
      BY <3>1, EventsAre
  <2> QED
    BY <2>1, <2>2
<1>12. q \in Seq(Said)
  <2>1. 2*n \in Nat /\ q \in [1 .. 2*n -> Said]
    BY <1>5, <1>11
  <2> QED
    BY <2>1
<1>13. ASSUME NEW c \in S PROVE \E i \in DOMAIN q : Once(q, CallOf(c), i)
  <2>1. PICK k \in 1 .. n : order[k] = c
    BY <1>1
  <2>2. 2*k \in 1 .. 2*n /\ (2*k) % 2 # 1 /\ (2*k) \div 2 = k
    BY <1>7
  <2>3. q[2*k] = CallOf(c)
    BY <2>1, <2>2, <1>5
  <2>4. ASSUME NEW j \in 1 .. 2*n, q[j].kind = "call", q[j].id = c PROVE j = 2*k
    <3>1. j % 2 # 1
      BY <2>4, <1>9, <1>4
    <3>2. PICK m \in 1 .. n : j = 2*m /\ q[j] = CallOf(order[m]) /\ order[m] \in S
      BY <3>1, <1>10
    <3>3. order[m] = c
      BY <3>2, <2>4, EventsAre
    <3>4. m = k
      BY <3>3, <2>1, <1>1
    <3> QED
      BY <3>2, <3>4
  <2>5. CallOf(c).kind = "call" /\ CallOf(c).id = c
    BY EventsAre
  <2>6. Once(q, CallOf(c), 2*k)
    BY <2>2, <2>3, <2>4, <2>5, <1>8 DEF Once
  <2> QED
    BY <2>6, <2>2, <1>8
<1> QED
  BY <1>8, <1>11, <1>12, <1>13

LEMMA LinesCount == ASSUME NEW S PROVE Lines!Cardinality(S) = Cardinality(S)
BY DEF Lines!Cardinality, Cardinality

LEMMA StartKeeps ==
    ASSUME LinesInv, NEW thread \in Lines!Threads, NEW S \in SUBSET ToolCalls,
           Lines!Start(thread, S)
    PROVE  LinesInv'
<1>1. v5 = <<>> /\ ~v8 /\ UNCHANGED <<v1, v6, v7, v8>> /\ Thread' /\ UNCHANGED <<v3, v10>>
  BY PrintedIs DEF Lines!Start
<1>2. PICK o : o = v6
  OBVIOUS
<1>3. /\ o \in Seq(Said) /\ DOMAIN v9 = ToolCalls /\ DOMAIN v4 = ToolCalls
      /\ \A d \in ToolCalls : \A state, tool : state = v9[d] /\ tool = v4[d] =>
            CallInv(o, d, state, tool)
  BY <1>1, <1>2, StoryIs
<1>4. PICK n \in Nat : n = Cardinality(S)
  BY ToolsAssumption, FS_Subset, FS_CardinalityType
<1>14. n = Lines!Cardinality(S)
  BY <1>4, LinesCount
<1>5. PICK order \in Lines!Bijection(1 .. n, S) : v5' = Lines!Openings(order)
  BY <1>14 DEF Lines!Start
<1>6. PICK q : q = Lines!Openings(order)
  OBVIOUS
<1>7. /\ q \in Seq(Said)
      /\ \A i \in DOMAIN q : /\ q[i].kind \in {"progress", "call"}
                             /\ q[i].kind = "call" => q[i].id \in S
      /\ \A c \in S : \E i \in DOMAIN q : Once(q, CallOf(c), i)
  BY <1>6, OpeningsAre
<1>8. /\ \A c \in S : v9[c] = "new"
      /\ DOMAIN v9' = ToolCalls /\ DOMAIN v4' = ToolCalls
      /\ \A c \in S : v9'[c] = "open" /\ v4'[c] = Lines!Tool(c)
      /\ \A c \in ToolCalls \ S : v9'[c] = v9[c] /\ v4'[c] = v4[c]
  BY DEF Lines!Start
<1>9. \A d \in ToolCalls : Never(q, ResultOf(d))
  BY <1>7, EventsAre DEF Never
<1>10. ASSUME NEW d \in ToolCalls, NEW state, NEW tool, state = v9'[d], tool = v4'[d]
       PROVE  CallInv(o \o q, d, state, tool)
  <2>1. CASE d \in S
    <3>1. PICK i \in DOMAIN q : Once(q, CallOf(d), i)
      BY <2>1, <1>7
    <3>2. PICK name : name = v4[d]
      OBVIOUS
    <3>3. CallInv(o, d, "new", name)
      BY <2>1, <3>2, <1>3, <1>8
    <3>4. CallInv(o \o q, d, "open", Lines!Tool(d))
      BY <3>1, <3>3, <1>3, <1>7, <1>9, CallOpens
    <3> QED
      BY <3>4, <2>1, <1>8, <1>10
  <2>2. CASE d \notin S
    <3>1. CallInv(o, d, state, tool)
      BY <2>2, <1>3, <1>8, <1>10
    <3>2. Never(q, CallOf(d))
      BY <2>2, <1>7, EventsAre DEF Never
    <3> QED
      BY <3>1, <3>2, <1>3, <1>7, <1>9, CallRests
  <2> QED
    BY <2>1, <2>2
<1>11. Known(q)
  BY <1>7 DEF Known
<1>12. \A i \in DOMAIN q : q[i].kind \notin Lines!Ends
  BY <1>7 DEF Lines!Ends
<1>13. Verdict'
  BY <1>1, <1>5, <1>6, <1>12, VerdictStands
<1> QED
  BY <1>1, <1>2, <1>5, <1>6, <1>7, <1>8, <1>10, <1>11, <1>13, LineKeeps

\* ToolsPaired, of any events.
Paired(o) ==
    \A i \in DOMAIN o : o[i].kind \in {"call", "result"} =>
       /\ {j \in DOMAIN o : o[j].kind = o[i].kind /\ o[j].id = o[i].id} = {i}
       /\ o[i].kind = "result" => \E j \in 1 .. i-1 : o[j] = Lines!Call(o[i].id, o[i].tool)

(* What holds of a line to its end holds of what is sent of it. *)
LEMMA SoFarPaired ==
    ASSUME NEW h \in Seq(Said), Known(h),
           \A c \in ToolCalls : \E state, tool : CallInv(h, c, state, tool),
           NEW o \in Seq(Said), Len(o) <= Len(h), \A i \in 1 .. Len(o) : o[i] = h[i]
    PROVE  Paired(o)
<1>1. /\ DOMAIN o = 1 .. Len(o) /\ DOMAIN h = 1 .. Len(h) /\ Len(o) \in Nat /\ Len(h) \in Nat
      /\ DOMAIN o \subseteq DOMAIN h
  OBVIOUS
<1> SUFFICES ASSUME NEW i \in DOMAIN o, o[i].kind \in {"call", "result"}
             PROVE  /\ \A j \in DOMAIN o : o[j].kind = o[i].kind /\ o[j].id = o[i].id => j = i
                    /\ o[i].kind = "result" =>
                          \E j \in 1 .. i-1 : o[j] = Lines!Call(o[i].id, o[i].tool)
  BY DEF Paired
<1>2. PICK c \in ToolCalls : c = o[i].id
  BY <1>1 DEF Known
<1>3. PICK state, tool : CallInv(h, c, state, tool)
  OBVIOUS
<1>4. /\ CallOf(c).kind = "call" /\ CallOf(c).id = c /\ ResultOf(c).kind = "result"
      /\ ResultOf(c).id = c /\ ResultOf(c).tool = Lines!Tool(c)
  BY EventsAre
<1>5. i \in DOMAIN h /\ h[i] = o[i]
  BY <1>1
<1>6. state # "new"
  <2>1. ~(Never(h, CallOf(c)) /\ Never(h, ResultOf(c)))
    BY <1>2, <1>4, <1>5 DEF Never
  <2> QED
    BY <2>1, <1>3 DEF CallInv
<1>7. CASE o[i].kind = "call"
  <2>1. \E k \in DOMAIN h : Once(h, CallOf(c), k)
    BY <1>3, <1>6 DEF CallInv
  <2>2. PICK k \in DOMAIN h : Once(h, CallOf(c), k)
    BY <2>1
  <2>3. \A j \in DOMAIN h : h[j].kind = "call" /\ h[j].id = c => j = k
    BY <2>2, <1>4 DEF Once
  <2> QED
    BY <2>3, <1>1, <1>2, <1>5, <1>7
<1>8. CASE o[i].kind = "result"
  <2>1. state = "ended"
    <3>1. ~Never(h, ResultOf(c))
      BY <1>2, <1>4, <1>5, <1>8 DEF Never
    <3> QED
      BY <3>1, <1>3, <1>6 DEF CallInv
  <2>2. PICK k, m \in DOMAIN h : k < m /\ Once(h, CallOf(c), k) /\ Once(h, ResultOf(c), m)
    BY <2>1, <1>3 DEF CallInv
  <2>3. \A j \in DOMAIN h : h[j].kind = "result" /\ h[j].id = c => j = m
    BY <2>2, <1>4 DEF Once
  <2>4. i = m
    BY <2>3, <1>2, <1>5, <1>8
  <2>5. h[k] = CallOf(c) /\ h[m] = ResultOf(c)
    BY <2>2 DEF Once
  <2>6. k \in 1 .. i-1 /\ o[k] = h[k]
    BY <2>2, <2>4, <1>1
  <2>7. o[k] = Lines!Call(o[i].id, o[i].tool)
    BY <2>4, <2>5, <2>6, <1>2, <1>4, <1>5 DEF CallOf
  <2> QED
    BY <2>3, <2>6, <2>7, <1>1, <1>2, <1>5, <1>8
<1> QED
  BY <1>7, <1>8

LEMMA SendKeeps == ASSUME LinesInv, Lines!Send PROVE LinesInv'
<1>1. /\ v5 # <<>> /\ ~v8 /\ v5' = Tail(v5) /\ v6' = Append(v6, Head(v5))
      /\ v7' = IF Head(v5).kind \in Lines!Ends THEN Head(v5).kind ELSE v7
      /\ UNCHANGED <<v1, v2, v3, v4, v8, v9, v10, v11>>
  BY DEF Lines!Send, Lines!normalizer, Lines!agent
<1>2. PICK p, o : p = v5 /\ o = v6
  OBVIOUS
<1>3. p \in Seq(Said) /\ o \in Seq(Said) /\ Story /\ Verdict /\ Thread /\ v1 \in Lines!Protocol
  BY <1>1, <1>2 DEF LinesInv
<1>4. PICK e, q, s : e = Head(p) /\ q = Tail(p) /\ s = Append(o, e)
  OBVIOUS
<1>5. /\ e \in Said /\ q \in Seq(Said) /\ s \in Seq(Said) /\ Len(p) \in Nat /\ Len(p) > 0
      /\ Len(q) = Len(p) - 1 /\ e = p[1] /\ \A i \in 1 .. Len(q) : q[i] = p[i + 1]
      /\ DOMAIN p = 1 .. Len(p) /\ DOMAIN q = 1 .. Len(q)
  BY <1>1, <1>2, <1>3, <1>4
<1>6. v5' = q /\ v6' = s /\ v7' = IF e.kind \in Lines!Ends THEN e.kind ELSE v7
  BY <1>1, <1>2, <1>4
<1>7. PICK h : h = o \o p
  OBVIOUS
<1>8. s \o q = h
  <2>1. s = o \o <<e>>
    BY <1>3, <1>4, <1>5, AppendIsConcat
  <2>2. p = <<e>> \o q
    BY <1>1, <1>2, <1>3, <1>4, HeadTailProperties
  <2>3. <<e>> \in Seq(Said)
    BY <1>5
  <2>4. (o \o <<e>>) \o q = o \o (<<e>> \o q)
    BY <2>3, <1>3, ConcatAssociative, SMTT(20)
  <2> QED
    BY <2>1, <2>2, <2>4, <1>7
<1>15. h \in Seq(Said)
  BY <1>3, <1>7, ConcatProperties
<1>9. /\ h \in Seq(Said) /\ Known(h) /\ DOMAIN v9 = ToolCalls /\ DOMAIN v4 = ToolCalls
      /\ \A c \in ToolCalls : \A state, tool : state = v9[c] /\ tool = v4[c] =>
            CallInv(h, c, state, tool)
  BY <1>2, <1>3, <1>7, <1>15 DEF Story
<1>10. Story'
  <2>1. v6' \o v5' = h /\ UNCHANGED <<v4, v9>>
    BY <1>1, <1>6, <1>8
  <2>2. \A c \in ToolCalls : \A state, tool : state = v9'[c] /\ tool = v4'[c] =>
           CallInv(h, c, state, tool)
    BY <2>1, <1>9
  <2>3. DOMAIN v9' = ToolCalls /\ DOMAIN v4' = ToolCalls
    BY <2>1, <1>9
  <2>4. \A g : g = v6' \o v5' =>
           /\ Known(g)
           /\ \A c \in ToolCalls : \A state, tool : state = v9'[c] /\ tool = v4'[c] =>
                 CallInv(g, c, state, tool)
    <3> TAKE g
    <3> HAVE g = v6' \o v5'
    <3>1. g = h
      BY <2>1
    <3> QED
      BY <3>1, <2>2, <1>9
  <2> QED
    BY <2>3, <2>4 DEF Story, Known, CallInv, Never, Once, CallOf, ResultOf, Lines!Call,
       Lines!Result, Lines!Tool, Lines!Event
<1>11. Paired(s)
  <2>1. \A c \in ToolCalls : \E state, tool : CallInv(h, c, state, tool)
    BY <1>9
  <2>2. Len(s) \in Nat /\ Len(s) <= Len(h) /\ \A i \in 1 .. Len(s) : s[i] = h[i]
    <3>1. PICK g : g = s \o q
      OBVIOUS
    <3>2. /\ Len(g) = Len(s) + Len(q) /\ Len(s) \in Nat /\ Len(q) \in Nat
          /\ \A i \in 1 .. Len(s) : g[i] = s[i]
      BY <3>1, <1>5
    <3>3. g = h
      BY <3>1, <1>8
    <3> QED
      BY <3>2, <3>3
  <2> QED
    BY <2>1, <2>2, <1>5, <1>9, SoFarPaired
<1>12. Lines!ToolsPaired'
  BY <1>6, <1>11 DEF Paired, Lines!ToolsPaired, Lines!At, Lines!Call, Lines!Event
<1>13. Verdict'
  <2>1. /\ v3 <=> v10 # "none"
        /\ \A i \in DOMAIN p : p[i].kind \in Lines!Ends => i = Len(p) /\ p[i].kind = v10
        /\ (\A i \in DOMAIN p : p[i].kind \notin Lines!Ends) => v7 = v10
    BY <1>2, <1>3 DEF Verdict
  <2>2. \A i \in DOMAIN q : q[i].kind \in Lines!Ends => i = Len(q) /\ q[i].kind = v10
    <3> SUFFICES ASSUME NEW i \in DOMAIN q, q[i].kind \in Lines!Ends
                 PROVE  i = Len(q) /\ q[i].kind = v10
      OBVIOUS
    <3>1. i + 1 \in DOMAIN p /\ p[i + 1] = q[i]
      BY <1>5
    <3>2. i + 1 = Len(p) /\ q[i].kind = v10
      BY <3>1, <2>1
    <3> QED
      BY <3>2, <1>5
  <2>3. ASSUME \A i \in DOMAIN q : q[i].kind \notin Lines!Ends PROVE v7' = v10
    <3>1. CASE e.kind \in Lines!Ends
      <4>1. 1 \in DOMAIN p /\ p[1].kind = v10
        BY <3>1, <2>1, <1>5
      <4> QED
        BY <4>1, <3>1, <1>5, <1>6
    <3>2. CASE e.kind \notin Lines!Ends
      <4>1. \A i \in DOMAIN p : p[i].kind \notin Lines!Ends
        <5> TAKE i \in DOMAIN p
        <5>1. CASE i = 1
          BY <5>1, <3>2, <1>5
        <5>2. CASE i # 1
          <6>1. i - 1 \in DOMAIN q /\ q[i - 1] = p[i]
            BY <5>2, <1>5
          <6> QED
            BY <6>1, <2>3
        <5> QED
          BY <5>1, <5>2
      <4> QED
        BY <4>1, <3>2, <2>1, <1>6
    <3> QED
      BY <3>1, <3>2
  <2> QED
    BY <2>1, <2>2, <2>3, <1>1, <1>6 DEF Verdict
<1>14. Thread'
  BY <1>1, <1>3 DEF Thread
<1> QED
  BY <1>1, <1>3, <1>5, <1>6, <1>10, <1>12, <1>13, <1>14 DEF LinesInv

LEMMA SendFailsKeeps == ASSUME LinesInv, Lines!SendFails PROVE LinesInv'
<1>1. v5' = <<>> /\ v8' = TRUE /\ UNCHANGED <<v1, v2, v6, v11>>
  BY DEF Lines!SendFails, Lines!normalizer, Lines!agent
<1>2. Lines!ToolsPaired'
  BY <1>1 DEF LinesInv, Lines!ToolsPaired, Lines!At
<1>3. Thread' /\ v5' \in Seq(Said)
  BY <1>1 DEF LinesInv, Thread
<1> QED
  BY <1>1, <1>2, <1>3 DEF LinesInv

LEMMA LinesInit == Lines!Init => LinesInv
<1> SUFFICES ASSUME Lines!Init PROVE LinesInv
  OBVIOUS
<1>1. /\ v1 \in Lines!Protocol /\ v2 = None /\ v3 = FALSE /\ v5 = <<>> /\ v6 = <<>> /\ v7 = "none"
      /\ v10 = "none" /\ v11 = 0
      /\ v4 = [c \in ToolCalls |-> None] /\ v9 = [c \in ToolCalls |-> "new"]
  BY DEF Lines!Init
<1>2. v6 \o v5 = <<>>
  BY <1>1
<1>3. Story
  <2>1. ASSUME NEW c \in ToolCalls PROVE CallInv(<<>>, c, "new", None)
    BY DEF CallInv, Never
  <2>2. Known(<<>>)
    BY DEF Known
  <2> QED
    BY <2>1, <2>2, <1>1, <1>2 DEF Story
<1>4. Lines!ToolsPaired
  BY <1>1 DEF Lines!ToolsPaired
<1>5. Thread /\ Verdict
  BY <1>1 DEF Thread, Verdict
<1> QED
  BY <1>1, <1>3, <1>4, <1>5 DEF LinesInv

LEMMA LinesNext == ASSUME LinesInv, Lines!Next PROVE LinesInv'
  BY SendKeeps, SendFailsKeeps, ThreadStartedKeeps, TalkKeeps, StepEndsKeeps, StartKeeps,
     RepeatKeeps, FinishKeeps, TurnEndsKeeps DEF Lines!Next

LEMMA LinesStay == ASSUME LinesInv, UNCHANGED pool PROVE LinesInv'
<1>1. UNCHANGED <<v1, v2, v3, v4, v5, v6, v7, v8, v9, v10, v11>>
  BY DEF pool
<1>2. Lines!ToolsPaired'
  BY <1>1 DEF LinesInv, Lines!ToolsPaired, Lines!At
<1>3. Thread'
  BY <1>1 DEF LinesInv, Thread
<1>4. ~v8 => Verdict'
  BY <1>1 DEF LinesInv, Verdict
<1>5. ~v8 => Story'
  BY <1>1 DEF LinesInv, Story
<1> QED
  BY <1>1, <1>2, <1>3, <1>4, <1>5 DEF LinesInv

(* protocols: for any number of calls and any number of lines, whichever of the  *)
(* four agents prints them and whatever order they come in, what was sent of      *)
(* them shows each call and its result once and as a pair, the driver's verdict    *)
(* is the end the agent said last, and the thread to continue is the agent's own.  *)
THEOREM LinesAreReadAsMeant == OutsideSpec => []ReadAsMeant
<1> DEFINE Inv == part = "lines" => LinesInv
<1>1. OutsideInit => Inv
  BY LinesInit DEF OutsideInit
<1>2. Inv /\ [OutsideNext]_<<part, vars, pool>> => Inv'
  BY OutsideStep, LinesNext, LinesStay
<1>3. Inv => ReadAsMeant
  <2> SUFFICES ASSUME LinesInv PROVE Lines!ReadAsMeant
    BY DEF ReadAsMeant
  <2>1. v5 = <<>> /\ ~v8 => v7 = v10 /\ (v3 <=> v10 # "none")
    BY DEF LinesInv, Verdict
  <2> QED
    BY <2>1 DEF LinesInv, Thread, Lines!ReadAsMeant, Lines!VerdictIsAgents
<1> QED
  BY <1>1, <1>2, <1>3, PTL DEF OutsideSpec
===============================================================================
