----------------------------- MODULE PartsProofs -----------------------------
(* What components that share no state promise, checked by TLAPS: the        *)
(* framing of event streams for any limits, the session store for any        *)
(* migrations, sessions, users and failures, the native agent's slots for    *)
(* any calls, MCP over HTTP, the changed files, the choice of a model,       *)
(* startup for any configuration, and the ticket commands.                   *)
EXTENDS MCParts, FiniteSetTheorems, SequenceTheorems, TLAPS

-----------------------------------------------------------------------------
(* SseFraming.  The MCP client's stream budget bounds what the parser beside *)
(* it holds, and refuses no stream without cause.  The two count separately, *)
(* so neither property is inductive.  InStep says how they stay together:    *)
(* the budget is never behind the parser, both agree on the line ending just *)
(* seen, and the line that ends an event for the budget is blank for the     *)
(* parser.                                                                   *)

FramingInv == SseTypeOK /\ InStep

LEMMA FramingInit == SseInit => FramingInv
  <1>. SUFFICES ASSUME SseInit PROVE FramingInv
    OBVIOUS
  <1>1. SseTypeOK
    BY LimitsAssumption DEF SseInit, SseTypeOK
  <1>2. Held = 0 /\ Reach = 0
    BY DEF SseInit, Held, Reach, Replacement
  <1>. QED BY LimitsAssumption, <1>1, <1>2 DEF SseInit, FramingInv, InStep,
                                               ParserIsBounded, RefusedForCause,
                                               Replacement

(* What admitting one byte does to the budget. *)
LEMMA AdmitCounts ==
  ASSUME SseTypeOK, NEW b \in Bytes, Admit(b)
  PROVE  /\ pending' \in Nat /\ newlines' \in {0, 1} /\ budgetSaw' \in {"cr", "other"}
         /\ pending' <= pending + 1
         /\ b = "lf" /\ budgetSaw = "cr" =>
              pending' = pending /\ newlines' = newlines /\ budgetSaw' = "other"
         /\ ~(b = "lf" /\ budgetSaw = "cr") =>
              /\ budgetSaw' = Saw(b)
              /\ b = "content" => pending' = pending + 1 /\ newlines' = 0
              /\ b # "content" /\ newlines = 0 => pending' = pending + 1 /\ newlines' = 1
              /\ b # "content" /\ newlines = 1 => pending' = 0 /\ newlines' = 0
  <1>1. CASE b = "lf" /\ budgetSaw = "cr"
    BY <1>1 DEF SseTypeOK, Admit
  <1>2. CASE ~(b = "lf" /\ budgetSaw = "cr")
    <2>1. budgetSaw' = Saw(b)
      BY <1>2 DEF Admit
    <2>2. budgetSaw' \in {"cr", "other"}
      BY <2>1 DEF Saw
    <2>3. CASE b = "content"
      <3>1. newlines' = 0 /\ pending' = pending + 1
        BY <1>2, <2>3 DEF Admit, EndsLine
      <3>. QED BY <1>2, <2>1, <2>2, <2>3, <3>1 DEF SseTypeOK
    <2>4. CASE b # "content"
      <3>1. /\ newlines' = IF newlines + 1 >= 2 THEN 0 ELSE newlines + 1
            /\ pending' = IF newlines + 1 >= 2 THEN 0 ELSE pending + 1
        BY <1>2, <2>4 DEF Admit, EndsLine, BlankLine, Bytes
      <3>2. CASE newlines = 0
        BY <1>2, <2>1, <2>2, <2>4, <3>1, <3>2 DEF SseTypeOK
      <3>3. CASE newlines = 1
        BY <1>2, <2>1, <2>2, <2>4, <3>1, <3>3 DEF SseTypeOK
      <3>. QED BY <3>2, <3>3 DEF SseTypeOK
    <2>. QED BY <2>3, <2>4
  <1>. QED BY <1>1, <1>2

(* What parsing one byte does to what the parser holds. *)
LEMMA FeedHolds ==
  ASSUME SseTypeOK, NEW b \in Bytes, Feed(b)
  PROVE  /\ buffer' \in Nat /\ data' \in Nat /\ event' \in Nat /\ id' \in Nat /\ raw' \in Nat
         /\ saw' \in {"cr", "other"}
         /\ id' = id \/ id' <= 3 * buffer
         /\ b = "lf" /\ saw = "cr" => UNCHANGED <<buffer, data, event, id, raw>> /\ saw' = "other"
         /\ ~(b = "lf" /\ saw = "cr") =>
              /\ saw' = Saw(b)
              /\ b = "content" => Reach' = Reach + 3 /\ raw' = raw + 1 /\ buffer' > 0
              /\ b # "content" => buffer' = 0
              /\ b # "content" /\ buffer > 0 => Reach' <= Reach /\ raw' = raw + 1
              /\ b # "content" /\ buffer = 0 => Reach' = 0 /\ raw' = 0
  <1>1. CASE b = "lf" /\ saw = "cr"
    BY <1>1 DEF SseTypeOK, Feed
  <1>2. CASE ~(b = "lf" /\ saw = "cr") /\ b = "content"
    BY <1>2 DEF SseTypeOK, Feed, Reach, Replacement, Saw
  <1>3. CASE ~(b = "lf" /\ saw = "cr") /\ b # "content"
    <2>1. Line /\ buffer' = 0 /\ saw' = Saw(b) /\ saw' \in {"cr", "other"}
      BY <1>3 DEF Feed, Saw
    <2>2. CASE buffer = 0
      BY <1>3, <2>1, <2>2 DEF SseTypeOK, Line, Reach, Replacement
    <2>3. CASE buffer > 0
      <3>1. PICK value \in 0..(3 * buffer) :
               \/ data' = data + value /\ UNCHANGED <<event, id>>
               \/ event' = value /\ UNCHANGED <<data, id>>
               \/ id' = value /\ UNCHANGED <<data, event>>
               \/ UNCHANGED <<data, event, id>>
        BY <2>1, <2>3 DEF Line, Replacement
      <3>2. raw' = raw + 1
        BY <2>1, <2>3 DEF Line, SseTypeOK
      <3>3. value \in Nat /\ value <= 3 * buffer
        BY <3>1 DEF SseTypeOK
      <3>4. data' \in Nat /\ event' \in Nat /\ id' \in Nat
        BY <3>1, <3>3 DEF SseTypeOK
      <3>5. Reach' <= Reach
        BY <2>1, <3>1, <3>3 DEF SseTypeOK, Reach, Replacement
      <3>6. id' = id \/ id' <= 3 * buffer
        BY <3>1, <3>3
      <3>. QED BY <1>3, <2>1, <2>3, <3>2, <3>4, <3>5, <3>6 DEF SseTypeOK
    <2>. QED BY <2>2, <2>3 DEF SseTypeOK
  <1>. QED BY <1>1, <1>2, <1>3

LEMMA FramingNext == FramingInv /\ [ReadStream]_sseVars => FramingInv'
  <1>. SUFFICES ASSUME FramingInv, [ReadStream]_sseVars PROVE FramingInv'
    OBVIOUS
  <1>. USE LimitsAssumption
  <1>1. CASE UNCHANGED sseVars
    BY <1>1 DEF FramingInv, SseTypeOK, InStep, Held, Reach, ParserIsBounded, RefusedForCause,
                sseVars, parserVars, budgetVars
  <1>2. CASE ReadStream
    <2>. PICK b \in Bytes :
           /\ stream = "open"
           /\ \/ /\ total >= MaxStream
                 /\ stream' = "refused"
                 /\ UNCHANGED <<parserVars, budgetVars, total, raw>>
              \/ /\ total < MaxStream
                 /\ Admit(b) /\ pending' > MaxEvent
                 /\ stream' = "refused" /\ total' = total + 1
                 /\ UNCHANGED <<parserVars, raw>>
              \/ /\ total < MaxStream
                 /\ Admit(b) /\ pending' <= MaxEvent
                 /\ Feed(b)
                 /\ total' = total + 1 /\ UNCHANGED stream
      BY <1>2 DEF ReadStream
    <2>0. SseTypeOK /\ stream = "open" /\ Reach <= 3 * pending /\ pending <= MaxEvent
          /\ pending <= raw + 1 /\ saw = budgetSaw /\ (newlines = 1 => buffer = 0)
          /\ (newlines = 0 /\ buffer = 0 => pending = 0)
          /\ Held <= 3 * MaxEvent /\ id <= 3 * MaxEvent
      BY DEF FramingInv, InStep, ParserIsBounded, Replacement
    <2>1. CASE /\ total >= MaxStream
               /\ stream' = "refused"
               /\ UNCHANGED <<parserVars, budgetVars, total, raw>>
      BY <2>0, <2>1 DEF FramingInv, SseTypeOK, InStep, Held, Reach, ParserIsBounded,
                        RefusedForCause, parserVars, budgetVars
    <2>2. CASE /\ total < MaxStream
               /\ Admit(b) /\ pending' > MaxEvent
               /\ stream' = "refused" /\ total' = total + 1
               /\ UNCHANGED <<parserVars, raw>>
      <3>1. SseTypeOK'
        BY <2>0, <2>2, AdmitCounts DEF SseTypeOK, parserVars
      <3>2. pending' <= pending + 1
        BY <2>0, <2>2, AdmitCounts
      <3>3. raw' + 1 >= MaxEvent
        BY <2>0, <2>2, <3>2, <3>1 DEF SseTypeOK
      <3>. QED BY <2>0, <2>2, <3>1, <3>3 DEF FramingInv, InStep, Held, ParserIsBounded,
                                            RefusedForCause, parserVars, Replacement
    <2>3. CASE /\ total < MaxStream
               /\ Admit(b) /\ pending' <= MaxEvent
               /\ Feed(b)
               /\ total' = total + 1 /\ UNCHANGED stream
      <3>0. Admit(b) /\ Feed(b) /\ stream' = "open" /\ total' = total + 1
        BY <2>0, <2>3
      <3>1. SseTypeOK'
        BY <2>0, <2>3, <3>0, AdmitCounts, FeedHolds DEF SseTypeOK
      <3>2. /\ Reach \in Nat /\ Reach' \in Nat
            /\ 3 * buffer <= Reach /\ Held' <= Reach' /\ Held' \in Nat
        <4>1. /\ buffer \in Nat /\ data \in Nat /\ event \in Nat
              /\ buffer' \in Nat /\ data' \in Nat /\ event' \in Nat
          BY <2>0, <3>1 DEF SseTypeOK
        <4>2. Reach = 3 * buffer + data + event
          BY DEF Reach, Replacement
        <4>3. Reach \in Nat /\ 3 * buffer <= Reach
          BY <4>1, <4>2
        <4>4. \A x, y, z \in Nat : /\ 3 * x + y + z \in Nat /\ x + y + z \in Nat
                                  /\ x + y + z <= 3 * x + y + z
          OBVIOUS
        <4>5. Reach' \in Nat /\ Held' <= Reach' /\ Held' \in Nat
          BY <4>1, <4>4 DEF Reach, Held, Replacement
        <4>. QED BY <4>3, <4>5
      <3>3. /\ Reach' <= 3 * pending' /\ pending' <= raw' + 1
            /\ saw' = budgetSaw' /\ (newlines' = 1 => buffer' = 0)
            /\ (newlines' = 0 /\ buffer' = 0 => pending' = 0)
        <4>1. CASE b = "lf" /\ saw = "cr"
          BY <2>0, <3>0, <3>2, <4>1, AdmitCounts, FeedHolds DEF Reach
        <4>2. CASE ~(b = "lf" /\ saw = "cr") /\ b = "content"
          <5>1. /\ Reach' = Reach + 3 /\ raw' = raw + 1 /\ buffer' > 0 /\ saw' = Saw(b)
                /\ pending' = pending + 1 /\ newlines' = 0 /\ budgetSaw' = Saw(b)
            BY <2>0, <3>0, <4>2, AdmitCounts, FeedHolds
          <5>. QED BY <2>0, <3>2, <5>1 DEF SseTypeOK
        <4>3. CASE ~(b = "lf" /\ saw = "cr") /\ b # "content"
          <5>1. /\ saw' = Saw(b) /\ budgetSaw' = Saw(b) /\ buffer' = 0
                /\ newlines = 0 => pending' = pending + 1 /\ newlines' = 1
                /\ newlines = 1 => pending' = 0 /\ newlines' = 0
                /\ buffer > 0 => Reach' <= Reach /\ raw' = raw + 1
                /\ buffer = 0 => Reach' = 0 /\ raw' = 0
            BY <2>0, <3>0, <4>3, AdmitCounts, FeedHolds
          <5>2. CASE newlines = 1
            BY <2>0, <3>1, <3>2, <5>1, <5>2 DEF SseTypeOK
          <5>3. CASE newlines = 0
            <6>1. CASE buffer > 0
              BY <2>0, <3>1, <3>2, <5>1, <5>3, <6>1 DEF SseTypeOK
            <6>2. CASE buffer = 0
              <7>1. Reach' = 0 /\ raw' = 0 /\ pending' = pending + 1
                BY <5>1, <5>3, <6>2
              <7>2. pending = 0
                BY <2>0, <5>3, <6>2
              <7>. QED BY <2>0, <5>1, <7>1, <7>2 DEF SseTypeOK
            <6>. QED BY <2>0, <6>1, <6>2 DEF SseTypeOK
          <5>. QED BY <2>0, <5>2, <5>3 DEF SseTypeOK
        <4>. QED BY <4>1, <4>2, <4>3
      <3>4. Held' <= 3 * MaxEvent /\ id' <= 3 * MaxEvent
        <4>1. Held' <= 3 * MaxEvent
          <5>1. pending' \in Nat /\ pending' <= MaxEvent
            BY <2>3, <3>1 DEF SseTypeOK
          <5>2. \A h, r, n, m \in Nat : h <= r /\ r <= 3 * n /\ n <= m => h <= 3 * m
            OBVIOUS
          <5>. QED BY <3>2, <3>3, <5>1, <5>2
        <4>2. id' = id \/ id' <= 3 * buffer
          BY <2>0, <3>0, FeedHolds
        <4>3. 3 * buffer <= 3 * MaxEvent
          <5>1. pending \in Nat /\ buffer \in Nat
            BY <2>0 DEF SseTypeOK
          <5>. QED BY <2>0, <3>2, <5>1
        <4>4. id' <= 3 * MaxEvent
          <5>1. id' \in Nat /\ buffer \in Nat
            BY <2>0, <3>1 DEF SseTypeOK
          <5>. QED BY <2>0, <4>2, <4>3, <5>1
        <4>. QED BY <4>1, <4>4
      <3>. QED BY <2>3, <3>0, <3>1, <3>3, <3>4 DEF FramingInv, InStep, ParserIsBounded,
                                               RefusedForCause, Replacement, SseTypeOK
    <2>. QED BY <2>0, <2>1, <2>2, <2>3 DEF SseTypeOK
  <1>. QED BY <1>1, <1>2

THEOREM FramingInvHolds == SseSpec => []FramingInv
  BY FramingInit, FramingNext, PTL DEF SseSpec

(* The variables keep their types. *)
THEOREM FramingTypeOK == SseSpec => []SseTypeOK
  <1>1. FramingInv => SseTypeOK
    BY DEF FramingInv
  <1>. QED BY FramingInvHolds, <1>1, PTL

(* sse.rs holds at most three times MAX_EVENT_BYTES of an unfinished event:   *)
(* that is what bytes that are not UTF-8 decode to.                            *)
THEOREM ParserStaysBounded == SseSpec => []ParserIsBounded
  <1>1. FramingInv => ParserIsBounded
    BY DEF FramingInv, InStep
  <1>. QED BY FramingInvHolds, <1>1, PTL

(* http.rs gives a stream up only when it or one of its events is too long. *)
THEOREM StreamRefusedForCause == SseSpec => []RefusedForCause
  <1>1. FramingInv => RefusedForCause
    BY DEF FramingInv, InStep
  <1>. QED BY FramingInvHolds, <1>1, PTL

(* http.rs counts what sse.rs is fed: it lets through at most what decodes to  *)
(* three times the limit, and gives up no stream without cause.                *)
THEOREM BudgetStaysExact == SseSpec => []BudgetIsExact
  BY ParserStaysBounded, StreamRefusedForCause, PTL DEF BudgetIsExact
-----------------------------------------------------------------------------
(* Sessions.                                                                 *)

-----------------------------------------------------------------------------
(* Sequences that hold an element once.                                        *)

(* The library's induction theorems take operators; least elements do as well. *)
LEMMA Least ==
    ASSUME NEW S \in SUBSET Nat, S # {}
    PROVE  \E m \in S : \A n \in S : m <= n
<1> DEFINE I == {1 .. n : n \in S}
<1>1. \A n \in S : n \in Nat
  OBVIOUS
<1>2. I \subseteq FiniteSubsetsOf(Nat)
  BY <1>1, FS_Interval DEF FiniteSubsetsOf
<1> I # {}
  OBVIOUS
<1>3. PICK x \in I : \A y \in I : <<y, x>> \notin StrictSubsetOrdering(Nat)
  BY <1>2, FS_StrictSubsetOrderingWellFounded, WFMin
<1>4. PICK m \in S : x = 1 .. m
  OBVIOUS
<1>5. ASSUME NEW n \in S, n < m
      PROVE  FALSE
  <2>1. 1 .. n \subseteq 1 .. m /\ 1 .. n # 1 .. m /\ 1 .. n \in I
    <3>1. m \in 1 .. m /\ m \notin 1 .. n
      BY <1>1, <1>5
    <3> QED
      BY <1>1, <1>5, <3>1
  <2>2. <<1 .. n, 1 .. m>> \in StrictSubsetOrdering(Nat)
    BY <1>1, <2>1 DEF StrictSubsetOrdering
  <2> QED
    BY <1>3, <1>4, <2>1, <2>2
<1> QED
  BY <1>1, <1>5

LEMMA LeastIs ==
    ASSUME NEW S \in SUBSET Nat, S # {}
    PROVE  Min(S) \in S
BY Least DEF Min

LEMMA ConcatAt ==
    ASSUME NEW S, NEW s \in Seq(S), NEW t \in Seq(S)
    PROVE  /\ s \o t \in Seq(S) /\ Len(s \o t) = Len(s) + Len(t)
           /\ \A i \in 1 .. Len(s) : (s \o t)[i] = s[i]
           /\ \A i \in 1 .. Len(t) : (s \o t)[Len(s) + i] = t[i]
OBVIOUS

LEMMA WithoutIs ==
    ASSUME NEW S, NEW s \in Seq(S), IsInjective(s), NEW e
    PROVE  /\ RemoveFirst(s, e) \in Seq(S) /\ IsInjective(RemoveFirst(s, e))
           /\ ToSet(RemoveFirst(s, e)) = ToSet(s) \ {e}
<1>0. DOMAIN s = 1 .. Len(s) /\ Len(s) \in Nat /\ \A i \in DOMAIN s : s[i] \in S
  OBVIOUS
<1>1. CASE ~\E i \in 1 .. Len(s) : s[i] = e
  BY <1>0, <1>1 DEF RemoveFirst, ToSet
<1>2. ASSUME NEW i \in 1 .. Len(s), s[i] = e
      PROVE  /\ RemoveFirst(s, e) \in Seq(S) /\ IsInjective(RemoveFirst(s, e))
             /\ ToSet(RemoveFirst(s, e)) = ToSet(s) \ {e}
  <2> DEFINE n == Len(s)
             t == RemoveAt(s, i)
  <2>1. {j \in 1 .. Len(s) : s[j] = e} = {i}
    BY <1>0, <1>2 DEF IsInjective
  <2>2. SelectInSeq(s, LAMBDA v : v = e) = i
    <3>1. {i} \in SUBSET Nat /\ {i} # {}
      BY <1>0
    <3>2. Min({i}) = i
      BY <3>1, LeastIs
    <3>3. SelectInSeq(s, LAMBDA v : v = e) =
             IF {j \in 1 .. Len(s) : s[j] = e} # {} THEN Min({j \in 1 .. Len(s) : s[j] = e}) ELSE 0
      BY DEF SelectInSeq
    <3> QED
      BY <2>1, <3>2, <3>3
  <2>3. RemoveFirst(s, e) = t
    BY <1>2, <2>2 DEF RemoveFirst
  <2>4. /\ t \in Seq(S) /\ Len(t) = n - 1
        /\ \A j \in 1 .. n - 1 : t[j] = IF j < i THEN s[j] ELSE s[j + 1]
    <3> DEFINE a == SubSeq(s, 1, i - 1)
               b == SubSeq(s, i + 1, n)
    <3>1. a \in Seq(S) /\ Len(a) = i - 1 /\ \A j \in 1 .. i - 1 : a[j] = s[j]
      BY <1>0, <1>2
    <3>2. b \in Seq(S) /\ Len(b) = n - i /\ \A j \in 1 .. n - i : b[j] = s[i + j]
      <4>1. /\ i + 1 \in Int /\ n \in Int /\ i \in Int /\ i <= n
            /\ \A j \in i + 1 .. n : s[j] \in S
        BY <1>0, <1>2
      <4> HIDE DEF n
      <4>2. /\ b \in Seq(S) /\ Len(b) = IF i + 1 <= n THEN n - (i + 1) + 1 ELSE 0
            /\ \A j \in 1 .. n - (i + 1) + 1 : b[j] = s[i + 1 + j - 1]
        BY <4>1, SubSeqProperties
      <4>3. /\ n - (i + 1) + 1 = n - i /\ (~(i + 1 <= n) => n - i = 0)
            /\ \A j \in 1 .. n - i : i + 1 + j - 1 = i + j
        BY <4>1
      <4> HIDE DEF b
      <4> QED
        BY <4>2, <4>3
    <3>3. t = a \o b
      BY DEF RemoveAt
    <3>0. n \in Nat /\ i \in Nat /\ i <= n /\ 1 <= i
      BY <1>0, <1>2
    <3> HIDE DEF a, b, n
    <3>4. /\ a \o b \in Seq(S) /\ Len(a \o b) = (i - 1) + (n - i)
          /\ \A j \in 1 .. i - 1 : (a \o b)[j] = a[j]
          /\ \A j \in 1 .. n - i : (a \o b)[(i - 1) + j] = b[j]
      <4>1. a \in Seq(S) /\ b \in Seq(S) /\ Len(a) = i - 1 /\ Len(b) = n - i
        BY <3>1, <3>2
      <4>2. /\ a \o b \in Seq(S) /\ Len(a \o b) = Len(a) + Len(b)
            /\ \A j \in 1 .. Len(a) : (a \o b)[j] = a[j]
            /\ \A j \in 1 .. Len(b) : (a \o b)[Len(a) + j] = b[j]
        <5>1. a \in Seq(S)
          BY <4>1
        <5>2. b \in Seq(S)
          BY <4>1
        <5> QED
          BY ONLY <5>1, <5>2, ConcatAt
      <4> QED
        BY <4>1, <4>2
    <3>5. ASSUME NEW j \in 1 .. n - 1
          PROVE  (a \o b)[j] = IF j < i THEN s[j] ELSE s[j + 1]
      <4>1. CASE j < i
        BY <3>0, <3>1, <3>4, <4>1
      <4>2. CASE ~(j < i)
        <5>1. j - (i - 1) \in 1 .. n - i /\ (i - 1) + (j - (i - 1)) = j
              /\ i + (j - (i - 1)) = j + 1
          BY <3>0, <4>2
        <5>2. (a \o b)[j] = b[j - (i - 1)]
          BY <3>4, <5>1
        <5>3. b[j - (i - 1)] = s[j + 1]
          BY <3>2, <5>1
        <5> QED
          BY <4>2, <5>2, <5>3
      <4> QED
        BY <4>1, <4>2
    <3>6. (i - 1) + (n - i) = n - 1
      BY <3>0
    <3> QED
      BY <3>3, <3>4, <3>5, <3>6
  <2>5. DOMAIN t = 1 .. n - 1 /\ n \in Nat /\ i \in Nat /\ i <= n
    BY <1>0, <2>4
  <2> HIDE DEF t, n
  <2>6. IsInjective(t)
    <3> SUFFICES ASSUME NEW j \in 1 .. n - 1, NEW k \in 1 .. n - 1, t[j] = t[k]
                 PROVE  j = k
      BY <2>5 DEF IsInjective
    <3> DEFINE u(x) == IF x < i THEN x ELSE x + 1
    <3>1. /\ u(j) \in 1 .. n /\ t[j] = s[u(j)]
          /\ u(k) \in 1 .. n /\ t[k] = s[u(k)]
      BY <2>4, <2>5
    <3>2. u(j) = u(k)
      BY <1>0, <3>1 DEF IsInjective, n
    <3> QED
      BY <2>5, <3>2
  <2>7. ToSet(t) = ToSet(s) \ {e}
    <3>1. \A j \in 1 .. n - 1 : \E k \in 1 .. n : t[j] = s[k] /\ k # i
      BY <2>4, <2>5
    <3>2. \A k \in 1 .. n : k # i => \E j \in 1 .. n - 1 : t[j] = s[k]
      <4> SUFFICES ASSUME NEW k \in 1 .. n, k # i
                   PROVE  \E j \in 1 .. n - 1 : t[j] = s[k]
        OBVIOUS
      <4>1. CASE k < i
        BY <2>4, <2>5, <4>1
      <4>2. CASE k > i
        <5>1. k - 1 \in 1 .. n - 1 /\ ~(k - 1 < i) /\ (k - 1) + 1 = k
          BY <2>5, <4>2
        <5> QED
          BY <2>4, <5>1
      <4> QED
        BY <2>5, <4>1, <4>2
    <3>3. \A k \in 1 .. n : s[k] = e <=> k = i
      BY <1>0, <1>2 DEF IsInjective, n
    <3>4. ToSet(t) = {t[j] : j \in 1 .. n - 1} /\ ToSet(s) = {s[k] : k \in 1 .. n}
      BY <1>0, <2>5 DEF ToSet, n
    <3>5. \A x \in ToSet(t) : x \in ToSet(s) /\ x # e
      BY <3>1, <3>3, <3>4
    <3>6. \A x \in ToSet(s) : x # e => x \in ToSet(t)
      BY <1>2, <3>2, <3>4
    <3> QED
      BY <3>5, <3>6
  <2> QED
    BY <2>3, <2>4, <2>6, <2>7
<1> QED
  BY <1>1, <1>2

LEMMA FirstIs ==
    ASSUME NEW S, NEW s \in Seq(S), IsInjective(s), NEW e \in S
    PROVE  LET t == <<e>> \o RemoveFirst(s, e)
           IN  t \in Seq(S) /\ IsInjective(t) /\ ToSet(t) = ToSet(s) \cup {e}
<1> DEFINE r == RemoveFirst(s, e)
           t == <<e>> \o r
<1>1. r \in Seq(S) /\ IsInjective(r) /\ ToSet(r) = ToSet(s) \ {e}
  BY WithoutIs
<1> HIDE DEF r
<1>2. <<e>> \in Seq(S) /\ Len(<<e>>) = 1 /\ <<e>>[1] = e
  OBVIOUS
<1>3. /\ t \in Seq(S) /\ Len(t) = Len(r) + 1 /\ Len(r) \in Nat /\ t[1] = e
      /\ \A i \in 1 .. Len(r) : t[i + 1] = r[i]
      /\ DOMAIN t = 1 .. Len(r) + 1 /\ DOMAIN r = 1 .. Len(r)
  BY <1>1, <1>2
<1> HIDE DEF t
<1>4. \A i \in DOMAIN t : i = 1 \/ (i - 1 \in DOMAIN r /\ t[i] = r[i - 1])
  <2> SUFFICES ASSUME NEW i \in DOMAIN t, i # 1
               PROVE  i - 1 \in DOMAIN r /\ t[i] = r[i - 1]
    OBVIOUS
  <2>1. i - 1 \in 1 .. Len(r) /\ (i - 1) + 1 = i
    BY <1>3
  <2> QED
    BY <1>3, <2>1
<1>5. \A i \in DOMAIN r : r[i] # e
  BY <1>1 DEF ToSet
<1>6. IsInjective(t)
  <2> SUFFICES ASSUME NEW i \in DOMAIN t, NEW j \in DOMAIN t, t[i] = t[j]
               PROVE  i = j
    BY DEF IsInjective
  <2>1. i \in Nat /\ j \in Nat
    BY <1>3
  <2>2. CASE i = 1 \/ j = 1
    BY <1>3, <1>4, <1>5, <2>2
  <2>3. CASE i # 1 /\ j # 1
    <3>1. i - 1 = j - 1
      BY <1>1, <1>4, <2>3 DEF IsInjective
    <3> QED
      BY <2>1, <3>1
  <2> QED
    BY <2>2, <2>3
<1>7. ToSet(t) = ToSet(r) \cup {e}
  <2>1. \A i \in DOMAIN t : t[i] = e \/ \E j \in DOMAIN r : t[i] = r[j]
    BY <1>3, <1>4
  <2>2. \A j \in DOMAIN r : \E i \in DOMAIN t : t[i] = r[j]
    <3> SUFFICES ASSUME NEW j \in 1 .. Len(r)
                 PROVE  \E i \in DOMAIN t : t[i] = r[j]
      BY <1>3
    <3>1. j + 1 \in DOMAIN t
      BY <1>3
    <3> QED
      BY <1>3, <3>1
  <2>3. 1 \in DOMAIN t /\ t[1] = e
    BY <1>3
  <2> QED
    BY <2>1, <2>2, <2>3 DEF ToSet
<1> QED
  BY <1>1, <1>3, <1>6, <1>7 DEF t, r

-----------------------------------------------------------------------------
-----------------------------------------------------------------------------
(* The inductive invariant.                                                    *)

Owners == {Protocol[p] : p \in ProfileNames} \cup {None}
Named  == Names \cup Ids \cup {None}
Chosen == ProfileNames \cup {None}
Of     == Agents \cup {None}

\* The process wherever it is, the call that opens a session, and the driver.
Processes ==
    [at : {"off"}, runs : Nat]
      \cup [at : {"failed"}, runs : Nat, fault : BOOLEAN]
      \cup [at : {"starting", "ready"}, runs : Nat, workspace : Workspaces, config : Configs]
      \cup [at : {"migrating"}, runs : Nat, workspace : Workspaces, config : Configs,
            migration : ToSet(Migrations), statements : SUBSET ToSet(Migrations)]
      \cup [at : {"removing"}, runs : Nat, workspace : Workspaces, config : Configs, id : Ids,
            left : {Removal, <<"continuation", "session">>, <<"session">>}]

Levels == BOOLEAN \cup {None}

Openers == [at : {"find", "again", "resolve", "create", "attach", "effort", "tell", "stamp"},
            route : {"open", "draft"}, name : Named, id : Ids \cup {None}, profile : Chosen,
            other : BOOLEAN, effort : Levels, agent : Of, picked : Ids \cup {None},
            created : BOOLEAN]

Drivers == [id : Ids, profile : Chosen, restored : BOOLEAN, at : {"idle", "stamp"}, next : Nat]

Typed ==
    /\ schema \in [ledger : SUBSET ToSet(Migrations), objects : SUBSET ToSet(Migrations)]
    /\ DOMAIN sessions \subseteq Ids /\ sessions \in [DOMAIN sessions -> Row]
    /\ recent \in Seq(Ids) /\ ToSet(recent) = DOMAIN sessions /\ IsInjective(recent)
    /\ events \in [Ids -> 0 .. MaxEvents]
    /\ conts \in [Ids -> Owners]
    /\ process \in Processes
    /\ opener # None => opener \in Openers
    /\ driver # None => driver \in Drivers
    /\ troubles \in 0 .. MaxTroubles

\* Whoever uses the rows does so in a process that is past its start.
InProcess ==
    /\ process.at # "ready" => opener = None /\ driver = None /\ outcome = None
    /\ opener # None => outcome = None

\* A migration under way repeats no column.
Migrating ==
    /\ SchemaBehindLedger
    /\ process.at = "migrating" =>
          process.statements = {process.migration} \ (Columns \cap schema.objects)

\* What a removal has taken so far.
Removing ==
    process.at = "removing" =>
        /\ process.id \in DOMAIN sessions
        /\ process.left # Removal => events[process.id] = 0
        /\ process.left = <<"session">> => conts[process.id] = None

\* The row an open has found or made: one it made is still as it made it.
Opening ==
    opener # None =>
        /\ opener.at = "attach" => opener.id \in DOMAIN sessions
        /\ opener.at # "attach" => ~opener.created
        /\ opener.created => opener.route = "open" \/ opener.effort = sessions[opener.id].effort
        /\ opener.created => /\ events[opener.id] = 0 /\ conts[opener.id] = None
                             /\ driver # None => driver.id # opener.id

\* A draft is no agent's.  What it resumes is native, and only a draft that came
\* without a driver changes a stored effort; what is new has one the model takes.
Drafted ==
    opener # None =>
        /\ opener.route = "draft" =>
             /\ opener.agent = None
             /\ opener.at = "find" /\ opener.effort # None => driver = None
             /\ opener.at \in {"again", "attach", "effort", "tell", "stamp"} =>
                  /\ opener.id \in DOMAIN sessions /\ sessions[opener.id].kind = "native"
                  /\ opener.effort \in BOOLEAN
                  /\ opener.effort # sessions[opener.id].effort => driver = None
        /\ opener.at \in {"effort", "tell", "stamp"} => opener.route = "draft" /\ driver = None
        /\ opener.at = "create" /\ opener.agent = None =>
             /\ opener.effort \in BOOLEAN
             /\ opener.effort = TRUE => Protocol[opener.profile] # "messages"

\* No session has a level its protocol does not know.
Fitting ==
    \A sid \in DOMAIN sessions :
        sessions[sid].effort = TRUE => Protocol[sessions[sid].profile] # "messages"

\* A driver has a row, and agrees with it.
Driving == (driver # None => driver.id \in DOMAIN sessions) /\ DriverMatchesRow

StoreInv == /\ Typed /\ InProcess /\ Migrating /\ Removing /\ Opening /\ Drafted /\ Driving
            /\ Fitting /\ NoOrphanRows /\ OpensAgain

LEMMA VerdictsAre ==
    ASSUME NEW profile, NEW level \in BOOLEAN
    PROVE  /\ TRUE \in Verdicts(profile, level) /\ level = TRUE => Protocol[profile] # "messages"
           /\ FALSE \in Verdicts(profile, level) => level = TRUE
           /\ Verdicts(profile, level) \subseteq BOOLEAN
BY DEF Verdicts

-----------------------------------------------------------------------------
(* What the searches find.                                                     *)

LEMMA PendingIs ==
    /\ Pending = 0 => ToSet(Migrations) \subseteq schema.ledger
    /\ Pending # 0 => Migrations[Pending] \in ToSet(Migrations)
<1> DEFINE I == {i \in 1 .. Len(Migrations) : Migrations[i] \notin schema.ledger}
<1>1. DOMAIN Migrations = 1 .. Len(Migrations) /\ Len(Migrations) \in Nat
  BY ConfigsAssumption
<1>2. Pending = IF I # {} THEN Min(I) ELSE 0
  BY DEF Pending, SelectInSeq
<1>3. I \in SUBSET Nat /\ \A i \in I : i \in 1 .. Len(Migrations)
  BY <1>1
<1>4. CASE I = {}
  BY <1>1, <1>2, <1>4 DEF ToSet
<1>5. CASE I # {}
  <2>1. Min(I) \in I
    BY <1>3, <1>5, LeastIs
  <2>2. Min(I) \in 1 .. Len(Migrations)
    BY <1>3, <2>1
  <2> HIDE DEF I
  <2>4. Min(I) # 0 /\ Migrations[Min(I)] \in ToSet(Migrations)
    BY <1>1, <2>2 DEF ToSet
  <2>3. Pending = Min(I)
    BY <1>2, <1>5
  <2> QED
    BY <2>3, <2>4
<1> QED
  BY <1>4, <1>5

LEMMA NamedIs ==
    ASSUME Typed, NEW name
    PROVE  FindByName(name) # None => FindByName(name) \in DOMAIN sessions
<1> DEFINE I == {i \in 1 .. Len(recent) : sessions[recent[i]].name = name}
<1>1. /\ DOMAIN recent = 1 .. Len(recent) /\ Len(recent) \in Nat
      /\ ToSet(recent) = DOMAIN sessions
  BY DEF Typed
<1>2. SelectInSeq(recent, LAMBDA sid : sessions[sid].name = name) = IF I # {} THEN Min(I) ELSE 0
  BY DEF SelectInSeq
<1>3. I \in SUBSET Nat /\ \A i \in I : i \in DOMAIN recent
  BY <1>1
<1>4. CASE I = {}
  BY <1>2, <1>4 DEF FindByName
<1>5. CASE I # {}
  <2>1. Min(I) \in I
    BY <1>3, <1>5, LeastIs
  <2>2. Min(I) # 0 /\ recent[Min(I)] \in DOMAIN sessions
    BY <1>1, <1>3, <2>1 DEF ToSet
  <2>3. FindByName(name) = recent[Min(I)]
    BY <1>2, <1>5, <2>2 DEF FindByName
  <2> QED
    BY <2>2, <2>3
<1> QED
  BY <1>4, <1>5

LEMMA FoundIs ==
    ASSUME Typed
    PROVE  Found # None => Found \in DOMAIN sessions
BY NamedIs DEF Found

LEMMA TouchedIs ==
    ASSUME Typed, NEW sid \in Ids
    PROVE  /\ Touched(sid) \in Seq(Ids) /\ IsInjective(Touched(sid))
           /\ ToSet(Touched(sid)) = DOMAIN sessions \cup {sid}
<1>1. recent \in Seq(Ids) /\ IsInjective(recent) /\ ToSet(recent) = DOMAIN sessions
  BY DEF Typed
<1> QED
  BY <1>1, FirstIs DEF Touched

LEMMA ListedWithout ==
    ASSUME Typed, NEW sid
    PROVE  /\ RemoveFirst(recent, sid) \in Seq(Ids) /\ IsInjective(RemoveFirst(recent, sid))
           /\ ToSet(RemoveFirst(recent, sid)) = DOMAIN sessions \ {sid}
<1>1. recent \in Seq(Ids) /\ IsInjective(recent) /\ ToSet(recent) = DOMAIN sessions
  BY DEF Typed
<1> QED
  BY <1>1, WithoutIs

LEMMA StoreInit == Init => StoreInv
<1> SUFFICES ASSUME Init
             PROVE  StoreInv
  OBVIOUS
<1>1. PICK n \in 0 .. Len(Migrations), ahead \in SUBSET Columns :
         /\ ahead \subseteq IF n < Len(Migrations) THEN {Migrations[n + 1]} ELSE {}
         /\ schema = [ledger  |-> {Migrations[i] : i \in 1 .. n},
                      objects |-> {Migrations[i] : i \in 1 .. n} \cup ahead]
  BY DEF Init
<1>2. DOMAIN Migrations = 1 .. Len(Migrations) /\ Len(Migrations) \in Nat
  BY ConfigsAssumption
<1>3. {Migrations[i] : i \in 1 .. n} \subseteq ToSet(Migrations)
  BY <1>2 DEF ToSet
<1>4. ahead \subseteq ToSet(Migrations)
  BY <1>1, <1>2 DEF ToSet
<1>5. /\ DOMAIN sessions = {} /\ sessions \in [{} -> Row]
      /\ recent \in Seq(Ids) /\ ToSet(recent) = {} /\ IsInjective(recent)
  BY DEF Init, ToSet, IsInjective
<1>6. Typed
  <2>1. schema \in [ledger : SUBSET ToSet(Migrations), objects : SUBSET ToSet(Migrations)]
    BY <1>1, <1>3, <1>4
  <2>2. events \in [Ids -> 0 .. MaxEvents] /\ conts \in [Ids -> Owners] /\ troubles \in 0 .. MaxTroubles
    BY BoundsAssumption DEF Init, Owners
  <2>3. process \in Processes
    BY DEF Init, Off, Processes
  <2> QED
    BY <1>5, <2>1, <2>2, <2>3 DEF Init, Typed
<1>7. SchemaBehindLedger
  BY <1>1 DEF Init, Off, SchemaBehindLedger
<1>8. NoOrphanRows
  BY DEF Init, NoOrphanRows
<1> QED
  BY <1>6, <1>7, <1>8
  DEF Init, Off, StoreInv, InProcess, Migrating, Removing, Opening, Drafted, Fitting, Driving,
      DriverMatchesRow, OpensAgain

-----------------------------------------------------------------------------
(* Processes.                                                                  *)

LEMMA StartKeeps ==
    ASSUME StoreInv, NEW workspace \in Workspaces, NEW config \in Configs, Start(workspace,
           config)
    PROVE  StoreInv'
<1>1. process' \in Processes
  BY DEF StoreInv, Typed, Processes, Start
<1>2. Typed'
  BY <1>1 DEF StoreInv, Typed, Start, rows, user
<1>3. opener = None /\ driver = None /\ outcome = None
  BY DEF StoreInv, InProcess, Start
<1>4. Migrating'
  BY DEF StoreInv, Migrating, SchemaBehindLedger, Start
<1> QED
  BY <1>2, <1>3, <1>4
  DEF StoreInv, InProcess, Removing,
      Opening, Drafted, Fitting, Driving, DriverMatchesRow, NoOrphanRows, OpensAgain,
      Start, rows, user

LEMMA MigrateKeeps ==
    ASSUME StoreInv, Migrate
    PROVE  StoreInv'
<1>1. opener = None /\ driver = None /\ outcome = None
  BY DEF StoreInv, InProcess, Migrate
<1>2. process \in [at : {"starting"}, runs : Nat, workspace : Workspaces, config : Configs]
  BY DEF StoreInv, Typed, Processes, Migrate
<1>3. CASE Pending = 0
  <2>1. /\ process'.at = "ready"
        /\ process' \in [at : {"ready"}, runs : Nat, workspace : Workspaces, config : Configs]
    BY <1>2, <1>3 DEF Migrate
  <2>2. schema.objects = ToSet(Migrations)
    BY <1>3, PendingIs DEF StoreInv, Typed, Migrating, SchemaBehindLedger
  <2> QED
    BY <1>1, <2>1, <2>2
    DEF StoreInv, Typed, Processes, InProcess, Migrating, SchemaBehindLedger, Removing,
        Opening, Drafted,
        Fitting, Driving, DriverMatchesRow, NoOrphanRows, OpensAgain, Migrate, rows, user
<1>4. CASE Pending # 0
  <2> DEFINE m == Migrations[Pending]
  <2>1. m \in ToSet(Migrations)
    BY <1>4, PendingIs
  <2>2. process' = [at |-> "migrating", runs |-> process.runs, workspace |-> process.workspace,
                    config |-> process.config, migration |-> m,
                    statements |-> {m} \ (Columns \cap schema.objects)]
    BY <1>4 DEF Migrate, RecoverableStatements
  <2> HIDE DEF m
  <2>3. /\ process' \in Processes /\ process'.at = "migrating"
        /\ process'.statements = {process'.migration} \ (Columns \cap schema.objects)
    BY <1>2, <2>1, <2>2 DEF Processes
  <2> QED
    BY <1>1, <2>3
    DEF StoreInv, Typed, InProcess, Migrating, SchemaBehindLedger, Removing, Opening, Drafted,
        Fitting, Driving, DriverMatchesRow, NoOrphanRows, OpensAgain, Migrate, rows, user
<1> QED
  BY <1>3, <1>4

LEMMA CommitKeeps ==
    ASSUME StoreInv, Commit
    PROVE  StoreInv'
<1>1. opener = None /\ driver = None /\ outcome = None
  BY DEF StoreInv, InProcess, Commit
<1>2. process \in [at : {"migrating"}, runs : Nat, workspace : Workspaces, config : Configs,
                   migration : ToSet(Migrations), statements : SUBSET ToSet(Migrations)]
  BY DEF StoreInv, Typed, Processes, Commit
<1>3. /\ schema' \in [ledger : SUBSET ToSet(Migrations), objects : SUBSET ToSet(Migrations)]
      /\ schema'.ledger = schema.ledger \cup {process.migration}
      /\ schema'.objects = schema.objects \cup process.statements
  BY <1>2 DEF StoreInv, Typed, Commit
<1>4. process' \in Processes /\ process'.at = "starting"
  BY <1>2 DEF Commit, Processes
<1>5. Migrating'
  BY <1>3, <1>4 DEF StoreInv, Migrating, SchemaBehindLedger, Commit
<1> QED
  BY <1>1, <1>3, <1>4, <1>5
  DEF StoreInv, Typed, InProcess, Removing, Opening, Drafted,
      Fitting, Driving, DriverMatchesRow, NoOrphanRows, OpensAgain, Commit, rows, user

LEMMA RollbackKeeps ==
    ASSUME StoreInv, Rollback
    PROVE  StoreInv'
<1>1. opener = None /\ driver = None /\ outcome = None
  BY DEF StoreInv, InProcess, Rollback
<1>2. process.runs \in Nat
  BY DEF StoreInv, Typed, Processes
<1>3. process.statements \cap Columns \cap schema.objects = {}
  BY DEF StoreInv, Migrating, Rollback
<1>4. process' = [at |-> "failed", runs |-> process.runs, fault |-> TRUE] /\ Trouble
  BY <1>3 DEF Rollback
<1>5. process' \in Processes /\ process'.at = "failed" /\ process'.fault
  BY <1>2, <1>4 DEF Processes
<1>6. troubles' \in 0 .. MaxTroubles
  BY <1>4, BoundsAssumption DEF Trouble, StoreInv, Typed
<1> QED
  BY <1>1, <1>5, <1>6
  DEF StoreInv, Typed, InProcess, Migrating, SchemaBehindLedger, Removing, Opening, Drafted,
      Fitting, Driving, DriverMatchesRow, NoOrphanRows, OpensAgain, Rollback, rows, user

LEMMA ForgetKeeps ==
    ASSUME StoreInv, Forget, troubles' \in 0 .. MaxTroubles
    PROVE  StoreInv'
<1>1. process' \in Processes /\ process'.at = "off"
  BY DEF StoreInv, Typed, Forget, Processes
<1> QED
  BY <1>1
  DEF StoreInv, Typed, InProcess, Migrating, SchemaBehindLedger, Removing, Opening, Drafted,
      Fitting, Driving, DriverMatchesRow, NoOrphanRows, OpensAgain, Forget, rows

LEMMA EndKeeps ==
    ASSUME StoreInv, Exit \/ Crash \/ RemoveFails
    PROVE  StoreInv'
<1>1. Forget /\ troubles' \in 0 .. MaxTroubles
  BY BoundsAssumption DEF Exit, Crash, RemoveFails, Trouble, StoreInv, Typed
<1> QED
  BY <1>1, ForgetKeeps

-----------------------------------------------------------------------------
(* Renaming and removing.                                                      *)

LEMMA RenameKeeps ==
    ASSUME StoreInv, NEW name, NEW new \in Names, Rename(name, new)
    PROVE  StoreInv'
<1> DEFINE sid == FindByName(name)
<1>t. Typed
  BY DEF StoreInv
<1>1. sid \in DOMAIN sessions /\ sid \in Ids
  BY <1>t, NamedIs DEF Rename, Typed
<1>2. recent' = Touched(sid) /\ sessions' = [sessions EXCEPT ![sid].name = new]
  BY DEF Rename
<1> HIDE DEF sid
<1>3. /\ DOMAIN sessions' = DOMAIN sessions /\ DOMAIN sessions \subseteq Ids
      /\ sessions' \in [DOMAIN sessions -> Row]
  BY <1>1, <1>2 DEF StoreInv, Typed, Row
<1>4. recent' \in Seq(Ids) /\ IsInjective(recent') /\ ToSet(recent') = DOMAIN sessions
  BY <1>1, <1>2, <1>t, TouchedIs
<1>5. Typed'
  BY <1>3, <1>4 DEF StoreInv, Typed, Rename
<1>6. opener = None /\ driver = None /\ outcome' = None /\ process.at = "ready"
  BY DEF Rename
<1> QED
  BY <1>3, <1>5, <1>6
  DEF StoreInv, InProcess, Migrating, SchemaBehindLedger, Removing, Opening, Drafted,
      Fitting, Driving, DriverMatchesRow, NoOrphanRows, OpensAgain, Rename

LEMMA StartRemoveKeeps ==
    ASSUME StoreInv, NEW name, StartRemove(name)
    PROVE  StoreInv'
<1> DEFINE sid == FindByName(name)
<1>t. Typed
  BY DEF StoreInv
<1>1. sid \in DOMAIN sessions /\ sid \in Ids
  BY <1>t, NamedIs DEF StartRemove, Typed
<1>2. process' = [at |-> "removing", runs |-> process.runs, workspace |-> process.workspace,
                  config |-> process.config, id |-> sid, left |-> Removal]
  BY DEF StartRemove
<1> HIDE DEF sid
<1>3. process \in [at : {"ready"}, runs : Nat, workspace : Workspaces, config : Configs]
  BY <1>t DEF Typed, Processes, StartRemove
<1>4. /\ process' \in Processes /\ process'.at = "removing"
      /\ process'.id = sid /\ process'.left = Removal
  BY <1>1, <1>2, <1>3 DEF Processes
<1>5. Typed'
  BY <1>4 DEF StoreInv, Typed, StartRemove, rows
<1>6. Removing'
  <2>1. Removal # <<"session">>
    BY DEF Removal
  <2> QED
    BY <1>1, <1>4, <2>1 DEF Removing, StartRemove, rows
<1> QED
  BY <1>3, <1>4, <1>5, <1>6
  DEF StoreInv, InProcess, Migrating, SchemaBehindLedger, Opening, Drafted,
      Fitting, Driving, DriverMatchesRow, NoOrphanRows, OpensAgain, StartRemove, rows

LEMMA RemoveStepKeeps ==
    ASSUME StoreInv, RemoveStep
    PROVE  StoreInv'
<1> DEFINE sid == process.id
<1>t. Typed
  BY DEF StoreInv
<1>1. process \in [at : {"removing"}, runs : Nat, workspace : Workspaces, config : Configs,
                   id : Ids, left : {Removal, <<"continuation", "session">>, <<"session">>}]
  BY <1>t DEF Typed, Processes, RemoveStep
<1>2. opener = None /\ driver = None /\ outcome = None
  BY <1>1 DEF StoreInv, InProcess
<1>3. sid \in DOMAIN sessions /\ sid \in Ids
  BY <1>1 DEF StoreInv, Removing
<1>4. CASE process.left = Removal
  <2>1. /\ Head(process.left) = "events" /\ Len(process.left) > 1
        /\ Tail(process.left) = <<"continuation", "session">>
    BY <1>4 DEF Removal
  <2>2. /\ process' = [process EXCEPT !.left = <<"continuation", "session">>]
        /\ events' = [events EXCEPT ![sid] = 0] /\ UNCHANGED <<conts, sessions, recent>>
    BY <2>1 DEF RemoveStep, Deleted
  <2>3. /\ process' \in Processes /\ process'.at = "removing" /\ process'.id = sid
        /\ process'.left = <<"continuation", "session">>
    BY <1>1, <2>2 DEF Processes
  <2>4. events' \in [Ids -> 0 .. MaxEvents] /\ events'[sid] = 0
    BY <1>3, <1>t, <2>2, BoundsAssumption DEF Typed
  <2>5. Typed'
    BY <1>2, <2>2, <2>3, <2>4 DEF StoreInv, Typed, RemoveStep, user
  <2>6. Removing'
    BY <1>3, <2>2, <2>3, <2>4 DEF Removing
  <2>7. NoOrphanRows'
    BY <1>3, <1>t, <2>2 DEF StoreInv, Typed, NoOrphanRows
  <2> QED
    BY <1>1, <1>2, <2>2, <2>3, <2>5, <2>6, <2>7
    DEF StoreInv, InProcess, Migrating, SchemaBehindLedger, Opening, Drafted,
        Fitting, Driving, DriverMatchesRow, OpensAgain, RemoveStep, user
<1>5. CASE process.left = <<"continuation", "session">>
  <2>1. /\ Head(process.left) = "continuation" /\ Len(process.left) > 1
        /\ Tail(process.left) = <<"session">>
    BY <1>5
  <2>2. /\ process' = [process EXCEPT !.left = <<"session">>]
        /\ conts' = [conts EXCEPT ![sid] = None] /\ UNCHANGED <<events, sessions, recent>>
    BY <2>1 DEF RemoveStep, Deleted
  <2>3. /\ process' \in Processes /\ process'.at = "removing" /\ process'.id = sid
        /\ process'.left = <<"session">>
    BY <1>1, <2>2 DEF Processes
  <2>4. conts' \in [Ids -> Owners] /\ conts'[sid] = None
    BY <1>3, <1>t, <2>2 DEF Typed, Owners
  <2>5. Typed'
    BY <1>2, <2>2, <2>3, <2>4 DEF StoreInv, Typed, RemoveStep, user
  <2>6. Removing'
    <3>1. process.left # Removal
      BY <1>5 DEF Removal
    <3>2. events[sid] = 0
      BY <1>1, <3>1 DEF StoreInv, Removing
    <3> QED
      BY <1>3, <2>2, <2>3, <2>4, <3>2 DEF Removing
  <2>7. NoOrphanRows'
    BY <1>3, <1>t, <2>2 DEF StoreInv, Typed, NoOrphanRows
  <2> QED
    BY <1>1, <1>2, <2>2, <2>3, <2>5, <2>6, <2>7
    DEF StoreInv, InProcess, Migrating, SchemaBehindLedger, Opening, Drafted,
        Fitting, Driving, DriverMatchesRow, OpensAgain, RemoveStep, user
<1>6. CASE process.left = <<"session">>
  <2>1. Head(process.left) = "session" /\ ~(Len(process.left) > 1)
    BY <1>6
  <2>2. /\ process' = [at |-> "off", runs |-> process.runs]
        /\ sessions' = [i \in DOMAIN sessions \ {sid} |-> sessions[i]]
        /\ recent' = RemoveFirst(recent, sid) /\ UNCHANGED <<events, conts>>
    BY <2>1 DEF RemoveStep, Deleted
  <2>3. process' \in Processes /\ process'.at = "off"
    BY <1>1, <2>2 DEF Processes
  <2>4. /\ DOMAIN sessions' = DOMAIN sessions \ {sid}
        /\ sessions' \in [DOMAIN sessions \ {sid} -> Row]
    BY <1>t, <2>2 DEF Typed
  <2>5. /\ recent' \in Seq(Ids) /\ IsInjective(recent')
        /\ ToSet(recent') = DOMAIN sessions \ {sid}
    BY <1>t, <2>2, ListedWithout
  <2>6. Typed'
    BY <1>2, <2>2, <2>3, <2>4, <2>5 DEF StoreInv, Typed, RemoveStep, user
  <2>7. events[sid] = 0 /\ conts[sid] = None
    <3>1. process.left # Removal
      BY <1>6 DEF Removal
    <3> QED
      BY <1>1, <1>6, <3>1 DEF StoreInv, Removing
  <2>8. NoOrphanRows'
    BY <1>3, <2>2, <2>4, <2>7 DEF StoreInv, NoOrphanRows
  <2>9. Fitting'
    BY <2>2, <2>4 DEF StoreInv, Fitting
  <2> QED
    BY <1>1, <1>2, <2>3, <2>6, <2>8, <2>9
    DEF StoreInv, InProcess, Migrating, SchemaBehindLedger, Removing, Opening, Drafted,
        Driving, DriverMatchesRow, OpensAgain, RemoveStep, user
<1> QED
  BY <1>1, <1>4, <1>5, <1>6

-----------------------------------------------------------------------------
(* Opening.                                                                    *)

\* The rows a lookup leaves: as they were, or one of them more recent.
Looked == /\ recent' \in {recent} \cup {Touched(sid) : sid \in DOMAIN sessions}
          /\ UNCHANGED <<schema, sessions, events, conts, process, driver, troubles>>

LEMMA LookedKeeps ==
    ASSUME StoreInv, Looked, opener' # None => opener' \in Openers
    PROVE  /\ Typed' /\ Migrating' /\ Removing' /\ Driving' /\ NoOrphanRows' /\ Fitting'
           /\ DOMAIN sessions' = DOMAIN sessions
<1>t. Typed
  BY DEF StoreInv
<1>1. recent' \in Seq(Ids) /\ IsInjective(recent') /\ ToSet(recent') = DOMAIN sessions
  <2>1. CASE recent' = recent
    BY <1>t, <2>1 DEF Typed
  <2>2. ASSUME NEW sid \in DOMAIN sessions, recent' = Touched(sid)
        PROVE  recent' \in Seq(Ids) /\ IsInjective(recent') /\ ToSet(recent') = DOMAIN sessions
    <3>1. sid \in Ids
      BY <1>t DEF Typed
    <3> QED
      BY <1>t, <2>2, <3>1, TouchedIs
  <2> QED
    BY <2>1, <2>2 DEF Looked
<1>2. Typed'
  BY <1>1 DEF StoreInv, Typed, Looked
<1> QED
  BY <1>2
  DEF StoreInv, Migrating, SchemaBehindLedger, Removing, Driving, DriverMatchesRow,
      Fitting, NoOrphanRows, Looked

LEMMA OpenerIn ==
    ASSUME StoreInv, opener # None
    PROVE  /\ opener \in Openers /\ process.at = "ready" /\ outcome = None
           /\ process \in [at : {"ready"}, runs : Nat, workspace : Workspaces, config : Configs]
BY DEF StoreInv, Typed, InProcess, Processes

LEMMA AskedKeeps ==
    ASSUME StoreInv, Idle, outcome' = None, UNCHANGED <<schema, rows, process, driver, troubles>>,
           NEW route \in {"open", "draft"}, NEW name \in Named, NEW sid \in Ids \cup {None},
           NEW wish \in [profile : Chosen, other : BOOLEAN, effort : Levels],
           NEW agent \in Of, NEW picked \in Ids \cup {None},
           Asked(route, name, sid, wish, agent, picked),
           route = "draft" => agent = None /\ (wish.effort # None => driver = None)
    PROVE  StoreInv'
<1>1. /\ opener' \in Openers /\ opener'.at = "find" /\ opener'.created = FALSE
      /\ opener'.route = route /\ opener'.agent = agent /\ opener'.effort = wish.effort
  BY DEF Asked, Openers
<1>2. Looked
  BY DEF Looked, rows
<1>3. /\ Typed' /\ Migrating' /\ Removing' /\ Driving' /\ NoOrphanRows' /\ Fitting'
  BY <1>1, <1>2, LookedKeeps
<1> QED
  BY <1>1, <1>3 DEF StoreInv, InProcess, Opening, Drafted, OpensAgain, Idle

LEMMA NothingIs ==
    Nothing \in [profile : Chosen, other : BOOLEAN, effort : Levels] /\ Nothing.effort = None
BY DEF Nothing, Chosen, Levels

LEMMA OpenNamedKeeps ==
    ASSUME StoreInv, NEW name \in Names \cup {None}, NEW agent \in Of, OpenNamed(name, agent)
    PROVE  StoreInv'
BY AskedKeeps, NothingIs DEF OpenNamed, Named

LEMMA OpenDraftKeeps ==
    ASSUME StoreInv, NEW name \in Names \cup {None}, NEW wish \in Wishes, OpenDraft(name, wish)
    PROVE  StoreInv'
<1>1. wish \in [profile : Chosen, other : BOOLEAN, effort : Levels]
  BY WishesAssumption DEF Chosen, Levels
<1> QED
  BY <1>1, AskedKeeps DEF OpenDraft, Named, Of

LEMMA ResumeByIdKeeps ==
    ASSUME StoreInv, NEW sid \in Ids, ResumeById(sid)
    PROVE  StoreInv'
<1>1. sessions[sid].name \in Named
  BY DEF StoreInv, Typed, ResumeById, Row, Named
<1>2. CASE sessions[sid].kind = "native"
  BY <1>1, <1>2, AskedKeeps, NothingIs DEF ResumeById, Of
<1>3. CASE sessions[sid].kind # "native"
  BY <1>3, AskedKeeps, NothingIs DEF ResumeById, Of, Named
<1> QED
  BY <1>2, <1>3

\* A call that goes on, at the next thing it does.
LEMMA ToKeeps ==
    ASSUME StoreInv, Looked, opener # None, opener.at # "attach",
           NEW at \in {"again", "resolve", "create", "attach"}, NEW found \in Ids \cup {None},
           opener.at \notin {"effort", "tell", "stamp"},
           To(at, found), at = "attach" => found \in DOMAIN sessions,
           opener.route = "draft" =>
               at = "resolve" \/ (opener.at = "again" /\ at = "attach" /\ found = opener.id),
           at = "create" => opener.agent # None
    PROVE  StoreInv'
<1>1. opener \in Openers /\ process.at = "ready" /\ outcome = None
  BY OpenerIn
<1>2. /\ opener' \in Openers /\ opener'.at = at /\ opener'.id = found
      /\ opener'.created = opener.created /\ opener'.route = opener.route
      /\ opener'.agent = opener.agent /\ opener'.effort = opener.effort
  BY <1>1 DEF To, Openers
<1>5. Drafted'
  BY <1>2 DEF StoreInv, Drafted, Looked
<1>3. ~opener.created
  BY DEF StoreInv, Opening
<1>4. /\ Typed' /\ Migrating' /\ Removing' /\ Driving' /\ NoOrphanRows' /\ Fitting'
      /\ DOMAIN sessions' = DOMAIN sessions
  BY <1>2, LookedKeeps
<1> QED
  BY <1>1, <1>2, <1>3, <1>4, <1>5 DEF StoreInv, InProcess, Opening, OpensAgain, To, Looked

Reason(sid) ==
    \/ ~Here(sessions[sid]) \/ sessions[sid].kind # "native"
    \/ sessions[sid].profile \notin process.config
    \/ opener.profile \notin {None, sessions[sid].profile} \/ opener.other
    \/ opener.effort = TRUE
    \/ opener.effort = None /\ sessions[sid].effort /\ Protocol[sessions[sid].profile] # "messages"

\* A call that ends.  When it is refused a session there is a reason.
LEMMA EndedKeeps ==
    ASSUME StoreInv, Looked, opener # None, NEW result, NEW found, NEW fault,
           Ended(result, found, fault),
           result = "refused" /\ ~fault /\ found # None => Reason(found)
    PROVE  StoreInv'
<1>1. process.at = "ready"
  BY OpenerIn
<1>2. opener' = None /\ outcome'.result = result /\ outcome'.id = found
      /\ outcome'.fault = fault /\ outcome'.profile = opener.profile
      /\ outcome'.other = opener.other /\ outcome'.effort = opener.effort
  BY DEF Ended
<1>3. /\ Typed' /\ Migrating' /\ Removing' /\ Driving' /\ NoOrphanRows' /\ Fitting'
  BY <1>2, LookedKeeps
<1>4. OpensAgain'
  BY <1>2 DEF OpensAgain, Looked, Here, Reason
<1> QED
  BY <1>1, <1>2, <1>3, <1>4 DEF StoreInv, InProcess, Opening, Drafted, Looked

LEMMA RefuseKeeps ==
    ASSUME StoreInv, opener # None, NEW found, Refuse(found),
           found # None => Reason(found)
    PROVE  StoreInv'
<1>1. Looked
  BY DEF Refuse, Looked, rows
<1>2. Ended("refused", found, FALSE)
  BY DEF Refuse
<1> QED
  BY <1>1, <1>2, EndedKeeps

LEMMA FindSessionKeeps ==
    ASSUME StoreInv, FindSession
    PROVE  StoreInv'
<1>t. Typed
  BY DEF StoreInv
<1>1. opener # None /\ opener.at = "find" /\ opener.route = "open"
  BY DEF FindSession
<1>2. CASE Found = None
  <2>1. \/ To("resolve", None) /\ UNCHANGED rows
        \/ opener.agent # None /\ To("create", None) /\ UNCHANGED rows
        \/ Refuse(None)
    BY <1>2 DEF FindSession
  <2>2. ASSUME NEW at \in {"resolve", "create"}, To(at, None), UNCHANGED rows,
               at = "create" => opener.agent # None
        PROVE  StoreInv'
    <3>1. Looked
      BY <2>2 DEF To, Looked, rows
    <3> QED
      BY <1>1, <2>2, <3>1, ToKeeps
  <2>3. CASE Refuse(None)
    BY <1>1, <2>3, RefuseKeeps
  <2> QED
    BY <2>1, <2>2, <2>3
<1>3. CASE Found # None
  <2> DEFINE sid == Found
  <2>1. sid \in DOMAIN sessions /\ sid \in Ids
    BY <1>t, <1>3, FoundIs DEF Typed
  <2>2. \/ ~Here(sessions[sid]) /\ Refuse(sid)
        \/ /\ recent' \in {recent, Touched(sid)} /\ UNCHANGED <<sessions, events, conts>>
           /\ IF opener.agent # None /\ sessions[sid].kind \in Agents /\ opener.agent # sessions[sid].kind
              THEN Ended("refused", sid, FALSE) /\ UNCHANGED <<schema, process, driver, troubles>>
              ELSE To("attach", sid)
    BY <1>3 DEF FindSession
  <2> HIDE DEF sid
  <2>3. CASE ~Here(sessions[sid]) /\ Refuse(sid)
    BY <1>1, <2>3, RefuseKeeps DEF Reason
  <2>4. CASE /\ recent' \in {recent, Touched(sid)} /\ UNCHANGED <<sessions, events, conts>>
             /\ sessions[sid].kind \in Agents
             /\ Ended("refused", sid, FALSE) /\ UNCHANGED <<schema, process, driver, troubles>>
    <3>1. Looked
      BY <2>1, <2>4 DEF Looked
    <3>2. sessions[sid].kind # "native"
      BY <2>4, KindsAssumption
    <3> QED
      BY <1>1, <2>4, <3>1, <3>2, EndedKeeps DEF Reason
  <2>5. CASE /\ recent' \in {recent, Touched(sid)} /\ UNCHANGED <<sessions, events, conts>>
             /\ To("attach", sid)
    <3>1. Looked
      BY <2>1, <2>5 DEF Looked, To
    <3> QED
      BY <1>1, <2>1, <2>5, <3>1, ToKeeps
  <2> QED
    BY <2>2, <2>3, <2>4, <2>5
<1> QED
  BY <1>2, <1>3

LEMMA ValidateDraftKeeps ==
    ASSUME StoreInv, ValidateDraft
    PROVE  StoreInv'
<1> DEFINE sid == Found
           row == sessions[sid]
           level == IF opener.effort = None THEN row.effort ELSE opener.effort
<1>t. Typed
  BY DEF StoreInv
<1>1. /\ opener # None /\ opener.at = "find" /\ opener.route = "draft" /\ opener \in Openers
      /\ process.at = "ready" /\ outcome = None
  BY OpenerIn DEF ValidateDraft
<1>2. opener.agent = None /\ ~opener.created /\ (opener.effort # None => driver = None)
  BY <1>1 DEF StoreInv, Opening, Drafted
<1>3. CASE sid = None
  <2>1. Looked /\ To("resolve", None)
    BY <1>3 DEF ValidateDraft, To, Looked, rows
  <2> QED
    BY <1>1, <2>1, ToKeeps
<1>4. ASSUME sid # None, Refuse(sid), Reason(sid)
      PROVE  StoreInv'
  BY <1>1, <1>4, RefuseKeeps
<1>5. CASE sid # None
  <2>1. sid \in DOMAIN sessions /\ sid \in Ids /\ row \in Row
    BY <1>t, <1>5, FoundIs DEF Typed
  <2>2. level \in BOOLEAN
    BY <1>1, <2>1 DEF Row, Openers, Levels
  <2>3. \/ Refuse(sid) /\ (~Here(row) \/ row.kind # "native" \/ row.profile \notin process.config
                          \/ opener.profile \notin {None, row.profile} \/ opener.other)
        \/ /\ row.kind = "native"
           /\ \E taken \in Verdicts(row.profile, level) :
                 IF taken THEN /\ opener' = [opener EXCEPT !.at = "again", !.id = sid, !.effort = level]
                               /\ UNCHANGED <<schema, rows, process, driver, outcome, troubles>>
                 ELSE Refuse(sid)
    BY <1>5 DEF ValidateDraft
  <2>4. level = TRUE /\ opener.effort # TRUE =>
            opener.effort = None /\ row.effort /\ Protocol[row.profile] # "messages"
    BY <2>1, <2>2, <1>1 DEF StoreInv, Fitting, Openers, Levels
  <2>5. level # row.effort => driver = None
    BY <1>2
  <2> HIDE DEF level, sid
  <2>6. CASE Refuse(sid) /\ (~Here(row) \/ row.kind # "native" \/ row.profile \notin process.config
                            \/ opener.profile \notin {None, row.profile} \/ opener.other)
    BY <1>4, <1>5, <2>6 DEF Reason
  <2>7. CASE Refuse(sid) /\ FALSE \in Verdicts(row.profile, level)
    <3>1. level = TRUE
      BY <2>2, <2>7, VerdictsAre
    <3> QED
      BY <1>4, <1>5, <2>4, <2>7, <3>1 DEF Reason
  <2>8. CASE /\ row.kind = "native"
             /\ opener' = [opener EXCEPT !.at = "again", !.id = sid, !.effort = level]
             /\ UNCHANGED <<schema, rows, process, driver, outcome, troubles>>
    <3>1. /\ opener' \in Openers /\ opener'.at = "again" /\ opener'.id = sid
          /\ opener'.effort = level /\ opener'.created = opener.created
          /\ opener'.route = "draft" /\ opener'.agent = None
      BY <1>1, <1>2, <2>1, <2>2, <2>8 DEF Openers, Levels
    <3>2. Looked
      BY <2>8 DEF Looked, rows
    <3>3. /\ Typed' /\ Migrating' /\ Removing' /\ Driving' /\ NoOrphanRows' /\ Fitting'
      BY <3>1, <3>2, LookedKeeps
    <3>4. Drafted'
      BY <2>1, <2>2, <2>5, <2>8, <3>1 DEF Drafted, rows
    <3> QED
      BY <1>1, <1>2, <2>8, <3>1, <3>3, <3>4 DEF StoreInv, InProcess, Opening, OpensAgain
  <2>9. Verdicts(row.profile, level) \subseteq BOOLEAN
    BY <2>2, VerdictsAre
  <2> QED
    BY <2>3, <2>6, <2>7, <2>8, <2>9
<1> QED
  BY <1>3, <1>5

LEMMA FindAgainKeeps ==
    ASSUME StoreInv, FindAgain
    PROVE  StoreInv'
<1>t. Typed
  BY DEF StoreInv
<1>1. opener # None /\ opener.at = "again" /\ opener \in Openers
  BY OpenerIn DEF FindAgain
<1>2. CASE Found = None
  BY <1>1, <1>2, RefuseKeeps DEF FindAgain
<1>3. CASE Found # None
  <2>1. Found \in DOMAIN sessions /\ Found \in Ids
    BY <1>t, <1>3, FoundIs DEF Typed
  <2>2. Looked /\ To("attach", Found)
    BY <1>3, <2>1 DEF FindAgain, Looked, To
  <2>3. opener.route = "draft" => Found = opener.id
    <3>1. opener.route = "draft" => opener.id \in DOMAIN sessions /\ opener.id \in Ids
      BY <1>t, <1>1 DEF StoreInv, Drafted, Typed
    <3> QED
      BY <3>1, KindsAssumption DEF Found
  <2> QED
    BY <1>1, <2>1, <2>2, <2>3, ToKeeps
<1> QED
  BY <1>2, <1>3

LEMMA ResolveKeeps ==
    ASSUME StoreInv, Resolve
    PROVE  StoreInv'
<1>1. /\ opener # None /\ opener.at = "resolve" /\ opener \in Openers
      /\ process.at = "ready" /\ outcome = None
      /\ process \in [at : {"ready"}, runs : Nat, workspace : Workspaces, config : Configs]
  BY OpenerIn DEF Resolve
<1>2. ASSUME NEW profile \in process.config, NEW level \in BOOLEAN,
             TRUE \in Verdicts(profile, level),
             opener' = [opener EXCEPT !.at = "create", !.profile = profile, !.effort = level],
             UNCHANGED <<schema, rows, process, driver, outcome, troubles>>
      PROVE  StoreInv'
  <2>1. profile \in Chosen
    BY <1>1, ConfigsAssumption DEF Chosen
  <2>2. /\ opener' \in Openers /\ opener'.at = "create" /\ opener'.created = opener.created
        /\ opener'.profile = profile /\ opener'.effort = level
        /\ opener'.route = opener.route /\ opener'.agent = opener.agent
    BY <1>1, <1>2, <2>1 DEF Openers, Levels
  <2>3. Looked
    BY <1>2 DEF Looked, rows
  <2>4. Typed' /\ Migrating' /\ Removing' /\ Driving' /\ NoOrphanRows' /\ Fitting'
    BY <2>2, <2>3, LookedKeeps
  <2>5. ~opener.created
    BY <1>1 DEF StoreInv, Opening
  <2>6. Drafted'
    BY <1>1, <1>2, <2>2, VerdictsAre DEF StoreInv, Drafted
  <2> QED
    BY <1>1, <1>2, <2>2, <2>4, <2>5, <2>6 DEF StoreInv, InProcess, Opening, OpensAgain
<1>3. CASE Refuse(None)
  BY <1>1, <1>3, RefuseKeeps
<1> QED
  BY <1>2, <1>3 DEF Resolve

LEMMA CreateKeeps ==
    ASSUME StoreInv, Create
    PROVE  StoreInv'
<1> DEFINE sid == CHOOSE i \in Unused : TRUE
           row == [name |-> IF opener.name = None THEN sid ELSE opener.name,
                   kind |-> IF opener.agent = None THEN "native" ELSE opener.agent,
                   profile |-> IF opener.agent = None THEN opener.profile ELSE None,
                   effort |-> opener.agent = None /\ opener.effort,
                   workspace |-> process.workspace]
<1>t. Typed
  BY DEF StoreInv
<1>1. /\ opener # None /\ opener \in Openers
      /\ process.at = "ready" /\ outcome = None
      /\ process \in [at : {"ready"}, runs : Nat, workspace : Workspaces, config : Configs]
  BY OpenerIn DEF Create
<1>2. sid \in Unused
  BY DEF Create
<1>3. /\ sessions' = [i \in DOMAIN sessions \cup {sid} |-> IF i # sid THEN sessions[i] ELSE row]
      /\ recent' = Touched(sid)
      /\ opener' = [opener EXCEPT !.at = "attach", !.id = sid, !.created = TRUE]
      /\ UNCHANGED <<schema, events, conts, process, driver, outcome, troubles>>
  BY DEF Create
<1> HIDE DEF sid
<1>4. sid \in Ids /\ sid \notin DOMAIN sessions /\ events[sid] = 0 /\ conts[sid] = None
  BY <1>2 DEF Unused
<1>0. opener.agent = None =>
          opener.effort \in BOOLEAN /\ (opener.effort = TRUE => Protocol[opener.profile] # "messages")
  BY <1>1 DEF StoreInv, Drafted, Create
<1>5. /\ row \in Row /\ (row.effort = TRUE => Protocol[row.profile] # "messages")
      /\ opener.agent = None => row.kind = "native" /\ row.effort = opener.effort
  <2>1. row.effort \in BOOLEAN
    BY <1>0
  <2>2. row.name \in Names \cup Ids /\ row.kind \in {"native"} \cup Agents
        /\ row.profile \in ProfileNames \cup {None} /\ row.workspace \in Workspaces
    BY <1>1, <1>4 DEF Openers, Named, Of, Chosen
  <2>3. row \in Row
    BY <2>1, <2>2 DEF Row
  <2> QED
    BY <1>0, <2>3
<1> HIDE DEF row
<1>6. /\ DOMAIN sessions' = DOMAIN sessions \cup {sid}
      /\ sessions' \in [DOMAIN sessions \cup {sid} -> Row]
      /\ \A i \in DOMAIN sessions : sessions'[i] = sessions[i]
  <2>1. DOMAIN sessions' = DOMAIN sessions \cup {sid} /\ \A i \in DOMAIN sessions : i # sid
    BY <1>3, <1>4
  <2>2. \A i \in DOMAIN sessions : sessions'[i] = sessions[i]
    BY <1>3, <1>4, <2>1
  <2>3. sessions'[sid] = row
    BY <1>3, <1>4
  <2>4. \A i \in DOMAIN sessions \cup {sid} : sessions'[i] \in Row
    BY <1>t, <1>5, <2>2, <2>3 DEF Typed
  <2>5. sessions' = [i \in DOMAIN sessions \cup {sid} |-> sessions'[i]]
    BY <1>3
  <2> QED
    BY <2>1, <2>2, <2>4, <2>5
<1>7. /\ recent' \in Seq(Ids) /\ IsInjective(recent')
      /\ ToSet(recent') = DOMAIN sessions \cup {sid}
  BY <1>t, <1>3, <1>4, TouchedIs
<1>8. /\ opener' \in Openers /\ opener'.at = "attach" /\ opener'.id = sid /\ opener'.created
      /\ opener'.route = opener.route /\ opener'.agent = opener.agent
      /\ opener'.effort = opener.effort
  BY <1>1, <1>3, <1>4 DEF Openers
<1>9. Typed'
  BY <1>3, <1>4, <1>6, <1>7, <1>8 DEF StoreInv, Typed
<1>10. Driving' /\ (driver' # None => driver'.id # sid)
  BY <1>3, <1>4, <1>6 DEF StoreInv, Driving, DriverMatchesRow
<1>13. sessions'[sid] = row
  BY <1>3, <1>4
<1>11. Opening'
  <2>1. opener.route = "draft" => opener.agent = None
    BY <1>1 DEF StoreInv, Drafted
  <2>2. opener'.route = "open" \/ opener'.effort = sessions'[sid].effort
    BY <1>1, <1>5, <1>8, <1>13, <2>1 DEF Openers
  <2> QED
    BY <1>3, <1>4, <1>6, <1>8, <1>10, <2>2 DEF Opening
<1>12. NoOrphanRows'
  BY <1>3, <1>4, <1>6 DEF StoreInv, NoOrphanRows
<1>14. Fitting'
  BY <1>3, <1>5, <1>6, <1>13 DEF StoreInv, Fitting
<1>15. Drafted'
  BY <1>0, <1>1, <1>3, <1>5, <1>6, <1>8, <1>13 DEF StoreInv, Drafted
<1> QED
  BY <1>1, <1>3, <1>9, <1>10, <1>11, <1>12, <1>14, <1>15
  DEF StoreInv, InProcess, Migrating, SchemaBehindLedger, Removing, OpensAgain

\* A call that ends with a driver.
LEMMA OpenedKeeps ==
    ASSUME StoreInv, opener # None, opener.id \in DOMAIN sessions, Opened,
           Typed', Fitting', NoOrphanRows', UNCHANGED conts, DOMAIN sessions' = DOMAIN sessions,
           sessions'[opener.id].profile = sessions[opener.id].profile
    PROVE  StoreInv'
<1> DEFINE sid == opener.id
           row == sessions[sid]
<1>1. process.at = "ready" /\ outcome = None
  BY OpenerIn
<1>2. /\ driver'.id = sid /\ driver'.profile = row.profile /\ driver'.next = events'[sid]
      /\ driver'.restored => conts[sid] = Protocol[row.profile]
      /\ opener' = None /\ outcome'.result = "opened" /\ UNCHANGED <<schema, process, troubles>>
  BY DEF Opened, Ended, Readable
<1>3. Driving'
  BY <1>2 DEF Driving, DriverMatchesRow
<1> QED
  BY <1>1, <1>2, <1>3
  DEF StoreInv, InProcess, Migrating, SchemaBehindLedger, Removing, Opening, Drafted, OpensAgain

\* The driver an open makes.
LEMMA OpenedIs ==
    ASSUME StoreInv, opener # None, opener.id \in DOMAIN sessions, Opened,
           events' \in [Ids -> 0 .. MaxEvents]
    PROVE  driver' \in Drivers
<1> DEFINE sid == opener.id
           restored == sessions[sid].kind = "native" /\ Readable(conts[sid], sessions[sid].profile)
<1>1. /\ sid \in Ids /\ sessions[sid] \in Row
  BY DEF StoreInv, Typed
<1>2. events'[sid] \in Nat /\ sessions[sid].profile \in Chosen
  BY <1>1, BoundsAssumption DEF Row, Chosen
<1>3. restored \in BOOLEAN
  BY DEF Readable
<1>4. driver' = [id |-> sid, profile |-> sessions[sid].profile, at |-> "idle",
                 next |-> events'[sid], restored |-> restored]
  BY DEF Opened
<1> HIDE DEF restored
<1> QED
  BY <1>1, <1>2, <1>3, <1>4 DEF Drivers

LEMMA AttachKeeps ==
    ASSUME StoreInv, Attach
    PROVE  StoreInv'
<1> DEFINE sid == opener.id
           row == sessions[sid]
<1>1. /\ opener # None /\ opener \in Openers /\ opener.at = "attach"
      /\ process.at = "ready" /\ outcome = None
  BY OpenerIn DEF Attach
<1>2. sid \in DOMAIN sessions /\ sid \in Ids
  BY <1>1 DEF StoreInv, Opening, Typed
<1>3. \/ row.kind = "native" /\ row.profile \notin process.config /\ Refuse(sid)
      \/ UNCHANGED rows /\ opener.route = "draft" /\ opener.effort # row.effort /\ To("effort", sid)
      \/ UNCHANGED rows /\ Opened
  BY DEF Attach, Readable
<1>4. CASE row.kind = "native" /\ row.profile \notin process.config /\ Refuse(sid)
  BY <1>1, <1>4, RefuseKeeps DEF Reason
<1>5. CASE UNCHANGED rows /\ opener.route = "draft" /\ opener.effort # row.effort /\ To("effort", sid)
  <2>1. /\ opener' \in Openers /\ opener'.at = "effort" /\ opener'.id = sid
        /\ opener'.effort = opener.effort /\ opener'.created = opener.created
        /\ opener'.route = "draft" /\ opener'.agent = opener.agent
    BY <1>1, <1>2, <1>5 DEF To, Openers
  <2>2. Looked
    BY <1>5 DEF Looked, To, rows
  <2>3. /\ Typed' /\ Migrating' /\ Removing' /\ Driving' /\ NoOrphanRows' /\ Fitting'
    BY <2>1, <2>2, LookedKeeps
  <2>4. driver = None /\ Drafted'
    BY <1>1, <1>5, <2>1 DEF StoreInv, Drafted, To, rows
  <2>5. Opening'
    BY <1>1, <1>2, <1>5, <2>1 DEF StoreInv, Opening, To, rows
  <2> QED
    BY <1>1, <1>5, <2>1, <2>3, <2>4, <2>5 DEF StoreInv, InProcess, OpensAgain, To
<1>6. CASE UNCHANGED rows /\ Opened
  <2>1. driver' \in Drivers
    BY <1>1, <1>2, <1>6, OpenedIs DEF StoreInv, Typed, rows
  <2>2. opener' = None /\ UNCHANGED <<schema, process, troubles>>
    BY <1>6 DEF Opened, Ended
  <2>3. Typed' /\ Fitting' /\ NoOrphanRows'
    BY <1>6, <2>1, <2>2 DEF StoreInv, Typed, Fitting, NoOrphanRows, rows
  <2> QED
    BY <1>1, <1>2, <1>6, <2>3, OpenedKeeps DEF rows
<1> QED
  BY <1>3, <1>4, <1>5, <1>6

\* The effort a draft gives to what it resumes, with its event.
LEMMA DraftIn ==
    ASSUME StoreInv, opener # None, opener.at \in {"effort", "tell", "stamp"}
    PROVE  /\ opener \in Openers /\ process.at = "ready" /\ outcome = None /\ driver = None
           /\ opener.id \in DOMAIN sessions /\ opener.id \in Ids /\ opener.route = "draft"
           /\ sessions[opener.id].kind = "native" /\ opener.effort \in BOOLEAN
           /\ opener.agent = None
<1>1. opener \in Openers /\ process.at = "ready" /\ outcome = None
  BY OpenerIn
<1> QED
  BY <1>1 DEF StoreInv, Drafted, Typed

LEMMA SetDraftEffortKeeps ==
    ASSUME StoreInv, SetDraftEffort
    PROVE  StoreInv'
<1> DEFINE sid == opener.id
           row == sessions[sid]
<1>t. Typed
  BY DEF StoreInv
<1>1. /\ opener # None /\ opener.at = "effort" /\ opener \in Openers /\ process.at = "ready"
      /\ outcome = None /\ driver = None /\ sid \in DOMAIN sessions /\ sid \in Ids
      /\ opener.route = "draft" /\ row.kind = "native" /\ opener.effort \in BOOLEAN
      /\ opener.agent = None
  BY DraftIn DEF SetDraftEffort
<1>2. Verdicts(row.profile, opener.effort) \subseteq BOOLEAN
  BY <1>1, VerdictsAre
<1>3. CASE /\ TRUE \in Verdicts(row.profile, opener.effort)
           /\ sessions' = [sessions EXCEPT ![sid].effort = opener.effort]
           /\ recent' = Touched(sid) /\ To("tell", sid) /\ UNCHANGED <<events, conts>>
  <2>1. /\ opener' \in Openers /\ opener'.at = "tell" /\ opener'.id = sid
        /\ opener'.effort = opener.effort /\ opener'.created = opener.created
        /\ opener'.route = "draft" /\ opener'.agent = None
        /\ UNCHANGED <<schema, process, driver, outcome, troubles>>
    BY <1>1, <1>3 DEF To, Openers
  <2>2. /\ DOMAIN sessions' = DOMAIN sessions /\ sessions' \in [DOMAIN sessions -> Row]
        /\ sessions'[sid].effort = opener.effort /\ sessions'[sid].profile = row.profile
        /\ sessions'[sid].kind = "native" /\ \A i \in DOMAIN sessions \ {sid} : sessions'[i] = sessions[i]
    BY <1>t, <1>1, <1>3 DEF Typed, Row
  <2>3. recent' \in Seq(Ids) /\ IsInjective(recent') /\ ToSet(recent') = DOMAIN sessions
    BY <1>t, <1>1, <1>3, TouchedIs
  <2>4. Typed'
    BY <1>3, <2>1, <2>2, <2>3 DEF StoreInv, Typed
  <2>5. Fitting'
    BY <1>1, <1>3, <2>2, VerdictsAre DEF StoreInv, Fitting
  <2>6. Drafted'
    BY <1>1, <2>1, <2>2 DEF Drafted
  <2>7. Opening'
    BY <1>1, <1>3, <2>1, <2>2 DEF StoreInv, Opening
  <2>8. NoOrphanRows'
    BY <1>3, <2>2 DEF StoreInv, NoOrphanRows
  <2> QED
    BY <1>1, <1>3, <2>1, <2>4, <2>5, <2>6, <2>7, <2>8
    DEF StoreInv, InProcess, Migrating, SchemaBehindLedger, Removing, Driving, DriverMatchesRow,
        OpensAgain
<1>4. CASE UNCHANGED rows /\ Opened
  <2>1. driver' \in Drivers
    BY <1>1, <1>4, OpenedIs DEF StoreInv, Typed, rows
  <2>2. opener' = None /\ UNCHANGED <<schema, process, troubles>>
    BY <1>4 DEF Opened, Ended
  <2>3. Typed' /\ Fitting' /\ NoOrphanRows'
    BY <1>4, <2>1, <2>2 DEF StoreInv, Typed, Fitting, NoOrphanRows, rows
  <2> QED
    BY <1>1, <1>4, <2>3, OpenedKeeps DEF rows
<1> QED
  BY <1>2, <1>3, <1>4 DEF SetDraftEffort

LEMMA TellEffortKeeps ==
    ASSUME StoreInv, TellEffort
    PROVE  StoreInv'
<1> DEFINE sid == opener.id
<1>t. Typed
  BY DEF StoreInv
<1>1. /\ opener # None /\ opener \in Openers /\ process.at = "ready"
      /\ outcome = None /\ driver = None /\ sid \in DOMAIN sessions /\ sid \in Ids
      /\ opener.route = "draft" /\ sessions[sid].kind = "native" /\ opener.effort \in BOOLEAN
      /\ opener.agent = None /\ ~opener.created
  <2>1. opener # None /\ opener.at \in {"tell", "stamp"}
    BY DEF TellEffort
  <2> QED
    BY <2>1, DraftIn DEF StoreInv, Opening
<1>2. UNCHANGED <<sessions, conts>>
  BY DEF TellEffort
<1>3. CASE /\ events[sid] < MaxEvents /\ events' = [events EXCEPT ![sid] = @ + 1]
           /\ To("stamp", sid) /\ UNCHANGED recent
  <2>1. /\ opener' \in Openers /\ opener'.at = "stamp" /\ opener'.id = sid
        /\ opener'.effort = opener.effort /\ ~opener'.created
        /\ opener'.route = "draft" /\ opener'.agent = None
        /\ UNCHANGED <<schema, process, driver, outcome, troubles>>
    BY <1>1, <1>3 DEF To, Openers
  <2>2. events[sid] \in 0 .. MaxEvents
    BY <1>t, <1>1 DEF Typed
  <2>3. /\ events' \in [Ids -> 0 .. MaxEvents]
        /\ \A i \in Ids \ {sid} : events'[i] = events[i]
    BY <1>t, <1>1, <1>3, <2>2, BoundsAssumption DEF Typed
  <2>4. Typed'
    BY <1>2, <1>3, <2>1, <2>3 DEF StoreInv, Typed
  <2>5. NoOrphanRows'
    BY <1>1, <1>2, <2>3 DEF StoreInv, NoOrphanRows
  <2>6. Drafted' /\ Opening'
    BY <1>1, <1>2, <2>1 DEF Drafted, Opening
  <2> QED
    BY <1>1, <1>2, <2>1, <2>4, <2>5, <2>6
    DEF StoreInv, InProcess, Migrating, SchemaBehindLedger, Removing, Fitting, Driving,
        DriverMatchesRow, OpensAgain
<1>4. CASE recent' = Touched(sid) /\ UNCHANGED events /\ Opened
  <2>1. driver' \in Drivers
    BY <1>1, <1>4, OpenedIs DEF StoreInv, Typed
  <2>2. opener' = None /\ UNCHANGED <<schema, process, troubles>>
    BY <1>4 DEF Opened, Ended
  <2>3. recent' \in Seq(Ids) /\ IsInjective(recent') /\ ToSet(recent') = DOMAIN sessions
    BY <1>t, <1>1, <1>4, TouchedIs
  <2>4. Typed' /\ Fitting' /\ NoOrphanRows'
    BY <1>2, <1>4, <2>1, <2>2, <2>3 DEF StoreInv, Typed, Fitting, NoOrphanRows
  <2> QED
    BY <1>1, <1>2, <1>4, <2>4, OpenedKeeps
<1> QED
  BY <1>3, <1>4 DEF TellEffort

LEMMA OpenFailsKeeps ==
    ASSUME StoreInv, OpenFails
    PROVE  StoreInv'
<1> DEFINE sid == opener.id
<1>t. Typed
  BY DEF StoreInv
<1>1. /\ opener # None /\ opener \in Openers
      /\ process.at = "ready" /\ outcome = None
  BY OpenerIn DEF OpenFails
<1>2. /\ opener' = None /\ outcome'.fault = TRUE /\ troubles' \in 0 .. MaxTroubles
      /\ UNCHANGED <<schema, process, driver>>
  BY <1>t, BoundsAssumption DEF OpenFails, Ended, Trouble, Typed
<1>3. CASE UNCHANGED rows
  BY <1>1, <1>2, <1>3
  DEF StoreInv, Typed, InProcess, Migrating, SchemaBehindLedger, Removing,
      Opening, Drafted, Fitting, Driving,
      DriverMatchesRow, NoOrphanRows, OpensAgain, rows
<1>4. CASE opener.created /\ Deleted(sid, "session")
  <2>1. /\ sid \in DOMAIN sessions /\ events[sid] = 0 /\ conts[sid] = None
        /\ driver # None => driver.id # sid
    BY <1>1, <1>4 DEF StoreInv, Opening
  <2>2. /\ sessions' = [i \in DOMAIN sessions \ {sid} |-> sessions[i]]
        /\ recent' = RemoveFirst(recent, sid) /\ UNCHANGED <<events, conts>>
    BY <1>4 DEF Deleted
  <2>3. /\ DOMAIN sessions' = DOMAIN sessions \ {sid}
        /\ sessions' \in [DOMAIN sessions \ {sid} -> Row]
        /\ \A i \in DOMAIN sessions \ {sid} : sessions'[i] = sessions[i]
    BY <1>t, <2>2 DEF Typed
  <2>4. /\ recent' \in Seq(Ids) /\ IsInjective(recent')
        /\ ToSet(recent') = DOMAIN sessions \ {sid}
    BY <1>t, <2>2, ListedWithout
  <2>5. Typed'
    BY <1>2, <2>2, <2>3, <2>4 DEF StoreInv, Typed
  <2>6. NoOrphanRows'
    BY <2>1, <2>2, <2>3 DEF StoreInv, NoOrphanRows
  <2>7. Driving' /\ Fitting'
    BY <1>2, <2>1, <2>2, <2>3 DEF StoreInv, Driving, DriverMatchesRow, Fitting
  <2> QED
    BY <1>1, <1>2, <2>5, <2>6, <2>7
    DEF StoreInv, InProcess, Migrating, SchemaBehindLedger, Removing,
        Opening, Drafted, OpensAgain
<1> QED
  BY <1>3, <1>4 DEF OpenFails

LEMMA AbandonKeeps ==
    ASSUME StoreInv, Abandon
    PROVE  StoreInv'
<1>1. process.at = "ready" /\ outcome = None
  BY OpenerIn DEF Abandon
<1> QED
  BY <1>1
  DEF Abandon, StoreInv, Typed, InProcess, Migrating, SchemaBehindLedger, Removing,
      Opening, Drafted, Fitting, Driving,
      DriverMatchesRow, NoOrphanRows, OpensAgain, rows

-----------------------------------------------------------------------------
(* The driver at work.                                                         *)

LEMMA DriverIn ==
    ASSUME StoreInv, HasDriver
    PROVE  /\ opener = None /\ process.at = "ready" /\ driver # None /\ driver \in Drivers
           /\ driver.id \in DOMAIN sessions /\ driver.id \in Ids
BY DEF StoreInv, Typed, InProcess, Driving, HasDriver

LEMMA AppendEventKeeps ==
    ASSUME StoreInv, AppendEvent
    PROVE  StoreInv'
<1> DEFINE sid == driver.id
<1>1. /\ opener = None /\ process.at = "ready" /\ driver # None /\ driver \in Drivers
      /\ sid \in DOMAIN sessions /\ sid \in Ids
  BY DriverIn DEF AppendEvent
<1>2. /\ driver' \in Drivers /\ driver'.id = sid /\ driver'.profile = driver.profile
      /\ driver'.restored = driver.restored /\ driver'.next = driver.next + 1
  <2>1. driver' = [driver EXCEPT !.at = "stamp", !.next = driver.next + 1]
    BY DEF AppendEvent
  <2>2. driver.next + 1 \in Nat
    BY <1>1 DEF Drivers
  <2> QED
    BY <1>1, <2>1, <2>2 DEF Drivers
<1>3. events[sid] \in 0 .. MaxEvents /\ events[sid] < MaxEvents
  BY <1>1 DEF StoreInv, Typed, AppendEvent
<1>4. /\ events' \in [Ids -> 0 .. MaxEvents] /\ events'[sid] = events[sid] + 1
      /\ \A i \in Ids \ {sid} : events'[i] = events[i]
  BY <1>1, <1>3, BoundsAssumption DEF StoreInv, Typed, AppendEvent
<1>5. /\ opener' = None /\ outcome' = None
      /\ UNCHANGED <<schema, sessions, recent, conts, process, troubles>>
  BY <1>1 DEF AppendEvent
<1>6. Typed'
  BY <1>2, <1>4, <1>5 DEF StoreInv, Typed
<1>7. Driving'
  BY <1>1, <1>2, <1>4, <1>5 DEF StoreInv, Driving, DriverMatchesRow
<1>8. NoOrphanRows'
  BY <1>1, <1>4, <1>5 DEF StoreInv, NoOrphanRows
<1> QED
  BY <1>1, <1>5, <1>6, <1>7, <1>8
  DEF StoreInv, InProcess, Migrating, SchemaBehindLedger, Removing,
      Opening, Drafted, Fitting, OpensAgain

LEMMA StampKeeps ==
    ASSUME StoreInv, Stamp
    PROVE  StoreInv'
<1>t. Typed
  BY DEF StoreInv
<1>1. /\ opener = None /\ process.at = "ready" /\ driver # None /\ driver \in Drivers
      /\ driver.id \in DOMAIN sessions /\ driver.id \in Ids
  BY DriverIn DEF Stamp
<1>2. /\ driver' \in Drivers /\ driver'.id = driver.id /\ driver'.profile = driver.profile
      /\ driver'.restored = driver.restored /\ driver'.next = driver.next
  BY <1>1 DEF Stamp, Drivers
<1>3. recent' \in Seq(Ids) /\ IsInjective(recent') /\ ToSet(recent') = DOMAIN sessions
  BY <1>t, <1>1, TouchedIs DEF Stamp
<1>4. Typed'
  BY <1>1, <1>2, <1>3 DEF StoreInv, Typed, Stamp
<1>5. Driving'
  BY <1>1, <1>2 DEF StoreInv, Driving, DriverMatchesRow, Stamp
<1> QED
  BY <1>1, <1>4, <1>5
  DEF StoreInv, InProcess, Migrating, SchemaBehindLedger, Removing,
      Opening, Drafted, Fitting, OpensAgain,
      NoOrphanRows,
      Stamp

LEMMA SaveContinuationKeeps ==
    ASSUME StoreInv, SaveContinuation
    PROVE  StoreInv'
<1> DEFINE sid == driver.id
<1>1. /\ opener = None /\ process.at = "ready" /\ driver # None /\ driver \in Drivers
      /\ sid \in DOMAIN sessions /\ sid \in Ids
  BY DriverIn DEF SaveContinuation
<1>2. /\ driver' \in Drivers /\ driver'.id = sid /\ driver'.profile = driver.profile
      /\ driver'.next = driver.next
  BY <1>1 DEF SaveContinuation, Drivers
<1>3. Protocol[driver.profile] \in Owners
  BY <1>1 DEF SaveContinuation, Drivers, Chosen, Owners
<1>4. /\ conts' \in [Ids -> Owners] /\ conts'[sid] = Protocol[driver.profile]
      /\ \A i \in Ids \ {sid} : conts'[i] = conts[i]
  BY <1>1, <1>3 DEF StoreInv, Typed, SaveContinuation
<1>5. /\ opener' = None /\ outcome' = None
      /\ UNCHANGED <<schema, sessions, recent, events, process, troubles>>
  BY <1>1 DEF SaveContinuation
<1>6. Typed'
  BY <1>2, <1>4, <1>5 DEF StoreInv, Typed
<1>7. Driving'
  BY <1>1, <1>2, <1>4, <1>5 DEF StoreInv, Driving, DriverMatchesRow
<1>8. NoOrphanRows'
  BY <1>1, <1>4, <1>5 DEF StoreInv, NoOrphanRows
<1> QED
  BY <1>1, <1>5, <1>6, <1>7, <1>8
  DEF StoreInv, InProcess, Migrating, SchemaBehindLedger, Removing,
      Opening, Drafted, Fitting, OpensAgain

LEMMA SetEffortKeeps ==
    ASSUME StoreInv, NEW level \in BOOLEAN, SetEffort(level)
    PROVE  StoreInv'
<1> DEFINE sid == driver.id
<1>t. Typed
  BY DEF StoreInv
<1>1. /\ opener = None /\ process.at = "ready" /\ driver # None /\ driver \in Drivers
      /\ sid \in DOMAIN sessions /\ sid \in Ids
  BY DriverIn DEF SetEffort
<1>2. driver.profile = sessions[sid].profile /\ TRUE \in Verdicts(sessions[sid].profile, level)
  BY <1>1 DEF StoreInv, Driving, DriverMatchesRow, SetEffort
<1>3. /\ DOMAIN sessions' = DOMAIN sessions /\ sessions'[sid].profile = sessions[sid].profile
      /\ sessions'[sid].effort = level
      /\ sessions' \in [DOMAIN sessions -> Row]
      /\ \A i \in DOMAIN sessions \ {sid} : sessions'[i] = sessions[i]
  BY <1>1, <1>t DEF Typed, Row, SetEffort
<1>4. recent' \in Seq(Ids) /\ IsInjective(recent') /\ ToSet(recent') = DOMAIN sessions
  BY <1>t, <1>1, TouchedIs DEF SetEffort
<1>5. opener' = None /\ outcome' = None /\ UNCHANGED <<schema, events, conts, process, driver, troubles>>
  BY <1>1 DEF SetEffort
<1>6. Typed'
  BY <1>3, <1>4, <1>5 DEF StoreInv, Typed
<1>7. Fitting'
  BY <1>1, <1>2, <1>3, VerdictsAre DEF StoreInv, Fitting
<1>8. Driving'
  BY <1>1, <1>2, <1>3, <1>5 DEF StoreInv, Driving, DriverMatchesRow
<1> QED
  BY <1>1, <1>3, <1>5, <1>6, <1>7, <1>8
  DEF StoreInv, InProcess, Migrating, SchemaBehindLedger, Removing, Opening, Drafted, OpensAgain,
      NoOrphanRows

LEMMA SetNativeProviderKeeps ==
    ASSUME StoreInv, NEW profile \in ProfileNames, SetNativeProvider(profile)
    PROVE  StoreInv'
<1> DEFINE sid == driver.id
<1>t. Typed
  BY DEF StoreInv
<1>1. /\ opener = None /\ process.at = "ready" /\ driver # None /\ driver \in Drivers
      /\ sid \in DOMAIN sessions /\ sid \in Ids
  BY DriverIn DEF SetNativeProvider
<1>2. /\ driver' \in Drivers /\ driver'.id = sid /\ driver'.profile = profile
      /\ driver'.restored = FALSE /\ driver'.next = driver.next
  BY <1>1 DEF SetNativeProvider, Drivers, Chosen
<1>3. PICK level \in BOOLEAN :
         /\ TRUE \in Verdicts(profile, level) /\ recent' = Touched(sid)
         /\ sessions' = [sessions EXCEPT ![sid].profile = profile, ![sid].effort = level]
  BY DEF SetNativeProvider, Carried
<1>4. /\ DOMAIN sessions' = DOMAIN sessions /\ sessions'[sid].profile = profile
      /\ sessions'[sid].effort = level
      /\ sessions' \in [DOMAIN sessions -> Row]
      /\ \A i \in DOMAIN sessions \ {sid} : sessions'[i] = sessions[i]
  <2>1. sessions[sid] \in Row
    BY <1>t, <1>1 DEF Typed
  <2>2. sessions' = [sessions EXCEPT ![sid] = [sessions[sid] EXCEPT !.profile = profile, !.effort = level]]
    BY <1>3
  <2>3. [sessions[sid] EXCEPT !.profile = profile, !.effort = level] \in Row
    BY <2>1 DEF Row
  <2> QED
    BY <1>1, <1>t, <2>1, <2>2, <2>3 DEF Typed, Row
<1>9. Fitting'
  BY <1>1, <1>3, <1>4, VerdictsAre DEF StoreInv, Fitting
<1>5. recent' \in Seq(Ids) /\ IsInjective(recent') /\ ToSet(recent') = DOMAIN sessions
  BY <1>t, <1>1, <1>3, TouchedIs
<1>6. /\ opener' = None /\ outcome' = None
      /\ UNCHANGED <<schema, events, conts, process, troubles>>
  BY <1>1 DEF SetNativeProvider
<1>7. Typed'
  BY <1>2, <1>4, <1>5, <1>6 DEF StoreInv, Typed
<1>8. Driving'
  BY <1>1, <1>2, <1>4, <1>6 DEF StoreInv, Driving, DriverMatchesRow
<1> QED
  BY <1>1, <1>4, <1>6, <1>7, <1>8, <1>9
  DEF StoreInv, InProcess, Migrating, SchemaBehindLedger, Removing, Opening, Drafted, OpensAgain,
      NoOrphanRows

-----------------------------------------------------------------------------

LEMMA StoreNext == StoreInv /\ [Next]_vars => StoreInv'
<1> SUFFICES ASSUME StoreInv, [Next]_vars
             PROVE  StoreInv'
  OBVIOUS
<1>1. CASE \E workspace \in Workspaces, config \in Configs : Start(workspace, config)
  BY <1>1, StartKeeps
<1>2. CASE Migrate \/ Commit \/ Rollback \/ Exit \/ Crash \/ RemoveFails
  BY <1>2, MigrateKeeps, CommitKeeps, RollbackKeeps, EndKeeps
<1>3. CASE \E name \in Names \cup Ids, new \in Names : Rename(name, new)
  BY <1>3, RenameKeeps
<1>4. CASE RemoveStep \/ \E name \in Names \cup Ids : StartRemove(name)
  BY <1>4, StartRemoveKeeps, RemoveStepKeeps
<1>5. CASE \E name \in Names \cup {None}, agent \in Agents \cup {None} : OpenNamed(name, agent)
  BY <1>5, OpenNamedKeeps DEF Of
<1>6. CASE \E name \in Names \cup {None}, wish \in Wishes : OpenDraft(name, wish)
  BY <1>6, OpenDraftKeeps
<1>7. CASE \E sid \in Ids : ResumeById(sid)
  BY <1>7, ResumeByIdKeeps
<1>8. CASE FindSession \/ ValidateDraft \/ FindAgain \/ Resolve \/ Create
  BY <1>8, FindSessionKeeps, ValidateDraftKeeps, FindAgainKeeps, ResolveKeeps, CreateKeeps
<1>9. CASE Attach \/ SetDraftEffort \/ TellEffort \/ OpenFails \/ Abandon
  BY <1>9, AttachKeeps, SetDraftEffortKeeps, TellEffortKeeps, OpenFailsKeeps, AbandonKeeps
<1>10. CASE AppendEvent \/ Stamp \/ SaveContinuation
  BY <1>10, AppendEventKeeps, StampKeeps, SaveContinuationKeeps
<1>11. CASE \/ \E profile \in ProfileNames : SetNativeProvider(profile)
            \/ \E level \in BOOLEAN : SetEffort(level)
  BY <1>11, SetNativeProviderKeeps, SetEffortKeeps
<1>12. CASE UNCHANGED vars
  BY <1>12
  DEF vars, StoreInv, Typed, InProcess, Migrating, SchemaBehindLedger, Removing,
      Opening, Drafted, Fitting, Driving,
      DriverMatchesRow, NoOrphanRows, OpensAgain, Here
<1> QED
  BY <1>1, <1>2, <1>3, <1>4, <1>5, <1>6, <1>7, <1>8, <1>9, <1>10, <1>11, <1>12 DEF Next

LEMMA StoreInvKept == Spec => []StoreInv
BY StoreInit, StoreNext, PTL DEF Spec

(* Whatever the migrations, the sessions and the users' requests, and wherever  *)
(* a process dies or a statement fails: no row outlives its session, the ledger *)
(* is never ahead of the schema, a driver agrees with its row, and a session    *)
(* the user asks nothing else of opens again unless the store fails or the list *)
(* of models does not give its stored effort (session_store.rs, control.rs).    *)
THEOREM SessionsAreKept == Spec => []SessionsKept
<1>1. StoreInv => SessionsKept
  <2> SUFFICES ASSUME StoreInv
               PROVE  SessionsKept
    OBVIOUS
  <2>1. TypeOK
    <3>1. process.at \in {"off", "starting", "migrating", "failed", "ready", "removing"}
      BY DEF StoreInv, Typed, Processes
    <3>2. conts \in [Ids -> {Protocol[p] : p \in ProfileNames} \cup {None}]
      BY DEF StoreInv, Typed, Owners
    <3> QED
      BY <3>1, <3>2 DEF StoreInv, Typed, Driving, TypeOK
  <2> QED
    BY <2>1 DEF StoreInv, Migrating, Driving, SessionsKept
<1> QED
  BY <1>1, StoreInvKept, PTL

-----------------------------------------------------------------------------
(* The components that share the pool: a step of one leaves it the part it is. *)

LEMMA PartStep ==
    ASSUME [PartsNext]_<<part, sseVars, vars, pool>>
    PROVE  /\ part' = part
           /\ part = "slots" => Slots!Next \/ UNCHANGED pool
           /\ part = "http" => Http!Next \/ UNCHANGED pool
           /\ part = "changes" => Files!Next \/ UNCHANGED pool
           /\ part = "startup" => Boot!Next \/ UNCHANGED pool
           /\ part = "tickets" => Tkt!Next \/ UNCHANGED pool
           /\ part = "choice" => Choice!Next \/ UNCHANGED pool
  BY DEF PartsNext, pool

-----------------------------------------------------------------------------
(* NativeSlots (v2 is the agent in the slot, v3 the handle, v6 the approvals, v7 *)
(* the turns, v8 the tokens, v9 the streams, v10 the agents built, v11 overlap, *)
(* v12 and v13 the requests answered and orphaned).                            *)

Turned == [pc : {"none", "opening", "ready", "spawned", "running", "asking", "returning", "done",
                 "refused"},
           agent : Turns \cup {0}, asks : 0..MaxAsks,
           end : {"none", "completed", "cancelled", "failed"}]

\* Agents are named after turns that built them, and no turn holds another's.
Lent ==
    /\ \A t \in Turns :
         /\ v7[t].pc \in {"none", "opening", "refused"} => v7[t].agent = 0
         /\ v7[t].pc \in {"ready", "spawned", "running", "asking", "returning", "done"} =>
              v7[t].agent # 0
         /\ v7[t].agent \in v10 \cup {0}
         /\ v7[t].pc \in {"none", "opening", "refused"} => t \notin v10
         /\ Slots!Active(t) /\ v7[t].agent # 0 =>
              /\ v2 # v7[t].agent
              /\ \A u \in Turns \ {t} : Slots!Active(u) => v7[u].agent # v7[t].agent
    /\ v2 \in v10 \cup {0}

\* The stream of a turn is open from its publication and closes after its end.
Streamed ==
    \A t \in Turns :
       /\ v7[t].pc \in {"none", "opening", "ready", "refused"} => v9[t] = "none"
       /\ v9[t] = "closed" => v7[t].pc = "done"

\* A client that waits for the end of each stream.
OneByOne ==
    /\ v13 = {}
    /\ \A t, u \in Turns : ~Slots!Drained(t) /\ ~Slots!Drained(u) => t = u
    /\ \A t \in Turns :
         /\ Slots!Active(t) => v2 = 0
         /\ v7[t].pc = "opening" => v10 = {}
         /\ Slots!Active(t) /\ v7[t].pc # "opening" => v10 = {v7[t].agent}
         /\ v7[t].pc \in {"spawned", "running", "asking", "returning"} => v3 = v7[t].agent
         /\ v7[t].pc = "asking" => Slots!Request(t) \in v6 \cup v12
    /\ (\A t \in Turns : ~Slots!Active(t)) => v10 = {v2} \ {0}

\* What a turn that asks has asked, and how one that returns ended.
AsksReal ==
    \A t \in Turns :
       /\ v7[t].pc = "asking" => v7[t].asks \in 1 .. MaxAsks
       /\ v7[t].pc = "returning" => v7[t].end \in {"completed", "cancelled", "failed"}

SlotsInv == Slots!TypeOK /\ AsksReal /\ Lent /\ Streamed /\ (~v11 => OneByOne)

LEMMA SlotsInit == Slots!Init => SlotsInv
<1> SUFFICES ASSUME Slots!Init PROVE SlotsInv
  OBVIOUS
<1>1. Slots!TypeOK
  <2>1. v7 \in [Turns -> Turned]
    BY TurnsAssumption DEF Slots!Init, Turned
  <2> QED
    BY <2>1 DEF Slots!Init, Slots!TypeOK, Slots!States, Turned
<1>5. AsksReal
  BY DEF Slots!Init, AsksReal
<1>2. Lent
  BY DEF Slots!Init, Lent, Slots!Active
<1>3. Streamed
  BY DEF Slots!Init, Streamed
<1>4. OneByOne
  BY DEF Slots!Init, OneByOne, Slots!Active, Slots!Drained
<1> QED
  BY <1>1, <1>2, <1>3, <1>4, <1>5 DEF SlotsInv

LEMMA SlotTypes ==
    ASSUME SlotsInv
    PROVE  /\ v7 \in [Turns -> Turned] /\ \A t \in Turns : v7[t] \in Turned
           /\ v2 \in Turns \cup {0} /\ Turns \cup {0} \subseteq Nat /\ 0 \notin Turns
           /\ \A t \in Turns : v7[t].agent \in Turns \cup {0}
  BY TurnsAssumption DEF SlotsInv, Slots!TypeOK, Turned

LEMMA RunKeeps ==
    ASSUME SlotsInv, NEW t \in Turns, Slots!Run(t), v5' \in BOOLEAN
    PROVE  SlotsInv'
<1> USE DEF SlotsInv
<1>1. Slots!TypeOK'
  <2>1. v7' \in [Turns -> Turned]
    <3> DEFINE pc == IF v2 = 0 THEN "opening" ELSE "ready"
    <3>1. v7' = [v7 EXCEPT ![t].pc = pc, ![t].agent = v2] /\ pc \in {"opening", "ready"}
      BY DEF Slots!Run
    <3> HIDE DEF pc
    <3> QED
      BY <3>1, SlotTypes DEF Turned
  <2> QED
    BY <2>1, TurnsAssumption DEF Slots!TypeOK, Slots!Run, Turned
<1>2. /\ v7[t].pc = "none" /\ v2' = 0 /\ v10' = v10 /\ v9' = v9 /\ v3' = v3
      /\ v11' = (v11 \/ \E u \in Turns : ~Slots!Drained(u))
      /\ UNCHANGED <<v6, v12, v13>>
  BY DEF Slots!Run
<1>3. /\ \A u \in Turns \ {t} : v7'[u] = v7[u]
      /\ v7'[t].pc = (IF v2 = 0 THEN "opening" ELSE "ready") /\ v7'[t].agent = v2
  <2> DEFINE pc == IF v2 = 0 THEN "opening" ELSE "ready"
  <2>1. v7' = [v7 EXCEPT ![t].pc = pc, ![t].agent = v2]
    BY DEF Slots!Run
  <2> HIDE DEF pc
  <2>2. v7'[t].pc = pc /\ v7'[t].agent = v2 /\ \A u \in Turns \ {t} : v7'[u] = v7[u]
    BY <2>1, SlotTypes DEF Turned
  <2> QED
    BY <2>2 DEF pc
<1>5. Lent'
  BY <1>2, <1>3, SlotTypes DEF Lent, Slots!Active
<1>6. Streamed'
  BY <1>2, <1>3 DEF Streamed
<1>7. ASSUME ~v11' PROVE OneByOne'
  <2>1. ~v11 /\ \A u \in Turns : Slots!Drained(u)
    BY <1>2, <1>7
  <2>2. \A u \in Turns : ~Slots!Active(u)
    BY <2>1 DEF Streamed, Slots!Drained, Slots!Active
  <2>3. \A u \in Turns \ {t} : Slots!Drained(u)' /\ ~Slots!Active(u)'
    BY <1>2, <1>3, <2>1, <2>2 DEF Slots!Drained, Slots!Active
  <2>4. v10 = {v2} \ {0} /\ v13 = {}
    BY <2>1, <2>2 DEF OneByOne
  <2> QED
    BY <1>2, <1>3, <2>3, <2>4 DEF OneByOne, Slots!Active
<1>a. AsksReal'
  BY <1>2, <1>3 DEF AsksReal
<1> QED
  BY <1>a, <1>1, <1>5, <1>6, <1>7

(* A step of the turn t alone. *)
LEMMA TurnMoves ==
    ASSUME SlotsInv, NEW t \in Turns,
           NEW p \in {"none", "opening", "ready", "spawned", "running", "asking", "returning",
                      "done", "refused"},
           v7' = [v7 EXCEPT ![t].pc = p]
    PROVE  /\ v7' \in [Turns -> Turned]
           /\ v7'[t].pc = p /\ v7'[t].agent = v7[t].agent /\ v7'[t].asks = v7[t].asks
           /\ \A u \in Turns \ {t} : v7'[u] = v7[u]
  BY SlotTypes DEF Turned

LEMMA BuildKeeps ==
    ASSUME SlotsInv, NEW t \in Turns, Slots!Build(t)
    PROVE  SlotsInv'
<1> USE DEF SlotsInv, Slots!slotVars
<1>1. /\ v7[t].pc = "opening" /\ v10' = v10 \cup {t}
      /\ UNCHANGED <<v1, v2, v3, v4, v5, v6, v8, v9, v11, v12, v13>>
  BY DEF Slots!Build
<1>2. /\ v7' \in [Turns -> Turned]
      /\ v7'[t].pc = "ready" /\ v7'[t].agent = t
      /\ \A u \in Turns \ {t} : v7'[u] = v7[u]
  BY SlotTypes DEF Slots!Build, Turned
<1>3. Slots!TypeOK'
  BY <1>1, <1>2 DEF Slots!TypeOK, Turned
<1>4. Lent'
  BY <1>1, <1>2, SlotTypes DEF Lent, Slots!Active
<1>5. Streamed'
  BY <1>1, <1>2 DEF Streamed
<1>6. ASSUME ~v11' PROVE OneByOne'
  <2>1. OneByOne
    BY <1>1, <1>6
  <2>2. \A u \in Turns : Slots!Drained(u)' <=> Slots!Drained(u)
    BY <1>1, <1>2 DEF Slots!Drained
  <2>3. Slots!Active(t) /\ Slots!Active(t)' /\ ~Slots!Drained(t)
    BY <1>1, <1>2 DEF Slots!Active, Slots!Drained, Streamed
  <2>4. \A u \in Turns \ {t} : Slots!Drained(u) /\ ~Slots!Active(u) /\ ~Slots!Active(u)'
    BY <1>2, <2>1, <2>3 DEF OneByOne, Slots!Active, Slots!Drained, Streamed
  <2> QED
    BY <1>1, <1>2, <2>1, <2>2, <2>3, <2>4 DEF OneByOne, Slots!Active, Slots!Drained
<1>a. AsksReal'
  BY <1>1, <1>2 DEF AsksReal
<1> QED
  BY <1>a, <1>3, <1>4, <1>5, <1>6

LEMMA BuildFailsKeeps ==
    ASSUME SlotsInv, NEW t \in Turns, Slots!BuildFails(t)
    PROVE  SlotsInv'
<1> USE DEF SlotsInv, Slots!slotVars, Slots!history
<1>1. /\ v7[t].pc = "opening"
      /\ UNCHANGED <<v1, v2, v3, v4, v5, v6, v8, v9, v10, v11, v12, v13>>
  BY DEF Slots!BuildFails
<1>2. /\ v7' \in [Turns -> Turned]
      /\ v7'[t].pc = "refused" /\ v7'[t].agent = v7[t].agent
      /\ \A u \in Turns \ {t} : v7'[u] = v7[u]
  BY TurnMoves DEF Slots!BuildFails, Slots!Goto
<1>3. Slots!TypeOK'
  BY <1>1, <1>2 DEF Slots!TypeOK, Turned
<1>4. Lent'
  BY <1>1, <1>2, SlotTypes DEF Lent, Slots!Active
<1>5. Streamed'
  BY <1>1, <1>2 DEF Streamed
<1>6. ASSUME ~v11' PROVE OneByOne'
  <2>1. OneByOne
    BY <1>1, <1>6
  <2>2. Slots!Active(t) /\ ~Slots!Active(t)' /\ ~Slots!Drained(t)
    BY <1>1, <1>2 DEF Slots!Active, Slots!Drained, Streamed
  <2>3. \A u \in Turns : Slots!Drained(u) => Slots!Drained(u)'
    BY <1>1, <1>2, <2>2 DEF Slots!Drained
  <2>4. \A u \in Turns \ {t} : ~Slots!Active(u)'
    BY <1>2, <2>1, <2>2 DEF OneByOne, Slots!Active, Slots!Drained, Streamed
  <2> QED
    BY <1>1, <1>2, <2>1, <2>2, <2>3, <2>4 DEF OneByOne, Slots!Active
<1>a. AsksReal'
  BY <1>1, <1>2 DEF AsksReal
<1> QED
  BY <1>a, <1>3, <1>4, <1>5, <1>6

LEMMA PublishKeeps ==
    ASSUME SlotsInv, NEW t \in Turns, Slots!Publish(t)
    PROVE  SlotsInv'
<1> USE DEF SlotsInv, Slots!history
<1>1. /\ v7[t].pc = "ready" /\ v1' = TRUE /\ v3' = v7[t].agent /\ v4' = "running"
      /\ v9' = [v9 EXCEPT ![t] = "open"]
      /\ UNCHANGED <<v2, v5, v6, v8, v10, v11, v12, v13>>
  BY DEF Slots!Publish
<1>2. /\ v7' \in [Turns -> Turned]
      /\ v7'[t].pc = "spawned" /\ v7'[t].agent = v7[t].agent
      /\ \A u \in Turns \ {t} : v7'[u] = v7[u]
  BY TurnMoves DEF Slots!Publish, Slots!Goto
<1>3. /\ v9' \in [Turns -> {"none", "open", "dropped", "closed"}]
      /\ v9'[t] = "open" /\ \A u \in Turns \ {t} : v9'[u] = v9[u]
  BY <1>1 DEF Slots!TypeOK
<1>4. Slots!TypeOK'
  BY <1>1, <1>2, <1>3, SlotTypes DEF Slots!TypeOK, Turned, Slots!States
<1>5. Lent'
  BY <1>1, <1>2, SlotTypes DEF Lent, Slots!Active
<1>6. Streamed'
  BY <1>2, <1>3 DEF Streamed
<1>7. ASSUME ~v11' PROVE OneByOne'
  <2>1. OneByOne
    BY <1>1, <1>7
  <2>2. Slots!Active(t) /\ Slots!Active(t)' /\ ~Slots!Drained(t)
    BY <1>1, <1>2 DEF Slots!Active, Slots!Drained, Streamed
  <2>3. \A u \in Turns \ {t} : Slots!Drained(u) /\ Slots!Drained(u)' /\ ~Slots!Active(u)'
    BY <1>2, <1>3, <2>1, <2>2 DEF OneByOne, Slots!Active, Slots!Drained, Streamed
  <2> QED
    BY <1>1, <1>2, <2>1, <2>2, <2>3 DEF OneByOne, Slots!Active
<1>a. AsksReal'
  BY <1>1, <1>2 DEF AsksReal
<1> QED
  BY <1>a, <1>4, <1>5, <1>6, <1>7

(* A step of the turn t from one place to another where it holds its agent. *)
LEMMA HolderKeeps ==
    ASSUME SlotsInv, NEW t \in Turns,
           v7[t].pc \in {"spawned", "running", "asking"},
           v7' \in [Turns -> Turned],
           v7'[t].pc \in {"running", "asking", "returning"}, v7'[t].agent = v7[t].agent,
           \A u \in Turns \ {t} : v7'[u] = v7[u],
           UNCHANGED <<v2, v3, v9, v10, v11>>
    PROVE  /\ Lent' /\ Streamed'
           /\ /\ ~v11' /\ v13' = {}
              /\ v7'[t].pc = "asking" => (Slots!Request(t) \in v6 \cup v12)'
              => OneByOne'
<1> USE DEF SlotsInv
<1>1. Lent'
  BY SlotTypes DEF Lent, Slots!Active
<1>2. Streamed'
  BY DEF Streamed
<1>3. ASSUME ~v11', v13' = {}, v7'[t].pc = "asking" => (Slots!Request(t) \in v6 \cup v12)'
      PROVE  OneByOne'
  <2>1. OneByOne
    BY <1>3
  <2>2. Slots!Active(t) /\ Slots!Active(t)' /\ ~Slots!Drained(t)
    BY DEF Slots!Active, Slots!Drained, Streamed
  <2>3. \A u \in Turns \ {t} : Slots!Drained(u) /\ Slots!Drained(u)' /\ ~Slots!Active(u)'
    BY <2>1, <2>2 DEF OneByOne, Slots!Active, Slots!Drained, Streamed
  <2> QED
    BY <1>3, <2>1, <2>2, <2>3 DEF OneByOne, Slots!Active
<1> QED
  BY <1>1, <1>2, <1>3

LEMMA BeginTurnKeeps ==
    ASSUME SlotsInv, NEW t \in Turns, Slots!BeginTurn(t)
    PROVE  SlotsInv'
<1> USE DEF SlotsInv, Slots!slotVars, Slots!history
<1>1. /\ v7[t].pc = "spawned" /\ v8' = v8 \ {v7[t].agent}
      /\ UNCHANGED <<v1, v2, v3, v4, v5, v6, v9, v10, v11, v12, v13>>
  BY DEF Slots!BeginTurn
<1>2. /\ v7' \in [Turns -> Turned]
      /\ v7'[t].pc = "running" /\ v7'[t].agent = v7[t].agent
      /\ \A u \in Turns \ {t} : v7'[u] = v7[u]
  BY TurnMoves DEF Slots!BeginTurn, Slots!Goto
<1>3. Slots!TypeOK'
  BY <1>1, <1>2 DEF Slots!TypeOK, Turned
<1>4. ~v11 => v13' = {}
  BY <1>1 DEF OneByOne
<1>a. AsksReal'
  BY <1>1, <1>2 DEF AsksReal
<1> QED
  BY <1>a, <1>1, <1>2, <1>3, <1>4, HolderKeeps

LEMMA AskKeeps ==
    ASSUME SlotsInv, NEW t \in Turns, Slots!Ask(t)
    PROVE  SlotsInv'
<1> USE DEF SlotsInv, Slots!history
<1>1. /\ v7[t].pc = "running" /\ v4' = "asking" /\ v7[t].asks < MaxAsks
      /\ v6' = v6 \cup {<<t, v7[t].asks + 1>>}
      /\ UNCHANGED <<v1, v2, v3, v5, v8, v9, v10, v11, v12, v13>>
  BY DEF Slots!Ask
<1>2. v7[t].asks + 1 \in 1 .. MaxAsks
  BY <1>1, TurnsAssumption, SlotTypes DEF Turned
<1>3. /\ v7' \in [Turns -> Turned]
      /\ v7'[t].pc = "asking" /\ v7'[t].agent = v7[t].agent /\ v7'[t].asks = v7[t].asks + 1
      /\ \A u \in Turns \ {t} : v7'[u] = v7[u]
  <2> DEFINE n == v7[t].asks + 1
  <2>1. n \in 0 .. MaxAsks
    BY <1>2
  <2>2. v7' = [v7 EXCEPT ![t].pc = "asking", ![t].asks = n]
    BY SlotTypes DEF Slots!Ask
  <2> HIDE DEF n
  <2>3. /\ v7' \in [Turns -> Turned]
        /\ v7'[t].pc = "asking" /\ v7'[t].agent = v7[t].agent /\ v7'[t].asks = n
        /\ \A u \in Turns \ {t} : v7'[u] = v7[u]
    BY <2>1, <2>2, SlotTypes DEF Turned
  <2> QED
    BY <2>3 DEF n
<1>4. Slots!TypeOK'
  BY <1>1, <1>2, <1>3 DEF Slots!TypeOK, Turned, Slots!States
<1>5. (Slots!Request(t) \in v6 \cup v12)'
  BY <1>1, <1>3 DEF Slots!Request
<1>6. ~v11 => v13' = {}
  BY <1>1 DEF OneByOne
<1>a. AsksReal'
  BY <1>2, <1>3 DEF AsksReal
<1> QED
  BY <1>a, <1>1, <1>3, <1>4, <1>5, <1>6, HolderKeeps

LEMMA DecidedKeeps ==
    ASSUME SlotsInv, NEW t \in Turns, Slots!Decided(t)
    PROVE  SlotsInv'
<1> USE DEF SlotsInv, Slots!slotVars
<1>1. /\ v7[t].pc = "asking"
      /\ UNCHANGED <<v1, v2, v3, v4, v5, v6, v8, v9, v10, v11, v12>>
      /\ \/ v13' = v13
         \/ Slots!Request(t) \notin v6 \cup v12 /\ v13' = v13 \cup {Slots!Request(t)}
  BY DEF Slots!Decided
<1>2. /\ v7' \in [Turns -> Turned]
      /\ v7'[t].pc = "running" /\ v7'[t].agent = v7[t].agent
      /\ \A u \in Turns \ {t} : v7'[u] = v7[u]
  BY TurnMoves DEF Slots!Decided, Slots!Goto
<1>3. v7[t].asks \in 1 .. MaxAsks
  BY <1>1 DEF AsksReal
<1>4. Slots!TypeOK'
  BY <1>1, <1>2, <1>3 DEF Slots!TypeOK, Turned, Slots!Request
<1>5. ~v11 => v13' = {}
  BY <1>1 DEF OneByOne
<1>a. AsksReal'
  BY <1>1, <1>2 DEF AsksReal
<1> QED
  BY <1>a, <1>1, <1>2, <1>4, <1>5, HolderKeeps

LEMMA TurnEndsKeeps ==
    ASSUME SlotsInv, NEW t \in Turns, Slots!TurnEnds(t)
    PROVE  SlotsInv'
<1> USE DEF SlotsInv, Slots!slotVars, Slots!history
<1>1. /\ v7[t].pc = "running"
      /\ UNCHANGED <<v1, v2, v3, v4, v5, v6, v8, v9, v10, v11, v12, v13>>
  BY DEF Slots!TurnEnds
<1>2. PICK end \in {"completed", "cancelled", "failed"} :
        v7' = [v7 EXCEPT ![t].pc = "returning", ![t].end = end]
  BY DEF Slots!TurnEnds
<1>3. /\ v7' \in [Turns -> Turned]
      /\ v7'[t].pc = "returning" /\ v7'[t].agent = v7[t].agent
      /\ v7'[t].end \in {"completed", "cancelled", "failed"}
      /\ \A u \in Turns \ {t} : v7'[u] = v7[u]
  BY <1>2, SlotTypes DEF Turned
<1>4. Slots!TypeOK'
  BY <1>1, <1>3 DEF Slots!TypeOK, Turned
<1>5. ~v11 => v13' = {}
  BY <1>1 DEF OneByOne
<1>a. AsksReal'
  BY <1>3 DEF AsksReal
<1> QED
  BY <1>a, <1>1, <1>3, <1>4, <1>5, HolderKeeps

LEMMA GiveBackKeeps ==
    ASSUME SlotsInv, NEW t \in Turns, Slots!GiveBack(t)
    PROVE  SlotsInv'
<1> USE DEF SlotsInv, Slots!history
<1>1. /\ v7[t].pc = "returning" /\ v2' = v7[t].agent /\ v3' = 0 /\ v4' = v7[t].end /\ v6' = {}
      /\ UNCHANGED <<v1, v5, v8, v9, v10, v11, v12, v13>>
  BY DEF Slots!GiveBack
<1>2. /\ v7' \in [Turns -> Turned]
      /\ v7'[t].pc = "done" /\ v7'[t].agent = v7[t].agent
      /\ \A u \in Turns \ {t} : v7'[u] = v7[u]
  BY TurnMoves DEF Slots!GiveBack, Slots!Goto
<1>3. v7[t].end \in Slots!States
  BY <1>1 DEF AsksReal, Slots!States
<1>4. Slots!TypeOK'
  BY <1>1, <1>2, <1>3, SlotTypes DEF Slots!TypeOK, Turned
<1>5. Lent'
  BY <1>1, <1>2, SlotTypes DEF Lent, Slots!Active
<1>6. Streamed'
  BY <1>1, <1>2 DEF Streamed
<1>7. ASSUME ~v11' PROVE OneByOne'
  <2>1. OneByOne
    BY <1>1, <1>7
  <2>2. Slots!Active(t) /\ ~Slots!Active(t)' /\ ~Slots!Drained(t)
    BY <1>1, <1>2 DEF Slots!Active, Slots!Drained, Streamed
  <2>3. \A u \in Turns \ {t} : Slots!Drained(u)' /\ ~Slots!Active(u)'
    BY <1>1, <1>2, <2>1, <2>2 DEF OneByOne, Slots!Active, Slots!Drained, Streamed
  <2>4. v10' = {v2'} /\ v2' # 0
    BY <1>1, <2>1, <2>2 DEF OneByOne, Lent
  <2> QED
    BY <1>1, <1>2, <2>1, <2>2, <2>3, <2>4 DEF OneByOne, Slots!Active
<1>a. AsksReal'
  BY <1>1, <1>2 DEF AsksReal
<1> QED
  BY <1>a, <1>4, <1>5, <1>6, <1>7

(* A stream alone moves: it closes when its turn is done, or is dropped. *)
LEMMA StreamKeeps ==
    ASSUME SlotsInv, NEW t \in Turns, v9[t] = "open",
           NEW s \in {"dropped", "closed"}, s = "closed" => v7[t].pc = "done",
           v9' = [v9 EXCEPT ![t] = s],
           UNCHANGED <<v1, v2, v3, v4, v5, v6, v7, v8, v10, v11, v12, v13>>
    PROVE  SlotsInv'
<1> USE DEF SlotsInv
<1>1. /\ v9' \in [Turns -> {"none", "open", "dropped", "closed"}]
      /\ v9'[t] = s /\ \A u \in Turns \ {t} : v9'[u] = v9[u]
  BY DEF Slots!TypeOK
<1>2. Slots!TypeOK'
  BY <1>1 DEF Slots!TypeOK
<1>3. AsksReal' /\ Lent'
  BY DEF AsksReal, Lent, Slots!Active
<1>4. Streamed'
  BY <1>1 DEF Streamed
<1>5. ASSUME ~v11' PROVE OneByOne'
  <2>1. OneByOne
    BY <1>5
  <2>2. \A u \in Turns : /\ Slots!Drained(u) => Slots!Drained(u)'
                         /\ Slots!Active(u)' <=> Slots!Active(u)
                         /\ Slots!Request(u)' = Slots!Request(u)
    BY <1>1 DEF Slots!Drained, Slots!Active, Slots!Request
  <2> QED
    BY <2>1, <2>2 DEF OneByOne
<1> QED
  BY <1>2, <1>3, <1>4, <1>5

(* The calls of other tasks move neither a turn nor a stream. *)
LEMMA CallKeeps ==
    ASSUME SlotsInv, UNCHANGED <<v2, v3, v7, v9, v10, v11, v13>>,
           v6 \cup v12 \subseteq v6' \cup v12', Slots!TypeOK'
    PROVE  SlotsInv'
<1> USE DEF SlotsInv
<1>1. AsksReal' /\ Lent' /\ Streamed'
  BY DEF AsksReal, Lent, Streamed, Slots!Active
<1>2. ASSUME ~v11' PROVE OneByOne'
  <2>1. OneByOne
    BY <1>2
  <2>2. \A u \in Turns : /\ Slots!Drained(u)' <=> Slots!Drained(u)
                         /\ Slots!Active(u)' <=> Slots!Active(u)
                         /\ Slots!Request(u)' = Slots!Request(u)
    BY DEF Slots!Drained, Slots!Active, Slots!Request
  <2> QED
    BY <2>1, <2>2 DEF OneByOne
<1> QED
  BY <1>1, <1>2

LEMMA AnswerKeeps ==
    ASSUME SlotsInv, NEW t \in Turns, NEW n \in 1 .. v7[t].asks, Slots!Answer(<<t, n>>)
    PROVE  SlotsInv'
<1>1. /\ v4' = "running" /\ v6' = v6 \ {<<t, n>>}
      /\ v12' = IF <<t, n>> \in v6 THEN v12 \cup {<<t, n>>} ELSE v12
      /\ UNCHANGED <<v1, v2, v3, v5, v7, v8, v9, v10, v11, v13>>
  BY DEF Slots!Answer
<1>2. <<t, n>> \in Turns \X (1 .. MaxAsks)
  BY TurnsAssumption, SlotTypes DEF Turned
<1>3. Slots!TypeOK'
  BY <1>1, <1>2 DEF SlotsInv, Slots!TypeOK, Slots!States
<1> QED
  BY <1>1, <1>3, CallKeeps

LEMMA SendInputKeeps ==
    ASSUME SlotsInv, Slots!SendInput
    PROVE  SlotsInv'
<1>1. Slots!TypeOK'
  BY DEF SlotsInv, Slots!TypeOK, Slots!SendInput, Slots!States, Slots!history
<1> QED
  BY <1>1, CallKeeps DEF Slots!SendInput, Slots!history

LEMMA CancelKeeps ==
    ASSUME SlotsInv, Slots!Cancel
    PROVE  SlotsInv'
<1>1. Slots!TypeOK'
  BY DEF SlotsInv, Slots!TypeOK, Slots!Cancel, Slots!slotVars, Slots!history
<1> QED
  BY <1>1, CallKeeps DEF Slots!Cancel, Slots!slotVars, Slots!history

LEMMA SlotsNext ==
    ASSUME SlotsInv, Slots!Next \/ UNCHANGED pool
    PROVE  SlotsInv'
<1>1. CASE UNCHANGED pool
  <2>1. UNCHANGED <<v1, v2, v3, v4, v5, v6, v7, v8, v9, v10, v11, v12, v13>>
    BY <1>1 DEF pool
  <2>2. Slots!TypeOK'
    BY <2>1 DEF SlotsInv, Slots!TypeOK
  <2> QED
    BY <2>1, <2>2, CallKeeps
<1>2. CASE Slots!Next
  <2>1. ASSUME NEW t \in Turns, Slots!Start(t) \/ Slots!Resume(t) PROVE SlotsInv'
    BY <2>1, RunKeeps DEF Slots!Start, Slots!Resume, SlotsInv, Slots!TypeOK
  <2>2. ASSUME NEW t \in Turns, Slots!Drop(t) \/ Slots!Abandon(t) PROVE SlotsInv'
    <3>1. v9[t] = "open" /\ UNCHANGED <<v1, v2, v3, v4, v5, v6, v7, v8, v10, v11, v12, v13>>
      BY <2>2 DEF Slots!Drop, Slots!Abandon, Slots!slotVars, Slots!history
    <3>2. \/ v7[t].pc = "done" /\ v9' = [v9 EXCEPT ![t] = "closed"]
          \/ v9' = [v9 EXCEPT ![t] = "dropped"]
      BY <2>2, <3>1 DEF Slots!Drop, Slots!Abandon, Slots!Closed
    <3> QED
      BY <3>1, <3>2, StreamKeeps
  <2>3. ASSUME NEW t \in Turns,
               \/ Slots!Build(t) \/ Slots!BuildFails(t) \/ Slots!Publish(t)
               \/ Slots!BeginTurn(t) \/ Slots!Ask(t) \/ Slots!Decided(t)
               \/ Slots!TurnEnds(t) \/ Slots!GiveBack(t)
        PROVE  SlotsInv'
    BY <2>3, BuildKeeps, BuildFailsKeeps, PublishKeeps, BeginTurnKeeps, AskKeeps, DecidedKeeps,
       TurnEndsKeeps, GiveBackKeeps
  <2> QED
    BY <1>2, <2>1, <2>2, <2>3, AnswerKeeps, SendInputKeeps, CancelKeeps DEF Slots!Next
<1> QED
  BY <1>1, <1>2

(* Whoever calls on the native agent, no agent is in two hands.  A client that *)
(* reads every stream to its end before it calls again makes one agent, and    *)
(* gets it back each time; its handle cancels the turn that runs, and none of  *)
(* its requests is swept away unanswered (native_connector.rs).                *)
THEOREM AgentsAreLentOnce == PartsSpec => []OneAgentOneTurn
<1> DEFINE Inv == part = "slots" => SlotsInv
<1>1. PartsInit => Inv
  BY SlotsInit DEF PartsInit
<1>2. Inv /\ [PartsNext]_<<part, sseVars, vars, pool>> => Inv'
  BY PartStep, SlotsNext
<1>3. Inv => OneAgentOneTurn
  <2> SUFFICES ASSUME part = "slots", SlotsInv PROVE Slots!OneAgentOneTurn
    BY DEF OneAgentOneTurn
  <2>1. ASSUME ~v11, NEW t \in Turns, v7[t].pc \in {"running", "asking"} PROVE v3 = v7[t].agent
    BY <2>1 DEF SlotsInv, OneByOne
  <2>2. ASSUME ~v11, NEW a \in v10, NEW b \in v10 PROVE a = b
    <3>1. \/ \E t \in Turns : Slots!Active(t) /\ v7[t].pc # "opening"
          \/ \E t \in Turns : v7[t].pc = "opening"
          \/ \A t \in Turns : ~Slots!Active(t)
      OBVIOUS
    <3> QED
      BY <2>2, <3>1 DEF SlotsInv, OneByOne
  <2>3. ~v11 => v13 = {}
    BY DEF SlotsInv, OneByOne
  <2> QED
    BY <2>1, <2>2, <2>3 DEF SlotsInv, Lent, Slots!OneAgentOneTurn
<1> HIDE DEF Inv
<1> QED
  BY <1>1, <1>2, <1>3, PTL DEF PartsSpec

-----------------------------------------------------------------------------
(* McpHttp (v1 is the loop, v2 its commands, v3 the tasks, v4 the handles held, *)
(* v5 the tasks told to stop, v6 the questions asked, v7 the POSTs of Gritt's   *)
(* own, v8 the handles of those, v9 the handshake, v10 the session, v11 the     *)
(* requests given up).                                                         *)

HttpTyped ==
    /\ v1 \in Http!Stages /\ v3 \in [Posts -> Http!TaskStates]
    /\ v4 \subseteq Posts /\ v5 \subseteq Posts /\ v6 \subseteq Posts
    /\ v8 \subseteq Posts \X {"answer", "notice"}
    /\ \A a \in DOMAIN v7 : v7[a] \in {"waiting", "posted"}
    /\ v9 \in {"unsent", "sending", "accepted", "refused"}
    /\ v10 \in {"none", "live", "released"}

\* An abort and a notice are sent for a request that was given up.
Sent(c, gone) == \/ c.kind = "notify"
                 \/ c.kind = "request" /\ c.request \in Posts
                 \/ c.kind \in {"abort", "notice"} /\ c.request \in Posts \cap gone

HttpCommands == [kind : {"notify", "request", "abort", "notice"}, request : Posts \cup {0}]

Commanded == /\ v2 \in Seq(HttpCommands)
             /\ \A i \in DOMAIN v2 : Sent(v2[i], v11)

\* Every POST of Gritt's own has its handle held, and they are not too many.
Counted == DOMAIN v7 \subseteq v8 /\ IsFiniteSet(DOMAIN v7) /\ Cardinality(DOMAIN v7) <= AuxPermits

\* A request that runs has its handle held, or was given up; the loop ends no
\* sooner than the tasks whose handles it holds.
HandlesHeld ==
    /\ \A r \in Posts : Http!Alive(r) => r \in v4 \cup v11
    /\ v1 \in {"draining", "ending", "finished"} => \A r \in v4 : ~Http!Alive(r)
    /\ v1 \in {"ending", "finished"} => \A a \in DOMAIN v7 : a[1] \in v11 /\ a[2] = "answer"

HttpInv == HttpTyped /\ Commanded /\ Counted /\ HandlesHeld

LEMMA HttpCounts == ASSUME NEW S PROVE Http!Cardinality(S) = Cardinality(S)
BY DEF Http!Cardinality, Cardinality

LEMMA HttpInit == Http!Init => HttpInv
<1> SUFFICES ASSUME Http!Init PROVE HttpInv
  OBVIOUS
<1>1. DOMAIN v7 = {}
  BY DEF Http!Init
<1>2. HttpTyped
  BY <1>1 DEF Http!Init, HttpTyped, Http!Stages, Http!TaskStates
<1>3. Counted
  BY <1>1, FS_EmptySet, PermitsAssumption DEF Counted
<1>4. Commanded /\ HandlesHeld
  BY <1>1 DEF Http!Init, Commanded, HandlesHeld, Http!Alive
<1> QED
  BY <1>2, <1>3, <1>4 DEF HttpInv

(* A POST is admitted, or dropped. *)
LEMMA SpawnIs ==
    ASSUME HttpInv, NEW a, Http!Spawn(a)
    PROVE  /\ DOMAIN v7' \subseteq DOMAIN v7 \cup {a} /\ DOMAIN v7 \subseteq DOMAIN v7'
           /\ \A b \in DOMAIN v7' : v7'[b] \in {"waiting", "posted"}
           /\ v8' \subseteq v8 \cup {a}
           /\ Counted'
<1> DEFINE unfinished == v8 \cap DOMAIN v7
<1>1. unfinished = DOMAIN v7
  BY DEF HttpInv, Counted
<1>2. CASE Http!Cardinality(unfinished) < AuxPermits
  <2>1. /\ v7' = [b \in DOMAIN v7 \cup {a} |-> IF b = a THEN "waiting" ELSE v7[b]]
        /\ v8' = DOMAIN v7 \cup {a}
    BY <1>1, <1>2 DEF Http!Spawn
  <2>2. DOMAIN v7' = DOMAIN v7 \cup {a} /\ Cardinality(DOMAIN v7) < AuxPermits
    BY <1>1, <1>2, <2>1, HttpCounts
  <2>3. /\ IsFiniteSet(DOMAIN v7 \cup {a}) /\ Cardinality(DOMAIN v7) \in Nat
        /\ \/ Cardinality(DOMAIN v7 \cup {a}) = Cardinality(DOMAIN v7)
           \/ Cardinality(DOMAIN v7 \cup {a}) = Cardinality(DOMAIN v7) + 1
    BY FS_AddElement, FS_CardinalityType DEF HttpInv, Counted
  <2>4. IsFiniteSet(DOMAIN v7') /\ Cardinality(DOMAIN v7') <= AuxPermits
    BY <2>2, <2>3, PermitsAssumption
  <2> QED
    BY <2>1, <2>2, <2>4 DEF HttpInv, HttpTyped, Counted
<1>3. CASE ~(Http!Cardinality(unfinished) < AuxPermits)
  <2>1. v7' = v7 /\ v8' = DOMAIN v7
    BY <1>1, <1>3 DEF Http!Spawn
  <2> QED
    BY <2>1 DEF HttpInv, HttpTyped, Counted
<1> QED
  BY <1>2, <1>3

(* The channel takes and gives commands. *)
LEMMA SendKeeps ==
    ASSUME NEW sent \in Seq(HttpCommands), Commanded, v2' = v2 \o sent, v11 \subseteq v11',
           \A i \in DOMAIN sent : Sent(sent[i], v11')
    PROVE  Commanded'
<1>1. v2' \in Seq(HttpCommands) /\ Len(v2') = Len(v2) + Len(sent) /\ {Len(v2), Len(sent)} \subseteq Nat
  BY DEF Commanded
<1>2. ASSUME NEW i \in DOMAIN v2' PROVE Sent(v2'[i], v11')
  <2>1. CASE i \in DOMAIN v2
    <3>1. v2'[i] = v2[i] /\ Sent(v2[i], v11)
      BY <1>1, <2>1 DEF Commanded
    <3> QED
      BY <3>1 DEF Sent
  <2>2. CASE i \notin DOMAIN v2
    <3>1. i - Len(v2) \in DOMAIN sent /\ v2'[i] = sent[i - Len(v2)]
      BY <1>1, <2>2 DEF Commanded
    <3> QED
      BY <3>1
  <2> QED
    BY <2>1, <2>2
<1> QED
  BY <1>1, <1>2 DEF Commanded

LEMMA TakeKeeps ==
    ASSUME Commanded, v2 # <<>>, v2' = Tail(v2), v11' = v11
    PROVE  Commanded' /\ Sent(Head(v2), v11)
<1>1. /\ v2' \in Seq(HttpCommands) /\ 1 \in DOMAIN v2 /\ Head(v2) = v2[1]
      /\ \A i \in DOMAIN v2' : i + 1 \in DOMAIN v2 /\ v2'[i] = v2[i + 1]
  BY DEF Commanded
<1> QED
  BY <1>1 DEF Commanded, Sent

LEMMA CallerKeeps ==
    ASSUME HttpInv,
           \/ Http!Handshake \/ Http!Stop
           \/ \E r \in Posts : Http!Ask(r) \/ Http!GiveUp(r) \/ Http!Post(r) \/ Http!Unwind(r)
    PROVE  HttpInv'
<1> USE DEF HttpInv
<1>1. CASE Http!Handshake
  <2>1. HttpTyped' /\ Counted' /\ HandlesHeld'
    BY <1>1 DEF Http!Handshake, HttpTyped, Counted, HandlesHeld, Http!Alive
  <2>2. Commanded'
    <3> DEFINE sent == <<Http!Command("notify", 0)>>
    <3>1. v2' = v2 \o sent /\ v11' = v11
      BY <1>1 DEF Http!Handshake, Commanded
    <3>2. sent \in Seq(HttpCommands) /\ \A i \in DOMAIN sent : Sent(sent[i], v11')
      BY DEF Http!Command, HttpCommands, Sent
    <3>3. v11 \subseteq v11' /\ Commanded
      BY <3>1
    <3> HIDE DEF sent
    <3> QED
      BY <3>1, <3>2, <3>3, SendKeeps
  <2> QED
    BY <2>1, <2>2
<1>2. CASE Http!Stop
  BY <1>2 DEF Http!Stop, HttpTyped, Counted, HandlesHeld, Http!Alive, Commanded, Sent, Http!Stages
<1>3. ASSUME NEW r \in Posts, Http!Ask(r) PROVE HttpInv'
  <2>1. HttpTyped' /\ Counted' /\ HandlesHeld'
    BY <1>3 DEF Http!Ask, HttpTyped, Counted, HandlesHeld, Http!Alive, Http!TaskStates
  <2>2. Commanded'
    <3> DEFINE c == Http!Command("request", r)
               sent == <<c>>
    <3>0. c \in HttpCommands /\ Sent(c, v11')
      BY DEF Http!Command, HttpCommands, Sent
    <3>4. v2' = Append(v2, c) /\ v11' = v11
      BY <1>3 DEF Http!Ask
    <3> HIDE DEF c
    <3>1. v2' = v2 \o sent /\ v11' = v11
      BY <3>0, <3>4 DEF Commanded
    <3>2. sent \in Seq(HttpCommands) /\ \A i \in DOMAIN sent : Sent(sent[i], v11')
      BY <3>0
    <3>3. v11 \subseteq v11' /\ Commanded
      BY <3>1
    <3> HIDE DEF sent
    <3> QED
      BY <3>1, <3>2, <3>3, SendKeeps
  <2> QED
    BY <2>1, <2>2
<1>4. ASSUME NEW r \in Posts, Http!GiveUp(r) PROVE HttpInv'
  <2>1. HttpTyped' /\ Counted' /\ HandlesHeld'
    BY <1>4 DEF Http!GiveUp, HttpTyped, Counted, HandlesHeld, Http!Alive
  <2>2. Commanded'
    <3> DEFINE sent == <<Http!Command("abort", r), Http!Command("notice", r)>>
    <3>1. v2' = v2 \o sent /\ v11' = v11 \cup {r}
      BY <1>4 DEF Http!GiveUp
    <3>2. sent \in Seq(HttpCommands) /\ \A i \in DOMAIN sent : Sent(sent[i], v11')
      BY <3>1 DEF Http!Command, HttpCommands, Sent
    <3>3. v11 \subseteq v11' /\ Commanded
      BY <3>1
    <3> HIDE DEF sent
    <3> QED
      BY <3>1, <3>2, <3>3, SendKeeps
  <2> QED
    BY <2>1, <2>2
<1>5. ASSUME NEW r \in Posts, Http!Post(r) \/ Http!Unwind(r) PROVE HttpInv'
  <2>1. /\ Http!Alive(r) /\ v3' \in [Posts -> Http!TaskStates]
        /\ \A q \in Posts : Http!Alive(q)' => Http!Alive(q)
        /\ UNCHANGED <<v1, v2, v4, v5, v6, v7, v8, v9, v10, v11>>
    BY <1>5 DEF Http!Post, Http!Unwind, HttpTyped, Http!Alive, Http!TaskStates
  <2> QED
    BY <2>1 DEF HttpTyped, Counted, HandlesHeld, Commanded, Sent
<1> QED
  BY <1>1, <1>2, <1>3, <1>4, <1>5

LEMMA ServerKeeps ==
    ASSUME HttpInv, NEW r \in Posts, Http!ServerAsks(r) \/ Http!Replied(r)
    PROVE  HttpInv'
<1> USE DEF HttpInv
<1>1. CASE Http!ServerAsks(r)
  <2>1. /\ Http!Alive(r) /\ v6' = v6 \cup {r} /\ Http!Spawn(<<r, "answer">>)
        /\ UNCHANGED <<v1, v2, v3, v4, v5, v9, v10, v11>>
    BY <1>1 DEF Http!ServerAsks, Http!Alive
  <2>2. HttpTyped'
    BY <2>1, SpawnIs DEF HttpTyped
  <2>3. v1 \in {"ending", "finished"} => r \in v11
    BY <2>1 DEF HandlesHeld
  <2>4. HandlesHeld'
    BY <2>1, <2>3, SpawnIs DEF HandlesHeld, Http!Alive
  <2> QED
    BY <2>1, <2>2, <2>4, SpawnIs DEF Commanded, Sent
<1>2. CASE Http!Replied(r)
  <2>1. /\ v3' = [v3 EXCEPT ![r] = "done"] /\ v4' \in {v4, v4 \ {r}}
        /\ v10' \in {v10, "none"} /\ UNCHANGED <<v1, v2, v5, v6, v7, v8, v9, v11>>
    BY <1>2 DEF Http!Replied
  <2>2. /\ v3' \in [Posts -> Http!TaskStates] /\ ~Http!Alive(r)'
        /\ \A q \in Posts \ {r} : Http!Alive(q)' <=> Http!Alive(q)
    BY <2>1 DEF HttpTyped, Http!Alive, Http!TaskStates
  <2>3. HttpTyped' /\ Counted' /\ Commanded'
    BY <2>1, <2>2 DEF HttpTyped, Counted, Commanded, Sent
  <2>4. HandlesHeld'
    BY <2>1, <2>2 DEF HandlesHeld, HttpTyped
  <2> QED
    BY <2>3, <2>4
<1> QED
  BY <1>1, <1>2

LEMMA AuxKeeps ==
    ASSUME HttpInv, NEW a \in DOMAIN v7, Http!PostAux(a) \/ Http!AuxEnds(a)
    PROVE  HttpInv'
<1>1. /\ UNCHANGED <<v1, v2, v3, v4, v5, v6, v8, v9, v10, v11>>
      /\ DOMAIN v7' \subseteq DOMAIN v7
      /\ \A b \in DOMAIN v7' : v7'[b] \in {"waiting", "posted"}
  BY DEF Http!PostAux, Http!AuxEnds, HttpInv, HttpTyped
<1>2. Counted'
  BY <1>1, FS_Subset, FS_CardinalityType, PermitsAssumption DEF HttpInv, Counted
<1> QED
  BY <1>1, <1>2 DEF HttpInv, HttpTyped, Commanded, Sent, HandlesHeld, Http!Alive

LEMMA LoopKeeps ==
    ASSUME HttpInv, Http!Loop
    PROVE  HttpInv'
<1> USE DEF HttpInv
<1>1. CASE Http!TakeCommand
  <2> DEFINE c == Head(v2)
  <2>1. /\ v1 = "running" /\ Sent(c, v11) /\ v2' = Tail(v2) /\ UNCHANGED <<v6, v9, v10, v11>>
        /\ c.kind # "notify" => c.request \in Posts
        /\ c.kind \in {"abort", "notice"} => c.request \in v11
    BY <1>1, TakeKeeps DEF Http!TakeCommand, Sent
  <2>2. Commanded'
    BY <1>1, TakeKeeps DEF Http!TakeCommand
  <2>3. v5' \subseteq Posts
    BY <1>1 DEF Http!TakeCommand, HttpTyped
  <2>4. CASE Http!TakeNotify
    <3>1. v1' = "barrier" /\ UNCHANGED <<v3, v4, v7, v8>>
      BY <2>4 DEF Http!TakeNotify
    <3> QED
      BY <2>1, <2>2, <2>3, <3>1 DEF HttpTyped, Counted, HandlesHeld, Http!Alive, Http!Stages
  <2>5. CASE Http!TakeNotice
    <3>1. Http!Spawn(<<c.request, "notice">>) /\ c.kind = "notice" /\ UNCHANGED <<v1, v3, v4>>
      BY <2>5 DEF Http!TakeNotice
    <3> HIDE DEF c
    <3>2. HttpTyped'
      BY <2>1, <2>3, <3>1, SpawnIs DEF HttpTyped
    <3> QED
      BY <2>1, <2>2, <3>1, <3>2, SpawnIs DEF HandlesHeld, Http!Alive
  <2>6. CASE Http!TakeRequest
    <3> PICK r \in Posts : r = c.request
      BY <2>1, <2>6 DEF Http!TakeRequest
    <3>1. /\ UNCHANGED <<v1, v7, v8>>
          /\ \/ v3' = [v3 EXCEPT ![r] = "done"] /\ v4' = v4
             \/ v3' = [v3 EXCEPT ![r] = "waiting"] /\ v4' = v4 \cup {r}
      BY <2>1, <2>6 DEF Http!TakeRequest
    <3>2. /\ v3' \in [Posts -> Http!TaskStates]
          /\ Http!Alive(r)' => r \in v4'
          /\ v4' \subseteq Posts /\ v4 \subseteq v4'
          /\ \A q \in Posts \ {r} : Http!Alive(q)' <=> Http!Alive(q)
      BY <3>1 DEF HttpTyped, Http!Alive, Http!TaskStates
    <3>3. HandlesHeld'
      BY <2>1, <3>1, <3>2 DEF HandlesHeld
    <3> QED
      BY <2>1, <2>2, <2>3, <3>1, <3>2, <3>3 DEF HttpTyped, Counted
  <2>7. CASE Http!TakeAbort
    <3>1. v4' = v4 \ {c.request} /\ c.request \in v11 /\ UNCHANGED <<v1, v3, v7, v8>>
      BY <2>1, <2>7 DEF Http!TakeAbort
    <3> HIDE DEF c
    <3> QED
      BY <2>1, <2>2, <2>3, <3>1 DEF HttpTyped, Counted, HandlesHeld, Http!Alive
  <2> QED
    BY <1>1, <2>4, <2>5, <2>6, <2>7 DEF Http!TakeCommand
<1>2. CASE Http!BarrierEnds
  BY <1>2 DEF Http!BarrierEnds, HttpTyped, Counted, HandlesHeld, Http!Alive, Commanded, Sent, Http!Stages
<1>3. CASE Http!AbortAll
  <2>1. /\ v5' = v5 \cup v4 /\ UNCHANGED <<v2, v3, v4, v6, v7, v8, v9, v10, v11>>
        /\ v1 = "aborting"
        /\ v1' = v1 \/ (v1' = "draining" /\ \A r \in v4 : ~Http!Alive(r))
    BY <1>3 DEF Http!AbortAll
  <2> QED
    BY <2>1 DEF HttpTyped, Counted, HandlesHeld, Http!Alive, Commanded, Sent, Http!Stages
<1>4. CASE Http!DrainAuxiliary
  <2>1. /\ v1 = "draining" /\ v1' = "ending" /\ v8' = {} /\ DOMAIN v7' = {}
        /\ UNCHANGED <<v2, v3, v4, v5, v6, v9, v10, v11>>
    BY <1>4 DEF Http!DrainAuxiliary, Counted
  <2>2. Counted'
    BY <2>1, FS_EmptySet, PermitsAssumption DEF Counted
  <2> QED
    BY <2>1, <2>2 DEF HttpTyped, HandlesHeld, Http!Alive, Commanded, Sent, Http!Stages
<1>5. CASE Http!EndSession
  BY <1>5 DEF Http!EndSession, HttpTyped, Counted, HandlesHeld, Http!Alive, Commanded, Sent, Http!Stages
<1> QED
  BY <1>1, <1>2, <1>3, <1>4, <1>5 DEF Http!Loop

LEMMA HttpNext ==
    ASSUME HttpInv, Http!Next \/ UNCHANGED pool
    PROVE  HttpInv'
<1>1. CASE Http!Next
  BY <1>1, CallerKeeps, ServerKeeps, AuxKeeps, LoopKeeps DEF Http!Next
<1>2. CASE UNCHANGED pool
  <2>1. UNCHANGED <<v1, v2, v3, v4, v5, v6, v7, v8, v9, v10, v11>>
    BY <1>2 DEF pool
  <2> QED
    BY <2>1 DEF HttpInv, HttpTyped, Counted, HandlesHeld, Http!Alive, Commanded, Sent
<1> QED
  BY <1>1, <1>2

(* Whatever the caller, the server and the scheduler do: a POST of Gritt's own *)
(* that was admitted never waits for a permit, and when the connection says it *)
(* is over it runs nothing but what its callers had given up (mcp/http.rs).    *)
THEOREM HttpAlwaysEndsClean == PartsSpec => []HttpEndsClean
<1> DEFINE Inv == part = "http" => HttpInv
<1>1. PartsInit => Inv
  BY HttpInit DEF PartsInit
<1>2. Inv /\ [PartsNext]_<<part, sseVars, vars, pool>> => Inv'
  BY PartStep, HttpNext
<1>3. Inv => HttpEndsClean
  <2> SUFFICES ASSUME HttpInv
               PROVE  Http!AnswerFindsAPermit /\ Http!FinishedOwnsNothing /\ Http!TypeOK
    BY DEF HttpEndsClean
  <2>1. Http!TypeOK
    <3>1. v8 \cap DOMAIN v7 = DOMAIN v7
      BY DEF HttpInv, Counted
    <3> QED
      BY <3>1, HttpCounts DEF HttpInv, HttpTyped, Counted, Http!TypeOK
  <2>2. Http!FinishedOwnsNothing
    BY DEF HttpInv, HttpTyped, HandlesHeld, Http!FinishedOwnsNothing
  <2>3. ASSUME NEW a \in DOMAIN v7, v7[a] = "waiting"
        PROVE  Http!AuxPermitFree(Http!Cardinality(Http!PostedAux))
    <3>1. Http!PostedAux \subseteq DOMAIN v7 \ {a}
      BY <2>3 DEF Http!PostedAux
    <3>2. /\ IsFiniteSet(DOMAIN v7 \ {a})
          /\ Cardinality(DOMAIN v7 \ {a}) = Cardinality(DOMAIN v7) - 1
          /\ Cardinality(DOMAIN v7) \in Nat /\ Cardinality(DOMAIN v7) <= AuxPermits
      BY FS_RemoveElement, FS_CardinalityType DEF HttpInv, Counted
    <3>3. /\ Cardinality(Http!PostedAux) <= Cardinality(DOMAIN v7 \ {a})
          /\ Cardinality(Http!PostedAux) \in Nat
      BY <3>1, <3>2, FS_Subset, FS_CardinalityType
    <3> QED
      BY <3>2, <3>3, HttpCounts, PermitsAssumption DEF Http!AuxPermitFree
  <2> QED
    BY <2>1, <2>2, <2>3 DEF Http!AnswerFindsAPermit
<1> HIDE DEF Inv
<1> QED
  BY <1>1, <1>2, <1>3, PTL DEF PartsSpec

-----------------------------------------------------------------------------
(* Changes (v1 and v2 are the world, v3 to v5 the service, v6 the free permits, *)
(* v7 the tasks, v8 the strays and v9 what is shown).                           *)

Jobs == [pc : {"idle", "record", "capture", "scan", "compare", "diff 1", "diff 2", "file"},
         work : {"none", "queued", "running", "done"},
         todo : SUBSET Paths, base : SUBSET SUBSET Paths, seen : SUBSET SUBSET Paths]

FilesTyped ==
    /\ v1 \subseteq Paths /\ v2 \subseteq Paths /\ v3 \subseteq SUBSET Paths /\ v4 \subseteq Paths
    /\ v5 \in BOOLEAN /\ v6 \in Nat /\ v7 \in [Tasks -> Jobs] /\ v8 \in Nat
    /\ v9 \subseteq Paths \X BOOLEAN

\* A task that waits for nobody has no worker; every permit is accounted for.
FilesInv ==
    /\ FilesTyped
    /\ \A t \in Tasks : v7[t].pc \in {"idle", "scan"} => v7[t].work = "none"
    /\ v6 + Cardinality(Files!Running) + v8 = MaxWorkers

LEMMA FilesCount == ASSUME NEW S PROVE Files!Cardinality(S) = Cardinality(S)
BY DEF Files!Cardinality, Cardinality

LEMMA RunningCount ==
    /\ IsFiniteSet(Files!Running) /\ Cardinality(Files!Running) \in Nat
    /\ IsFiniteSet(Files!Running') /\ Cardinality(Files!Running') \in Nat
<1>1. Files!Running \subseteq Tasks /\ Files!Running' \subseteq Tasks
  BY DEF Files!Running
<1> QED
  BY <1>1, TasksAssumption, FS_Subset, FS_CardinalityType

(* What a task does without starting or ending a worker. *)
LEMMA JobMoves ==
    ASSUME FilesInv, NEW t \in Tasks, NEW r \in Jobs, v7[t].work # "running", r.work # "running",
           r.pc \in {"idle", "scan"} => r.work = "none",
           Files!Set(t, r), v6' = v6, v8' = v8
    PROVE  /\ v7' \in [Tasks -> Jobs]
           /\ \A u \in Tasks : v7'[u].pc \in {"idle", "scan"} => v7'[u].work = "none"
           /\ v6' + Cardinality(Files!Running') + v8' = MaxWorkers
<1>1. /\ v7 \in [Tasks -> Jobs] /\ v7' = [v7 EXCEPT ![t] = r]
      /\ v7' \in [Tasks -> Jobs] /\ v7'[t] = r /\ \A u \in Tasks \ {t} : v7'[u] = v7[u]
  BY DEF FilesInv, FilesTyped, Files!Set
<1>2. Files!Running' = Files!Running
  BY <1>1 DEF Files!Running
<1> QED
  BY <1>1, <1>2 DEF FilesInv

(* A worker of the task t starts or goes: r is what the task is then. *)
LEMMA WorkerMoves ==
    ASSUME FilesInv, NEW t \in Tasks, NEW r \in Jobs, v7' = [v7 EXCEPT ![t] = r],
           r.pc \in {"idle", "scan"} => r.work = "none"
    PROVE  /\ v7' \in [Tasks -> Jobs]
           /\ \A u \in Tasks : v7'[u].pc \in {"idle", "scan"} => v7'[u].work = "none"
           /\ v7[t].work # "running" /\ r.work = "running" =>
                Cardinality(Files!Running') = Cardinality(Files!Running) + 1
           /\ v7[t].work = "running" /\ r.work # "running" =>
                Cardinality(Files!Running') = Cardinality(Files!Running) - 1
           /\ v7[t].work # "running" /\ r.work # "running" => Files!Running' = Files!Running
<1>1. /\ v7 \in [Tasks -> Jobs]
      /\ v7' \in [Tasks -> Jobs] /\ v7'[t] = r /\ \A u \in Tasks \ {t} : v7'[u] = v7[u]
  BY DEF FilesInv, FilesTyped
<1>2. ASSUME v7[t].work # "running", r.work = "running"
      PROVE  Cardinality(Files!Running') = Cardinality(Files!Running) + 1
  <2>1. t \notin Files!Running /\ Files!Running' = Files!Running \cup {t}
    BY <1>1, <1>2 DEF Files!Running
  <2> QED
    BY <2>1, RunningCount, FS_AddElement
<1>3. ASSUME v7[t].work = "running", r.work # "running"
      PROVE  Cardinality(Files!Running') = Cardinality(Files!Running) - 1
  <2>1. t \in Files!Running /\ Files!Running' = Files!Running \ {t}
    BY <1>1, <1>3 DEF Files!Running
  <2> QED
    BY <2>1, RunningCount, FS_RemoveElement
<1>4. v7[t].work # "running" /\ r.work # "running" => Files!Running' = Files!Running
  BY <1>1 DEF Files!Running
<1> QED
  BY <1>1, <1>2, <1>3, <1>4 DEF FilesInv

LEMMA FilesInit == Files!Init => FilesInv
<1> SUFFICES ASSUME Files!Init PROVE FilesInv
  OBVIOUS
<1>1. v7 \in [Tasks -> Jobs] /\ \A t \in Tasks : v7[t].work = "none"
  BY DEF Files!Init, Files!Idle, Files!NoAnswer, Jobs
<1>2. Files!Running = {}
  BY <1>1 DEF Files!Running
<1>3. FilesTyped
  BY <1>1, TasksAssumption DEF Files!Init, FilesTyped
<1> QED
  BY <1>1, <1>2, <1>3, FS_EmptySet, TasksAssumption DEF Files!Init, FilesInv

LEMMA WorkersKeep ==
    ASSUME FilesInv, NEW t \in Tasks,
           Files!Acquire(t) \/ Files!WorkerEnds(t) \/ Files!Abandon(t)
    PROVE  FilesInv'
<1> USE DEF Files!service, Files!world
<1>1. v7[t] \in Jobs
  BY DEF FilesInv, FilesTyped
<1>2. CASE Files!Acquire(t)
  <2> DEFINE r == [v7[t] EXCEPT !.work = "running"]
  <2>1. /\ r \in Jobs /\ r.work = "running" /\ r.pc = v7[t].pc /\ v7' = [v7 EXCEPT ![t] = r]
        /\ v7[t].work = "queued" /\ v6 > 0 /\ v6' = v6 - 1
        /\ UNCHANGED <<v1, v2, v3, v4, v5, v8, v9>>
    BY <1>1, <1>2 DEF Files!Acquire, Jobs
  <2> HIDE DEF r
  <2>2. r.pc \notin {"idle", "scan"}
    BY <2>1 DEF FilesInv
  <2>3. /\ v7' \in [Tasks -> Jobs]
        /\ \A u \in Tasks : v7'[u].pc \in {"idle", "scan"} => v7'[u].work = "none"
        /\ Cardinality(Files!Running') = Cardinality(Files!Running) + 1
    BY <2>1, <2>2, WorkerMoves
  <2>4. FilesTyped'
    BY <2>1, <2>3 DEF FilesInv, FilesTyped
  <2> QED
    BY <2>1, <2>3, <2>4, RunningCount DEF FilesInv, FilesTyped
<1>3. CASE Files!WorkerEnds(t)
  <2>1. PICK seen \in SUBSET SUBSET Paths :
          v7' = [v7 EXCEPT ![t] = [v7[t] EXCEPT !.work = "done", !.seen = seen]]
    BY <1>1, <1>3 DEF Files!WorkerEnds, FilesInv, FilesTyped, Files!NoAnswer
  <2> DEFINE r == [v7[t] EXCEPT !.work = "done", !.seen = seen]
  <2>2. /\ r \in Jobs /\ r.work = "done" /\ r.pc = v7[t].pc /\ v7' = [v7 EXCEPT ![t] = r]
        /\ v7[t].work = "running" /\ v6' = v6 + 1
        /\ UNCHANGED <<v1, v2, v3, v4, v5, v8, v9>>
    BY <1>1, <1>3, <2>1 DEF Files!WorkerEnds, Jobs
  <2> HIDE DEF r
  <2>3. r.pc \notin {"idle", "scan"}
    BY <2>2 DEF FilesInv
  <2>4. /\ v7' \in [Tasks -> Jobs]
        /\ \A u \in Tasks : v7'[u].pc \in {"idle", "scan"} => v7'[u].work = "none"
        /\ Cardinality(Files!Running') = Cardinality(Files!Running) - 1
    BY <2>2, <2>3, WorkerMoves
  <2>5. FilesTyped'
    BY <2>2, <2>4 DEF FilesInv, FilesTyped
  <2> QED
    BY <2>2, <2>4, <2>5, RunningCount DEF FilesInv, FilesTyped
<1>4. CASE Files!Abandon(t)
  <2> DEFINE r == Files!Idle
  <2>1. /\ r \in Jobs /\ r.work = "none" /\ v7' = [v7 EXCEPT ![t] = r]
        /\ UNCHANGED <<v1, v2, v3, v4, v5, v6, v9>>
        /\ v8' = v8 + IF v7[t].work = "running" THEN 1 ELSE 0
    BY <1>4 DEF Files!Abandon, Files!Set, Jobs, Files!Idle, Files!NoAnswer
  <2> HIDE DEF r
  <2>2. /\ v7' \in [Tasks -> Jobs]
        /\ \A u \in Tasks : v7'[u].pc \in {"idle", "scan"} => v7'[u].work = "none"
        /\ v7[t].work = "running" => Cardinality(Files!Running') = Cardinality(Files!Running) - 1
        /\ v7[t].work # "running" => Cardinality(Files!Running') = Cardinality(Files!Running)
    BY <2>1, WorkerMoves
  <2>3. FilesTyped'
    BY <2>1, <2>2 DEF FilesInv, FilesTyped
  <2> QED
    BY <2>1, <2>2, <2>3, RunningCount DEF FilesInv, FilesTyped
<1> QED
  BY <1>2, <1>3, <1>4

(* What a step of a task that has no worker leaves to show. *)
LEMMA JobKeeps ==
    ASSUME FilesInv, NEW t \in Tasks, NEW r \in Jobs, v7[t].work # "running", r.work # "running",
           r.pc \in {"idle", "scan"} => r.work = "none",
           Files!Set(t, r), UNCHANGED <<v1, v6, v8>>,
           v2' \subseteq Paths, v3' \subseteq SUBSET Paths, v4' \subseteq Paths,
           v5' \in BOOLEAN, v9' \subseteq Paths \X BOOLEAN
    PROVE  FilesInv'
  BY JobMoves DEF FilesInv, FilesTyped

LEMMA LookIs ==
    ASSUME FilesInv, NEW t \in Tasks, NEW q \in Jobs
    PROVE  /\ Files!Look(t, q) \in Jobs /\ Files!Look(t, q).work # "running"
           /\ Files!Look(t, q).pc \in {"idle", "scan"} => Files!Look(t, q).work = "none"
  BY DEF Files!Look, Jobs, Files!NoAnswer

LEMMA RescanKeeps ==
    ASSUME FilesInv, NEW t \in Tasks,
           \/ Files!Rescan(t) \/ Files!RecordWrite(t) \/ Files!Capture(t)
           \/ Files!ReadBaseline(t) \/ Files!Compare(t)
    PROVE  FilesInv'
<1> USE DEF Files!service, Files!world
<1>1. /\ v7[t] \in Jobs
      /\ v7[t].pc \in {"idle", "scan"} => v7[t].work = "none"
      /\ v1 \subseteq Paths /\ v2 \subseteq Paths /\ v3 \subseteq SUBSET Paths /\ v4 \subseteq Paths
      /\ v5 \in BOOLEAN /\ v9 \subseteq Paths \X BOOLEAN
      /\ Files!Idle \in Jobs
  BY DEF FilesInv, FilesTyped, Files!Idle, Files!NoAnswer, Jobs
<1>2. CASE Files!Rescan(t)
  <2>1. CASE v2 = {}
    BY <1>1, <1>2, <2>1, LookIs, JobKeeps DEF Files!Rescan
  <2>2. CASE v2 # {}
    <3> DEFINE r == [Files!Idle EXCEPT !.pc = "record", !.work = "queued", !.todo = v2]
    <3>1. r \in Jobs /\ r.pc = "record" /\ r.work = "queued" /\ Files!Set(t, r)
      BY <1>1, <1>2, <2>2 DEF Files!Rescan, Jobs, Files!Idle
    <3> HIDE DEF r
    <3> QED
      BY <1>1, <1>2, <3>1, JobKeeps DEF Files!Rescan
  <2> QED
    BY <2>1, <2>2
<1>3. CASE Files!RecordWrite(t)
  <2>1. PICK p \in v7[t].todo :
          LET rest == [v7[t] EXCEPT !.todo = @ \ {p}] IN
          /\ v4' = v4 \cup {p}
          /\ Files!Set(t, IF rest.todo = {} THEN Files!Look(t, rest)
                          ELSE [rest EXCEPT !.work = "queued", !.seen = Files!NoAnswer])
    BY <1>3 DEF Files!RecordWrite
  <2> DEFINE rest == [v7[t] EXCEPT !.todo = @ \ {p}]
             r == [rest EXCEPT !.work = "queued", !.seen = Files!NoAnswer]
  <2>2. rest \in Jobs /\ p \in Paths /\ v7[t].pc = "record" /\ rest.pc = "record"
    BY <1>1, <1>3 DEF Jobs, Files!RecordWrite
  <2>3. r \in Jobs /\ r.work = "queued" /\ r.pc = "record"
    BY <2>2 DEF Jobs, Files!NoAnswer
  <2>4. v4' = v4 \cup {p} /\ (Files!Set(t, Files!Look(t, rest)) \/ Files!Set(t, r))
    BY <2>1
  <2> HIDE DEF rest, r
  <2>5. v7[t].work = "done" /\ UNCHANGED <<v1, v2, v3, v5, v6, v8, v9>>
    BY <1>3 DEF Files!RecordWrite
  <2>6. v4' \subseteq Paths
    BY <1>1, <2>2, <2>4
  <2> QED
    BY <1>1, <2>2, <2>3, <2>4, <2>5, <2>6, LookIs, JobKeeps
<1>4. CASE Files!Capture(t)
  <2> DEFINE r == [v7[t] EXCEPT !.pc = "scan", !.work = "none"]
  <2>1. r \in Jobs /\ r.work = "none" /\ Files!Set(t, r)
    BY <1>1, <1>4 DEF Files!Capture, Jobs
  <2>2. v3' \subseteq SUBSET Paths /\ v5' \in BOOLEAN
    BY <1>1, <1>4 DEF Files!Capture, Files!NoAnswer, Jobs
  <2> HIDE DEF r
  <2> QED
    BY <1>1, <1>4, <2>1, <2>2, JobKeeps DEF Files!Capture
<1>5. CASE Files!ReadBaseline(t)
  <2> DEFINE r == [Files!Ask(t, "compare") EXCEPT !.base = v3]
  <2>1. r \in Jobs /\ r.work = "queued" /\ r.pc = "compare" /\ Files!Set(t, r)
    BY <1>1, <1>5 DEF Files!ReadBaseline, Files!Ask, Jobs, Files!NoAnswer
  <2> HIDE DEF r
  <2> QED
    BY <1>1, <1>5, <2>1, JobKeeps DEF Files!ReadBaseline
<1>6. CASE Files!Compare(t)
  <2> DEFINE files == IF v7[t].seen = Files!NoAnswer THEN v4 ELSE UNION v7[t].seen
  <2>0. files \subseteq Paths
    BY <1>1 DEF Jobs
  <2> DEFINE marked(p) == p \in UNION v7[t].base
  <2>1. v9' = {<<p, marked(p)>> : p \in files} /\ v5' \in BOOLEAN
    BY <1>6 DEF Files!Compare
  <2>5. \A p : marked(p) = TRUE \/ marked(p) = FALSE
    OBVIOUS
  <2>6. \A p : marked(p) \in BOOLEAN
    BY <2>5
  <2> HIDE DEF files, marked
  <2>3. v9' \subseteq Paths \X BOOLEAN
    BY <2>0, <2>1, <2>6
  <2>2. Files!Idle.work = "none" /\ Files!Idle.pc = "idle"
    BY DEF Files!Idle
  <2>4. Files!Set(t, Files!Idle) /\ v7[t].work = "done" /\ UNCHANGED <<v1, v2, v3, v4, v6, v8>>
    BY <1>6 DEF Files!Compare
  <2> QED
    BY <1>1, <2>1, <2>2, <2>3, <2>4, JobKeeps
<1> QED
  BY <1>2, <1>3, <1>4, <1>5, <1>6

LEMMA DiffKeeps ==
    ASSUME FilesInv, NEW t \in Tasks, Files!Diff(t) \/ Files!NextDiff(t)
    PROVE  FilesInv'
<1>1. /\ v7[t] \in Jobs
      /\ v7[t].pc \in {"idle", "scan"} => v7[t].work = "none"
      /\ Files!Idle \in Jobs /\ Files!Idle.work = "none"
  BY DEF FilesInv, FilesTyped, Files!Idle, Files!NoAnswer, Jobs
<1>2. UNCHANGED <<v1, v2, v3, v4, v5, v6, v8, v9>> /\ v7[t].work # "running"
  BY <1>1 DEF Files!Diff, Files!NextDiff, Files!service, Files!world
<1>3. ASSUME NEW pc \in {"diff 1", "diff 2", "file"}
      PROVE  /\ Files!Ask(t, pc) \in Jobs
             /\ Files!Ask(t, pc).pc = pc /\ Files!Ask(t, pc).work = "queued"
  BY <1>1 DEF Files!Ask, Jobs, Files!NoAnswer
<1>4. \/ Files!Set(t, Files!Idle)
      \/ \E pc \in {"diff 1", "diff 2", "file"} : Files!Set(t, Files!Ask(t, pc))
  BY DEF Files!Diff, Files!NextDiff
<1> QED
  BY <1>1, <1>2, <1>3, <1>4, JobKeeps DEF FilesInv, FilesTyped

LEMMA FilesNext ==
    ASSUME FilesInv, Files!Next \/ UNCHANGED pool
    PROVE  FilesInv'
<1> USE DEF Files!service, Files!world
<1>1. CASE Files!Next
  <2>1. ASSUME Files!StrayEnds PROVE FilesInv'
    BY <2>1, RunningCount DEF FilesInv, Files!StrayEnds, FilesTyped, Files!Running
  <2>2. ASSUME NEW p \in Paths, Files!Write(p) \/ Files!Toggle(p) PROVE FilesInv'
    <3>1. v1' \subseteq Paths /\ v2' \subseteq Paths /\ UNCHANGED <<v3, v4, v5, v6, v7, v8, v9>>
      BY <2>2 DEF Files!Write, Files!Toggle, FilesInv, FilesTyped
    <3> QED
      BY <3>1 DEF FilesInv, FilesTyped, Files!Running
  <2> QED
    BY <1>1, <2>1, <2>2, WorkersKeep, RescanKeeps, DiffKeeps DEF Files!Next
<1>2. CASE UNCHANGED pool
  <2>1. UNCHANGED <<v1, v2, v3, v4, v5, v6, v7, v8, v9>>
    BY <1>2 DEF pool
  <2> QED
    BY <2>1 DEF FilesInv, FilesTyped, Files!Running
<1> QED
  BY <1>1, <1>2

(* However many rescans and diffs are asked for and given up, no more workers  *)
(* than the bound run at once, and every permit is free or owned by a worker   *)
(* that runs (changes.rs).                                                     *)
THEOREM WorkersStayBounded == PartsSpec => []WorkersBounded
<1> DEFINE Inv == part = "changes" => FilesInv
<1>1. PartsInit => Inv
  BY FilesInit DEF PartsInit
<1>2. Inv /\ [PartsNext]_<<part, sseVars, vars, pool>> => Inv'
  BY PartStep, FilesNext
<1>3. Inv => WorkersBounded
  <2>1. FilesTyped => Files!TypeOK
    BY DEF FilesTyped, Jobs, Files!TypeOK
  <2> QED
    BY <2>1, FilesCount, RunningCount DEF FilesInv, FilesTyped, WorkersBounded, Files!WorkersBounded
<1> HIDE DEF Inv
<1> QED
  BY <1>1, <1>2, <1>3, PTL DEF PartsSpec

-----------------------------------------------------------------------------
(* Selection (v2 is the choice, v3 the catalog, v4 the agent's list, v6 the     *)
(* picker and v12 what was launched).                                          *)

GoodChoice(ch) == DOMAIN ch = {"agent", "model"} /\ ch.model \in Choice!ListOf(ch.agent) \cup {None}

GoodList(al) == DOMAIN al = {"agent", "models", "loading"} /\ al.models \subseteq Choice!ListOf(al.agent)

GoodCatalog(cat) ==
    /\ DOMAIN cat = {"profile", "models", "state", "loading"}
    /\ cat.state = "fresh" /\ ~cat.loading => cat.models \subseteq Choice!ListOf(cat.profile)

\* A picker on screen while an agent is chosen offers that agent's models.
GoodPicker(open, ch) ==
    open # None /\ ch.agent # None => open.rows \subseteq Choice!ListOf(ch.agent) \cup {Default}

GoodLaunch(last) ==
    last # None /\ last.kind = "agent" =>
        last.to.model \in Choice!ListOf(last.to.profile) \cup {None}

ListChosen ==
    /\ GoodChoice(v2) /\ GoodList(v4)
    /\ v2.agent # None => v4.agent = v2.agent

ChoiceInv == ListChosen /\ GoodCatalog(v3) /\ GoodPicker(v6, v2) /\ GoodLaunch(v12)

LEMMA ChoiceInit == Choice!Init => ChoiceInv
<1> SUFFICES ASSUME Choice!Init PROVE ChoiceInv
  OBVIOUS
<1>1. v2 = Choice!NoChoice /\ v3 = Choice!NoCatalog /\ v4 = Choice!EmptyList /\ v6 = None /\ v12 = None
  BY DEF Choice!Init
<1> QED
  BY <1>1 DEF ChoiceInv, ListChosen, GoodChoice, GoodList, GoodCatalog, GoodPicker, GoodLaunch,
              Choice!NoChoice, Choice!NoCatalog, Choice!EmptyList

LEMMA NoneChosen == GoodChoice(Choice!NoChoice) /\ Choice!NoChoice.agent = None
  BY DEF GoodChoice, Choice!NoChoice

LEMMA BuiltIsGood ==
    ASSUME NEW d, NEW ch, NEW cat, NEW al, GoodList(al), ch.agent # None => al.agent = ch.agent
    PROVE  GoodPicker(Choice!Built(d, ch, cat, al), ch)
  BY DEF GoodList, GoodPicker, Choice!Built

LEMMA RefreshedIsGood ==
    ASSUME NEW open, NEW f, NEW built, NEW ch, GoodPicker(open, ch), GoodPicker(built, ch)
    PROVE  GoodPicker(Choice!Refreshed(open, f, built), ch)
  BY DEF Choice!Refreshed

LEMMA RequestedList ==
    ASSUME ChoiceInv, NEW a, Choice!RequestAgentList(a)
    PROVE  GoodList(v4') /\ v4'.agent = a
  BY DEF ChoiceInv, ListChosen, GoodList, Choice!RequestAgentList, Choice!AskedList

LEMMA RequestedCatalog ==
    ASSUME NEW d, NEW cat, NEW sel, GoodCatalog(cat), Choice!RequestCatalog(d, cat, sel)
    PROVE  GoodCatalog(v3')
  BY DEF GoodCatalog, Choice!RequestCatalog

(* The list is emptied when a provider moves. *)
LEMMA EmptyCatalog ==
    ASSUME NEW p PROVE GoodCatalog([Choice!NoCatalog EXCEPT !.profile = p])
  BY DEF GoodCatalog, Choice!NoCatalog

LEMMA UserKeeps == ASSUME ChoiceInv, Choice!User PROVE ChoiceInv'
<1> USE DEF ChoiceInv
<1>1. ASSUME NEW p \in Providers, Choice!ChooseProfile(p) PROVE ChoiceInv'
  <2> DEFINE cat == IF v3.profile # p THEN [Choice!NoCatalog EXCEPT !.profile = p] ELSE v3
             sel == IF v3.profile # p THEN v5 + 1 ELSE v5
  <2>1. /\ v2' = Choice!NoChoice /\ v4' = v4 /\ v12' = v12
        /\ Choice!RequestCatalog(v1', cat, sel)
    BY <1>1 DEF Choice!ChooseProfile
  <2>2. GoodCatalog(cat)
    BY EmptyCatalog
  <2> HIDE DEF cat, sel
  <2>3. GoodCatalog(v3')
    BY <2>1, <2>2, RequestedCatalog
  <2> QED
    BY <2>1, <2>3, NoneChosen DEF ListChosen, GoodPicker
<1>2. ASSUME NEW a, a # None, GoodChoice(v2'), v2'.agent = a, Choice!RequestAgentList(a),
             NEW d, NEW cat, v6' = Choice!Built(d, v2', cat, v4'), UNCHANGED <<v3, v12>>
      PROVE  ChoiceInv'
  BY <1>2, RequestedList, BuiltIsGood DEF ListChosen
<1>3. ASSUME NEW a \in Installed, Choice!ChooseAgent(a) PROVE ChoiceInv'
  <2>1. CASE a # None
    BY <1>2, <1>3, <2>1 DEF Choice!ChooseAgent, GoodChoice
  <2>2. CASE a = None
    BY <1>3, <2>2, RequestedList DEF Choice!ChooseAgent, GoodChoice, GoodPicker, ListChosen
  <2> QED
    BY <2>1, <2>2
<1>4. ASSUME Choice!OpenModels PROVE ChoiceInv'
  <2>1. CASE v2.agent # None /\ Choice!RequestAgentList(v2.agent)
    <3>1. v6' = Choice!Built(v1, v2', v3, v4') /\ UNCHANGED <<v2, v3, v12>>
      BY <1>4, <2>1 DEF Choice!OpenModels
    <3> QED
      BY <1>2, <2>1, <3>1 DEF ListChosen
  <2>2. CASE v2.agent = None /\ Choice!RequestCatalog(v1, v3, v5)
    <3>1. v4' = v4 /\ v2' = v2 /\ v12' = v12
      BY <1>4, <2>2 DEF Choice!OpenModels
    <3> QED
      BY <2>2, <3>1, RequestedCatalog DEF ListChosen, GoodPicker
  <2> QED
    BY <1>4, <2>1, <2>2 DEF Choice!OpenModels
<1>5. ASSUME Choice!RefreshList PROVE ChoiceInv'
  <2>1. /\ v2.agent # None /\ Choice!RequestAgentList(v2.agent)
        /\ v6' = Choice!Built(v1, v2', v3, v4') /\ UNCHANGED <<v2, v3, v12>>
    BY <1>5 DEF Choice!RefreshList
  <2> QED
    BY <1>2, <2>1 DEF ListChosen
<1>6. ASSUME NEW row, Choice!PickModel(row) PROVE ChoiceInv'
  <2>1. v6' = None /\ row \in v6.rows /\ v6 # None /\ UNCHANGED <<v3, v4>>
    BY <1>6 DEF Choice!PickModel
  <2>2. CASE v2.agent # None
    <3> DEFINE model == IF row = Default THEN None ELSE row
    <3>1. /\ v2' = [v2 EXCEPT !.model = model]
          /\ Choice!Launch("agent", v2.agent, v2'.model) \/ v12' = v12
      BY <1>6, <2>2 DEF Choice!PickModel
    <3>2. model \in Choice!ListOf(v2.agent) \cup {None}
      BY <2>1, <2>2 DEF GoodPicker
    <3> HIDE DEF model
    <3>3. v2'.agent = v2.agent /\ v2'.model = model /\ DOMAIN v2' = DOMAIN v2
      BY <3>1 DEF ListChosen, GoodChoice
    <3>4. GoodLaunch(v12')
      BY <3>1, <3>2, <3>3 DEF Choice!Launch, Choice!Pair, GoodLaunch
    <3> QED
      BY <2>1, <3>2, <3>3, <3>4 DEF ListChosen, GoodChoice, GoodPicker
  <2>3. CASE v2.agent = None
    <3>1. /\ v2' = v2
          /\ (\E owner : Choice!Launch("switch", owner, row)) \/ v12' = v12
      BY <1>6, <2>3 DEF Choice!PickModel
    <3>2. GoodLaunch(v12')
      BY <3>1 DEF Choice!Launch, GoodLaunch
    <3> QED
      BY <2>1, <3>1, <3>2 DEF ListChosen, GoodPicker
  <2> QED
    BY <2>2, <2>3
<1>7. ASSUME Choice!CloseOverlay \/ Choice!SaveProfile \/ Choice!AskOther \/ Choice!Cancel
             \/ \E p \in Providers : Choice!OpenForm(p)
      PROVE  ChoiceInv'
  <2>1. UNCHANGED <<v2, v3, v4, v12>> /\ v6' \in {v6, None}
    BY <1>7 DEF Choice!CloseOverlay, Choice!SaveProfile, Choice!AskOther, Choice!Cancel,
                Choice!OpenForm
  <2> QED
    BY <2>1 DEF ListChosen, GoodPicker
<1>8. ASSUME Choice!OpenSession PROVE ChoiceInv'
  BY <1>8 DEF Choice!OpenSession, ListChosen, GoodLaunch
<1>9. ASSUME Choice!NewSession PROVE ChoiceInv'
  <2>1. v2' = Choice!NoChoice /\ v4' = Choice!EmptyList /\ UNCHANGED <<v3, v12>>
    BY <1>9 DEF Choice!NewSession
  <2> QED
    BY <2>1, NoneChosen DEF ListChosen, GoodPicker, GoodList, Choice!EmptyList
<1> QED
  BY <1>1, <1>3, <1>4, <1>5, <1>6, <1>7, <1>8, <1>9 DEF Choice!User

LEMMA ArrivalKeeps == ASSUME ChoiceInv, Choice!Answer PROVE ChoiceInv'
<1> USE DEF ChoiceInv
<1>1. ASSUME NEW ok \in BOOLEAN, Choice!CatalogAnswer(ok) PROVE ChoiceInv'
  <2> DEFINE cat == IF ok THEN [profile |-> v10.target, models |-> Choice!ListOf(v10.target),
                                state |-> "fresh", loading |-> FALSE]
                    ELSE [v3 EXCEPT !.loading = FALSE, !.state = "failed"]
  <2>1. /\ UNCHANGED <<v2, v4, v12>>
        /\ \/ v3' = cat /\ v6' = Choice!Refreshed(v6, v7, Choice!Built(v1, v2, cat, v4))
           \/ UNCHANGED <<v3, v6>>
    BY <1>1 DEF Choice!CatalogAnswer
  <2>2. GoodCatalog(cat)
    BY DEF GoodCatalog
  <2> HIDE DEF cat
  <2>3. GoodPicker(v6', v2)
    BY <2>1, BuiltIsGood, RefreshedIsGood DEF ListChosen
  <2> QED
    BY <2>1, <2>2, <2>3 DEF ListChosen
<1>2. ASSUME NEW ok \in BOOLEAN, Choice!AgentAnswer(ok) PROVE ChoiceInv'
  <2> DEFINE al == [agent |-> v10.target, models |-> IF ok THEN Choice!ListOf(v10.target) ELSE {},
                    loading |-> FALSE]
  <2>1. /\ UNCHANGED <<v2, v3, v12>>
        /\ \/ /\ v2.agent = v10.target /\ v4' = al
              /\ v6' = Choice!Refreshed(v6, v7, Choice!Built(v1, v2, v3, al))
           \/ UNCHANGED <<v4, v6>>
    BY <1>2 DEF Choice!AgentAnswer
  <2>2. GoodList(al) /\ al.agent = v10.target
    BY DEF GoodList
  <2> HIDE DEF al
  <2>3. GoodPicker(v6', v2)
    BY <2>1, <2>2, BuiltIsGood, RefreshedIsGood
  <2> QED
    BY <2>1, <2>2, <2>3 DEF ListChosen
<1>3. ASSUME NEW saved \in BOOLEAN, Choice!SetupAnswer(saved) PROVE ChoiceInv'
  <2> DEFINE cat == IF v3.profile = v7.profile THEN [Choice!NoCatalog EXCEPT !.profile = v7.profile]
                    ELSE v3
             sel == IF v3.profile = v7.profile THEN v5 + 1 ELSE v5
  <2>1. /\ UNCHANGED <<v2, v4, v12>>
        /\ \/ UNCHANGED <<v3, v6>>
           \/ /\ v6' = Choice!Refreshed(v6, None, Choice!Built(v1', v2, cat, v4))
              /\ Choice!RequestCatalog(v1', cat, sel) \/ v3' = cat
    BY <1>3 DEF Choice!SetupAnswer
  <2>2. GoodCatalog(cat)
    BY EmptyCatalog
  <2> HIDE DEF cat, sel
  <2>3. GoodCatalog(v3')
    BY <2>1, <2>2, RequestedCatalog
  <2>4. GoodPicker(v6', v2)
    BY <2>1, BuiltIsGood, RefreshedIsGood DEF ListChosen
  <2> QED
    BY <2>1, <2>3, <2>4 DEF ListChosen
<1>4. ASSUME NEW s, Choice!SetSession(s), UNCHANGED <<v3, v6, v12>> PROVE ChoiceInv'
  <2>1. v2' = Choice!NoChoice /\ v4' = Choice!EmptyList
    BY <1>4 DEF Choice!SetSession
  <2> QED
    BY <1>4, <2>1, NoneChosen DEF ListChosen, GoodPicker, GoodList, Choice!EmptyList
<1>5. ASSUME Choice!Switched \/ \E s : Choice!Adopt(s) PROVE ChoiceInv'
  BY <1>4, <1>5 DEF Choice!Switched, Choice!Adopt
<1>6. ASSUME Choice!OtherAnswer \/ Choice!TurnEnds \/ Choice!OpenFails PROVE ChoiceInv'
  <2>1. UNCHANGED <<v2, v3, v4, v6, v12>>
    BY <1>6 DEF Choice!OtherAnswer, Choice!TurnEnds, Choice!OpenFails
  <2> QED
    BY <2>1 DEF ListChosen
<1> QED
  BY <1>1, <1>2, <1>3, <1>5, <1>6 DEF Choice!Answer

(* Whatever the order of answers, choices, saves and session changes, an agent *)
(* is started with a model of its own list or none, and a list that says it is *)
(* loaded is its provider's or its agent's (tui/app.rs).                       *)
THEOREM AgentsGetTheirModels == PartsSpec => []AgentGetsItsModel
<1> DEFINE Inv == part = "choice" => ChoiceInv
<1>1. PartsInit => Inv
  BY ChoiceInit DEF PartsInit
<1>2. Inv /\ [PartsNext]_<<part, sseVars, vars, pool>> => Inv'
  <2> SUFFICES ASSUME part = "choice", ChoiceInv, Choice!Next \/ UNCHANGED pool PROVE ChoiceInv'
    BY PartStep
  <2>1. CASE UNCHANGED pool
    BY <2>1 DEF pool, ChoiceInv, ListChosen
  <2> QED
    BY <2>1, UserKeeps, ArrivalKeeps DEF Choice!Next
<1>3. Inv => AgentGetsItsModel
  BY DEF ChoiceInv, ListChosen, GoodChoice, GoodList, GoodCatalog, GoodLaunch, AgentGetsItsModel,
         Choice!AgentGetsItsModel
<1> HIDE DEF Inv
<1> QED
  BY <1>1, <1>2, <1>3, PTL DEF PartsSpec
-----------------------------------------------------------------------------
(* Startup (v1 is whether there is a cache, v2 the profiles with a key, v4 the  *)
(* cache files, v5 the catalog, v6 the resolutions, v8 what was answered to     *)
(* them and v9 those whose list another replaced).                              *)

Configured == DOMAIN FallbackModel

Entry == [list : Lists \cup {None}, fresh : BOOLEAN, tried : BOOLEAN]

BootTyped ==
    /\ v1 \in BOOLEAN /\ v2 \subseteq Configured
    /\ v3 \in [Configured -> Lists \cup {None}]
    /\ v4 \in [Configured -> Entry]
    /\ v5 \in [Configured -> Lists \cup {None}]
    /\ DOMAIN v6 = Flows
    /\ v8 \in [Flows -> [Configured -> Lists \cup {None}]]

Distinct(order) == \A i, j \in DOMAIN order : order[i] = order[j] => i = j

\* Where a resolution stands in its chain, and what it has in hand.
Walking(f) ==
    /\ DOMAIN v6[f] = {"pc", "request", "order", "at", "snap", "got", "has", "model"}
    /\ v6[f].order \in Seq(Configured) /\ Distinct(v6[f].order)
    /\ v6[f].at \in 1 .. Len(v6[f].order) + 1
    /\ v6[f].pc \in {"idle", "trying", "probing", "loading", "probed", "loaded", "choosing",
                     "ready", "rejected"}
    /\ v6[f].pc = "idle" => v6[f].order = <<>>
    /\ v6[f].pc \notin {"idle", "rejected"} => v6[f].at <= Len(v6[f].order)
    /\ v6[f].pc \in {"probing", "loading", "probed", "loaded"} => v1 /\ v6[f].snap \in Entry
    /\ v6[f].pc \in {"probed", "loaded"} => v6[f].got = v8[f][Boot!Tried(f)]

\* On a chain only who answered now, with a key, is chosen from.
Answered(f) ==
    Boot!Strict(f) =>
        /\ v6[f].pc \in {"probing", "probed", "choosing", "ready"} => Boot!Tried(f) \in v2
        /\ v1 => v6[f].pc \notin {"loading", "loaded"}
        /\ v1 /\ v6[f].pc = "choosing" =>
             /\ v6[f].has /\ v8[f][Boot!Tried(f)] # None
             /\ v5[Boot!Tried(f)] = v8[f][Boot!Tried(f)] \/ f \in v9

\* Without a cache nothing is ever listed.
Unlisted(f) == ~v1 => (v6[f].pc = "choosing" => ~v6[f].has)

Living(f) ==
    v6[f].pc = "ready" /\ Boot!Strict(f) =>
        LET p == Boot!Tried(f) IN
        /\ v1 => v8[f][p] # None /\ (v6[f].model \in v8[f][p] \/ f \in v9)
        /\ ~v1 /\ ~Boot!Primary(f) => v6[f].model = Boot!Resolved(p, FallbackModel[p]).model

Cause(f, p) ==
    LET r == v6[f].request IN
    /\ v1 /\ Boot!Strict(f) /\ p \in v2 /\ f \notin v9
    /\ v8[f][p] # None /\ r.model # None /\ r.model \in v8[f][p]
    => r.effort /\ r.model \in Weak

Passed(f) == \A i \in 1 .. Len(v6[f].order) : i < v6[f].at => Cause(f, v6[f].order[i])

FlowInv(f) == Walking(f) /\ Answered(f) /\ Unlisted(f) /\ Living(f) /\ Passed(f)

BootInv ==
    /\ BootTyped
    /\ ~v1 => \A p \in Configured : v5[p] = None
    /\ \A f \in Flows : FlowInv(f)

LEMMA ConfiguredIs == Boot!Profiles = Configured
  BY DEF Boot!Profiles, Configured

LEMMA BootInit == Boot!Init => BootInv
<1> SUFFICES ASSUME Boot!Init PROVE BootInv
  OBVIOUS
<1>1. BootTyped
  BY BootAssumption DEF Boot!Init, Boot!Profiles, BootTyped, Configured, Entry
<1>2. ASSUME NEW f \in Flows PROVE FlowInv(f)
  <2>1. v6[f] = Boot!Idle
    BY <1>2 DEF Boot!Init
  <2>2. Walking(f)
    BY <2>1 DEF Boot!Idle, Walking, Distinct
  <2> QED
    BY <2>1, <2>2 DEF Boot!Idle, FlowInv, Answered, Unlisted, Living, Passed, Boot!Strict
<1> QED
  BY <1>1, <1>2 DEF BootInv, Boot!Init, Boot!Profiles, Configured

(* A chain is of configured profiles, each once (Config::fallback_order). *)
LEMMA ChainIs ==
    ASSUME NEW p \in Configured
    PROVE  /\ Boot!Chain(p) \in Seq(Configured) /\ Boot!Chain(p) # <<>>
           /\ Distinct(Boot!Chain(p))
<1> DEFINE n == Len(Order) + (IF \E j \in DOMAIN Order : Order[j] = p THEN 0 ELSE 1)
           c == Boot!Chain(p)
<1>1. Len(Order) \in Nat /\ DOMAIN Order = 1 .. Len(Order) /\ \A i \in DOMAIN Order : Order[i] \in Configured
  BY BootAssumption DEF Configured
<1>2. n \in Nat \ {0}
  BY <1>1, BootAssumption DEF Configured
<1>3. c = [i \in 1 .. n |-> IF i = 1 THEN p
                   ELSE IF \E j \in 1 .. i - 1 : Order[j] = p THEN Order[i] ELSE Order[i - 1]]
  BY DEF Boot!Chain
<1>4. ASSUME NEW i \in 1 .. n, i # 1
      PROVE  /\ c[i] \in Configured /\ c[i] # p
             /\ (\E j \in 1 .. i - 1 : Order[j] = p) => i \in DOMAIN Order /\ c[i] = Order[i]
             /\ (~\E j \in 1 .. i - 1 : Order[j] = p) => i - 1 \in DOMAIN Order /\ c[i] = Order[i - 1]
  <2>1. CASE \E j \in 1 .. i - 1 : Order[j] = p
    <3> PICK j \in 1 .. i - 1 : Order[j] = p
      BY <2>1
    <3>1. j \in DOMAIN Order /\ i \in DOMAIN Order
      <4>1. n <= Len(Order) + 1
        BY <1>1
      <4>2. j \in DOMAIN Order
        BY <4>1, <1>1, <1>2, <1>4
      <4>3. n = Len(Order)
        BY <4>2
      <4> QED
        BY <4>2, <4>3, <1>1, <1>4
    <3> QED
      BY <3>1, <2>1, <1>1, <1>3, <1>4, BootAssumption
  <2>2. CASE ~\E j \in 1 .. i - 1 : Order[j] = p
    <3>1. i - 1 \in DOMAIN Order /\ i - 1 \in 1 .. i - 1
      BY <1>1, <1>2, <1>4
    <3> QED
      BY <3>1, <2>2, <1>1, <1>3, <1>4
  <2> QED
    BY <2>1, <2>2
<1> HIDE DEF c
<1>5. c \in [1 .. n -> Configured]
  <2>1. \A i \in 1 .. n : c[i] \in Configured
    BY <1>3, <1>4
  <2> QED
    BY <2>1, <1>3
<1> HIDE DEF n
<1>6. c \in Seq(Configured) /\ DOMAIN c = 1 .. n /\ Len(c) = n
  BY <1>5, <1>2
<1>7. ASSUME NEW i \in 1 .. n, NEW j \in 1 .. n, i < j PROVE c[i] # c[j]
  <2>1. CASE i = 1
    BY <2>1, <1>3, <1>4, <1>7
  <2>2. CASE i # 1
    <3>1. j # 1
      BY <1>7, <1>2
    <3>2. CASE ~\E k \in 1 .. j - 1 : Order[k] = p
      <4>1. ~\E k \in 1 .. i - 1 : Order[k] = p
        BY <3>2, <1>7, <1>2
      <4> QED
        BY <3>2, <4>1, <3>1, <2>2, <1>4, <1>7, BootAssumption
    <3>3. CASE \E k \in 1 .. j - 1 : Order[k] = p
      <4>1. \E k \in {i, i - 1} : k \in DOMAIN Order /\ c[i] = Order[k]
        BY <1>4, <2>2
      <4>2. j \in DOMAIN Order /\ c[j] = Order[j]
        BY <1>4, <3>1, <3>3
      <4> QED
        BY <4>1, <4>2, <1>7, <1>2, BootAssumption
    <3> QED
      BY <3>2, <3>3
  <2> QED
    BY <2>1, <2>2
<1>8. Distinct(c)
  <2> SUFFICES ASSUME NEW i \in 1 .. n, NEW j \in 1 .. n, i # j PROVE c[i] # c[j]
    BY <1>6 DEF Distinct
  <2> QED
    BY <1>7, <1>2
<1> QED
  BY <1>6, <1>8, <1>2 DEF c

(* primary_profile names a configured profile. *)
LEMMA PrimaryIs ==
    ASSUME NEW r \in Requested
    PROVE  Boot!PrimaryProfile(r).profile \in Configured
<1>1. \A name : Boot!NamedBy(name) # None => Boot!NamedBy(name) \in Configured
  BY BootAssumption DEF Boot!NamedBy, Configured
<1>2. Order[1] \in Configured
  BY BootAssumption DEF Configured
<1>3. r.profile # None => r.profile \in Configured
  BY BootAssumption DEF Configured
<1>4. LastUsed # None => LastUsed.profile \in Configured
  BY BootAssumption DEF Configured
<1> QED
  BY <1>1, <1>2, <1>3, <1>4 DEF Boot!PrimaryProfile

(* What a step does not touch: it moves one resolution, and replaces a list only *)
(* while it marks those that were about to choose from it.                       *)
LEMMA OthersKeep ==
    ASSUME BootInv, NEW f \in Flows, UNCHANGED <<v1, v2>>, v9 \subseteq v9',
           NEW g \in Flows \ {f}, v6'[g] = v6[g], v8'[g] = v8[g],
           v6[g].pc = "choosing" =>
               v5'[Boot!Tried(g)] = v5[Boot!Tried(g)] \/ g \in v9',
           ~v1 => v5' = v5
    PROVE  FlowInv(g)'
<1>1. FlowInv(g)
  BY DEF BootInv
<1>2. Walking(g)' /\ Boot!Tried(g)' = Boot!Tried(g) /\ Boot!Strict(g)' = Boot!Strict(g)
      /\ Boot!Primary(g)' = Boot!Primary(g)
  BY <1>1 DEF FlowInv, Walking, Boot!Tried, Boot!Strict, Boot!Primary
<1>3. Answered(g)' /\ Unlisted(g)'
  BY <1>1, <1>2 DEF FlowInv, Answered, Unlisted
<1>4. Living(g)'
  <2>1. ASSUME ~v1, NEW p \in Configured, NEW name PROVE Boot!Resolved(p, name)' = Boot!Resolved(p, name)
    BY <2>1 DEF Boot!Resolved, Boot!Listed
  <2>2. v6[g].pc = "ready" => Boot!Tried(g) \in Configured
    BY <1>1 DEF FlowInv, Walking, Boot!Tried
  <2> QED
    BY <1>1, <1>2, <2>1, <2>2 DEF FlowInv, Living
<1>5. Passed(g)'
  BY <1>1, <1>2 DEF FlowInv, Passed, Cause
<1> QED
  BY <1>2, <1>3, <1>4, <1>5 DEF FlowInv

(* A step that moves f and leaves the lists alone. *)
LEMMA FlowMoves ==
    ASSUME BootInv, NEW f \in Flows, NEW r, Boot!Set(f, r), UNCHANGED <<v1, v2, v3, v5, v8, v9>>,
           v4' \in [Configured -> Entry], FlowInv(f)'
    PROVE  BootInv'
<1>1. DOMAIN v6' = Flows /\ \A g \in Flows \ {f} : v6'[g] = v6[g]
  BY DEF BootInv, BootTyped, Boot!Set
<1>2. BootTyped'
  BY <1>1 DEF BootInv, BootTyped
<1>3. \A g \in Flows \ {f} : FlowInv(g)'
  BY <1>1, OthersKeep
<1> QED
  BY <1>2, <1>3 DEF BootInv

LEMMA TriedIs ==
    ASSUME BootInv, NEW f \in Flows, v6[f].pc \notin {"idle", "rejected"}
    PROVE  Boot!Tried(f) \in Configured /\ v6[f].at \in DOMAIN v6[f].order /\ v6[f].order # <<>>
  BY DEF BootInv, FlowInv, Walking, Boot!Tried

(* A candidate is skipped only for a cause. *)
LEMMA SkipKeeps ==
    ASSUME BootInv, NEW f \in Flows, Boot!Skip(f), v6[f].pc \notin {"idle", "rejected"},
           UNCHANGED <<v1, v2, v3, v5, v8, v9>>, v4' \in [Configured -> Entry],
           Cause(f, Boot!Tried(f))
    PROVE  BootInv'
<1> DEFINE pc == IF v6[f].at < Len(v6[f].order) THEN "trying" ELSE "rejected"
           r == [[v6[f] EXCEPT !.pc = pc] EXCEPT !.at = @ + 1, !.snap = None, !.got = None]
<1>1. Boot!Set(f, r)
  BY DEF Boot!Skip, Boot!To
<1>2. FlowInv(f)
  BY DEF BootInv
<1>3. v6'[f] = r
  BY <1>1 DEF Boot!Set, BootInv, BootTyped
<1>4. /\ v6'[f].pc = pc /\ v6'[f].at = v6[f].at + 1 /\ v6'[f].order = v6[f].order
      /\ v6'[f].request = v6[f].request /\ DOMAIN v6'[f] = DOMAIN v6[f]
  BY <1>2, <1>3 DEF FlowInv, Walking
<1> HIDE DEF r
<1>5. Walking(f)'
  <2>1. Len(v6[f].order) \in Nat
    BY <1>2 DEF FlowInv, Walking
  <2> QED
    BY <2>1, <1>2, <1>4 DEF FlowInv, Walking, Distinct
<1>6. Answered(f)' /\ Unlisted(f)' /\ Living(f)'
  BY <1>4 DEF Answered, Unlisted, Living
<1>7. Passed(f)'
  <2>1. Boot!Strict(f)' = Boot!Strict(f)
    BY <1>4 DEF Boot!Strict
  <2>2. \A p : Cause(f, p)' <=> Cause(f, p)
    BY <2>1, <1>4 DEF Cause
  <2>3. \A i \in 1 .. Len(v6[f].order) : i < v6[f].at + 1 => i < v6[f].at \/ i = v6[f].at
    BY <1>2 DEF FlowInv, Walking
  <2> QED
    BY <2>2, <2>3, <1>2, <1>4 DEF FlowInv, Passed, Boot!Tried
<1> QED
  BY <1>1, <1>5, <1>6, <1>7, FlowMoves DEF FlowInv

LEMMA BeginKeeps ==
    ASSUME BootInv, NEW f \in Flows, NEW q \in Requested, Boot!Begin(f, q)
    PROVE  BootInv'
<1> DEFINE first == Boot!PrimaryProfile(q)
           order == IF first.pinned THEN <<first.profile>> ELSE Boot!Chain(first.profile)
           r == [[v6[f] EXCEPT !.pc = "trying"] EXCEPT !.request = q, !.order = order]
<1>1. v6[f].pc = "idle" /\ Boot!Set(f, r) /\ UNCHANGED <<v1, v2, v3, v4, v5, v8, v9>>
  BY DEF Boot!Begin, Boot!To, Boot!shared
<1>2. order \in Seq(Configured) /\ order # <<>> /\ Distinct(order)
  <2>1. first.profile \in Configured
    BY PrimaryIs
  <2> HIDE DEF first
  <2> QED
    BY <2>1, ChainIs DEF Distinct
<1> HIDE DEF order
<1>3. FlowInv(f)
  BY DEF BootInv
<1>4. v6'[f] = r
  BY <1>1 DEF Boot!Set, BootInv, BootTyped
<1>5. /\ v6'[f].pc = "trying" /\ v6'[f].at = v6[f].at /\ v6'[f].order = order
      /\ DOMAIN v6'[f] = DOMAIN v6[f]
  BY <1>3, <1>4 DEF FlowInv, Walking
<1> HIDE DEF r
<1>6. v6[f].at = 1
  <2>1. v6[f].order = <<>> /\ v6[f].at \in 1 .. Len(v6[f].order) + 1
    BY <1>1, <1>3 DEF FlowInv, Walking
  <2> QED
    BY <2>1
<1>7. Len(order) \in Nat \ {0}
  BY <1>2
<1>8. Walking(f)'
  BY <1>2, <1>3, <1>5, <1>6, <1>7 DEF FlowInv, Walking, Distinct
<1>9. Answered(f)' /\ Unlisted(f)' /\ Living(f)' /\ Passed(f)'
  BY <1>5, <1>6 DEF Answered, Unlisted, Living, Passed
<1> QED
  BY <1>1, <1>8, <1>9, FlowMoves DEF FlowInv, BootInv, BootTyped

LEMMA MissingKeyKeeps ==
    ASSUME BootInv, NEW f \in Flows, Boot!MissingKey(f) PROVE BootInv'
<1>1. /\ v6[f].pc = "trying" /\ Boot!Tried(f) \notin v2 /\ Boot!Skip(f)
      /\ UNCHANGED <<v1, v2, v3, v4, v5, v8, v9>>
  BY DEF Boot!MissingKey, Boot!shared
<1> QED
  BY <1>1, SkipKeeps DEF Cause, BootInv, BootTyped

(* A step of f that leaves it at stage pc of the same candidate. *)
Stays(f, pc) ==
    /\ v6'[f].pc = pc /\ v6'[f].at = v6[f].at /\ v6'[f].order = v6[f].order
    /\ v6'[f].request = v6[f].request /\ DOMAIN v6'[f] = DOMAIN v6[f]

LEMMA StaysIs ==
    ASSUME NEW f \in Flows, FlowInv(f), NEW pc, Stays(f, pc)
    PROVE  /\ Boot!Tried(f)' = Boot!Tried(f) /\ Boot!Strict(f)' = Boot!Strict(f)
           /\ Boot!Primary(f)' = Boot!Primary(f)
  BY DEF Stays, Boot!Tried, Boot!Strict, Boot!Primary

LEMMA StaysWalking ==
    ASSUME BootInv, NEW f \in Flows, NEW pc, Stays(f, pc), UNCHANGED v1,
           v6[f].pc \notin {"idle", "rejected"},
           pc \in {"probing", "loading", "probed", "loaded", "choosing", "ready"},
           pc \in {"probing", "loading", "probed", "loaded"} => v1 /\ v6'[f].snap \in Entry,
           pc \in {"probed", "loaded"} => v6'[f].got = v8'[f][Boot!Tried(f)]
    PROVE  Walking(f)'
<1>1. FlowInv(f)
  BY DEF BootInv
<1>2. Boot!Tried(f)' = Boot!Tried(f)
  BY <1>1, StaysIs
<1> QED
  BY <1>1, <1>2 DEF Stays, FlowInv, Walking, Distinct

\* What was passed over stays passed over for a cause.
LEMMA StaysPassed ==
    ASSUME BootInv, NEW f \in Flows, NEW pc, Stays(f, pc), UNCHANGED <<v1, v2>>, v9 \subseteq v9',
           v6[f].pc \notin {"idle", "rejected"},
           \A p \in Configured : p # Boot!Tried(f) => v8'[f][p] = v8[f][p]
    PROVE  Passed(f)'
<1>1. FlowInv(f) /\ Walking(f)
  BY DEF BootInv, FlowInv
<1>2. Boot!Strict(f)' = Boot!Strict(f)
  BY <1>1, StaysIs
<1>3. ASSUME NEW i \in 1 .. Len(v6[f].order), i < v6[f].at
      PROVE  v6[f].order[i] \in Configured /\ v6[f].order[i] # Boot!Tried(f)
  <2>1. i \in DOMAIN v6[f].order /\ v6[f].at \in DOMAIN v6[f].order /\ i # v6[f].at
    BY <1>1, <1>3, TriedIs DEF Walking
  <2> QED
    BY <2>1, <1>1 DEF Walking, Distinct, Boot!Tried
<1>4. ASSUME NEW i \in 1 .. Len(v6[f].order), i < v6[f].at PROVE Cause(f, v6[f].order[i])'
  <2>1. Cause(f, v6[f].order[i])
    BY <1>1, <1>4 DEF FlowInv, Passed
  <2> QED
    BY <2>1, <1>2, <1>3, <1>4 DEF Stays, Cause
<1> QED
  BY <1>4 DEF Stays, Passed

(* What a list that comes in replaces. *)
LEMMA InsertIs ==
    ASSUME BootInv, NEW f \in Flows, NEW p \in Configured, NEW list \in Lists \cup {None},
           Boot!Insert(f, p, list)
    PROVE  /\ v5' \in [Configured -> Lists \cup {None}] /\ v5'[p] = list
           /\ v9 \subseteq v9'
           /\ \A g \in Flows \ {f} : v6[g].pc = "choosing" =>
                v5'[Boot!Tried(g)] = v5[Boot!Tried(g)] \/ g \in v9'
<1>1. v5' = [v5 EXCEPT ![p] = list] /\ v5 \in [Configured -> Lists \cup {None}]
  BY DEF Boot!Insert, BootInv, BootTyped
<1>2. v9 \subseteq v9' /\ \A g \in Flows \ {f} : v6[g].pc = "choosing" /\ Boot!Tried(g) = p => g \in v9'
  BY DEF Boot!Insert
<1>3. \A g \in Flows \ {f} : v6[g].pc = "choosing" => Boot!Tried(g) \in Configured
  BY TriedIs
<1> QED
  BY <1>1, <1>2, <1>3

(* A list is come by: f goes on to choose. *)
LEMMA ChoosingKeeps ==
    ASSUME BootInv, NEW f \in Flows, Stays(f, "choosing"), v6[f].pc \notin {"idle", "rejected"},
           UNCHANGED <<v1, v2, v3, v8>>, v4' \in [Configured -> Entry],
           DOMAIN v6' = Flows, \A g \in Flows \ {f} : v6'[g] = v6[g],
           \/ UNCHANGED <<v5, v9>>
           \/ \E list \in Lists \cup {None} : v1 /\ Boot!Insert(f, Boot!Tried(f), list),
           ~v1 => ~v6'[f].has,
           Boot!Strict(f) =>
               /\ Boot!Tried(f) \in v2
               /\ v1 => /\ v6'[f].has /\ v8[f][Boot!Tried(f)] # None
                        /\ v5'[Boot!Tried(f)] = v8[f][Boot!Tried(f)]
    PROVE  BootInv'
<1>1. FlowInv(f) /\ Boot!Tried(f) \in Configured
  BY TriedIs DEF BootInv
<1>2. /\ v5' \in [Configured -> Lists \cup {None}] /\ v9 \subseteq v9' /\ (~v1 => v5' = v5)
      /\ \A g \in Flows \ {f} : v6[g].pc = "choosing" =>
           v5'[Boot!Tried(g)] = v5[Boot!Tried(g)] \/ g \in v9'
  BY <1>1, InsertIs DEF BootInv, BootTyped
<1>3. \A g \in Flows \ {f} : FlowInv(g)'
  BY <1>2, OthersKeep
<1>4. Walking(f)'
  BY StaysWalking
<1>5. Answered(f)' /\ Unlisted(f)' /\ Living(f)'
  BY <1>1, StaysIs DEF Stays, Answered, Unlisted, Living
<1>6. Passed(f)'
  BY <1>2, StaysPassed
<1> QED
  BY <1>2, <1>3, <1>4, <1>5, <1>6 DEF BootInv, BootTyped, FlowInv

LEMMA SetStays ==
    ASSUME BootInv, NEW f \in Flows, NEW pc, NEW r,
           Boot!Set(f, r), DOMAIN r = DOMAIN v6[f], r.pc = pc, r.at = v6[f].at,
           r.order = v6[f].order, r.request = v6[f].request
    PROVE  /\ v6'[f] = r /\ Stays(f, pc) /\ DOMAIN v6' = Flows
           /\ \A g \in Flows \ {f} : v6'[g] = v6[g]
  BY DEF Boot!Set, BootInv, BootTyped, Stays

(* An entry read before: its list when it is recent, or stale and allowed. *)
LEMMA FromCacheKeeps ==
    ASSUME BootInv, NEW f \in Flows, NEW entry \in Entry, Boot!FromCache(f, entry), v1,
           v6[f].pc \notin {"idle", "rejected"},
           UNCHANGED <<v1, v2, v3, v8>>, v4' \in [Configured -> Entry], ~Boot!Strict(f)
    PROVE  BootInv'
<1> DEFINE usable == entry.list # None /\ (entry.fresh \/ StaleFallback)
           r == [[v6[f] EXCEPT !.pc = "choosing"] EXCEPT !.has = usable, !.snap = None, !.got = None]
<1>1. Boot!Set(f, r)
  BY DEF Boot!FromCache, Boot!To
<1>2. \/ UNCHANGED <<v5, v9>>
      \/ \E list \in Lists \cup {None} : v1 /\ Boot!Insert(f, Boot!Tried(f), list)
  BY DEF Boot!FromCache, Entry
<1>3. /\ DOMAIN r = DOMAIN v6[f] /\ r.pc = "choosing" /\ r.at = v6[f].at
      /\ r.order = v6[f].order /\ r.request = v6[f].request
  BY DEF BootInv, FlowInv, Walking
<1> HIDE DEF r
<1>4. /\ Stays(f, "choosing") /\ DOMAIN v6' = Flows /\ \A g \in Flows \ {f} : v6'[g] = v6[g]
  BY <1>1, <1>3, SetStays
<1> QED
  BY <1>2, <1>4, ChoosingKeeps

LEMMA LoadKeeps ==
    ASSUME BootInv, NEW f \in Flows, v6[f].pc = "trying", Boot!Load(f),
           Boot!Strict(f) => ~v1 /\ Boot!Tried(f) \in v2
    PROVE  BootInv'
<1> DEFINE p == Boot!Tried(f)
<1>1. p \in Configured /\ v4[p] \in Entry /\ v4 \in [Configured -> Entry]
  BY TriedIs DEF BootInv, BootTyped
<1>2. UNCHANGED <<v1, v2, v3, v4, v8>>
  BY DEF Boot!Load
<1>3. Walking(f)
  BY DEF BootInv, FlowInv
<1>4. CASE ~v1
  <2> DEFINE r == [[v6[f] EXCEPT !.pc = "choosing"] EXCEPT !.has = v5[p] # None]
  <2>1. Boot!Set(f, r) /\ UNCHANGED <<v5, v9>>
    BY <1>4 DEF Boot!Load, Boot!To
  <2>2. /\ DOMAIN r = DOMAIN v6[f] /\ r.pc = "choosing" /\ r.at = v6[f].at
        /\ r.order = v6[f].order /\ r.request = v6[f].request /\ r.has = (v5[p] # None)
    BY <1>3 DEF Walking
  <2>3. ~r.has
    BY <2>2, <1>1, <1>4 DEF BootInv
  <2> HIDE DEF r
  <2>4. /\ Stays(f, "choosing") /\ DOMAIN v6' = Flows /\ \A g \in Flows \ {f} : v6'[g] = v6[g]
        /\ ~v6'[f].has
    BY <2>1, <2>2, <2>3, SetStays
  <2> QED
    BY <2>1, <2>4, <1>1, <1>2, <1>4, ChoosingKeeps
<1>5. CASE v1 /\ ((v4[p].fresh /\ v4[p].list # None) \/ v4[p].tried)
  <2>1. Boot!FromCache(f, v4[p])
    BY <1>5 DEF Boot!Load
  <2> QED
    BY <2>1, <1>1, <1>2, <1>5, FromCacheKeeps
<1>6. CASE v1 /\ ~((v4[p].fresh /\ v4[p].list # None) \/ v4[p].tried)
  <2> DEFINE r == [[v6[f] EXCEPT !.pc = "loading"] EXCEPT !.snap = v4[p]]
  <2>1. Boot!Set(f, r) /\ UNCHANGED <<v5, v9>>
    BY <1>6 DEF Boot!Load, Boot!To
  <2>2. /\ DOMAIN r = DOMAIN v6[f] /\ r.pc = "loading" /\ r.at = v6[f].at
        /\ r.order = v6[f].order /\ r.request = v6[f].request /\ r.snap = v4[p]
    BY <1>3 DEF Walking
  <2> HIDE DEF r
  <2>3. Stays(f, "loading") /\ v6'[f].snap = v4[p]
    BY <2>1, <2>2, SetStays
  <2>4. Walking(f)'
    BY <2>3, <1>1, <1>2, <1>6, StaysWalking
  <2>5. Answered(f)' /\ Unlisted(f)' /\ Living(f)'
    <3>1. Boot!Strict(f)' = Boot!Strict(f)
      BY <2>3, StaysIs DEF BootInv
    <3> QED
      BY <3>1, <2>3, <1>6 DEF Stays, Answered, Unlisted, Living
  <2>6. Passed(f)'
    BY <2>1, <2>3, <1>2, StaysPassed
  <2> QED
    BY <2>1, <2>4, <2>5, <2>6, <1>1, <1>2, FlowMoves DEF FlowInv
<1> QED
  BY <1>4, <1>5, <1>6 DEF BootInv, BootTyped

LEMMA ConsultKeeps ==
    ASSUME BootInv, NEW f \in Flows, Boot!Consult(f) PROVE BootInv'
<1> DEFINE p == Boot!Tried(f)
<1>1. v6[f].pc = "trying" /\ Walking(f)
  BY DEF Boot!Consult, BootInv, FlowInv
<1>2. CASE Boot!Strict(f) /\ v1
  <2> DEFINE r == [[v6[f] EXCEPT !.pc = "probing"] EXCEPT !.snap = v4[p]]
  <2>1. Boot!Set(f, r) /\ UNCHANGED <<v1, v2, v3, v4, v5, v8, v9>> /\ p \in v2
    BY <1>2 DEF Boot!Consult, Boot!Probe, Boot!To, Boot!shared
  <2>2. /\ DOMAIN r = DOMAIN v6[f] /\ r.pc = "probing" /\ r.at = v6[f].at
        /\ r.order = v6[f].order /\ r.request = v6[f].request /\ r.snap = v4[p]
    BY <1>1 DEF Walking
  <2> HIDE DEF r
  <2>3. Stays(f, "probing") /\ v6'[f].snap = v4[p]
    BY <2>1, <2>2, SetStays
  <2>4. p \in Configured /\ v4[p] \in Entry /\ v4 \in [Configured -> Entry]
    BY <1>1, TriedIs DEF BootInv, BootTyped
  <2>5. Walking(f)'
    BY <2>1, <2>3, <2>4, <1>1, <1>2, StaysWalking
  <2>6. Answered(f)' /\ Unlisted(f)' /\ Living(f)'
    <3>1. Boot!Strict(f)' = Boot!Strict(f) /\ Boot!Tried(f)' = Boot!Tried(f)
      BY <2>3, StaysIs DEF BootInv
    <3> QED
      BY <3>1, <2>1, <2>3 DEF Stays, Answered, Unlisted, Living
  <2>7. Passed(f)'
    BY <2>1, <2>3, <1>1, StaysPassed
  <2> QED
    BY <2>1, <2>4, <2>5, <2>6, <2>7, FlowMoves DEF FlowInv
<1>3. CASE ~(Boot!Strict(f) /\ v1)
  BY <1>1, <1>3, LoadKeeps DEF Boot!Consult
<1> QED
  BY <1>2, <1>3

LEMMA AnswerProbe ==
    ASSUME BootInv, NEW f \in Flows, Boot!Answer(f) PROVE BootInv'
<1> DEFINE p == Boot!Tried(f)
           got == IF p \in v2 THEN v3[p] ELSE None
           pc == IF v6[f].pc = "probing" THEN "probed" ELSE "loaded"
           r == [[v6[f] EXCEPT !.pc = pc] EXCEPT !.got = got]
<1>1. /\ v6[f].pc \in {"probing", "loading"} /\ Boot!Set(f, r)
      /\ v8' = [v8 EXCEPT ![f][p] = got] /\ UNCHANGED <<v1, v2, v3, v4, v5, v9>>
  BY DEF Boot!Answer, Boot!To, Boot!shared
<1>2. FlowInv(f) /\ Walking(f)
  BY DEF BootInv, FlowInv
<1>3. /\ DOMAIN r = DOMAIN v6[f] /\ r.pc = pc /\ r.at = v6[f].at /\ r.snap = v6[f].snap
      /\ r.order = v6[f].order /\ r.request = v6[f].request /\ r.got = got
  BY <1>2 DEF Walking
<1> HIDE DEF r
<1>4. /\ Stays(f, pc) /\ v6'[f].got = got /\ v6'[f].snap = v6[f].snap
      /\ DOMAIN v6' = Flows /\ \A g \in Flows \ {f} : v6'[g] = v6[g]
  BY <1>1, <1>3, SetStays
<1>5. p \in Configured /\ got \in Lists \cup {None}
  BY <1>1, TriedIs DEF BootInv, BootTyped
<1>6. /\ v8' \in [Flows -> [Configured -> Lists \cup {None}]] /\ v8'[f][p] = got
      /\ \A g \in Flows \ {f} : v8'[g] = v8[g]
      /\ \A q \in Configured : q # p => v8'[f][q] = v8[f][q]
  BY <1>1, <1>5 DEF BootInv, BootTyped
<1>7. Walking(f)'
  BY <1>1, <1>2, <1>4, <1>6, StaysWalking DEF Walking
<1>8. Answered(f)' /\ Unlisted(f)' /\ Living(f)'
  <2>1. Boot!Strict(f)' = Boot!Strict(f) /\ Boot!Tried(f)' = Boot!Tried(f)
    BY <1>2, <1>4, StaysIs
  <2> QED
    BY <2>1, <1>1, <1>2, <1>4 DEF Stays, FlowInv, Answered, Unlisted, Living
<1>9. Passed(f)'
  BY <1>1, <1>4, <1>6, StaysPassed
<1>10. \A g \in Flows \ {f} : FlowInv(g)'
  BY <1>1, <1>4, <1>6, OthersKeep
<1> QED
  BY <1>1, <1>4, <1>6, <1>7, <1>8, <1>9, <1>10 DEF BootInv, BootTyped, FlowInv

LEMMA RecordKeeps ==
    ASSUME BootInv, NEW f \in Flows, Boot!Record(f) PROVE BootInv'
<1> DEFINE p == Boot!Tried(f)  got == v6[f].got
<1>1. v6[f].pc \in {"probed", "loaded"} /\ UNCHANGED <<v1, v2, v3, v8>>
  BY DEF Boot!Record
<1>2. FlowInv(f) /\ Walking(f) /\ v1 /\ v6[f].snap \in Entry /\ got = v8[f][p]
  BY <1>1 DEF BootInv, FlowInv, Walking
<1>3. p \in Configured /\ got \in Lists \cup {None} /\ v4 \in [Configured -> Entry]
  BY <1>1, <1>2, TriedIs DEF BootInv, BootTyped
<1>4. CASE got # None
  <2> DEFINE r == [[v6[f] EXCEPT !.pc = "choosing"] EXCEPT !.has = TRUE, !.snap = None, !.got = None]
  <2>1. /\ v4' = [v4 EXCEPT ![p] = [list |-> got, fresh |-> TRUE, tried |-> TRUE]]
        /\ Boot!Insert(f, p, got) /\ Boot!Set(f, r)
    BY <1>4 DEF Boot!Record, Boot!To
  <2>2. /\ DOMAIN r = DOMAIN v6[f] /\ r.pc = "choosing" /\ r.at = v6[f].at /\ r.has
        /\ r.order = v6[f].order /\ r.request = v6[f].request
    BY <1>2 DEF Walking
  <2> HIDE DEF r
  <2>3. /\ Stays(f, "choosing") /\ v6'[f].has
        /\ DOMAIN v6' = Flows /\ \A g \in Flows \ {f} : v6'[g] = v6[g]
    BY <2>1, <2>2, SetStays
  <2>4. v4' \in [Configured -> Entry]
    BY <2>1, <1>3 DEF Entry
  <2>5. v5'[p] = got
    BY <2>1, <1>3, InsertIs
  <2>6. Boot!Strict(f) => p \in v2
    BY <1>1, <1>2 DEF FlowInv, Answered
  <2> QED
    BY <2>1, <2>3, <2>4, <2>5, <2>6, <1>1, <1>2, <1>3, <1>4, ChoosingKeeps
<1>5. CASE got = None
  <2>1. v4' = [v4 EXCEPT ![p] = [v6[f].snap EXCEPT !.tried = TRUE]]
    BY <1>5 DEF Boot!Record
  <2>2. v4' \in [Configured -> Entry]
    BY <2>1, <1>2, <1>3 DEF Entry
  <2>3. CASE v6[f].pc = "probed"
    <3>1. Boot!Skip(f) /\ UNCHANGED <<v5, v9>>
      BY <2>3, <1>5 DEF Boot!Record
    <3>2. Cause(f, p)
      BY <1>2, <1>5 DEF Cause
    <3> QED
      BY <3>1, <3>2, <2>2, <1>1, SkipKeeps
  <2>4. CASE v6[f].pc = "loaded"
    <3>1. Boot!FromCache(f, v6[f].snap)
      BY <2>4, <1>5 DEF Boot!Record
    <3>2. ~Boot!Strict(f)
      BY <2>4, <1>2 DEF FlowInv, Answered
    <3> QED
      BY <3>1, <3>2, <2>2, <2>4, <1>1, <1>2, FromCacheKeeps
  <2> QED
    BY <2>3, <2>4, <1>1
<1> QED
  BY <1>4, <1>5

(* What a candidate with its list in hand settles on. *)
LEMMA SuitsIs ==
    ASSUME BootInv, NEW f \in Flows, v6[f].pc = "choosing", Boot!Strict(f), NEW i \in 1 .. 4,
           Boot!Suits(f, i), NEW m, m = Boot!Resolved(Boot!Tried(f), Boot!Wanted(f)[i]).model
    PROVE  LET p == Boot!Tried(f) IN
           /\ v1 => v8[f][p] # None /\ (m \in v8[f][p] \/ f \in v9)
           /\ ~v1 /\ ~Boot!Primary(f) => m = Boot!Resolved(p, FallbackModel[p]).model
<1> DEFINE p == Boot!Tried(f)
<1>1. FlowInv(f)
  BY DEF BootInv
<1>2. ASSUME v1 PROVE v8[f][p] # None /\ (m \in v8[f][p] \/ f \in v9)
  <2>1. v6[f].has /\ v8[f][p] # None /\ (v5[p] = v8[f][p] \/ f \in v9)
    BY <1>1, <1>2 DEF FlowInv, Answered
  <2>2. m \in Boot!Listed(p)
    BY <2>1 DEF Boot!Suits
  <2> QED
    BY <2>1, <2>2 DEF Boot!Listed
<1>3. ASSUME ~v1, ~Boot!Primary(f) PROVE m = Boot!Resolved(p, FallbackModel[p]).model
  <2>1. Boot!Wanted(f)[i] = FallbackModel[p]
    BY <1>1, <1>3 DEF FlowInv, Unlisted, Boot!Suits
  <2> QED
    BY <2>1
<1> QED
  BY <1>2, <1>3

\* A request's model in the list that was answered suits.
LEMMA RequestedSuits ==
    ASSUME BootInv, NEW f \in Flows, v6[f].pc = "choosing", v1, Boot!Strict(f), f \notin v9,
           v6[f].request.model # None, v6[f].request.model \in v8[f][Boot!Tried(f)]
    PROVE  /\ 1 \in Boot!Picks(f)
           /\ Boot!Resolved(Boot!Tried(f), Boot!Wanted(f)[1]).model = v6[f].request.model
<1> DEFINE p == Boot!Tried(f)  name == v6[f].request.model
<1>1. v6[f].has /\ v8[f][p] # None /\ v5[p] = v8[f][p]
  BY DEF BootInv, FlowInv, Answered
<1>2. name \in Boot!Listed(p)
  BY <1>1 DEF Boot!Listed
<1>3. Boot!Wanted(f)[1] = name
  BY DEF Boot!Wanted
<1>4. Boot!Resolved(p, name) = [profile |-> p, model |-> name]
  BY <1>2 DEF Boot!Resolved
<1>5. Boot!Suits(f, 1)
  BY <1>1, <1>2, <1>3, <1>4 DEF Boot!Suits
<1> QED
  BY <1>3, <1>4, <1>5 DEF Boot!Picks

LEMMA ChooseKeeps ==
    ASSUME BootInv, NEW f \in Flows, Boot!Choose(f) PROVE BootInv'
<1> DEFINE p == Boot!Tried(f)
           model(i) == Boot!Resolved(p, Boot!Wanted(f)[i]).model
           takes(i) == ~(v6[f].request.effort /\ model(i) \in Weak)
<1>1. v6[f].pc = "choosing" /\ UNCHANGED <<v1, v2, v3, v4, v5, v8, v9>>
  BY DEF Boot!Choose, Boot!shared
<1>2. FlowInv(f) /\ Walking(f) /\ v4 \in [Configured -> Entry]
  BY DEF BootInv, FlowInv, BootTyped
<1>3. ASSUME NEW i \in Boot!Picks(f), Boot!Set(f, [[v6[f] EXCEPT !.pc = "ready"] EXCEPT !.model = model(i)])
      PROVE  BootInv'
  <2> DEFINE r == [[v6[f] EXCEPT !.pc = "ready"] EXCEPT !.model = model(i)]
  <2>1. /\ DOMAIN r = DOMAIN v6[f] /\ r.pc = "ready" /\ r.at = v6[f].at
        /\ r.order = v6[f].order /\ r.request = v6[f].request /\ r.model = model(i)
    BY <1>2 DEF Walking
  <2>2. Boot!Set(f, r)
    BY <1>3
  <2> HIDE DEF r
  <2>3. Stays(f, "ready") /\ v6'[f].model = model(i)
    BY <2>1, <2>2, SetStays
  <2>4. Walking(f)'
    BY <2>3, <1>1, StaysWalking
  <2>5. /\ Boot!Strict(f)' = Boot!Strict(f) /\ Boot!Tried(f)' = p
        /\ Boot!Primary(f)' = Boot!Primary(f)
    BY <2>3, <1>2, StaysIs
  <2>6. Answered(f)' /\ Unlisted(f)'
    BY <2>3, <2>5, <1>1, <1>2 DEF Stays, FlowInv, Answered, Unlisted
  <2>7. Living(f)'
    <3>1. i \in 1 .. 4 /\ Boot!Suits(f, i)
      BY DEF Boot!Picks
    <3>2. ASSUME Boot!Strict(f)
          PROVE  /\ v1 => v8[f][p] # None /\ (model(i) \in v8[f][p] \/ f \in v9)
                 /\ ~v1 /\ ~Boot!Primary(f) => model(i) = Boot!Resolved(p, FallbackModel[p]).model
      BY <3>1, <3>2, <1>1, SuitsIs
    <3>3. ASSUME NEW name PROVE Boot!Resolved(p, name)' = Boot!Resolved(p, name)
      BY <2>5, <1>1 DEF Boot!Resolved, Boot!Listed
    <3> QED
      BY <3>2, <3>3, <2>3, <2>5, <1>1 DEF Living, Boot!Resolved, Boot!Listed
  <2>8. Passed(f)'
    BY <2>3, <1>1, StaysPassed
  <2> QED
    BY <2>2, <2>4, <2>6, <2>7, <2>8, <1>1, <1>2, FlowMoves DEF FlowInv
<1>4. ASSUME \A i \in Boot!Picks(f) : ~takes(i), Boot!Skip(f) PROVE BootInv'
  <2>1. Cause(f, p)
    <3> SUFFICES ASSUME v1, Boot!Strict(f), f \notin v9, v8[f][p] # None,
                        v6[f].request.model # None, v6[f].request.model \in v8[f][p]
                 PROVE  v6[f].request.effort /\ v6[f].request.model \in Weak
      BY DEF Cause
    <3>1. 1 \in Boot!Picks(f) /\ model(1) = v6[f].request.model
      BY <1>1, RequestedSuits
    <3> QED
      BY <3>1, <1>4
  <2> QED
    BY <2>1, <1>1, <1>2, <1>4, SkipKeeps
<1> QED
  BY <1>3, <1>4 DEF Boot!Choose, Boot!To

LEMMA ChangeKeeps ==
    ASSUME BootInv, NEW p \in Configured, Boot!Change(p) PROVE BootInv'
<1>1. UNCHANGED <<v1, v2, v4, v5, v6, v8, v9>>
  BY DEF Boot!Change
<1>2. v3' \in [Configured -> Lists \cup {None}]
  BY DEF Boot!Change, BootInv, BootTyped
<1>3. ASSUME NEW f \in Flows PROVE FlowInv(f)'
  <2>1. Walking(f)' /\ Answered(f)' /\ Unlisted(f)' /\ Passed(f)'
    BY <1>1 DEF BootInv, FlowInv, Walking, Answered, Unlisted, Passed, Cause, Distinct,
                Boot!Tried, Boot!Strict
  <2>2. Living(f)'
    BY <1>1 DEF BootInv, FlowInv, Living, Boot!Tried, Boot!Strict, Boot!Primary, Boot!Resolved,
                Boot!Listed
  <2> QED
    BY <2>1, <2>2 DEF FlowInv
<1> QED
  BY <1>1, <1>2, <1>3 DEF BootInv, BootTyped

LEMMA BootNext == ASSUME BootInv, Boot!Next PROVE BootInv'
<1>1. ASSUME NEW f \in Flows,
             \/ \E r \in Requested : Boot!Begin(f, r)
             \/ Boot!Consult(f) \/ Boot!MissingKey(f) \/ Boot!Answer(f) \/ Boot!Record(f)
             \/ Boot!Choose(f)
      PROVE  BootInv'
  BY <1>1, BeginKeeps, ConsultKeeps, MissingKeyKeeps, AnswerProbe, RecordKeeps, ChooseKeeps
<1>2. ASSUME NEW p \in Configured, Boot!Change(p) PROVE BootInv'
  BY <1>2, ChangeKeeps
<1> QED
  BY <1>1, <1>2, ConfiguredIs DEF Boot!Next

(* A session that starts on a chain of profiles starts on one whose key is     *)
(* there and whose endpoint answered this very resolution, with a model it     *)
(* listed; and no profile is passed over without a cause (startup.rs,          *)
(* resolve_startup).                                                           *)
THEOREM FailoverStaysHonest == PartsSpec => []FailoverIsHonest
<1> DEFINE Inv == part = "startup" => BootInv
<1>1. PartsInit => Inv
  BY BootInit DEF PartsInit
<1>2. Inv /\ [PartsNext]_<<part, sseVars, vars, pool>> => Inv'
  <2> SUFFICES ASSUME part = "startup", BootInv, Boot!Next \/ UNCHANGED pool PROVE BootInv'
    BY PartStep
  <2>1. CASE UNCHANGED pool
    <3>1. UNCHANGED <<v1, v2, v3, v4, v5, v6, v8, v9>>
      BY <2>1 DEF pool
    <3>2. ASSUME NEW f \in Flows PROVE FlowInv(f)'
      <4>1. Walking(f)' /\ Answered(f)' /\ Unlisted(f)' /\ Passed(f)'
        BY <3>1 DEF BootInv, FlowInv, Walking, Answered, Unlisted, Passed, Cause, Distinct,
                    Boot!Tried, Boot!Strict
      <4>2. Living(f)'
        BY <3>1 DEF BootInv, FlowInv, Living, Boot!Tried, Boot!Strict, Boot!Primary,
                    Boot!Resolved, Boot!Listed
      <4> QED
        BY <4>1, <4>2 DEF FlowInv
    <3> QED
      BY <3>1, <3>2 DEF BootInv, BootTyped
  <2> QED
    BY <2>1, BootNext
<1>3. Inv => FailoverIsHonest
  <2> SUFFICES ASSUME BootInv PROVE Boot!FailoverIsHonest
    BY DEF FailoverIsHonest
  <2>1. Boot!TypeOK
    BY ConfiguredIs DEF BootInv, BootTyped, Entry, FlowInv, Walking, Boot!TypeOK
  <2>2. Boot!StartsOnTheLiving
    BY DEF BootInv, FlowInv, Answered, Living, Boot!StartsOnTheLiving
  <2>3. Boot!SkippedForCause
    BY DEF BootInv, FlowInv, Passed, Cause, Boot!SkippedForCause
  <2> QED
    BY <2>1, <2>2, <2>3 DEF Boot!FailoverIsHonest
<1> HIDE DEF Inv
<1> QED
  BY <1>1, <1>2, <1>3, PTL DEF PartsSpec

-----------------------------------------------------------------------------
(* Tickets (v1 is what is in each folder, v2 the memory files, v3 the shards,   *)
(* v4 the router, v5 the memory index, v6 the commands, v9 a rollback cut).     *)

\* Consecutive numbers, as next_ticket_number and build_chain give them.
Run(a, m) == [i \in 1 .. m |-> a + i - 1]

LastChunk == Tkt!ChunkOf(MaxNumber)

CommandTyped(r) ==
    /\ DOMAIN r = {"kind", "pc", "ids", "todo", "entries", "memory", "drift", "result", "alone",
                   "fresh", "before"}
    /\ r.kind \in {"none", "new", "chain", "sync", "check"}
    /\ r.pc \in {"idle", "number", "exists", "folder", "task", "rollback", "collect", "shard",
                 "stale", "router", "memory", "done"}
    /\ r.drift \in BOOLEAN /\ r.alone \in BOOLEAN /\ r.fresh \in BOOLEAN
    /\ r.pc \in {"number", "exists", "folder", "task", "rollback"} => r.kind \in {"new", "chain"}

TicketsTyped ==
    /\ DOMAIN v6 = Commands
    /\ DOMAIN v1 \subseteq 1 .. MaxNumber
    /\ v3 = [chunk \in 1 .. LastChunk |-> v3[chunk]]

\* n numbers from a on are the command's, and it still has the last m of them to do.
Planned(r, a, n, m) ==
    /\ a \in Nat \ {0} /\ n \in Nat /\ m \in 0 .. n /\ a + n - 1 <= MaxNumber
    /\ r.ids = Run(a, n)
    /\ r.pc \in {"exists", "folder", "task", "rollback"} => r.todo = Run(a + n - m, m)
    /\ r.pc = "exists" => m = n
    /\ r.pc = "task" => m > 0
    /\ r.pc \in {"idle", "number"} => n = 0

\* What a command that nothing came between has done to the folders.
Undisturbed(r, a, n, m) ==
    /\ n > 0 => r.before = 1 .. a - 1
    /\ r.pc \in {"number", "exists"} => DOMAIN v1 = r.before
    /\ r.pc = "folder" => DOMAIN v1 = r.before \cup a .. a + n - m - 1
    /\ r.pc = "task" => DOMAIN v1 = r.before \cup a .. a + n - m
    /\ r.pc \in {"folder", "task"} => \A k \in a .. a + n - m - 1 : v1[k] = "task"
    /\ r.pc \in {"collect", "shard", "stale", "router", "memory"} =>
         /\ DOMAIN v1 = r.before \cup a .. a + n - 1
         /\ \A k \in a .. a + n - 1 : v1[k] = "task"
    /\ r.pc = "rollback" =>
         r.before \subseteq DOMAIN v1 /\ DOMAIN v1 \subseteq r.before \cup a + n - m .. a + n - 1
    /\ r.pc = "done" =>
         /\ r.result = "rolled_back" => DOMAIN v1 = r.before
         /\ r.result = "ok" => \A k \in a .. a + n - 1 : v1[k] = "task"
         /\ Tkt!Gapless(r.before) /\ ~v9 => Tkt!Gapless(DOMAIN v1)

Numbering(r) ==
    \E a, n, m \in Nat : Planned(r, a, n, m) /\ (r.alone => Undisturbed(r, a, n, m))

New(r, chunk) == Tkt!Listing(r.entries, chunk)

\* The chunks up to p are as the entries say, or counted as drift.
Seen(r, p) ==
    IF r.kind = "check"
    THEN r.drift <=> \E chunk \in 1 .. p : New(r, chunk) # {} /\ v3[chunk] # New(r, chunk)
    ELSE \A chunk \in 1 .. p : New(r, chunk) # {} => v3[chunk] = New(r, chunk)

\* What a command that nothing came between since it collected has indexed.
Indexed(r) ==
    /\ r.pc \in {"idle", "number", "exists", "folder", "task", "collect"} => ~r.fresh /\ ~r.drift
    /\ r.pc = "shard" =>
         \E p \in 1 .. LastChunk + 1 : r.todo = Run(p, LastChunk + 1 - p) /\ (r.fresh => Seen(r, p - 1))
    /\ r.fresh /\ r.pc \in {"shard", "stale", "router", "memory"} =>
         r.entries = Tkt!Entries /\ r.memory = v2
    /\ r.fresh /\ r.pc = "stale" => Seen(r, LastChunk)
    /\ r.fresh /\ r.pc = "router" =>
         IF r.kind = "check" THEN r.drift <=> v3 # Tkt!Shards(r.entries)
         ELSE v3 = Tkt!Shards(r.entries)
    /\ r.fresh /\ r.pc = "memory" =>
         LET listed == v3 = Tkt!Shards(r.entries) /\ v4 = v3 IN
         IF r.kind = "check" THEN r.drift <=> ~listed ELSE listed
    /\ r.fresh /\ r.pc = "done" /\ r.result \in {"ok", "drift"} =>
         LET listed == v3 = Tkt!Shards(Tkt!Entries) /\ v4 = v3 /\ (v2 # "none" => v5 = v2) IN
         IF r.result = "ok" THEN listed ELSE ~listed

CommandInv(r) == CommandTyped(r) /\ Numbering(r) /\ Indexed(r)

TicketsInv == TicketsTyped /\ \A r \in {v6[c] : c \in Commands} : CommandInv(r)

LEMMA LastChunkIs == LastChunk \in Nat
<1>1. (MaxNumber - 1) \div ShardSize \in Int /\ (MaxNumber - 1) \div ShardSize >= 0
  BY TicketsAssumption
<1> QED
  BY <1>1 DEF LastChunk, Tkt!ChunkOf

LEMMA EmptyRun == ASSUME NEW a \in Nat, NEW m \in Nat PROVE Run(a, m) = <<>> <=> m = 0
<1>1. Run(a, m) \in Seq(Int) /\ Len(Run(a, m)) = m
  BY DEF Run
<1> QED
  BY <1>1

LEMMA RunOn ==
    ASSUME NEW a \in Nat, NEW m \in Nat, m > 0
    PROVE  Head(Run(a, m)) = a /\ Tail(Run(a, m)) = Run(a + 1, m - 1)
<1>1. Run(a, m) \in Seq(Int) /\ Len(Run(a, m)) = m /\ \A i \in 1 .. m : Run(a, m)[i] = a + i - 1
  BY DEF Run
<1>2. Run(a + 1, m - 1) \in Seq(Int) /\ Len(Run(a + 1, m - 1)) = m - 1
      /\ \A i \in 1 .. m - 1 : Run(a + 1, m - 1)[i] = a + 1 + i - 1
  BY DEF Run
<1>3. Head(Run(a, m)) = a
  BY <1>1
<1>4. Tail(Run(a, m)) \in Seq(Int) /\ Len(Tail(Run(a, m))) = m - 1
      /\ \A i \in 1 .. m - 1 : Tail(Run(a, m))[i] = Run(a, m)[i + 1]
  BY <1>1
<1>5. \A i \in 1 .. m - 1 : Tail(Run(a, m))[i] = Run(a + 1, m - 1)[i]
  BY <1>1, <1>2, <1>4
<1> HIDE DEF Run
<1>6. Tail(Run(a, m)) = Run(a + 1, m - 1)
  BY <1>2, <1>4, <1>5, SeqEqual
<1> QED
  BY <1>3, <1>6

(* Numbers without a gap are all the numbers up to the largest. *)
LEMMA GaplessIs ==
    ASSUME NEW S, S \subseteq 1 .. MaxNumber
    PROVE  LET a == Tkt!Max(S \cup {0}) + 1 IN
           /\ a \in Nat \ {0} /\ a - 1 \in S \cup {0}
           /\ Tkt!Gapless(S) => S = 1 .. a - 1
<1> DEFINE T == S \cup {0}
           above == {n \in Nat : \A k \in T : k <= n}
<1>1. MaxNumber \in above
  BY TicketsAssumption
<1>2. PICK b \in above : \A n \in above : b <= n
  BY <1>1, Least
<1>3. b \in T
  <2> SUFFICES ASSUME b \notin T PROVE FALSE
    OBVIOUS
  <2>1. b # 0 /\ b - 1 \in Nat
    OBVIOUS
  <2>2. \A k \in T : k <= b - 1
    <3> TAKE k \in T
    <3>1. k <= b /\ k # b /\ k \in Nat
      BY TicketsAssumption
    <3> QED
      BY <3>1, <2>1
  <2> QED
    BY <2>1, <2>2, <1>2
<1>4. Tkt!Max(T) \in T /\ \A k \in T : Tkt!Max(T) >= k
  <2>1. \E x \in T : \A k \in T : x >= k
    BY <1>2, <1>3, TicketsAssumption
  <2> QED
    BY <2>1 DEF Tkt!Max
<1>5. Tkt!Max(T) \in Nat
  <2>1. T \subseteq Nat
    BY TicketsAssumption
  <2> HIDE DEF T
  <2> QED
    BY <1>4, <2>1
<1>6. ASSUME Tkt!Gapless(S) PROVE S = 1 .. Tkt!Max(T)
  <2>1. S \subseteq 1 .. Tkt!Max(T)
    BY <1>4, <1>5, TicketsAssumption
  <2>2. 1 .. Tkt!Max(T) \subseteq S
    <3>1. CASE Tkt!Max(T) \in S
      BY <3>1, <1>6 DEF Tkt!Gapless
    <3>2. CASE Tkt!Max(T) = 0
      BY <3>2
    <3> QED
      BY <3>1, <3>2, <1>4
  <2> QED
    BY <2>1, <2>2
<1> HIDE DEF T
<1>7. Tkt!Max(T) + 1 - 1 = Tkt!Max(T)
  BY <1>5
<1> QED
  BY <1>4, <1>5, <1>6, <1>7 DEF T

(* No gap opens where the next numbers are taken. *)
LEMMA GaplessGrows ==
    ASSUME NEW S, NEW a \in Nat \ {0}, NEW b \in Int, b >= a => S = 1 .. a - 1,
           Tkt!Gapless(S), S \subseteq Nat
    PROVE  Tkt!Gapless(S \cup a .. b)
<1>1. CASE b >= a
  BY <1>1 DEF Tkt!Gapless
<1>2. CASE b < a
  <2>1. a .. b = {}
    BY <1>2
  <2> QED
    BY <2>1
<1> QED
  BY <1>1, <1>2

-----------------------------------------------------------------------------

LEMMA EntriesStand ==
    ASSUME UNCHANGED v1 PROVE Tkt!Entries' = Tkt!Entries
  BY DEF Tkt!Entries, Tkt!Existing

LEMMA SetIs ==
    ASSUME TicketsInv, NEW c \in Commands, NEW r, Tkt!Set(c, r)
    PROVE  /\ DOMAIN v6' = Commands /\ v6'[c] = r
           /\ \A d \in Commands \ {c} :
                v6'[d] = [v6[d] EXCEPT !.alone = FALSE, !.fresh = FALSE]
  BY DEF TicketsInv, TicketsTyped, Tkt!Set

(* Whatever happens to the files, a command that was disturbed promises nothing. *)
LEMMA DisturbedHolds ==
    ASSUME NEW r, CommandInv(r), NEW s, s = [r EXCEPT !.alone = FALSE, !.fresh = FALSE]
    PROVE  CommandTyped(s) /\ ~s.alone /\ Numbering(s)' /\ Indexed(s)'
<1>1. CommandTyped(s) /\ ~s.alone /\ ~s.fresh /\ s.pc = r.pc /\ s.ids = r.ids /\ s.todo = r.todo
  BY DEF CommandInv, CommandTyped
<1>2. Numbering(s)'
  <2>1. PICK a, n, m \in Nat : Planned(r, a, n, m)
    BY DEF CommandInv, Numbering
  <2>2. Planned(s, a, n, m)
    BY <2>1, <1>1 DEF Planned
  <2> QED
    BY <2>2, <1>1 DEF Numbering, Planned
<1>3. Indexed(s)'
  BY <1>1 DEF CommandInv, Indexed, Seen
<1> QED
  BY <1>1, <1>2, <1>3

(* A step of a command that leaves its own record right. *)
LEMMA CommandMoves ==
    ASSUME TicketsInv, NEW c \in Commands, NEW r, Tkt!Set(c, r),
           DOMAIN v1' \subseteq 1 .. MaxNumber, v3' = [chunk \in 1 .. LastChunk |-> v3'[chunk]],
           CommandTyped(r), Numbering(r)', Indexed(r)'
    PROVE  TicketsInv'
<1>1. /\ DOMAIN v6' = Commands /\ v6'[c] = r
      /\ \A d \in Commands \ {c} : v6'[d] = [v6[d] EXCEPT !.alone = FALSE, !.fresh = FALSE]
  BY SetIs
<1>2. CommandInv(r)'
  BY DEF CommandInv, CommandTyped
<1>3. ASSUME NEW d \in Commands \ {c}, NEW s, s = v6'[d] PROVE CommandInv(s)'
  <2>1. PICK q : q = v6[d]
    OBVIOUS
  <2>2. CommandInv(q) /\ s = [q EXCEPT !.alone = FALSE, !.fresh = FALSE]
    BY <1>1, <1>3, <2>1 DEF TicketsInv
  <2>3. CommandTyped(s) /\ Numbering(s)' /\ Indexed(s)'
    BY <2>2, DisturbedHolds
  <2> QED
    BY <2>3 DEF CommandInv, CommandTyped
<1>4. \A s \in {v6'[d] : d \in Commands} : CommandInv(s)'
  BY <1>1, <1>2, <1>3
<1> QED
  BY <1>1, <1>4 DEF TicketsInv, TicketsTyped

LEMMA NumberingIs ==
    ASSUME NEW s, NEW a \in Nat, NEW n \in Nat, NEW m \in Nat, Planned(s, a, n, m),
           s.alone => Undisturbed(s, a, n, m)'
    PROVE  Numbering(s)'
  BY DEF Numbering, Planned

(* The record of a command, with its numbers. *)
LEMMA CommandIs ==
    ASSUME TicketsInv, NEW c \in Commands
    PROVE  \E r : \E a, n, m \in Nat :
             /\ r = v6[c] /\ CommandTyped(r) /\ Indexed(r)
             /\ Planned(r, a, n, m) /\ (r.alone => Undisturbed(r, a, n, m))
  BY DEF TicketsInv, CommandInv, Numbering

LEMMA FilesTypedStay ==
    ASSUME TicketsInv
    PROVE  /\ DOMAIN v1 \subseteq 1 .. MaxNumber /\ v3 = [chunk \in 1 .. LastChunk |-> v3[chunk]]
           /\ UNCHANGED v1 => DOMAIN v1' \subseteq 1 .. MaxNumber
           /\ UNCHANGED v3 => v3' = [chunk \in 1 .. LastChunk |-> v3'[chunk]]
  BY DEF TicketsInv, TicketsTyped

LEMMA TicketsInit == Tkt!Init => TicketsInv
<1> SUFFICES ASSUME Tkt!Init PROVE TicketsInv
  OBVIOUS
<1>1. TicketsTyped
  <2>1. v3 = [chunk \in 1 .. LastChunk |-> Tkt!Listing(Tkt!Entries, chunk)]
    BY DEF Tkt!Init, Tkt!Shards, Tkt!Chunks, LastChunk
  <2>2. DOMAIN v1 \subseteq 1 .. MaxNumber
    BY TicketsAssumption DEF Tkt!Init
  <2>3. DOMAIN v6 = Commands
    BY DEF Tkt!Init
  <2> HIDE DEF LastChunk
  <2> QED
    BY <2>1, <2>2, <2>3 DEF TicketsTyped
<1>2. CommandTyped(Tkt!Idle) /\ Indexed(Tkt!Idle)
  BY DEF Tkt!Idle, CommandTyped, Indexed
<1>3. Numbering(Tkt!Idle)
  <2>1. Run(1, 0) = <<>>
    BY EmptyRun
  <2>2. Planned(Tkt!Idle, 1, 0, 0)
    BY <2>1, TicketsAssumption DEF Tkt!Idle, Planned
  <2> QED
    BY <2>2 DEF Numbering, Tkt!Idle
<1> QED
  BY <1>1, <1>2, <1>3 DEF TicketsInv, CommandInv, Tkt!Init

LEMMA BeginCommandKeeps ==
    ASSUME TicketsInv, NEW c \in Commands, NEW kind \in {"new", "chain", "sync", "check"},
           Tkt!Begin(c, kind)
    PROVE  TicketsInv'
<1> DEFINE pc == IF kind \in {"new", "chain"} THEN "number" ELSE "collect"
<1> PICK s : s = [Tkt!Idle EXCEPT !.kind = kind, !.alone = TRUE, !.before = DOMAIN v1, !.pc = pc]
  OBVIOUS
<1>1. Tkt!Set(c, s) /\ UNCHANGED <<v1, v2, v3, v4, v5, v9>>
  BY DEF Tkt!Begin, Tkt!Existing, Tkt!files
<1>2. /\ CommandTyped(s) /\ s.pc = pc /\ s.ids = <<>> /\ s.before = DOMAIN v1 /\ ~s.fresh
      /\ ~s.drift
  BY DEF Tkt!Idle, CommandTyped
<1>3. Planned(s, 1, 0, 0)
  <2>1. Run(1, 0) = <<>>
    BY EmptyRun
  <2> QED
    BY <2>1, <1>2, TicketsAssumption DEF Planned
<1>4. Undisturbed(s, 1, 0, 0)'
  BY <1>1, <1>2 DEF Undisturbed
<1>5. Indexed(s)'
  BY <1>2 DEF Indexed
<1> QED
  BY <1>1, <1>2, <1>3, <1>4, <1>5, NumberingIs, FilesTypedStay, CommandMoves

(* How a command ends: what it has indexed no longer matters unless it says so. *)
LEMMA EndedIs ==
    ASSUME TicketsInv, NEW c \in Commands, NEW result, NEW s, s = Tkt!Ended(c, result)
    PROVE  /\ CommandTyped(s) /\ s.pc = "done" /\ s.result = result /\ s.ids = v6[c].ids
           /\ s.before = v6[c].before /\ s.alone = v6[c].alone /\ s.fresh = v6[c].fresh
           /\ result \notin {"ok", "drift"} => Indexed(s)'
<1>1. CommandTyped(v6[c])
  BY CommandIs
<1>2. /\ CommandTyped(s) /\ s.pc = "done" /\ s.result = result /\ s.ids = v6[c].ids
      /\ s.before = v6[c].before /\ s.alone = v6[c].alone /\ s.fresh = v6[c].fresh
  BY <1>1 DEF Tkt!Ended, CommandTyped
<1> QED
  BY <1>2 DEF Indexed

\* The same numbers, nothing of them to do.
LEMMA EndedPlanned ==
    ASSUME NEW r, NEW a \in Nat, NEW n \in Nat, NEW m \in Nat, Planned(r, a, n, m),
           NEW s, s.pc = "done", s.ids = r.ids
    PROVE  Planned(s, a, n, m)
  BY DEF Planned

LEMMA NumberKeeps ==
    ASSUME TicketsInv, NEW c \in Commands, Tkt!Number(c) PROVE TicketsInv'
<1> PICK first, length :
      /\ first = Tkt!Max(DOMAIN v1 \cup {0}) + 1
      /\ length = IF v6[c].kind = "chain" THEN ChainLength ELSE 1
  OBVIOUS
<1>1. PICK r : \E a, n, m \in Nat :
        /\ r = v6[c] /\ CommandTyped(r) /\ Indexed(r)
        /\ Planned(r, a, n, m) /\ (r.alone => Undisturbed(r, a, n, m))
  BY CommandIs
<1>2. PICK a, n, m \in Nat :
        /\ r = v6[c] /\ CommandTyped(r) /\ Indexed(r)
        /\ Planned(r, a, n, m) /\ (r.alone => Undisturbed(r, a, n, m))
  BY <1>1
<1>3. r.pc = "number" /\ UNCHANGED <<v1, v2, v3, v4, v5, v9>>
  BY <1>2 DEF Tkt!Number, Tkt!files
<1>4. first \in Nat \ {0} /\ (Tkt!Gapless(DOMAIN v1) => DOMAIN v1 = 1 .. first - 1)
  BY FilesTypedStay, GaplessIs
<1>5. length \in Nat
  BY TicketsAssumption
<1>6. CASE ~Tkt!Gapless(DOMAIN v1)
  <2> PICK s : s = Tkt!Ended(c, "refused")
    OBVIOUS
  <2>1. Tkt!Set(c, s)
    BY <1>6 DEF Tkt!Number, Tkt!Existing
  <2>2. s.alone => Undisturbed(s, a, n, m)'
    BY <1>2, <1>3, EndedIs DEF Undisturbed, Planned, Tkt!Gapless
  <2> QED
    BY <2>1, <2>2, <1>2, <1>3, EndedIs, EndedPlanned, NumberingIs, FilesTypedStay, CommandMoves
<1>7. CASE Tkt!Gapless(DOMAIN v1)
  <2> DEFINE pc == IF v6[c].kind = "chain" THEN "exists" ELSE "folder"
  <2> PICK s : s = [v6[c] EXCEPT !.ids = Run(first, length), !.todo = Run(first, length), !.pc = pc]
    OBVIOUS
  <2>1. Tkt!Set(c, s) /\ first + length - 1 <= MaxNumber
    BY <1>7 DEF Tkt!Number, Tkt!Existing, Run
  <2>2. /\ CommandTyped(s) /\ s.pc = pc /\ s.ids = Run(first, length) /\ s.todo = Run(first, length)
        /\ s.before = r.before /\ s.alone = r.alone /\ s.fresh = r.fresh /\ s.drift = r.drift
    BY <1>2, <1>3 DEF CommandTyped
  <2>3. Planned(s, first, length, length)
    BY <2>1, <2>2, <1>4, <1>5 DEF Planned
  <2>4. s.alone => Undisturbed(s, first, length, length)'
    <3> SUFFICES ASSUME s.alone PROVE Undisturbed(s, first, length, length)'
      OBVIOUS
    <3>1. s.before = DOMAIN v1 /\ DOMAIN v1 = 1 .. first - 1
      BY <2>2, <1>2, <1>3, <1>4, <1>7 DEF Undisturbed
    <3>2. first \in Nat /\ length \in Nat
      BY <1>4, <1>5
    <3>3. first + length - length - 1 = first - 1
      BY <3>2
    <3>4. first .. first - 1 = {}
      BY <3>2
    <3>5. s.pc \in {"exists", "folder"}
      BY <2>2
    <3> QED
      BY <3>1, <3>3, <3>4, <3>5, <2>2, <1>3 DEF Undisturbed
  <2>5. Indexed(s)'
    BY <2>2, <1>2, <1>3 DEF Indexed
  <2> QED
    BY <2>1, <2>2, <2>3, <2>4, <2>5, <1>3, <1>4, <1>5, NumberingIs, FilesTypedStay, CommandMoves
<1> QED
  BY <1>6, <1>7

\* The number h a command is at.
At(r, a, n, m, h) ==
    /\ h = a + n - m /\ h >= a /\ h <= a + n - 1 /\ a > 0 /\ n > 0 /\ m > 0
    /\ m - 1 \in 0 .. n /\ a + n - (m - 1) = h + 1
    /\ Head(r.todo) = h /\ Tail(r.todo) = Run(h + 1, m - 1)

(* Where a command is in its numbers, in plain arithmetic. *)
LEMMA NextNumber ==
    ASSUME NEW r, NEW a \in Nat, NEW n \in Nat, NEW m \in Nat, Planned(r, a, n, m),
           r.pc \in {"exists", "folder", "task", "rollback"}, r.todo # <<>>
    PROVE  \E h \in 1 .. MaxNumber : At(r, a, n, m, h)
<1>0. PICK h : h = a + n - m
  OBVIOUS
<1>1. a \in Nat /\ a > 0 /\ m <= n /\ a + n - 1 <= MaxNumber
  BY DEF Planned
<1>2. h \in Nat /\ h >= a /\ r.todo = Run(h, m)
  BY <1>0, <1>1 DEF Planned
<1>3. m > 0
  <2>1. m # 0
    BY <1>2, EmptyRun
  <2> QED
    BY <2>1
<1>4. Head(r.todo) = h /\ Tail(r.todo) = Run(h + 1, m - 1)
  BY <1>2, <1>3, RunOn
<1> QED
  BY <1>0, <1>1, <1>2, <1>3, <1>4, TicketsAssumption DEF At

LEMMA NothingLeft ==
    ASSUME NEW r, NEW a \in Nat, NEW n \in Nat, NEW m \in Nat, Planned(r, a, n, m),
           r.pc \in {"exists", "folder", "task", "rollback"}, r.todo = <<>>
    PROVE  m = 0
<1>1. a + n - m \in Nat /\ r.todo = Run(a + n - m, m)
  BY DEF Planned
<1> QED
  BY <1>1, EmptyRun

(* Up to its rollback an undisturbed command leaves no gap. *)
LEMMA GaplessHolds ==
    ASSUME NEW r, NEW a \in Nat, NEW n \in Nat, NEW m \in Nat, Planned(r, a, n, m),
           Undisturbed(r, a, n, m), DOMAIN v1 \subseteq 1 .. MaxNumber, Tkt!Gapless(r.before),
           r.pc \in {"number", "exists", "folder", "task", "collect", "shard", "stale", "router",
                     "memory"}
    PROVE  Tkt!Gapless(DOMAIN v1)
<1>1. a \in Nat \ {0} /\ m \in 0 .. n
  BY DEF Planned
<1>2. CASE r.pc \in {"number", "exists"}
  BY <1>2 DEF Undisturbed
<1>3. ASSUME NEW b \in Int, b <= a + n - 1, DOMAIN v1 = r.before \cup a .. b
      PROVE  Tkt!Gapless(DOMAIN v1)
  <2>1. b >= a => r.before = 1 .. a - 1
    BY <1>1, <1>3 DEF Undisturbed
  <2>2. r.before \subseteq Nat
    BY <1>3, TicketsAssumption
  <2>3. Tkt!Gapless(r.before \cup a .. b)
    BY <1>1, <2>1, <2>2, <1>3, GaplessGrows
  <2> QED
    BY <2>3, <1>3
<1>4. CASE r.pc = "folder"
  <2>1. a + n - m - 1 \in Int /\ a + n - m - 1 <= a + n - 1
    BY <1>1
  <2> QED
    BY <2>1, <1>3, <1>4 DEF Undisturbed
<1>5. CASE r.pc = "task"
  <2>1. a + n - m \in Int /\ a + n - m <= a + n - 1
    BY <1>1, <1>5 DEF Planned
  <2> QED
    BY <2>1, <1>3, <1>5 DEF Undisturbed
<1>6. CASE r.pc \in {"collect", "shard", "stale", "router", "memory"}
  <2>1. a + n - 1 \in Int /\ a + n - 1 <= a + n - 1
    BY <1>1
  <2> QED
    BY <2>1, <1>3, <1>6 DEF Undisturbed
<1> QED
  BY <1>2, <1>4, <1>5, <1>6

(* A step of a command whose numbers are told. *)
LEMMA CommandSteps ==
    ASSUME TicketsInv, NEW c \in Commands, NEW s, Tkt!Set(c, s),
           NEW a \in Nat, NEW n \in Nat, NEW m \in Nat, Planned(s, a, n, m), CommandTyped(s),
           s.alone => Undisturbed(s, a, n, m)', Indexed(s)',
           DOMAIN v1' \subseteq 1 .. MaxNumber, v3' = [chunk \in 1 .. LastChunk |-> v3'[chunk]]
    PROVE  TicketsInv'
<1>1. Numbering(s)'
  BY NumberingIs
<1> QED
  BY <1>1, CommandMoves

(* A command that ends without having indexed anything. *)
LEMMA CommandEnds ==
    ASSUME TicketsInv, NEW c \in Commands, NEW result, result \notin {"ok", "drift"},
           NEW s, s = Tkt!Ended(c, result), Tkt!Set(c, s),
           NEW a \in Nat, NEW n \in Nat, NEW m \in Nat, Planned(v6[c], a, n, m),
           s.alone => Undisturbed(s, a, n, m)',
           DOMAIN v1' \subseteq 1 .. MaxNumber, v3' = [chunk \in 1 .. LastChunk |-> v3'[chunk]]
    PROVE  TicketsInv'
<1>1. CommandTyped(s) /\ s.pc = "done" /\ s.ids = v6[c].ids /\ Indexed(s)'
  BY EndedIs
<1>2. Planned(s, a, n, m)
  BY <1>1, EndedPlanned
<1> QED
  BY <1>1, <1>2, CommandSteps

LEMMA ExistsKeeps ==
    ASSUME TicketsInv, NEW c \in Commands, Tkt!Exists(c) PROVE TicketsInv'
<1>1. PICK r : \E a, n, m \in Nat :
        /\ r = v6[c] /\ CommandTyped(r) /\ Indexed(r)
        /\ Planned(r, a, n, m) /\ (r.alone => Undisturbed(r, a, n, m))
  BY CommandIs
<1>2. PICK a, n, m \in Nat :
        /\ r = v6[c] /\ CommandTyped(r) /\ Indexed(r)
        /\ Planned(r, a, n, m) /\ (r.alone => Undisturbed(r, a, n, m))
  BY <1>1
<1>3. r.pc = "exists" /\ UNCHANGED <<v1, v2, v3, v4, v5, v9>>
  BY <1>2 DEF Tkt!Exists, Tkt!files
<1>4. ASSUME Tkt!Set(c, Tkt!Ended(c, "refused")) PROVE TicketsInv'
  <2>0. PICK s : s = Tkt!Ended(c, "refused")
    OBVIOUS
  <2>1. s.alone => Undisturbed(s, a, n, m)'
    <3>1. /\ s.pc = "done" /\ s.result = "refused" /\ s.before = r.before /\ s.alone = r.alone
      BY <2>0, <1>2, EndedIs
    <3> QED
      BY <3>1, <1>2, <1>3 DEF Undisturbed
  <2>2. Tkt!Set(c, s) /\ Planned(v6[c], a, n, m)
    BY <2>0, <1>2, <1>4
  <2>3. DOMAIN v1' \subseteq 1 .. MaxNumber /\ v3' = [chunk \in 1 .. LastChunk |-> v3'[chunk]]
    BY <1>3, FilesTypedStay
  <2> QED
    BY <2>0, <2>1, <2>2, <2>3, CommandEnds
<1>5. ASSUME Tkt!Set(c, Tkt!To(c, "folder")) PROVE TicketsInv'
  <2> PICK s : s = Tkt!To(c, "folder")
    OBVIOUS
  <2>1. /\ CommandTyped(s) /\ s.pc = "folder" /\ s.ids = r.ids /\ s.todo = r.todo
        /\ s.before = r.before /\ s.alone = r.alone /\ s.fresh = r.fresh /\ s.drift = r.drift
    BY <1>2, <1>3 DEF CommandTyped, Tkt!To
  <2>2. Planned(s, a, n, m)
    BY <2>1, <1>2, <1>3 DEF Planned
  <2>3. s.alone => Undisturbed(s, a, n, m)'
    <3>1. a .. a + n - m - 1 = {}
      <4>1. m = n /\ a + n - m = a
        BY <1>2, <1>3 DEF Planned
      <4> QED
        BY <4>1
    <3> QED
      BY <3>1, <2>1, <1>2, <1>3 DEF Undisturbed
  <2>4. Indexed(s)'
    BY <2>1, <1>2, <1>3 DEF Indexed
  <2> QED
    BY <2>1, <2>2, <2>3, <2>4, <1>3, <1>5, FilesTypedStay, CommandSteps
<1> QED
  BY <1>4, <1>5 DEF Tkt!Exists

(* What a folder that is written to leaves of the others. *)
LEMMA WithIs ==
    ASSUME NEW h, NEW content, v1' = Tkt!With(h, content)
    PROVE  /\ DOMAIN v1' = DOMAIN v1 \cup {h} /\ v1'[h] = content
           /\ \A k \in DOMAIN v1 : k # h => v1'[k] = v1[k]
  BY DEF Tkt!With, Tkt!Existing

LEMMA FolderKeeps ==
    ASSUME TicketsInv, NEW c \in Commands, Tkt!Folder(c) PROVE TicketsInv'
<1>1. PICK r : \E a, n, m \in Nat :
        /\ r = v6[c] /\ CommandTyped(r) /\ Indexed(r)
        /\ Planned(r, a, n, m) /\ (r.alone => Undisturbed(r, a, n, m))
  BY CommandIs
<1>2. PICK a, n, m \in Nat :
        /\ r = v6[c] /\ CommandTyped(r) /\ Indexed(r)
        /\ Planned(r, a, n, m) /\ (r.alone => Undisturbed(r, a, n, m))
  BY <1>1
<1> PICK s : s = Tkt!To(c, "task")
  OBVIOUS
<1>3. r.pc = "folder" /\ r.todo # <<>> /\ Tkt!Set(c, s) /\ UNCHANGED <<v2, v3, v4, v5, v9>>
  BY <1>2 DEF Tkt!Folder, Tkt!indexes
<1>0. PICK h \in 1 .. MaxNumber : At(r, a, n, m, h)
  <2>1. r.pc \in {"exists", "folder", "task", "rollback"} /\ r.todo # <<>>
    BY <1>3
  <2> QED
    BY <2>1, <1>2, NextNumber
<1>4. /\ h = a + n - m /\ h >= a /\ h <= a + n - 1 /\ a > 0 /\ n > 0 /\ m > 0
      /\ m - 1 \in 0 .. n /\ a + n - (m - 1) = h + 1
      /\ Head(r.todo) = h /\ Tail(r.todo) = Run(h + 1, m - 1)
  BY <1>0 DEF At
<1>5. DOMAIN v1' = DOMAIN v1 \cup {h} /\ \A k \in DOMAIN v1 : k # h => v1'[k] = v1[k]
  <2>1. CASE h \in DOMAIN v1
    BY <2>1, <1>2, <1>4 DEF Tkt!Folder, Tkt!Existing
  <2>2. CASE h \notin DOMAIN v1
    <3>1. v1' = Tkt!With(h, "bare")
      BY <2>2, <1>2, <1>4 DEF Tkt!Folder, Tkt!Existing
    <3> QED
      BY <3>1, WithIs
  <2> QED
    BY <2>1, <2>2
<1>6. /\ CommandTyped(s) /\ s.pc = "task" /\ s.ids = r.ids /\ s.todo = r.todo
      /\ s.before = r.before /\ s.alone = r.alone /\ s.fresh = r.fresh /\ s.drift = r.drift
  BY <1>2, <1>3 DEF CommandTyped, Tkt!To
<1>7. Planned(s, a, n, m)
  BY <1>2, <1>3, <1>4, <1>6 DEF Planned
<1>8. s.alone => Undisturbed(s, a, n, m)'
  <2> SUFFICES ASSUME s.alone PROVE Undisturbed(s, a, n, m)'
    OBVIOUS
  <2>1. /\ r.before = 1 .. a - 1 /\ DOMAIN v1 = r.before \cup a .. h - 1
        /\ \A k \in a .. h - 1 : v1[k] = "task"
    <3>1. Undisturbed(r, a, n, m) /\ a + n - m - 1 = h - 1
      BY <1>2, <1>4, <1>6
    <3> QED
      BY <3>1, <1>3, <1>4 DEF Undisturbed
  <2>2. DOMAIN v1' = r.before \cup a .. h
    <3>1. a .. h = a .. h - 1 \cup {h}
      BY <1>4
    <3> QED
      BY <3>1, <2>1, <1>5
  <2>3. ASSUME NEW k \in a .. h - 1 PROVE v1'[k] = "task"
    <3>1. k \in DOMAIN v1 /\ v1[k] = "task"
      BY <2>1
    <3>2. k # h
      OBVIOUS
    <3> QED
      BY <3>1, <3>2, <1>5
  <2>4. a + n - m = h /\ a + n - m - 1 = h - 1
    BY <1>4
  <2>5. /\ s.pc = "task" /\ s.before = 1 .. a - 1 /\ DOMAIN v1' = s.before \cup a .. a + n - m
        /\ \A k \in a .. a + n - m - 1 : v1'[k] = "task"
    BY <2>1, <2>2, <2>3, <2>4, <1>6
  <2> QED
    BY <2>5 DEF Undisturbed
<1>9. Indexed(s)'
  BY <1>2, <1>3, <1>6 DEF Indexed
<1>10. DOMAIN v1' \subseteq 1 .. MaxNumber
  BY <1>4, <1>5, FilesTypedStay
<1> QED
  BY <1>3, <1>6, <1>7, <1>8, <1>9, <1>10, FilesTypedStay, CommandSteps

LEMMA LastOrBefore ==
    ASSUME NEW a \in Int, NEW h \in Int, NEW k \in a .. h
    PROVE  k = h \/ (k \in a .. h - 1 /\ k # h)
OBVIOUS

LEMMA TaskKeeps ==
    ASSUME TicketsInv, NEW c \in Commands, Tkt!Task(c) PROVE TicketsInv'
<1>1. PICK r : \E a, n, m \in Nat :
        /\ r = v6[c] /\ CommandTyped(r) /\ Indexed(r)
        /\ Planned(r, a, n, m) /\ (r.alone => Undisturbed(r, a, n, m))
  BY CommandIs
<1>2. PICK a, n, m \in Nat :
        /\ r = v6[c] /\ CommandTyped(r) /\ Indexed(r)
        /\ Planned(r, a, n, m) /\ (r.alone => Undisturbed(r, a, n, m))
  BY <1>1
<1> PICK s : s = [[r EXCEPT !.pc = "folder"] EXCEPT !.todo = Tail(@)]
  OBVIOUS
<1>3. /\ r.pc = "task" /\ Tkt!Set(c, s) /\ v1' = Tkt!With(Head(r.todo), "task")
      /\ UNCHANGED <<v2, v3, v4, v5, v9>>
  BY <1>2 DEF Tkt!Task, Tkt!indexes, Tkt!To
<1>0. PICK h \in 1 .. MaxNumber : At(r, a, n, m, h)
  <2>1. r.pc \in {"exists", "folder", "task", "rollback"} /\ r.todo # <<>>
    <3>1. m > 0 /\ a + n - m \in Nat /\ r.todo = Run(a + n - m, m)
      BY <1>2, <1>3 DEF Planned
    <3> QED
      BY <3>1, <1>3, EmptyRun
  <2> QED
    BY <2>1, <1>2, NextNumber
<1>4. /\ h = a + n - m /\ h >= a /\ h <= a + n - 1 /\ a > 0 /\ n > 0 /\ m > 0
      /\ m - 1 \in 0 .. n /\ a + n - (m - 1) = h + 1
      /\ Head(r.todo) = h /\ Tail(r.todo) = Run(h + 1, m - 1)
  BY <1>0 DEF At
<1>5. /\ DOMAIN v1' = DOMAIN v1 \cup {h} /\ v1'[h] = "task"
      /\ \A k \in DOMAIN v1 : k # h => v1'[k] = v1[k]
  BY <1>3, <1>4, WithIs
<1>6. /\ CommandTyped(s) /\ s.pc = "folder" /\ s.ids = r.ids /\ s.todo = Run(h + 1, m - 1)
      /\ s.before = r.before /\ s.alone = r.alone /\ s.fresh = r.fresh /\ s.drift = r.drift
  BY <1>2, <1>3, <1>4 DEF CommandTyped
<1>7. Planned(s, a, n, m - 1)
  BY <1>2, <1>4, <1>6 DEF Planned
<1>8. s.alone => Undisturbed(s, a, n, m - 1)'
  <2> SUFFICES ASSUME s.alone PROVE Undisturbed(s, a, n, m - 1)'
    OBVIOUS
  <2>1. /\ r.before = 1 .. a - 1 /\ DOMAIN v1 = r.before \cup a .. h
        /\ \A k \in a .. h - 1 : v1[k] = "task"
    <3>1. Undisturbed(r, a, n, m) /\ a + n - m = h /\ a + n - m - 1 = h - 1
      BY <1>2, <1>4, <1>6
    <3> QED
      BY <3>1, <1>3, <1>4 DEF Undisturbed
  <2>2. DOMAIN v1' = r.before \cup a .. h
    BY <2>1, <1>4, <1>5
  <2>3. ASSUME NEW k \in a .. h PROVE v1'[k] = "task"
    <3>1. k = h \/ (k \in a .. h - 1 /\ k # h)
      BY LastOrBefore
    <3>2. CASE k = h
      BY <3>2, <1>5
    <3>3. CASE k \in a .. h - 1 /\ k # h
      <4>1. k \in DOMAIN v1 /\ v1[k] = "task"
        BY <3>3, <2>1
      <4> QED
        BY <4>1, <3>3, <1>5
    <3> QED
      BY <3>1, <3>2, <3>3
  <2>4. a + n - (m - 1) - 1 = h
    BY <1>4
  <2> QED
    BY <2>1, <2>2, <2>3, <2>4, <1>6 DEF Undisturbed
<1>9. Indexed(s)'
  BY <1>2, <1>3, <1>6 DEF Indexed
<1>10. DOMAIN v1' \subseteq 1 .. MaxNumber
  BY <1>4, <1>5, FilesTypedStay
<1>11. m - 1 \in Nat
  BY <1>4
<1> QED
  BY <1>3, <1>6, <1>7, <1>8, <1>9, <1>10, <1>11, FilesTypedStay, CommandSteps


LEMMA ScaffoldedKeeps ==
    ASSUME TicketsInv, NEW c \in Commands, Tkt!Scaffolded(c) PROVE TicketsInv'
<1>1. PICK r : \E a, n, m \in Nat :
        /\ r = v6[c] /\ CommandTyped(r) /\ Indexed(r)
        /\ Planned(r, a, n, m) /\ (r.alone => Undisturbed(r, a, n, m))
  BY CommandIs
<1>2. PICK a, n, m \in Nat :
        /\ r = v6[c] /\ CommandTyped(r) /\ Indexed(r)
        /\ Planned(r, a, n, m) /\ (r.alone => Undisturbed(r, a, n, m))
  BY <1>1
<1>3. r.pc = "folder" /\ r.todo = <<>> /\ UNCHANGED <<v1, v2, v3, v4, v5, v9>>
  BY <1>2 DEF Tkt!Scaffolded, Tkt!files
<1>4. m = 0
  <2>1. r.pc \in {"exists", "folder", "task", "rollback"} /\ r.todo = <<>>
    BY <1>3
  <2> QED
    BY <2>1, <1>2, NothingLeft
<1>5. ASSUME r.alone
      PROVE  /\ n > 0 => r.before = 1 .. a - 1
             /\ DOMAIN v1 = r.before \cup a .. a + n - 1
             /\ \A k \in a .. a + n - 1 : v1[k] = "task"
             /\ Tkt!Gapless(r.before) => Tkt!Gapless(DOMAIN v1)
  <2>1. a + n - m - 1 = a + n - 1
    BY <1>4
  <2>2. /\ n > 0 => r.before = 1 .. a - 1
        /\ DOMAIN v1 = r.before \cup a .. a + n - 1
        /\ \A k \in a .. a + n - 1 : v1[k] = "task"
    BY <2>1, <1>2, <1>3, <1>5 DEF Undisturbed
  <2>3. Tkt!Gapless(r.before) => Tkt!Gapless(DOMAIN v1)
    BY <1>2, <1>3, <1>5, FilesTypedStay, GaplessHolds
  <2> QED
    BY <2>2, <2>3
<1>6. ASSUME Tkt!Set(c, Tkt!Ended(c, "ok")) PROVE TicketsInv'
  <2>0. PICK s : s = Tkt!Ended(c, "ok")
    OBVIOUS
  <2>1. /\ CommandTyped(s) /\ s.pc = "done" /\ s.result = "ok" /\ s.ids = r.ids
        /\ s.before = r.before /\ s.alone = r.alone /\ s.fresh = r.fresh
    BY <2>0, <1>2, EndedIs
  <2>2. s.alone => Undisturbed(s, a, n, m)'
    BY <2>1, <1>3, <1>5 DEF Undisturbed, Tkt!Gapless
  <2>3. Indexed(s)'
    BY <2>1, <1>2, <1>3 DEF Indexed
  <2>4. Planned(s, a, n, m)
    BY <2>1, <1>2, EndedPlanned
  <2> QED
    BY <2>0, <2>1, <2>2, <2>3, <2>4, <1>3, <1>6, FilesTypedStay, CommandSteps
<1>7. ASSUME Tkt!Set(c, Tkt!To(c, "collect")) PROVE TicketsInv'
  <2>0. PICK s : s = Tkt!To(c, "collect")
    OBVIOUS
  <2>1. /\ CommandTyped(s) /\ s.pc = "collect" /\ s.ids = r.ids
        /\ s.before = r.before /\ s.alone = r.alone /\ s.fresh = r.fresh /\ s.drift = r.drift
    BY <2>0, <1>2, <1>3 DEF CommandTyped, Tkt!To
  <2>2. s.alone => Undisturbed(s, a, n, m)'
    BY <2>1, <1>3, <1>5 DEF Undisturbed
  <2>3. Indexed(s)'
    BY <2>1, <1>2, <1>3 DEF Indexed
  <2>4. Planned(s, a, n, m)
    BY <2>1, <1>2 DEF Planned
  <2> QED
    BY <2>0, <2>1, <2>2, <2>3, <2>4, <1>3, <1>7, FilesTypedStay, CommandSteps
<1> QED
  BY <1>6, <1>7 DEF Tkt!Scaffolded

(* Until it rolls back, the folders are those it found and some of its own. *)
LEMMA OnlyItsOwn ==
    ASSUME NEW r, NEW a \in Nat, NEW n \in Nat, NEW m \in Nat, Planned(r, a, n, m),
           Undisturbed(r, a, n, m),
           r.pc \in {"folder", "task", "collect", "shard", "stale", "router", "memory"}
    PROVE  /\ r.before \subseteq DOMAIN v1 /\ DOMAIN v1 \subseteq r.before \cup a .. a + n - 1
           /\ n > 0 => r.before = 1 .. a - 1
<1>1. a \in Nat \ {0} /\ m \in 0 .. n
  BY DEF Planned
<1>2. n > 0 => r.before = 1 .. a - 1
  BY DEF Undisturbed
<1>3. CASE r.pc = "folder"
  BY <1>1, <1>2, <1>3 DEF Undisturbed
<1>4. CASE r.pc = "task"
  <2>1. m > 0 /\ DOMAIN v1 = r.before \cup a .. a + n - m
    BY <1>4 DEF Undisturbed, Planned
  <2> QED
    BY <1>1, <1>2, <2>1
<1>5. CASE r.pc \in {"collect", "shard", "stale", "router", "memory"}
  BY <1>1, <1>2, <1>5 DEF Undisturbed
<1> QED
  BY <1>3, <1>4, <1>5

(* A scaffold that is given up has all its folders to remove. *)
LEMMA GivesUp ==
    ASSUME TicketsInv, NEW c \in Commands, NEW s, s = Tkt!GiveUp(c), Tkt!Set(c, s),
           NEW r, r = v6[c], r.kind \in {"new", "chain"}, CommandTyped(r),
           NEW a \in Nat, NEW n \in Nat, NEW m \in Nat, Planned(r, a, n, m),
           r.alone => /\ r.before \subseteq DOMAIN v1'
                      /\ DOMAIN v1' \subseteq r.before \cup a .. a + n - 1
                      /\ n > 0 => r.before = 1 .. a - 1,
           DOMAIN v1' \subseteq 1 .. MaxNumber, v3' = [chunk \in 1 .. LastChunk |-> v3'[chunk]],
           r.pc \in {"folder", "task", "collect", "shard", "stale", "router", "memory"}
    PROVE  TicketsInv'
<1>1. /\ CommandTyped(s) /\ s.pc = "rollback" /\ s.ids = r.ids /\ s.todo = r.ids
      /\ s.before = r.before /\ s.alone = r.alone /\ s.fresh = r.fresh /\ s.drift = r.drift
  BY DEF CommandTyped, Tkt!To, Tkt!GiveUp
<1>2. a + n - n = a
  OBVIOUS
<1>3. Planned(s, a, n, n)
  BY <1>1, <1>2 DEF Planned
<1>4. s.alone => Undisturbed(s, a, n, n)'
  BY <1>1, <1>2 DEF Undisturbed
<1>5. Indexed(s)'
  BY <1>1 DEF Indexed
<1> QED
  BY <1>1, <1>3, <1>4, <1>5, CommandSteps

(* A command that fails or dies in the middle of a file. *)
LEMMA MayBreak ==
    ASSUME TicketsInv, NEW c \in Commands,
           v1' \in {v1} \cup IF v6[c].pc = "task"
                             THEN {Tkt!With(Head(v6[c].todo), "broken")} ELSE {},
           NEW r, r = v6[c], NEW a \in Nat, NEW n \in Nat, NEW m \in Nat, Planned(r, a, n, m),
           r.alone => Undisturbed(r, a, n, m)
    PROVE  DOMAIN v1' \subseteq 1 .. MaxNumber /\ (r.alone => DOMAIN v1' = DOMAIN v1)
<1>1. CASE v1' = v1
  BY <1>1, FilesTypedStay
<1>2. CASE r.pc = "task" /\ v1' = Tkt!With(Head(r.todo), "broken")
  <2>1. r.pc \in {"exists", "folder", "task", "rollback"} /\ r.todo # <<>>
    <3>1. m > 0 /\ a + n - m \in Nat /\ r.todo = Run(a + n - m, m)
      BY <1>2 DEF Planned
    <3> QED
      BY <3>1, <1>2, EmptyRun
  <2>2. PICK h \in 1 .. MaxNumber : At(r, a, n, m, h)
    BY <2>1, NextNumber
  <2>3. h = a + n - m /\ h >= a /\ a > 0 /\ Head(r.todo) = h
    BY <2>2 DEF At
  <2>4. DOMAIN v1' = DOMAIN v1 \cup {h}
    BY <2>3, <1>2, WithIs
  <2>5. r.alone => h \in DOMAIN v1
    <3>1. r.alone => DOMAIN v1 = r.before \cup a .. h
      BY <1>2, <2>3 DEF Undisturbed
    <3> QED
      BY <3>1, <2>3
  <2> QED
    BY <2>4, <2>5, FilesTypedStay
<1> QED
  BY <1>1, <1>2

LEMMA WriteFailsKeeps ==
    ASSUME TicketsInv, NEW c \in Commands, Tkt!WriteFails(c) PROVE TicketsInv'
<1>1. PICK r : \E a, n, m \in Nat :
        /\ r = v6[c] /\ CommandTyped(r) /\ Indexed(r)
        /\ Planned(r, a, n, m) /\ (r.alone => Undisturbed(r, a, n, m))
  BY CommandIs
<1>2. PICK a, n, m \in Nat :
        /\ r = v6[c] /\ CommandTyped(r) /\ Indexed(r)
        /\ Planned(r, a, n, m) /\ (r.alone => Undisturbed(r, a, n, m))
  BY <1>1
<1>3. r.pc \in {"folder", "task"} /\ UNCHANGED <<v2, v3, v4, v5, v9>>
  BY <1>2 DEF Tkt!WriteFails, Tkt!indexes
<1>4. DOMAIN v1' \subseteq 1 .. MaxNumber /\ (r.alone => DOMAIN v1' = DOMAIN v1)
  <2>1. v1' \in {v1} \cup IF v6[c].pc = "task"
                          THEN {Tkt!With(Head(v6[c].todo), "broken")} ELSE {}
    BY DEF Tkt!WriteFails
  <2> QED
    BY <2>1, <1>2, MayBreak
<1>5. CASE r.kind = "chain"
  <2>0. PICK s : s = Tkt!GiveUp(c)
    OBVIOUS
  <2>1. Tkt!Set(c, s)
    BY <2>0, <1>2, <1>5 DEF Tkt!WriteFails
  <2>2. r.alone => /\ r.before \subseteq DOMAIN v1'
                   /\ DOMAIN v1' \subseteq r.before \cup a .. a + n - 1
                   /\ n > 0 => r.before = 1 .. a - 1
    BY <1>2, <1>3, <1>4, OnlyItsOwn
  <2> QED
    BY <2>0, <2>1, <2>2, <1>2, <1>3, <1>4, <1>5, FilesTypedStay, GivesUp
<1>6. CASE r.kind # "chain"
  <2>0. PICK s : s = Tkt!Ended(c, "failed")
    OBVIOUS
  <2>1. Tkt!Set(c, s)
    BY <2>0, <1>2, <1>6 DEF Tkt!WriteFails
  <2>2. s.pc = "done" /\ s.result = "failed" /\ s.before = r.before /\ s.alone = r.alone
    BY <2>0, <1>2, EndedIs
  <2>3. s.alone => Undisturbed(s, a, n, m)'
    <3> SUFFICES ASSUME s.alone PROVE Undisturbed(s, a, n, m)'
      OBVIOUS
    <3>1. (n > 0 => r.before = 1 .. a - 1) /\ DOMAIN v1' = DOMAIN v1
      BY <2>2, <1>2, <1>4 DEF Undisturbed
    <3>2. Tkt!Gapless(r.before) => Tkt!Gapless(DOMAIN v1)
      BY <2>2, <1>2, <1>3, FilesTypedStay, GaplessHolds
    <3>3. Tkt!Gapless(r.before)' => Tkt!Gapless(DOMAIN v1)'
      BY <3>1, <3>2 DEF Tkt!Gapless
    <3> QED
      BY <3>1, <3>3, <2>2 DEF Undisturbed
  <2> QED
    BY <2>0, <2>1, <2>3, <1>2, <1>3, <1>4, FilesTypedStay, CommandEnds
<1> QED
  BY <1>5, <1>6

LEMMA ScaffoldRollbackKeeps ==
    ASSUME TicketsInv, NEW c \in Commands, Tkt!Rollback(c) PROVE TicketsInv'
<1>1. PICK r : \E a, n, m \in Nat :
        /\ r = v6[c] /\ CommandTyped(r) /\ Indexed(r)
        /\ Planned(r, a, n, m) /\ (r.alone => Undisturbed(r, a, n, m))
  BY CommandIs
<1>2. PICK a, n, m \in Nat :
        /\ r = v6[c] /\ CommandTyped(r) /\ Indexed(r)
        /\ Planned(r, a, n, m) /\ (r.alone => Undisturbed(r, a, n, m))
  BY <1>1
<1>3. r.pc = "rollback" /\ UNCHANGED <<v2, v3, v4, v5, v9>>
  BY <1>2 DEF Tkt!Rollback, Tkt!indexes
<1>4. r.pc \in {"exists", "folder", "task", "rollback"}
  BY <1>3
<1>5. CASE r.todo = <<>>
  <2>0. PICK s : s = Tkt!Ended(c, "rolled_back")
    OBVIOUS
  <2>1. Tkt!Set(c, s) /\ UNCHANGED v1
    BY <2>0, <1>2, <1>5 DEF Tkt!Rollback
  <2>2. s.pc = "done" /\ s.result = "rolled_back" /\ s.before = r.before /\ s.alone = r.alone
    BY <2>0, <1>2, EndedIs
  <2>3. m = 0
    BY <1>2, <1>4, <1>5, NothingLeft
  <2>4. a + n - m .. a + n - 1 = {}
    BY <2>3
  <2>5. s.alone => Undisturbed(s, a, n, m)'
    BY <2>1, <2>2, <2>4, <1>2, <1>3 DEF Undisturbed, Tkt!Gapless
  <2>6. DOMAIN v1' \subseteq 1 .. MaxNumber
    BY <2>1, FilesTypedStay
  <2> QED
    BY <2>0, <2>1, <2>5, <2>6, <1>2, <1>3, FilesTypedStay, CommandEnds
<1>6. CASE r.todo # <<>>
  <2>1. PICK h \in 1 .. MaxNumber : At(r, a, n, m, h)
    BY <1>2, <1>4, <1>6, NextNumber
  <2>2. /\ h = a + n - m /\ h >= a /\ h <= a + n - 1 /\ a > 0 /\ n > 0 /\ m > 0
        /\ m - 1 \in 0 .. n /\ a + n - (m - 1) = h + 1
        /\ Head(r.todo) = h /\ Tail(r.todo) = Run(h + 1, m - 1)
    BY <2>1 DEF At
  <2> PICK s : s = [r EXCEPT !.todo = Tail(@)]
    OBVIOUS
  <2>3. Tkt!Set(c, s) /\ DOMAIN v1' = DOMAIN v1 \ {h}
    BY <2>2, <1>2, <1>6 DEF Tkt!Rollback, Tkt!Without, Tkt!Existing
  <2>4. /\ CommandTyped(s) /\ s.pc = "rollback" /\ s.ids = r.ids /\ s.todo = Run(h + 1, m - 1)
        /\ s.before = r.before /\ s.alone = r.alone /\ s.fresh = r.fresh /\ s.drift = r.drift
    BY <2>2, <1>2, <1>3 DEF CommandTyped
  <2>5. Planned(s, a, n, m - 1)
    BY <2>2, <2>4, <1>2, <1>3 DEF Planned
  <2>6. s.alone => Undisturbed(s, a, n, m - 1)'
    <3> SUFFICES ASSUME s.alone PROVE Undisturbed(s, a, n, m - 1)'
      OBVIOUS
    <3>1. /\ r.before = 1 .. a - 1 /\ r.before \subseteq DOMAIN v1
          /\ DOMAIN v1 \subseteq r.before \cup h .. a + n - 1
      BY <2>2, <2>4, <1>2, <1>3 DEF Undisturbed
    <3>2. h \notin r.before /\ h .. a + n - 1 \subseteq {h} \cup h + 1 .. a + n - 1
      BY <3>1, <2>2
    <3>3. r.before \subseteq DOMAIN v1' /\ DOMAIN v1' \subseteq r.before \cup h + 1 .. a + n - 1
      BY <3>1, <3>2, <2>3
    <3> QED
      BY <3>1, <3>3, <2>2, <2>4 DEF Undisturbed
  <2>7. Indexed(s)'
    BY <2>4 DEF Indexed
  <2>8. DOMAIN v1' \subseteq 1 .. MaxNumber /\ m - 1 \in Nat
    BY <2>2, <2>3, FilesTypedStay
  <2> QED
    BY <2>3, <2>4, <2>5, <2>6, <2>7, <2>8, <1>3, FilesTypedStay, CommandSteps
<1> QED
  BY <1>5, <1>6

LEMMA RollbackFailsKeeps ==
    ASSUME TicketsInv, NEW c \in Commands, Tkt!RollbackFails(c) PROVE TicketsInv'
<1>1. PICK r : \E a, n, m \in Nat :
        /\ r = v6[c] /\ CommandTyped(r) /\ Indexed(r)
        /\ Planned(r, a, n, m) /\ (r.alone => Undisturbed(r, a, n, m))
  BY CommandIs
<1>2. PICK a, n, m \in Nat :
        /\ r = v6[c] /\ CommandTyped(r) /\ Indexed(r)
        /\ Planned(r, a, n, m) /\ (r.alone => Undisturbed(r, a, n, m))
  BY <1>1
<1>3. r.pc = "rollback" /\ v9' = TRUE /\ UNCHANGED <<v1, v2, v3, v4, v5>>
  BY <1>2 DEF Tkt!RollbackFails, Tkt!files
<1>4. PICK s : s = Tkt!Ended(c, "failed")
  OBVIOUS
<1>5. Tkt!Set(c, s)
  BY <1>4 DEF Tkt!RollbackFails
<1>6. s.pc = "done" /\ s.result = "failed" /\ s.before = r.before /\ s.alone = r.alone
  BY <1>4, <1>2, EndedIs
<1>7. s.alone => Undisturbed(s, a, n, m)'
  BY <1>2, <1>3, <1>6 DEF Undisturbed
<1>8. DOMAIN v1' \subseteq 1 .. MaxNumber
  BY <1>3, FilesTypedStay
<1> QED
  BY <1>2, <1>3, <1>4, <1>5, <1>7, <1>8, FilesTypedStay, CommandEnds

(* A write that is cut leaves every chunk its index, whole or in part. *)
LEMMA CutKeepsShards ==
    ASSUME TicketsInv, NEW c \in Commands, Tkt!CutIndex(c)
    PROVE  v3' = [chunk \in 1 .. LastChunk |-> v3'[chunk]]
<1>1. v3 = [chunk \in 1 .. LastChunk |-> v3[chunk]]
  BY FilesTypedStay
<1>2. UNCHANGED v3 \/ \E chunk : v3' = [v3 EXCEPT ![chunk] = Tkt!Cut]
  BY DEF Tkt!CutIndex, Tkt!indexes
<1> QED
  BY <1>1, <1>2

LEMMA CommandCrashKeeps ==
    ASSUME TicketsInv, NEW c \in Commands, Tkt!Crash(c) PROVE TicketsInv'
<1>1. PICK r : \E a, n, m \in Nat :
        /\ r = v6[c] /\ CommandTyped(r) /\ Indexed(r)
        /\ Planned(r, a, n, m) /\ (r.alone => Undisturbed(r, a, n, m))
  BY CommandIs
<1>2. PICK a, n, m \in Nat :
        /\ r = v6[c] /\ CommandTyped(r) /\ Indexed(r)
        /\ Planned(r, a, n, m) /\ (r.alone => Undisturbed(r, a, n, m))
  BY <1>1
<1>3. /\ r.pc \notin {"idle", "done"} /\ Tkt!CutIndex(c)
      /\ v9' = (v9 \/ r.pc = "rollback")
  BY <1>2 DEF Tkt!Crash
<1>4. DOMAIN v1' \subseteq 1 .. MaxNumber /\ (r.alone => DOMAIN v1' = DOMAIN v1)
  <2>1. v1' \in {v1} \cup IF v6[c].pc = "task"
                          THEN {Tkt!With(Head(v6[c].todo), "broken")} ELSE {}
    BY DEF Tkt!Crash
  <2> QED
    BY <2>1, <1>2, MayBreak
<1>5. PICK s : s = Tkt!Ended(c, "crashed")
  OBVIOUS
<1>6. Tkt!Set(c, s)
  BY <1>5 DEF Tkt!Crash
<1>7. s.pc = "done" /\ s.result = "crashed" /\ s.before = r.before /\ s.alone = r.alone
  BY <1>5, <1>2, EndedIs
<1>8. s.alone => Undisturbed(s, a, n, m)'
  <2> SUFFICES ASSUME s.alone PROVE Undisturbed(s, a, n, m)'
    OBVIOUS
  <2>1. (n > 0 => r.before = 1 .. a - 1) /\ DOMAIN v1' = DOMAIN v1
    BY <1>7, <1>2, <1>4 DEF Undisturbed
  <2>2. Tkt!Gapless(r.before) /\ ~v9' => Tkt!Gapless(DOMAIN v1)
    <3> SUFFICES ASSUME Tkt!Gapless(r.before), ~v9' PROVE Tkt!Gapless(DOMAIN v1)
      OBVIOUS
    <3>1. r.pc \in {"number", "exists", "folder", "task", "collect", "shard", "stale", "router",
                    "memory"}
      BY <1>2, <1>3 DEF CommandTyped
    <3> QED
      BY <3>1, <1>2, <1>7, FilesTypedStay, GaplessHolds
  <2>3. Tkt!Gapless(r.before)' /\ ~v9' => Tkt!Gapless(DOMAIN v1)'
    BY <2>1, <2>2 DEF Tkt!Gapless
  <2> QED
    BY <2>1, <2>3, <1>7 DEF Undisturbed
<1> QED
  BY <1>2, <1>3, <1>4, <1>5, <1>6, <1>8, CutKeepsShards, CommandEnds

(* A sync that cannot finish. *)
LEMMA SyncFailsKeeps ==
    ASSUME TicketsInv, NEW c \in Commands, Tkt!Set(c, Tkt!SyncFails(c)),
           v6[c].pc \in {"collect", "shard", "stale", "router", "memory"},
           UNCHANGED <<v1, v9>>, v3' = [chunk \in 1 .. LastChunk |-> v3'[chunk]]
    PROVE  TicketsInv'
<1>1. PICK r : \E a, n, m \in Nat :
        /\ r = v6[c] /\ CommandTyped(r) /\ Indexed(r)
        /\ Planned(r, a, n, m) /\ (r.alone => Undisturbed(r, a, n, m))
  BY CommandIs
<1>2. PICK a, n, m \in Nat :
        /\ r = v6[c] /\ CommandTyped(r) /\ Indexed(r)
        /\ Planned(r, a, n, m) /\ (r.alone => Undisturbed(r, a, n, m))
  BY <1>1
<1>3. DOMAIN v1' \subseteq 1 .. MaxNumber
  BY FilesTypedStay
<1>4. CASE r.kind \in {"new", "chain"}
  <2>0. PICK s : s = Tkt!GiveUp(c)
    OBVIOUS
  <2>1. Tkt!Set(c, s)
    BY <2>0, <1>2, <1>4 DEF Tkt!SyncFails, Tkt!Scaffolds
  <2>2. r.alone => /\ r.before \subseteq DOMAIN v1'
                   /\ DOMAIN v1' \subseteq r.before \cup a .. a + n - 1
                   /\ n > 0 => r.before = 1 .. a - 1
    <3>1. r.pc \in {"folder", "task", "collect", "shard", "stale", "router", "memory"}
      BY <1>2
    <3> QED
      BY <3>1, <1>2, OnlyItsOwn
  <2> QED
    BY <2>0, <2>1, <2>2, <1>2, <1>3, <1>4, GivesUp
<1>5. CASE r.kind \notin {"new", "chain"}
  <2>0. PICK s : s = Tkt!Ended(c, "failed")
    OBVIOUS
  <2>1. Tkt!Set(c, s)
    BY <2>0, <1>2, <1>5 DEF Tkt!SyncFails, Tkt!Scaffolds
  <2>2. s.pc = "done" /\ s.result = "failed" /\ s.before = r.before /\ s.alone = r.alone
    BY <2>0, <1>2, EndedIs
  <2>3. s.alone => Undisturbed(s, a, n, m)'
    <3> SUFFICES ASSUME s.alone PROVE Undisturbed(s, a, n, m)'
      OBVIOUS
    <3>1. n > 0 => r.before = 1 .. a - 1
      BY <2>2, <1>2 DEF Undisturbed
    <3>2. Tkt!Gapless(r.before) => Tkt!Gapless(DOMAIN v1)
      <4>1. r.pc \in {"number", "exists", "folder", "task", "collect", "shard", "stale", "router",
                      "memory"}
        BY <1>2
      <4> QED
        BY <4>1, <2>2, <1>2, FilesTypedStay, GaplessHolds
    <3>3. Tkt!Gapless(r.before)' => Tkt!Gapless(DOMAIN v1)'
      BY <3>2 DEF Tkt!Gapless
    <3> QED
      BY <3>1, <3>3, <2>2 DEF Undisturbed
  <2> QED
    BY <2>0, <2>1, <2>3, <1>2, <1>3, CommandEnds
<1> QED
  BY <1>4, <1>5

LEMMA IndexFailsKeeps ==
    ASSUME TicketsInv, NEW c \in Commands, Tkt!IndexFails(c) PROVE TicketsInv'
<1>1. /\ Tkt!Set(c, Tkt!SyncFails(c)) /\ Tkt!CutIndex(c) /\ UNCHANGED <<v1, v9>>
      /\ v6[c].pc \in {"collect", "shard", "stale", "router", "memory"}
  BY DEF Tkt!IndexFails
<1> QED
  BY <1>1, CutKeepsShards, SyncFailsKeeps

(* While it indexes, an undisturbed command finds its folders as they were. *)
LEMMA StaysUndisturbed ==
    ASSUME NEW r, NEW a \in Nat, NEW n \in Nat, NEW m \in Nat, Undisturbed(r, a, n, m),
           Planned(r, a, n, m), CommandTyped(r), DOMAIN v1 \subseteq 1 .. MaxNumber,
           r.pc \in {"collect", "shard", "stale", "router", "memory"},
           NEW s, s.ids = r.ids, s.before = r.before,
           \/ s.pc \in {"shard", "stale", "router", "memory"}
           \/ s.pc = "done" /\ s.result # "rolled_back",
           UNCHANGED <<v1, v9>>
    PROVE  Undisturbed(s, a, n, m)'
<1>1. CASE s.pc \in {"shard", "stale", "router", "memory"}
  BY <1>1 DEF Undisturbed
<1>2. CASE s.pc = "done" /\ s.result # "rolled_back"
  <2>1. Tkt!Gapless(r.before) => Tkt!Gapless(DOMAIN v1)
    <3>1. r.pc \in {"number", "exists", "folder", "task", "collect", "shard", "stale", "router",
                    "memory"}
      OBVIOUS
    <3> QED
      BY <3>1, GaplessHolds
  <2>2. Tkt!Gapless(r.before)' => Tkt!Gapless(DOMAIN v1)'
    BY <2>1 DEF Tkt!Gapless
  <2> QED
    BY <2>2, <1>2 DEF Undisturbed
<1> QED
  BY <1>1, <1>2

LEMMA CollectKeeps ==
    ASSUME TicketsInv, NEW c \in Commands, Tkt!Collect(c) PROVE TicketsInv'
<1>1. PICK r : \E a, n, m \in Nat :
        /\ r = v6[c] /\ CommandTyped(r) /\ Indexed(r)
        /\ Planned(r, a, n, m) /\ (r.alone => Undisturbed(r, a, n, m))
  BY CommandIs
<1>2. PICK a, n, m \in Nat :
        /\ r = v6[c] /\ CommandTyped(r) /\ Indexed(r)
        /\ Planned(r, a, n, m) /\ (r.alone => Undisturbed(r, a, n, m))
  BY <1>1
<1>3. r.pc = "collect" /\ UNCHANGED <<v1, v2, v3, v4, v5, v9>>
  BY <1>2 DEF Tkt!Collect, Tkt!files
<1>4. CASE v2 = "broken" \/ \E k \in DOMAIN v1 : v1[k] = "broken"
  <2>1. Tkt!Set(c, Tkt!SyncFails(c))
    BY <1>4 DEF Tkt!Collect, Tkt!Existing
  <2> QED
    BY <2>1, <1>2, <1>3, FilesTypedStay, SyncFailsKeeps
<1>5. CASE ~(v2 = "broken" \/ \E k \in DOMAIN v1 : v1[k] = "broken")
  <2> PICK s :
      s = [Tkt!To(c, "shard") EXCEPT !.entries = Tkt!Entries, !.memory = v2,
                                     !.todo = [i \in 1 .. LastChunk |-> i], !.fresh = TRUE]
    OBVIOUS
  <2>1. Tkt!Set(c, s)
    BY <1>5 DEF Tkt!Collect, Tkt!Existing, Tkt!Chunks, LastChunk
  <2>2. /\ CommandTyped(s) /\ s.pc = "shard" /\ s.ids = r.ids /\ s.todo = [i \in 1 .. LastChunk |-> i]
        /\ s.before = r.before /\ s.alone = r.alone /\ s.entries = Tkt!Entries /\ s.memory = v2
        /\ s.kind = r.kind /\ ~s.drift /\ s.result = r.result
    <3>1. ~r.drift
      BY <1>2, <1>3 DEF Indexed
    <3> QED
      BY <3>1, <1>2, <1>3 DEF CommandTyped, Tkt!To
  <2>3. Planned(s, a, n, m)
    BY <2>2, <1>2 DEF Planned
  <2>4. s.alone => Undisturbed(s, a, n, m)'
    BY <2>2, <1>2, <1>3 DEF Undisturbed
  <2>5. Indexed(s)'
    <3>1. s.todo = Run(1, LastChunk)
      BY <2>2, LastChunkIs DEF Run
    <3>2. 1 .. 1 - 1 = {}
      OBVIOUS
    <3>3. Seen(s, 1 - 1)'
      BY <3>2, <2>2 DEF Seen
    <3>4. LastChunk + 1 - 1 = LastChunk /\ 1 \in 1 .. LastChunk + 1
      BY LastChunkIs
    <3> QED
      BY <2>2, <3>1, <3>3, <3>4, <1>3, EntriesStand DEF Indexed
  <2> QED
    BY <2>1, <2>2, <2>3, <2>4, <2>5, <1>3, FilesTypedStay, CommandSteps
<1> QED
  BY <1>4, <1>5

LEMMA ShardKeeps ==
    ASSUME TicketsInv, NEW c \in Commands, Tkt!Shard(c) PROVE TicketsInv'
<1>1. PICK r : \E a, n, m \in Nat :
        /\ r = v6[c] /\ CommandTyped(r) /\ Indexed(r)
        /\ Planned(r, a, n, m) /\ (r.alone => Undisturbed(r, a, n, m))
  BY CommandIs
<1>2. PICK a, n, m \in Nat :
        /\ r = v6[c] /\ CommandTyped(r) /\ Indexed(r)
        /\ Planned(r, a, n, m) /\ (r.alone => Undisturbed(r, a, n, m))
  BY <1>1
<1>3. r.pc = "shard" /\ UNCHANGED <<v1, v2, v4, v5, v9>>
  BY <1>2 DEF Tkt!Shard
<1>4. PICK p \in 1 .. LastChunk + 1 :
        r.todo = Run(p, LastChunk + 1 - p) /\ (r.fresh => Seen(r, p - 1))
  BY <1>2, <1>3 DEF Indexed
<1>5. /\ p \in Nat /\ LastChunk + 1 - p \in Nat
      /\ r.fresh => r.entries = Tkt!Entries /\ r.memory = v2
  BY <1>2, <1>3, LastChunkIs DEF Indexed
<1>6. DOMAIN v1' \subseteq 1 .. MaxNumber
  BY <1>3, FilesTypedStay
<1>7. CASE r.todo = <<>>
  <2> PICK s : s = Tkt!To(c, "stale")
    OBVIOUS
  <2>1. Tkt!Set(c, s) /\ UNCHANGED v3
    BY <1>2, <1>7 DEF Tkt!Shard
  <2>2. /\ CommandTyped(s) /\ s.pc = "stale" /\ s.ids = r.ids /\ s.before = r.before
        /\ s.alone = r.alone /\ s.fresh = r.fresh /\ s.drift = r.drift /\ s.kind = r.kind
        /\ s.entries = r.entries /\ s.memory = r.memory
    BY <1>2, <1>3 DEF CommandTyped, Tkt!To
  <2>3. p - 1 = LastChunk
    <3>1. LastChunk + 1 - p = 0
      BY <1>4, <1>5, <1>7, EmptyRun
    <3> QED
      BY <3>1, <1>5, LastChunkIs
  <2>4. Planned(s, a, n, m)
    BY <2>2, <1>2 DEF Planned
  <2>5. s.alone => Undisturbed(s, a, n, m)'
    BY <2>2, <1>2, <1>3 DEF Undisturbed
  <2>6. s.fresh => Seen(s, LastChunk)'
    BY <2>1, <2>2, <2>3, <1>4 DEF Seen, New
  <2>7. Indexed(s)'
    BY <2>2, <2>6, <1>3, <1>5, EntriesStand DEF Indexed
  <2> QED
    BY <2>1, <2>2, <2>4, <2>5, <2>7, <1>6, FilesTypedStay, CommandSteps
<1>8. CASE r.todo # <<>>
  <2>1. LastChunk + 1 - p # 0
    BY <1>4, <1>5, <1>8, EmptyRun
  <2>2. /\ LastChunk + 1 - p > 0 /\ p \in 1 .. LastChunk /\ p + 1 \in 1 .. LastChunk + 1
        /\ LastChunk + 1 - p - 1 = LastChunk + 1 - (p + 1) /\ 1 .. p = (1 .. p - 1) \cup {p}
    BY <2>1, <1>5, LastChunkIs
  <2>3. Head(r.todo) = p /\ Tail(r.todo) = Run(p + 1, LastChunk + 1 - (p + 1))
    <3>1. PICK k : k = LastChunk + 1 - p
      OBVIOUS
    <3>2. k \in Nat /\ k > 0 /\ r.todo = Run(p, k)
      BY <3>1, <2>2, <1>4, <1>5
    <3>3. Head(Run(p, k)) = p /\ Tail(Run(p, k)) = Run(p + 1, k - 1)
      BY <3>2, <1>5, RunOn
    <3>4. k - 1 = LastChunk + 1 - (p + 1)
      BY <3>1, <2>2, <1>5, LastChunkIs
    <3>5. Run(p + 1, k - 1) = Run(p + 1, LastChunk + 1 - (p + 1))
      BY <3>4
    <3> QED
      BY <3>2, <3>3, <3>5
  <2>4. PICK drifts \in BOOLEAN : drifts <=> New(r, p) # {} /\ v3[p] # New(r, p)
    OBVIOUS
  <2> PICK s : s = [r EXCEPT !.pc = "shard", !.drift = r.drift \/ drifts, !.todo = Tail(r.todo)]
    OBVIOUS
  <2>5. CommandTyped(r) /\ r.drift \in BOOLEAN
    BY <1>2 DEF CommandTyped
  <2>6. Tkt!Set(c, s)
    <3>1. s = [[[r EXCEPT !.pc = "shard"] EXCEPT !.drift = @ \/ (New(r, p) # {} /\ v3[p] # New(r, p))]
               EXCEPT !.todo = Tail(@)]
      BY <2>4, <2>5 DEF CommandTyped
    <3> QED
      BY <3>1, <2>3, <1>2, <1>8, ZenonT(40) DEF Tkt!Shard, Tkt!Noted, Tkt!To, Tkt!Drifts, New
  <2>7. v3' = IF drifts /\ r.kind # "check" THEN [v3 EXCEPT ![p] = New(r, p)] ELSE v3
    BY <2>3, <2>4, <1>2, <1>8 DEF Tkt!Shard, Tkt!Writes, Tkt!Drifts, New
  <2>8. /\ CommandTyped(s) /\ s.pc = "shard" /\ s.ids = r.ids /\ s.before = r.before
        /\ s.alone = r.alone /\ s.fresh = r.fresh /\ s.kind = r.kind /\ s.entries = r.entries
        /\ s.memory = r.memory /\ s.todo = Tail(r.todo)
    BY <2>5, <1>3 DEF CommandTyped
  <2>9. s.drift = (r.drift \/ drifts)
    BY <2>5 DEF CommandTyped
  <2>10. Planned(s, a, n, m)
    BY <2>8, <1>2 DEF Planned
  <2>11. s.alone => Undisturbed(s, a, n, m)'
    BY <2>8, <1>2, <1>3 DEF Undisturbed
  <2>12. \A chunk : New(s, chunk) = New(r, chunk)
    BY <2>8 DEF New
  <2>13. /\ v3 = [chunk \in 1 .. LastChunk |-> v3[chunk]]
         /\ \A chunk \in 1 .. p - 1 : v3'[chunk] = v3[chunk]
         /\ v3' = [chunk \in 1 .. LastChunk |-> v3'[chunk]]
    <3>1. v3 = [chunk \in 1 .. LastChunk |-> v3[chunk]]
      BY FilesTypedStay
    <3>2. \A chunk \in 1 .. p - 1 : chunk # p /\ chunk \in 1 .. LastChunk
      BY <2>2, LastChunkIs
    <3> QED
      BY <3>1, <3>2, <2>7
  <2>14. s.fresh => Seen(s, p)'
    <3> SUFFICES ASSUME s.fresh PROVE Seen(s, p)'
      OBVIOUS
    <3>1. Seen(r, p - 1)
      BY <1>4, <2>8
    <3>2. CASE r.kind = "check"
      <4>1. UNCHANGED v3
        BY <3>2, <2>7
      <4>2. r.drift <=> \E chunk \in 1 .. p - 1 : New(r, chunk) # {} /\ v3[chunk] # New(r, chunk)
        BY <3>1, <3>2 DEF Seen
      <4>3. s.drift <=>
              \E chunk \in 1 .. p : New(s, chunk) # {} /\ v3'[chunk] # New(s, chunk)
        BY <4>1, <4>2, <2>2, <2>4, <2>9, <2>12
      <4> QED
        BY <4>3, <3>2, <2>8 DEF Seen, New
    <3>3. CASE r.kind # "check"
      <4>1. \A chunk \in 1 .. p - 1 : New(r, chunk) # {} => v3[chunk] = New(r, chunk)
        BY <3>1, <3>3 DEF Seen
      <4>2. New(r, p) # {} => v3'[p] = New(r, p)
        BY <3>3, <2>2, <2>4, <2>7, <2>13
      <4>3. \A chunk \in 1 .. p : New(s, chunk) # {} => v3'[chunk] = New(s, chunk)
        BY <4>1, <4>2, <2>2, <2>12, <2>13
      <4> QED
        BY <4>3, <3>3, <2>8 DEF Seen, New
    <3> QED
      BY <3>2, <3>3
  <2>15. Indexed(s)'
    <3>1. p + 1 - 1 = p
      BY <1>5
    <3> QED
      BY <3>1, <2>2, <2>3, <2>8, <2>14, <1>3, <1>5, EntriesStand DEF Indexed
  <2> QED
    BY <2>6, <2>8, <2>10, <2>11, <2>13, <2>15, <1>6, CommandSteps
<1> QED
  BY <1>7, <1>8

(* When every listed chunk is right, what is left are the chunks nothing is listed in. *)
LEMMA ShardsAre ==
    ASSUME NEW r, v3 = [chunk \in 1 .. LastChunk |-> v3[chunk]]
    PROVE  v3 = Tkt!Shards(r.entries) <=> \A chunk \in 1 .. LastChunk : v3[chunk] = New(r, chunk)
<1>1. Tkt!Shards(r.entries) = [chunk \in 1 .. LastChunk |-> New(r, chunk)]
  BY DEF Tkt!Shards, Tkt!Chunks, LastChunk, New
<1> HIDE DEF New, LastChunk
<1> QED
  BY <1>1

LEMMA StaleKeeps ==
    ASSUME TicketsInv, NEW c \in Commands, Tkt!Stale(c) PROVE TicketsInv'
<1>1. PICK r : \E a, n, m \in Nat :
        /\ r = v6[c] /\ CommandTyped(r) /\ Indexed(r)
        /\ Planned(r, a, n, m) /\ (r.alone => Undisturbed(r, a, n, m))
  BY CommandIs
<1>2. PICK a, n, m \in Nat :
        /\ r = v6[c] /\ CommandTyped(r) /\ Indexed(r)
        /\ Planned(r, a, n, m) /\ (r.alone => Undisturbed(r, a, n, m))
  BY <1>1
<1>3. r.pc = "stale" /\ UNCHANGED <<v1, v2, v4, v5, v9>>
  BY <1>2 DEF Tkt!Stale
<1>4. r.fresh => r.entries = Tkt!Entries /\ r.memory = v2 /\ Seen(r, LastChunk)
  BY <1>2, <1>3 DEF Indexed
<1>5. DOMAIN v1' \subseteq 1 .. MaxNumber
  BY <1>3, FilesTypedStay
<1>6. v3 = [chunk \in 1 .. LastChunk |-> v3[chunk]]
  BY FilesTypedStay
<1>8. CommandTyped(r) /\ r.drift \in BOOLEAN
  BY <1>2 DEF CommandTyped
<1> PICK old : old = {chunk \in 1 .. LastChunk : v3[chunk] # {} /\ New(r, chunk) = {}}
  OBVIOUS
<1>9. \/ \E chunk \in old : /\ r.kind # "check" /\ v3' = [v3 EXCEPT ![chunk] = {}]
                            /\ Tkt!Set(c, [r EXCEPT !.pc = "stale", !.drift = TRUE])
      \/ /\ r.kind = "check" \/ old = {}
         /\ Tkt!Set(c, [r EXCEPT !.pc = "router", !.drift = r.drift \/ old # {}])
         /\ UNCHANGED v3
  <2>1. /\ [[r EXCEPT !.pc = "stale"] EXCEPT !.drift = @ \/ TRUE]
           = [r EXCEPT !.pc = "stale", !.drift = TRUE]
        /\ [[r EXCEPT !.pc = "router"] EXCEPT !.drift = @ \/ old # {}]
           = [r EXCEPT !.pc = "router", !.drift = r.drift \/ old # {}]
    BY <1>8 DEF CommandTyped
  <2> QED
    BY <2>1, <1>2 DEF Tkt!Stale, Tkt!Writes, Tkt!Noted, Tkt!To, Tkt!Chunks, LastChunk, New
<1>10. ASSUME NEW chunk \in old, r.kind # "check", v3' = [v3 EXCEPT ![chunk] = {}],
              NEW s, s = [r EXCEPT !.pc = "stale", !.drift = TRUE], Tkt!Set(c, s)
       PROVE  TicketsInv'
  <2>1. /\ CommandTyped(s) /\ s.pc = "stale" /\ s.ids = r.ids /\ s.before = r.before
        /\ s.alone = r.alone /\ s.fresh = r.fresh /\ s.kind = r.kind /\ s.entries = r.entries
        /\ s.memory = r.memory
    BY <1>10, <1>8 DEF CommandTyped
  <2>2. Planned(s, a, n, m)
    BY <2>1, <1>2 DEF Planned
  <2>3. s.alone => Undisturbed(s, a, n, m)'
    BY <2>1, <1>2, <1>3 DEF Undisturbed
  <2>4. s.fresh => Seen(s, LastChunk)'
    <3> SUFFICES ASSUME s.fresh PROVE Seen(s, LastChunk)'
      OBVIOUS
    <3>1. \A k \in 1 .. LastChunk : New(r, k) # {} => v3[k] = New(r, k)
      BY <2>1, <1>4, <1>10 DEF Seen
    <3>2. \A k \in 1 .. LastChunk : New(r, k) # {} => v3'[k] = v3[k]
      BY <1>6, <1>10
    <3>3. \A k : New(s, k) = New(r, k)
      BY <2>1 DEF New
    <3>4. \A k \in 1 .. LastChunk : New(s, k) # {} => v3'[k] = New(s, k)
      BY <3>1, <3>2, <3>3
    <3> QED
      BY <3>4, <2>1, <1>10 DEF Seen, New
  <2>5. Indexed(s)'
    BY <2>1, <2>4, <1>3, <1>4, EntriesStand DEF Indexed
  <2>6. v3' = [k \in 1 .. LastChunk |-> v3'[k]]
    BY <1>6, <1>10
  <2> QED
    BY <2>1, <2>2, <2>3, <2>5, <2>6, <1>5, <1>10, CommandSteps
<1>11. ASSUME r.kind = "check" \/ old = {}, UNCHANGED v3,
              NEW s, s = [r EXCEPT !.pc = "router", !.drift = r.drift \/ old # {}], Tkt!Set(c, s)
       PROVE  TicketsInv'
  <2>1. /\ CommandTyped(s) /\ s.pc = "router" /\ s.ids = r.ids /\ s.before = r.before
        /\ s.alone = r.alone /\ s.fresh = r.fresh /\ s.kind = r.kind /\ s.entries = r.entries
        /\ s.memory = r.memory /\ s.drift = (r.drift \/ old # {})
    BY <1>11, <1>8 DEF CommandTyped
  <2>2. Planned(s, a, n, m)
    BY <2>1, <1>2 DEF Planned
  <2>3. s.alone => Undisturbed(s, a, n, m)'
    BY <2>1, <1>2, <1>3 DEF Undisturbed
  <2>4. s.fresh => IF s.kind = "check" THEN s.drift <=> v3 # Tkt!Shards(s.entries)
                   ELSE v3 = Tkt!Shards(s.entries)
    <3> SUFFICES ASSUME s.fresh PROVE IF s.kind = "check" THEN s.drift <=> v3 # Tkt!Shards(s.entries)
                                      ELSE v3 = Tkt!Shards(s.entries)
      OBVIOUS
    <3>1. v3 = Tkt!Shards(r.entries) <=> \A k \in 1 .. LastChunk : v3[k] = New(r, k)
      BY <1>6, ShardsAre
    <3>2. CASE r.kind = "check"
      <4>1. r.drift <=> \E k \in 1 .. LastChunk : New(r, k) # {} /\ v3[k] # New(r, k)
        BY <3>2, <2>1, <1>4 DEF Seen
      <4>2. s.drift <=> \E k \in 1 .. LastChunk : v3[k] # New(r, k)
        BY <4>1, <2>1
      <4> QED
        BY <4>2, <3>1, <3>2, <2>1
    <3>3. CASE r.kind # "check"
      <4>1. \A k \in 1 .. LastChunk : New(r, k) # {} => v3[k] = New(r, k)
        BY <3>3, <2>1, <1>4 DEF Seen
      <4>2. \A k \in 1 .. LastChunk : New(r, k) = {} => v3[k] = {}
        BY <3>3, <1>11
      <4> QED
        BY <4>1, <4>2, <3>1, <3>3, <2>1
    <3> QED
      BY <3>2, <3>3
  <2>5. Indexed(s)'
    BY <2>1, <2>4, <1>3, <1>4, <1>11, EntriesStand DEF Indexed, Tkt!Shards
  <2> QED
    BY <2>1, <2>2, <2>3, <2>5, <1>5, <1>11, FilesTypedStay, CommandSteps
<1> QED
  BY <1>9, <1>10, <1>11

LEMMA RouterKeeps ==
    ASSUME TicketsInv, NEW c \in Commands, Tkt!Router(c) PROVE TicketsInv'
<1>1. PICK r : \E a, n, m \in Nat :
        /\ r = v6[c] /\ CommandTyped(r) /\ Indexed(r)
        /\ Planned(r, a, n, m) /\ (r.alone => Undisturbed(r, a, n, m))
  BY CommandIs
<1>2. PICK a, n, m \in Nat :
        /\ r = v6[c] /\ CommandTyped(r) /\ Indexed(r)
        /\ Planned(r, a, n, m) /\ (r.alone => Undisturbed(r, a, n, m))
  BY <1>1
<1>3. r.pc = "router" /\ UNCHANGED <<v1, v2, v3, v5, v9>>
  BY <1>2 DEF Tkt!Router
<1>4. CommandTyped(r) /\ r.drift \in BOOLEAN
  BY <1>2 DEF CommandTyped
<1>5. PICK new : new = Tkt!Shards(r.entries)
  OBVIOUS
<1> PICK s : s = [r EXCEPT !.pc = "memory", !.drift = r.drift \/ v4 # new]
  OBVIOUS
<1>6. Tkt!Set(c, s)
  <2>1. [[r EXCEPT !.pc = "memory"] EXCEPT !.drift = @ \/ v4 # new] = s
    BY <1>4 DEF CommandTyped
  <2> QED
    BY <2>1, <1>2, <1>5 DEF Tkt!Router, Tkt!Noted, Tkt!To
<1>7. v4' = IF v4 # new /\ r.kind # "check" THEN new ELSE v4
  BY <1>2, <1>5 DEF Tkt!Router, Tkt!Writes
<1>8. /\ CommandTyped(s) /\ s.pc = "memory" /\ s.ids = r.ids /\ s.before = r.before
      /\ s.alone = r.alone /\ s.fresh = r.fresh /\ s.kind = r.kind /\ s.entries = r.entries
      /\ s.memory = r.memory /\ s.drift = (r.drift \/ v4 # new)
  BY <1>4 DEF CommandTyped
<1>9. Planned(s, a, n, m)
  BY <1>8, <1>2 DEF Planned
<1>10. s.alone => Undisturbed(s, a, n, m)'
  BY <1>8, <1>2, <1>3 DEF Undisturbed
<1>11. r.fresh => /\ r.entries = Tkt!Entries /\ r.memory = v2
                  /\ IF r.kind = "check" THEN r.drift <=> v3 # new ELSE v3 = new
  BY <1>2, <1>3, <1>5 DEF Indexed
<1>12. s.fresh => IF s.kind = "check" THEN s.drift <=> ~(v3 = new /\ v4' = v3)
                  ELSE v3 = new /\ v4' = v3
  BY <1>7, <1>8, <1>11
<1>13. Indexed(s)'
  BY <1>3, <1>5, <1>8, <1>11, <1>12, EntriesStand DEF Indexed, Tkt!Shards
<1>14. DOMAIN v1' \subseteq 1 .. MaxNumber
  BY <1>3, FilesTypedStay
<1> QED
  BY <1>3, <1>6, <1>8, <1>9, <1>10, <1>13, <1>14, FilesTypedStay, CommandSteps

LEMMA MemoryKeeps ==
    ASSUME TicketsInv, NEW c \in Commands, Tkt!Memory(c) PROVE TicketsInv'
<1>1. PICK r : \E a, n, m \in Nat :
        /\ r = v6[c] /\ CommandTyped(r) /\ Indexed(r)
        /\ Planned(r, a, n, m) /\ (r.alone => Undisturbed(r, a, n, m))
  BY CommandIs
<1>2. PICK a, n, m \in Nat :
        /\ r = v6[c] /\ CommandTyped(r) /\ Indexed(r)
        /\ Planned(r, a, n, m) /\ (r.alone => Undisturbed(r, a, n, m))
  BY <1>1
<1>3. r.pc = "memory" /\ UNCHANGED <<v1, v2, v3, v4, v9>>
  BY <1>2 DEF Tkt!Memory
<1>4. PICK drifts \in BOOLEAN : drifts <=> r.memory # "none" /\ v5 # r.memory
  OBVIOUS
<1>5. PICK result :
        result = IF r.kind = "check" /\ (r.drift \/ drifts) THEN "drift" ELSE "ok"
  OBVIOUS
<1>6. PICK s : s = Tkt!Ended(c, result)
  OBVIOUS
<1>7. Tkt!Set(c, s)
  BY <1>2, <1>4, <1>5, <1>6 DEF Tkt!Memory, Tkt!Renders
<1>8. v5' = IF drifts /\ r.kind # "check" THEN r.memory ELSE v5
  BY <1>2, <1>4 DEF Tkt!Memory, Tkt!Writes, Tkt!Renders
<1>9. /\ CommandTyped(s) /\ s.pc = "done" /\ s.result = result /\ s.ids = r.ids
      /\ s.before = r.before /\ s.alone = r.alone /\ s.fresh = r.fresh
  BY <1>2, <1>6, EndedIs
<1>10. Planned(s, a, n, m)
  BY <1>2, <1>9, EndedPlanned
<1>11. s.alone => Undisturbed(s, a, n, m)'
  <2>1. /\ DOMAIN v1 \subseteq 1 .. MaxNumber /\ UNCHANGED <<v1, v9>>
        /\ s.pc = "done" /\ s.result # "rolled_back" /\ s.ids = r.ids /\ s.before = r.before
        /\ r.pc \in {"collect", "shard", "stale", "router", "memory"} /\ CommandTyped(r)
    BY <1>2, <1>3, <1>5, <1>9, FilesTypedStay
  <2>2. s.alone => Undisturbed(r, a, n, m) /\ Planned(r, a, n, m)
    BY <1>2, <1>9
  <2> QED
    BY <2>1, <2>2, StaysUndisturbed
<1>12. r.fresh => /\ r.entries = Tkt!Entries /\ r.memory = v2
                  /\ IF r.kind = "check"
                     THEN r.drift <=> ~(v3 = Tkt!Shards(r.entries) /\ v4 = v3)
                     ELSE v3 = Tkt!Shards(r.entries) /\ v4 = v3
  BY <1>2, <1>3 DEF Indexed
<1>13. s.fresh => LET listed == /\ v3 = Tkt!Shards(r.entries) /\ v4 = v3
                                /\ v2 # "none" => v5' = v2
                  IN IF result = "ok" THEN listed ELSE ~listed
  BY <1>4, <1>5, <1>8, <1>9, <1>12
<1>14. Indexed(s)'
  BY <1>3, <1>9, <1>12, <1>13, EntriesStand DEF Indexed, Tkt!Shards
<1>15. DOMAIN v1' \subseteq 1 .. MaxNumber
  BY <1>3, FilesTypedStay
<1> QED
  BY <1>3, <1>7, <1>9, <1>10, <1>11, <1>14, <1>15, FilesTypedStay, CommandSteps

LEMMA EditKeeps == ASSUME TicketsInv, Tkt!Edit PROVE TicketsInv'
<1>1. /\ v6' = [c \in Commands |-> [v6[c] EXCEPT !.alone = FALSE, !.fresh = FALSE]]
      /\ UNCHANGED <<v3, v9>>
  BY DEF Tkt!Edit, Tkt!indexes
<1>2. DOMAIN v1' \subseteq 1 .. MaxNumber
  <2>1. CASE UNCHANGED v1
    BY <2>1, FilesTypedStay
  <2>2. CASE \E k \in DOMAIN v1 : v1' \in {Tkt!Without(k), Tkt!With(k, "broken"), Tkt!With(k, "task")}
    BY <2>2, FilesTypedStay DEF Tkt!Without, Tkt!With, Tkt!Existing
  <2> QED
    BY <2>1, <2>2 DEF Tkt!Edit, Tkt!Existing
<1>3. ASSUME NEW d \in Commands, NEW s, s = v6'[d] PROVE CommandInv(s)'
  <2>1. PICK q : q = v6[d]
    OBVIOUS
  <2>2. CommandInv(q) /\ s = [q EXCEPT !.alone = FALSE, !.fresh = FALSE]
    BY <1>1, <1>3, <2>1 DEF TicketsInv
  <2>3. CommandTyped(s) /\ Numbering(s)' /\ Indexed(s)'
    BY <2>2, DisturbedHolds
  <2> QED
    BY <2>3 DEF CommandInv, CommandTyped
<1>4. DOMAIN v6' = Commands /\ v3' = [chunk \in 1 .. LastChunk |-> v3'[chunk]]
  BY <1>1, FilesTypedStay
<1> QED
  BY <1>2, <1>3, <1>4 DEF TicketsInv, TicketsTyped

LEMMA TicketsNext == ASSUME TicketsInv, Tkt!Next PROVE TicketsInv'
<1>1. ASSUME NEW c \in Commands, Tkt!Step(c) PROVE TicketsInv'
  BY <1>1, BeginCommandKeeps, NumberKeeps, ExistsKeeps, FolderKeeps, TaskKeeps, ScaffoldedKeeps,
     WriteFailsKeeps, ScaffoldRollbackKeeps, RollbackFailsKeeps, CollectKeeps, ShardKeeps,
     StaleKeeps, RouterKeeps, MemoryKeeps, IndexFailsKeeps, CommandCrashKeeps DEF Tkt!Step
<1> QED
  BY <1>1, EditKeeps DEF Tkt!Next

LEMMA TicketsStays == ASSUME TicketsInv, UNCHANGED pool PROVE TicketsInv'
<1>1. UNCHANGED v1 /\ UNCHANGED v2 /\ UNCHANGED v3 /\ UNCHANGED v4 /\ UNCHANGED v5 /\ UNCHANGED v6
      /\ UNCHANGED v9
  BY DEF pool
<1>2. ASSUME NEW s, CommandInv(s) PROVE CommandInv(s)'
  <2>1. CommandTyped(s) /\ Numbering(s)'
    <3>1. PICK a, n, m \in Nat : Planned(s, a, n, m) /\ (s.alone => Undisturbed(s, a, n, m))
      BY <1>2 DEF CommandInv, Numbering
    <3>2. s.alone => Undisturbed(s, a, n, m)'
      BY <3>1, <1>1 DEF Undisturbed, Tkt!Gapless
    <3> QED
      BY <3>1, <3>2, <1>2, NumberingIs DEF CommandInv
  <2>2. Indexed(s)'
    BY <1>1, <1>2, EntriesStand DEF CommandInv, Indexed, Seen, Tkt!Shards
  <2> QED
    BY <2>1, <2>2 DEF CommandInv, CommandTyped
<1>3. TicketsTyped'
  BY <1>1 DEF TicketsInv, TicketsTyped
<1> QED
  BY <1>1, <1>2, <1>3 DEF TicketsInv

(* What the invariant says of a command that is done. *)
LEMMA DoneIs ==
    ASSUME TicketsInv PROVE Tkt!NothingConsumed /\ Tkt!SyncedMeansListed
<1>1. ASSUME NEW c \in Commands, v6[c].alone, v6[c].pc = "done"
      PROVE  /\ v6[c].result = "rolled_back" => DOMAIN v1 = v6[c].before
             /\ v6[c].result = "ok" => \A i \in DOMAIN v6[c].ids : v1[v6[c].ids[i]] = "task"
             /\ Tkt!Gapless(v6[c].before) /\ ~v9 => Tkt!Gapless(DOMAIN v1)
  <2>1. PICK r : \E a, n, m \in Nat :
          /\ r = v6[c] /\ CommandTyped(r) /\ Indexed(r)
          /\ Planned(r, a, n, m) /\ (r.alone => Undisturbed(r, a, n, m))
    BY CommandIs
  <2>2. PICK a, n, m \in Nat :
          /\ r = v6[c] /\ CommandTyped(r) /\ Indexed(r)
          /\ Planned(r, a, n, m) /\ (r.alone => Undisturbed(r, a, n, m))
    BY <2>1
  <2>3. v6[c].ids = Run(a, n) /\ a \in Nat
    BY <2>2 DEF Planned
  <2>4. \A i \in DOMAIN v6[c].ids : v6[c].ids[i] \in a .. a + n - 1
    BY <2>3 DEF Run
  <2> QED
    BY <2>2, <2>4, <1>1 DEF Undisturbed
<1>2. ASSUME NEW c \in Commands, v6[c].fresh, v6[c].pc = "done", v6[c].result \in {"ok", "drift"}
      PROVE  LET listed == v3 = Tkt!Shards(Tkt!Entries) /\ v4 = v3 /\ (v2 # "none" => v5 = v2) IN
             IF v6[c].result = "ok" THEN listed ELSE ~listed
  BY <1>2, CommandIs DEF Indexed
<1> QED
  BY <1>1, <1>2 DEF Tkt!NothingConsumed, Tkt!SyncedMeansListed, Tkt!Existing

(* From what a command has told its user (new.rs, new_chain.rs, sync.rs): a   *)
(* ticket command that nothing came between and that says nothing was consumed *)
(* has left the folders as they were, one that told of tickets has written them *)
(* whole, and a sync that ends well has indexed exactly what is there, but for  *)
(* the index of a category that lost its last memory, which it never touches.   *)
THEOREM TicketsAreNotConsumed == PartsSpec => []NothingConsumed
<1> DEFINE Inv == part = "tickets" => TicketsInv
<1>1. PartsInit => Inv
  BY TicketsInit DEF PartsInit
<1>2. Inv /\ [PartsNext]_<<part, sseVars, vars, pool>> => Inv'
  <2> SUFFICES ASSUME part = "tickets", TicketsInv, Tkt!Next \/ UNCHANGED pool PROVE TicketsInv'
    BY PartStep
  <2> QED
    BY TicketsNext, TicketsStays
<1>3. Inv => NothingConsumed
  BY DoneIs DEF NothingConsumed
<1> QED
  BY <1>1, <1>2, <1>3, PTL DEF PartsSpec
=============================================================================
