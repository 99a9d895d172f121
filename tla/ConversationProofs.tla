-------------------------- MODULE ConversationProofs --------------------------
(***************************************************************************)
(* What Conversation promises for any protocols and authorities and any       *)
(* number of turns, rounds, switches, changes of mode and crashes, checked by  *)
(* TLAPS.                                                                     *)
(***************************************************************************)
EXTENDS Conversation, WellFoundedInduction, TLAPS

(* The inductive invariant behind ModelKnowsMode, PromptsInOrder and           *)
(* FinishedRemembered.                                                        *)

\* The prompts of s come in their order, are of turns up to n, and come before those of r.
Ordered(s) == \A i, j \in DOMAIN s :
    i < j /\ s[i].role = "user" /\ s[j].role = "user" => s[i].turn < s[j].turn
UpTo(s, n) == \A i \in DOMAIN s : s[i].role = "user" => s[i].turn <= n
Before(s, r) == \A i \in DOMAIN s, j \in DOMAIN r :
    s[i].role = "user" /\ r[j].role = "user" => s[i].turn < r[j].turn

\* The last of s that speaks of a mode.  It is an old turn's, or it says m; where none
\* speaks of one the system prompt does.
Final(s, k) == s[k].says # "none" /\ \A j \in DOMAIN s : j > k => s[j].says = "none"
Stale(s) == \E k \in DOMAIN s : Final(s, k) /\ s[k].replayed
Heard(s, sys, m) == \/ sys = m /\ \A k \in DOMAIN s : s[k].says = "none"
                    \/ \E k \in DOMAIN s : Final(s, k) /\ s[k].says = m

Answering == {"streaming", "tools", "closing", "final"}

\* Where there is a request, and what it is.
Asking ==
    /\ pc \notin {"sending", "streaming"} => request = <<>>
    /\ pc = "streaming" /\ Local(protocol) => request = <<>>
    /\ replay # <<>> => pc = "idle" /\ items = <<>> /\ ~started
    /\ pc \in Answering \cup {"sending"} => turn # 0
    /\ pc = "sending" =>
         /\ request # <<>>
         /\ started => Len(request) = 1
         /\ LET last == request[Len(request)]
            IN  /\ last.role = "user" /\ last.turn = turn
                /\ last.says = IF started /\ sentPhase # phase THEN Mode ELSE "none"
         /\ ~started => /\ Len(request) > 1
                        /\ request[1].role = "system" /\ request[1].says = Mode
                        /\ \A i \in DOMAIN request : i \in {1, Len(request)} \/ request[i].replayed

InTurn ==
    /\ Ordered(items) /\ Ordered(request) /\ Ordered(replay) /\ Ordered(stored.items)
    /\ UpTo(items, turn) /\ UpTo(request, turn) /\ UpTo(replay, turn) /\ UpTo(stored.items, turn)
    /\ Before(items, request)

Remembering ==
    /\ finished \subseteq 1..turn
    /\ finished \ forgotten \subseteq Prompts(stored.items)
    /\ pc # "down" => finished \ forgotten \subseteq
                        Prompts(items) \cup Prompts(request) \cup Prompts(replay)
    /\ pc \in Answering \cup {"sending"} /\ status = "completed" =>
         turn \in Prompts(items) \cup Prompts(request) \cup forgotten
    /\ pc \in {"sending", "streaming", "tools"} => status = "completed"
    /\ pc = "final" => stored.items = items

Telling ==
    /\ ~started => sentPhase = "none"
    /\ pc = "down" => ~started
    /\ modeFailures = 0 => sentPhase \in {"none", phase}
    /\ pc \in Answering => started /\ sentPhase = phase
    /\ Local(protocol) /\ started /\ sentPhase = phase /\ modeFailures <= 1 =>
         Stale(items) \/ Heard(items, system, Mode)
    /\ \A i \in DOMAIN replay : replay[i].replayed
    /\ ~started /\ protocol = "messages" =>
         \A i \in DOMAIN items : items[i].says = "none" \/ items[i].replayed

ConversationInv == TypeOK /\ Asking /\ InTurn /\ Remembering /\ Telling

-------------------------------------------------------------------------------
(* Sequences of items *)

LEMMA Least ==
    ASSUME NEW S \in SUBSET Nat, S # {}
    PROVE  \E m \in S : \A k \in S : m <= k
<1> DEFINE R == OpToRel(<, Nat)
<1>1. IsWellFoundedOn(R, Nat)
  BY NatLessThanWellFounded
<1>2. \A x, y \in Nat : x < y => <<x, y>> \in R
  BY DEF OpToRel
<1> HIDE DEF R
<1>3. PICK m \in S : \A k \in S : <<k, m>> \notin R
  BY <1>1, WFMin
<1>4. \A k \in S : ~(k < m)
  BY <1>2, <1>3
<1> QED
  BY <1>4

LEMMA Items1 ==
    /\ \A i \in Items : /\ i.role \in Roles /\ i.turn \in Nat /\ i.says \in Modes \cup {"none"}
                        /\ i.replayed \in BOOLEAN
    /\ "none" \notin Modes
BY ConversationAssumption DEF Items, Modes, Authorities, Phases

LEMMA CatFacts ==
    ASSUME NEW s \in Seq(Items), NEW r \in Seq(Items)
    PROVE  /\ s \o r \in Seq(Items) /\ Len(s \o r) = Len(s) + Len(r)
           /\ DOMAIN (s \o r) = 1 .. Len(s) + Len(r)
           /\ DOMAIN s = 1 .. Len(s) /\ DOMAIN r = 1 .. Len(r)
           /\ Len(s) \in Nat /\ Len(r) \in Nat
           /\ \A i \in DOMAIN s : (s \o r)[i] = s[i]
           /\ \A i \in DOMAIN r : (s \o r)[Len(s) + i] = r[i]
           /\ \A i \in DOMAIN (s \o r) : \/ i \in DOMAIN s /\ (s \o r)[i] = s[i]
                                         \/ /\ i - Len(s) \in DOMAIN r /\ i > Len(s)
                                            /\ (s \o r)[i] = r[i - Len(s)]
           /\ \A i \in DOMAIN s : s[i] \in Items
OBVIOUS

LEMMA OneFacts ==
    ASSUME NEW x \in Items
    PROVE  /\ <<x>> \in Seq(Items) /\ Len(<<x>>) = 1 /\ DOMAIN <<x>> = {1} /\ <<x>>[1] = x
           /\ <<>> \in Seq(Items) /\ DOMAIN <<>> = {} /\ Len(<<>>) = 0
OBVIOUS

LEMMA TailFacts ==
    ASSUME NEW s \in Seq(Items), s # <<>>
    PROVE  /\ Tail(s) \in Seq(Items) /\ Len(s) \in Nat \ {0} /\ DOMAIN Tail(s) = 1 .. Len(s) - 1
           /\ \A i \in DOMAIN Tail(s) : i + 1 \in DOMAIN s /\ Tail(s)[i] = s[i + 1]
           /\ \A i \in DOMAIN s : i # 1 => i - 1 \in DOMAIN Tail(s) /\ Tail(s)[i - 1] = s[i]
OBVIOUS

LEMMA PromptsAre ==
    ASSUME NEW s, NEW t
    PROVE  t \in Prompts(s) <=> \E i \in DOMAIN s : s[i].role = "user" /\ s[i].turn = t
BY DEF Prompts

LEMMA PromptsCat ==
    ASSUME NEW s \in Seq(Items), NEW r \in Seq(Items)
    PROVE  Prompts(s \o r) = Prompts(s) \cup Prompts(r)
<1>1. ASSUME NEW t \in Prompts(s \o r) PROVE t \in Prompts(s) \cup Prompts(r)
  <2>1. PICK i \in DOMAIN (s \o r) : (s \o r)[i].role = "user" /\ (s \o r)[i].turn = t
    BY <1>1, PromptsAre
  <2>2. CASE i \in DOMAIN s /\ (s \o r)[i] = s[i]
    BY <2>1, <2>2, PromptsAre
  <2>3. CASE i - Len(s) \in DOMAIN r /\ (s \o r)[i] = r[i - Len(s)]
    BY <2>1, <2>3, PromptsAre
  <2> QED
    BY <2>2, <2>3, CatFacts
<1>2. ASSUME NEW t \in Prompts(s) PROVE t \in Prompts(s \o r)
  <2>1. PICK i \in DOMAIN s : s[i].role = "user" /\ s[i].turn = t
    BY <1>2, PromptsAre
  <2>2. i \in DOMAIN (s \o r) /\ (s \o r)[i] = s[i]
    BY <2>1, CatFacts
  <2> QED
    BY <2>1, <2>2, PromptsAre
<1>3. ASSUME NEW t \in Prompts(r) PROVE t \in Prompts(s \o r)
  <2>1. PICK i \in DOMAIN r : r[i].role = "user" /\ r[i].turn = t
    BY <1>3, PromptsAre
  <2>2. Len(s) + i \in DOMAIN (s \o r) /\ (s \o r)[Len(s) + i] = r[i]
    BY <2>1, CatFacts
  <2> QED
    BY <2>1, <2>2, PromptsAre
<1> QED
  BY <1>1, <1>2, <1>3

LEMMA PromptsTail ==
    ASSUME NEW s \in Seq(Items), s # <<>>, s[1].role # "user"
    PROVE  Prompts(Tail(s)) = Prompts(s)
<1>1. ASSUME NEW t \in Prompts(s) PROVE t \in Prompts(Tail(s))
  <2>1. PICK i \in DOMAIN s : s[i].role = "user" /\ s[i].turn = t
    BY <1>1, PromptsAre
  <2>2. i - 1 \in DOMAIN Tail(s) /\ Tail(s)[i - 1] = s[i]
    BY <2>1, TailFacts
  <2> DEFINE r == Tail(s)
  <2>3. i - 1 \in DOMAIN r /\ r[i - 1].role = "user" /\ r[i - 1].turn = t
    BY <2>1, <2>2
  <2>4. t \in Prompts(r)
    <3> HIDE DEF r
    <3> QED
      BY <2>3, PromptsAre
  <2> QED
    BY <2>4
<1>2. ASSUME NEW t \in Prompts(Tail(s)) PROVE t \in Prompts(s)
  <2> DEFINE r == Tail(s)
  <2>1. PICK i \in DOMAIN r : r[i].role = "user" /\ r[i].turn = t
    <3> HIDE DEF r
    <3> QED
      BY <1>2, PromptsAre DEF r
  <2>2. i + 1 \in DOMAIN s /\ r[i] = s[i + 1]
    BY <2>1, TailFacts
  <2> QED
    BY <2>1, <2>2, PromptsAre
<1> QED
  BY <1>1, <1>2

LEMMA PromptsNone == Prompts(<<>>) = {}
BY DEF Prompts

LEMMA OrderCat ==
    ASSUME NEW s \in Seq(Items), NEW r \in Seq(Items), Ordered(s), Ordered(r), Before(s, r)
    PROVE  Ordered(s \o r)
<1> SUFFICES ASSUME NEW i \in DOMAIN (s \o r), NEW j \in DOMAIN (s \o r), i < j,
                    (s \o r)[i].role = "user", (s \o r)[j].role = "user"
             PROVE  (s \o r)[i].turn < (s \o r)[j].turn
  BY DEF Ordered
<1>1. CASE i \in DOMAIN s /\ j \in DOMAIN s
  BY <1>1, CatFacts DEF Ordered
<1>2. CASE i \in DOMAIN s /\ j \notin DOMAIN s
  BY <1>2, CatFacts DEF Before
<1>3. CASE i \notin DOMAIN s
  <2>1. /\ i - Len(s) \in DOMAIN r /\ j - Len(s) \in DOMAIN r /\ i - Len(s) < j - Len(s)
        /\ (s \o r)[i] = r[i - Len(s)] /\ (s \o r)[j] = r[j - Len(s)]
    BY <1>3, CatFacts
  <2> QED
    BY <2>1 DEF Ordered
<1> QED
  BY <1>1, <1>2, <1>3

LEMMA UpToCat ==
    ASSUME NEW s \in Seq(Items), NEW r \in Seq(Items), NEW n
    PROVE  UpTo(s, n) /\ UpTo(r, n) => UpTo(s \o r, n)
BY CatFacts DEF UpTo

\* An item of the assistant, or results, add no prompt and say nothing.
LEMMA OtherCat ==
    ASSUME NEW s \in Seq(Items), NEW x \in Items, x.role # "user"
    PROVE  /\ Prompts(s \o <<x>>) = Prompts(s)
           /\ Ordered(s) => Ordered(s \o <<x>>)
           /\ \A n : UpTo(s, n) => UpTo(s \o <<x>>, n)
<1>1. Prompts(<<x>>) = {}
  BY OneFacts, PromptsAre
<1>2. Ordered(<<x>>) /\ Before(s, <<x>>) /\ \A n : UpTo(<<x>>, n)
  BY OneFacts DEF Ordered, Before, UpTo
<1>3. <<x>> \in Seq(Items)
  BY OneFacts
<1>4. Prompts(s \o <<x>>) = Prompts(s)
  <2>1. Prompts(s \o <<x>>) = Prompts(s) \cup Prompts(<<x>>)
    BY <1>3, PromptsCat
  <2> QED
    BY <1>1, <2>1
<1>5. Ordered(s) => Ordered(s \o <<x>>)
  BY <1>2, <1>3, OrderCat
<1>6. \A n : UpTo(s, n) => UpTo(s \o <<x>>, n)
  BY <1>2, <1>3, UpToCat
<1> QED
  BY <1>4, <1>5, <1>6

\* The last item of s that speaks of a mode, if one does.
LEMMA FinalExists ==
    ASSUME NEW s \in Seq(Items), NEW k \in DOMAIN s, s[k].says # "none"
    PROVE  \E m \in DOMAIN s : Final(s, m)
<1> DEFINE B == {n \in 0 .. Len(s) : \A j \in DOMAIN s : j > n => s[j].says = "none"}
<1>1. Len(s) \in Nat /\ DOMAIN s = 1 .. Len(s) /\ Len(s) \in B
  OBVIOUS
<1>2. B \in SUBSET Nat /\ B # {}
  BY <1>1
<1>3. PICK m \in B : \A n \in B : m <= n
  <2> HIDE DEF B
  <2> QED
    BY <1>2, Least
<1>4. m \in DOMAIN s
  BY <1>1, <1>3
<1>5. s[m].says # "none"
  <2> SUFFICES ASSUME s[m].says = "none" PROVE FALSE
    OBVIOUS
  <2>1. m - 1 \in 0 .. Len(s) /\ \A j \in DOMAIN s : j > m - 1 => j = m \/ j > m
    BY <1>1, <1>4
  <2>2. m - 1 \in B
    BY <1>3, <2>1
  <2> QED
    BY <1>1, <1>3, <1>4, <2>2
<1> QED
  BY <1>3, <1>4, <1>5 DEF Final

-------------------------------------------------------------------------------
(* The history that is handed over *)

\* What the recursion says of each of its elements.
LEMMA CarryingIs ==
    ASSUME NEW s, Len(s) \in Nat
    PROVE  LET f == Carrying(s)
           IN  /\ f[0] = <<>>
               /\ \A i \in 1 .. Len(s) :
                     f[i] = IF Readable(s[i]) THEN Append(f[i - 1], Carried(s[i])) ELSE f[i - 1]
<1> DEFINE n == Len(s)
           Nth(g, i) == IF i = 0 THEN <<>>
                        ELSE IF Readable(s[i]) THEN Append(g[i - 1], Carried(s[i])) ELSE g[i - 1]
           Until(g, k) == g = [i \in 0 .. k |-> Nth(g, i)]
           f == Carrying(s)
<1>1. \A k \in 0 .. n : \E g : Until(g, k)
  <2> DEFINE S == {k \in 0 .. n : ~\E g : Until(g, k)}
  <2> SUFFICES ASSUME S # {}
               PROVE  FALSE
    OBVIOUS
  <2>1. S \in SUBSET Nat
    OBVIOUS
  <2>2. PICK m \in S : \A k \in S : m <= k
    BY <2>1, Least
  <2>3. CASE m = 0
    <3>1. Until([i \in 0 .. 0 |-> <<>>], 0)
      <4>1. \A i \in 0 .. 0 : i = 0
        OBVIOUS
      <4> QED
        BY <4>1
    <3> QED
      BY <2>3, <3>1
  <2>4. CASE m # 0
    <3>1. m - 1 \in 0 .. n /\ m \in 1 .. n /\ m \in Nat /\ ~(m <= m - 1)
      BY <2>4
    <3>2. PICK g : Until(g, m - 1)
      BY <2>2, <3>1
    <3> DEFINE h == [i \in 0 .. m |-> IF i = m THEN Nth(g, m) ELSE g[i]]
    <3>3. \A i \in 0 .. m - 1 : g[i] = Nth(g, i) /\ i \in 0 .. m /\ i # m
      <4>1. g = [i \in 0 .. m - 1 |-> Nth(g, i)]
        BY <3>2
      <4> HIDE DEF Nth
      <4> QED
        BY <3>1, <4>1
    <3>4. ASSUME NEW i \in 0 .. m
          PROVE  h[i] = Nth(h, i)
      <4>1. CASE i = 0
        <5>1. h[0] = g[0] /\ g[0] = <<>>
          BY <2>4, <3>1, <3>3
        <5> QED
          BY <4>1, <5>1
      <4>2. CASE i # 0 /\ i # m
        <5>1. i \in 0 .. m - 1 /\ i - 1 \in 0 .. m - 1
          BY <3>1, <4>2
        <5>2. h[i] = g[i] /\ h[i - 1] = g[i - 1]
          BY <3>3, <5>1
        <5> QED
          BY <3>3, <4>2, <5>1, <5>2
      <4>3. CASE i = m
        <5>1. m - 1 \in 0 .. m - 1
          BY <3>1
        <5>2. h[m - 1] = g[m - 1] /\ h[m] = Nth(g, m)
          BY <3>1, <3>3, <5>1
        <5> QED
          BY <2>4, <4>3, <5>2
      <4> QED
        BY <4>1, <4>2, <4>3
    <3>5. Until(h, m)
      BY <3>4
    <3> QED
      BY <3>5
  <2> QED
    BY <2>3, <2>4
<1>2. f = CHOOSE g : Until(g, n)
  BY DEF Carrying
<1>3. Until(f, n)
  <2>1. \E g : Until(g, n)
    BY <1>1
  <2> HIDE DEF Until, f
  <2> QED
    BY <1>2, <2>1
<1> HIDE DEF f
<1>4. \A i \in 0 .. n : f[i] = Nth(f, i)
  BY <1>3
<1>5. f[0] = <<>>
  BY <1>4
<1>6. \A i \in 1 .. n : i \in 0 .. n /\ i # 0
  OBVIOUS
<1>7. \A i \in 1 .. n : f[i] = Nth(f, i)
  BY <1>4, <1>6
<1> QED
  BY <1>5, <1>6, <1>7 DEF f

\* A sequence h of replayed items, with prompts of the first n of s, in their order.
Relays(h, s, n) ==
    /\ h \in Seq(Items)
    /\ \A i \in DOMAIN h : h[i].replayed
    /\ Ordered(h)
    /\ \A i \in DOMAIN h : h[i].role = "user" =>
          \E k \in 1 .. n : s[k].role = "user" /\ s[k].turn = h[i].turn

LEMMA AppendRelays ==
    ASSUME NEW s \in Seq(Items), Ordered(s), NEW n \in Nat, n + 1 \in DOMAIN s, NEW h,
           Relays(h, s, n)
    PROVE  Relays(Append(h, Carried(s[n + 1])), s, n + 1) /\ Relays(h, s, n + 1)
<1> DEFINE x == Carried(s[n + 1])
           r == Append(h, x)
<1>1. /\ x \in Items /\ x.replayed /\ x.turn = s[n + 1].turn
      /\ (x.role = "user" <=> s[n + 1].role = "user")
  <2>1. s[n + 1] \in Items
    OBVIOUS
  <2> HIDE DEF r
  <2>2. \A i \in Items : /\ Carried(i) \in Items /\ Carried(i).replayed
                         /\ Carried(i).turn = i.turn
                         /\ (Carried(i).role = "user" <=> i.role = "user")
    BY DEF Carried, Items, Roles
  <2> QED
    BY <2>1, <2>2
<1>2. h \in Seq(Items) /\ n + 1 \in Nat /\ DOMAIN s = 1 .. Len(s) /\ Len(s) \in Nat
  BY DEF Relays
<1> HIDE DEF x
<1>3. /\ r \in Seq(Items)
      /\ \A i \in DOMAIN r : \/ i \in DOMAIN h /\ r[i] = h[i]
                             \/ i = Len(h) + 1 /\ i \notin DOMAIN h /\ r[i] = x
      /\ Len(h) \in Nat /\ DOMAIN h = 1 .. Len(h)
  BY <1>1, <1>2
<1> HIDE DEF r
<1>4. \A i \in DOMAIN h : h[i].role = "user" =>
         \E k \in 1 .. n + 1 : s[k].role = "user" /\ s[k].turn = h[i].turn
  BY DEF Relays
<1>5. \A i \in DOMAIN h : h[i].role = "user" /\ x.role = "user" => h[i].turn < x.turn
  <2> SUFFICES ASSUME NEW i \in DOMAIN h, h[i].role = "user", x.role = "user"
               PROVE  h[i].turn < x.turn
    OBVIOUS
  <2>1. PICK k \in 1 .. n : s[k].role = "user" /\ s[k].turn = h[i].turn
    BY DEF Relays
  <2>2. k \in DOMAIN s /\ k < n + 1
    BY <1>2
  <2> QED
    BY <1>1, <2>1, <2>2 DEF Ordered
<1>6. Ordered(r)
  <2> SUFFICES ASSUME NEW i \in DOMAIN r, NEW j \in DOMAIN r, i < j,
                      r[i].role = "user", r[j].role = "user"
               PROVE  r[i].turn < r[j].turn
    BY DEF Ordered
  <2>1. i \in DOMAIN h /\ r[i] = h[i]
    <3> SUFFICES ASSUME i = Len(h) + 1 PROVE FALSE
      BY <1>3
    <3>1. j \in 1 .. Len(h) + 1
      BY <1>3
    <3> QED
      BY <1>3, <3>1
  <2>2. CASE j \in DOMAIN h /\ r[j] = h[j]
    BY <2>1, <2>2 DEF Relays, Ordered
  <2>3. CASE r[j] = x
    BY <1>5, <2>1, <2>3
  <2> QED
    BY <1>3, <2>2, <2>3
<1>7. \A i \in DOMAIN r : r[i].replayed
  BY <1>1, <1>3 DEF Relays
<1>8. ASSUME NEW i \in DOMAIN r, r[i].role = "user"
      PROVE  \E k \in 1 .. n + 1 : s[k].role = "user" /\ s[k].turn = r[i].turn
  <2>1. CASE i \in DOMAIN h /\ r[i] = h[i]
    BY <1>4, <1>8, <2>1
  <2>2. CASE r[i] = x
    <3>1. n + 1 \in 1 .. n + 1
      OBVIOUS
    <3> QED
      BY <1>1, <1>8, <2>2, <3>1
  <2> QED
    BY <1>3, <2>1, <2>2
<1>9. Relays(h, s, n + 1)
  BY <1>4 DEF Relays
<1> QED
  BY <1>3, <1>6, <1>7, <1>8, <1>9 DEF Relays, r, x

LEMMA CarryingRelays ==
    ASSUME NEW s \in Seq(Items), Ordered(s)
    PROVE  \A n \in 0 .. Len(s) : Relays(Carrying(s)[n], s, n)
<1> DEFINE f == Carrying(s)
           S == {n \in 0 .. Len(s) : ~ Relays(f[n], s, n)}
<1>1. Len(s) \in Nat /\ DOMAIN s = 1 .. Len(s)
  OBVIOUS
<1>2. /\ f[0] = <<>>
      /\ \A i \in 1 .. Len(s) :
            f[i] = IF Readable(s[i]) THEN Append(f[i - 1], Carried(s[i])) ELSE f[i - 1]
  BY <1>1, CarryingIs
<1> HIDE DEF f
<1> SUFFICES ASSUME S # {} PROVE FALSE
  BY DEF f
<1>3. S \in SUBSET Nat
  OBVIOUS
<1>4. PICK m \in S : \A k \in S : m <= k
  BY <1>3, Least
<1>5. Relays(f[0], s, 0)
  BY <1>2 DEF Relays, Ordered
<1>6. m # 0 /\ m \in 1 .. Len(s) /\ m - 1 \in 0 .. Len(s) /\ m - 1 \in Nat /\ ~(m <= m - 1)
  BY <1>1, <1>4, <1>5
<1>7. Relays(f[m - 1], s, m - 1)
  BY <1>4, <1>6
<1>8. (m - 1) + 1 = m /\ m \in DOMAIN s
  BY <1>1, <1>6
<1>9. Relays(Append(f[m - 1], Carried(s[m])), s, m) /\ Relays(f[m - 1], s, m)
  <2>1. (m - 1) + 1 \in DOMAIN s
    BY <1>8
  <2> QED
    BY <1>6, <1>7, <1>8, <2>1, AppendRelays
<1>10. Relays(f[m], s, m)
  BY <1>2, <1>6, <1>9
<1> QED
  BY <1>4, <1>10

(* What is handed over is replayed and of prompts of the conversation, in     *)
(* their order (ProviderAdapter::history).                                    *)
LEMMA HistoryIs ==
    ASSUME NEW s \in Seq(Items), Ordered(s)
    PROVE  /\ History(s) \in Seq(Items) /\ Ordered(History(s))
           /\ \A i \in DOMAIN History(s) : History(s)[i].replayed
           /\ Prompts(History(s)) \subseteq Prompts(s)
           /\ \A n : UpTo(s, n) => UpTo(History(s), n)
<1> DEFINE h == History(s)
<1>1. Len(s) \in Nat /\ DOMAIN s = 1 .. Len(s) /\ Len(s) \in 0 .. Len(s)
  OBVIOUS
<1>2. Relays(h, s, Len(s))
  <2>1. CASE Local(protocol)
    BY <1>1, <2>1, CarryingRelays DEF History
  <2>2. CASE ~Local(protocol)
    BY <2>2 DEF History, Relays, Ordered
  <2> QED
    BY <2>1, <2>2
<1> HIDE DEF h
<1>3. Prompts(h) \subseteq Prompts(s)
  <2> SUFFICES ASSUME NEW t \in Prompts(h) PROVE t \in Prompts(s)
    OBVIOUS
  <2>1. PICK i \in DOMAIN h : h[i].role = "user" /\ h[i].turn = t
    BY PromptsAre
  <2>2. PICK k \in DOMAIN s : s[k].role = "user" /\ s[k].turn = t
    BY <1>1, <1>2, <2>1 DEF Relays
  <2> QED
    BY <2>2, PromptsAre
<1>4. ASSUME NEW n, UpTo(s, n) PROVE UpTo(h, n)
  BY <1>1, <1>2, <1>4 DEF Relays, UpTo
<1> QED
  BY <1>2, <1>3, <1>4 DEF Relays, h

LEMMA EmptyFacts ==
    /\ <<>> \in Seq(Items) /\ Ordered(<<>>) /\ Prompts(<<>>) = {} /\ \A n : UpTo(<<>>, n)
    /\ \A s : Before(s, <<>>) /\ Before(<<>>, s)
    /\ DOMAIN <<>> = {}
BY PromptsNone DEF Ordered, UpTo, Before

LEMMA ModeFacts ==
    /\ \A m \in Modes : PhaseOf(m) \in Phases /\ AuthorityOf(m) \in Authorities
    /\ "none" \notin Modes /\ "none" \notin Phases
    /\ TypeOK => Mode \in Modes
<1>1. \A m \in Modes : PhaseOf(m) \in Phases /\ AuthorityOf(m) \in Authorities
  BY DEF PhaseOf, AuthorityOf, Phases, Modes, Authorities
<1>2. TypeOK => Mode \in Modes
  BY DEF TypeOK, Mode, Modes
<1> QED
  BY <1>1, <1>2, Items1 DEF Phases

LEMMA LocalIs == \A p \in Protocols : /\ Local(p) <=> p \in {"chat_completions", "messages"}
                                      /\ p # "none"
BY ConversationAssumption DEF Local, AllProtocols

LEMMA UsersAreNat ==
    ASSUME NEW s \in Seq(Items)
    PROVE  Prompts(s) \subseteq Nat
<1> SUFFICES ASSUME NEW t \in Prompts(s) PROVE t \in Nat
  OBVIOUS
<1>1. PICK i \in DOMAIN s : s[i].turn = t
  BY PromptsAre
<1>2. s[i] \in Items
  OBVIOUS
<1> QED
  BY <1>1, <1>2 DEF Items

\* An item that speaks of no mode changes nothing of what was said last.
LEMMA SilentCat ==
    ASSUME NEW s \in Seq(Items), NEW x \in Items, x.says = "none"
    PROVE  /\ Stale(s) => Stale(s \o <<x>>)
           /\ \A sys, m : Heard(s, sys, m) => Heard(s \o <<x>>, sys, m)
<1> DEFINE r == s \o <<x>>
<1>1. /\ DOMAIN s \subseteq DOMAIN r /\ \A i \in DOMAIN s : r[i] = s[i]
      /\ \A i \in DOMAIN r : i \in DOMAIN s \/ r[i] = x
  <2>1. /\ <<x>> \in Seq(Items) /\ DOMAIN <<x>> = {1} /\ <<x>>[1] = x
    BY OneFacts
  <2> QED
    BY <2>1, CatFacts
<1> HIDE DEF r
<1>2. \A k \in DOMAIN s : Final(s, k) => k \in DOMAIN r /\ r[k] = s[k] /\ Final(r, k)
  BY <1>1 DEF Final
<1>3. Stale(s) => Stale(r)
  BY <1>2 DEF Stale
<1>4. \A sys, m : Heard(s, sys, m) => Heard(r, sys, m)
  BY <1>1, <1>2 DEF Heard
<1> QED
  BY <1>3, <1>4 DEF r

LEMMA SpeakingCat ==
    ASSUME NEW s \in Seq(Items), NEW x \in Items, x.says # "none"
    PROVE  \A sys : Heard(s \o <<x>>, sys, x.says)
<1> DEFINE r == s \o <<x>>
<1>1. /\ Len(s) + 1 \in DOMAIN r /\ r[Len(s) + 1] = x
      /\ \A i \in DOMAIN r : i <= Len(s) + 1 /\ Len(s) \in Nat /\ i \in Nat
  <2>1. /\ <<x>> \in Seq(Items) /\ DOMAIN <<x>> = {1} /\ <<x>>[1] = x /\ Len(<<x>>) = 1
    BY OneFacts
  <2> QED
    BY <2>1, CatFacts
<1> HIDE DEF r
<1>2. Final(r, Len(s) + 1)
  BY <1>1 DEF Final
<1> QED
  BY <1>1, <1>2 DEF Heard, r

\* q is r between h and u.
Between(q, h, r, u) ==
    /\ q \in Seq(Items) /\ Len(q) = Len(r) + 2 /\ DOMAIN q = 1 .. Len(r) + 2 /\ Len(r) \in Nat
    /\ q[1] = h /\ q[Len(r) + 2] = u /\ DOMAIN r = 1 .. Len(r)
    /\ \A i \in DOMAIN q : \/ i = 1 \/ i = Len(r) + 2
                           \/ i - 1 \in DOMAIN r /\ q[i] = r[i - 1]
    /\ \A i \in DOMAIN r : i + 1 \in DOMAIN q /\ q[i + 1] = r[i]

LEMMA BetweenFacts ==
    ASSUME NEW h \in Items, NEW u \in Items, NEW r \in Seq(Items), NEW q, q = <<h>> \o r \o <<u>>
    PROVE  Between(q, h, r, u)
<1> DEFINE p == <<h>> \o r
<1>1. /\ p \in Seq(Items) /\ Len(p) = Len(r) + 1 /\ DOMAIN p = 1 .. Len(r) + 1 /\ p[1] = h
      /\ \A i \in DOMAIN r : p[1 + i] = r[i]
      /\ Len(r) \in Nat /\ DOMAIN r = 1 .. Len(r)
  BY OneFacts, CatFacts
<1> HIDE DEF p
<1>q. q = p \o <<u>>
  BY DEF p
<1>2. /\ q \in Seq(Items) /\ Len(q) = Len(p) + 1 /\ DOMAIN q = 1 .. Len(p) + 1
      /\ \A i \in DOMAIN p : q[i] = p[i]
      /\ q[Len(p) + 1] = u
  <2>1. <<u>> \in Seq(Items) /\ Len(<<u>>) = 1 /\ DOMAIN <<u>> = {1} /\ <<u>>[1] = u
    BY OneFacts
  <2> QED
    BY <1>q, <1>1, <2>1, CatFacts
<1>3. q[1] = h /\ q[Len(r) + 2] = u /\ DOMAIN q = 1 .. Len(r) + 2 /\ Len(q) = Len(r) + 2
  BY <1>1, <1>2
<1>4. \A i \in DOMAIN r : i + 1 \in DOMAIN q /\ q[i + 1] = r[i]
  BY <1>1, <1>2
<1>5. \A i \in DOMAIN q : \/ i = 1 \/ i = Len(r) + 2
                          \/ i - 1 \in DOMAIN r /\ q[i] = r[i - 1]
  <2> SUFFICES ASSUME NEW i \in DOMAIN q, i # 1, i # Len(r) + 2
               PROVE  i - 1 \in DOMAIN r /\ q[i] = r[i - 1]
    OBVIOUS
  <2>1. i - 1 \in DOMAIN r /\ (i - 1) + 1 = i
    BY <1>1, <1>3
  <2> QED
    BY <1>4, <2>1
<1> QED
  BY <1>1, <1>2, <1>3, <1>4, <1>5 DEF Between

-------------------------------------------------------------------------------
(* Every step keeps the invariant *)

LEMMA SetModeKeeps ==
    ASSUME ConversationInv, NEW m \in Modes, SetMode(m)
    PROVE  ConversationInv'
<1> USE DEF ConversationInv, modeVars, adapterVars, agentVars, ghostVars, counters
<1>1. TypeOK'
  <2>1. modeChanges' \in Nat /\ modeFailures' \in Nat
    BY DEF TypeOK, SetMode, ChangePhase
  <2>2. phase' \in Phases /\ authority' \in Authorities /\ sentPhase' \in Phases \cup {"none"}
    BY ModeFacts DEF TypeOK, SetMode, ChangePhase
  <2>3. UNCHANGED <<pc, turn, status, protocol, items, system, started, replay, request, stored,
                    finished, forgotten, rounds, switches, crashes>>
    BY DEF SetMode, ChangePhase
  <2> QED
    BY <2>1, <2>2, <2>3 DEF TypeOK
<1>2. Asking'
  BY DEF TypeOK, Asking, Answering, SetMode, ChangePhase
<1>3. InTurn'
  BY DEF TypeOK, Asking, Answering, InTurn, SetMode, ChangePhase
<1>4. Remembering'
  BY DEF TypeOK, Asking, Answering, InTurn, Remembering, SetMode, ChangePhase
<1>5. Telling'
  <2>1. UNCHANGED <<pc, protocol, items, system, started, replay>> /\ pc = "idle"
    BY DEF SetMode, ChangePhase
  <2>2. /\ ~started => sentPhase' = "none"
        /\ modeFailures' = 0 => sentPhase' \in {"none", phase'}
    BY DEF Telling, TypeOK, SetMode, ChangePhase
  <2>3. sentPhase' # phase'
    BY ModeFacts DEF SetMode, ChangePhase
  <2> QED
    BY <2>1, <2>2, <2>3 DEF Telling, Answering
<1> QED
  BY <1>1, <1>2, <1>3, <1>4, <1>5

LEMMA SetModeFailsKeeps ==
    ASSUME ConversationInv, NEW m \in Modes, SetModeFails(m)
    PROVE  ConversationInv'
<1> USE DEF ConversationInv, modeVars, adapterVars, agentVars, ghostVars, counters
<1>1. TypeOK'
  <2>1. modeChanges' \in Nat /\ modeFailures' \in Nat
    BY DEF TypeOK, SetModeFails, ChangePhase
  <2>2. phase' \in Phases /\ authority' \in Authorities /\ sentPhase' \in Phases \cup {"none"}
    BY ModeFacts DEF TypeOK, SetModeFails, ChangePhase
  <2>3. UNCHANGED <<pc, turn, status, protocol, items, system, started, replay, request, stored,
                    finished, forgotten, rounds, switches, crashes>>
    BY DEF SetModeFails, ChangePhase
  <2> QED
    BY <2>1, <2>2, <2>3 DEF TypeOK
<1>2. Asking'
  BY DEF TypeOK, Asking, Answering, SetModeFails, ChangePhase
<1>3. InTurn'
  BY DEF TypeOK, Asking, Answering, InTurn, SetModeFails, ChangePhase
<1>4. Remembering'
  BY DEF TypeOK, Asking, Answering, InTurn, Remembering, SetModeFails, ChangePhase
<1>5. Telling'
  <2>1. UNCHANGED <<pc, protocol, items, system, started, replay>> /\ pc = "idle"
    BY DEF SetModeFails, ChangePhase
  <2>2. /\ ~started => sentPhase' = "none"
        /\ modeFailures' = 0 => sentPhase' \in {"none", phase'}
    BY DEF Telling, TypeOK, SetModeFails, ChangePhase
  <2>3. ~(sentPhase' = phase' /\ modeFailures' <= 1)
    <3> SUFFICES ASSUME sentPhase = phase', modeFailures + 1 <= 1 PROVE FALSE
      BY DEF SetModeFails, ChangePhase
    <3>1. modeFailures = 0
      BY DEF TypeOK
    <3>2. phase' # phase /\ phase' # "none"
      BY ModeFacts DEF SetModeFails, ChangePhase
    <3> QED
      BY <3>1, <3>2 DEF Telling
  <2> QED
    BY <2>1, <2>2, <2>3 DEF Telling, Answering
<1> QED
  BY <1>1, <1>2, <1>3, <1>4, <1>5

LEMMA NeverSentKeeps ==
    ASSUME ConversationInv, NeverSent
    PROVE  ConversationInv'
<1> USE DEF ConversationInv, modeVars, adapterVars, agentVars, ghostVars, counters
<1>m. Mode' = Mode
  BY DEF Mode, NeverSent
<1>1. TypeOK'
  <2>1. forgotten' \subseteq Nat
    BY UsersAreNat DEF TypeOK, NeverSent
  <2> QED
    BY <2>1, EmptyFacts DEF TypeOK, NeverSent
<1>2. Asking'
  BY DEF TypeOK, Asking, Answering, NeverSent
<1>3. InTurn'
  BY EmptyFacts DEF InTurn, NeverSent
<1>4. Remembering'
  BY EmptyFacts DEF Remembering, Answering, NeverSent
<1>5. Telling'
  BY DEF TypeOK, Asking, Answering, Telling, Mode, NeverSent
<1> QED
  BY <1>1, <1>2, <1>3, <1>4, <1>5

LEMMA SaveKeeps ==
    ASSUME ConversationInv, Save
    PROVE  ConversationInv'
<1> USE DEF ConversationInv, modeVars, adapterVars, agentVars, ghostVars, counters
<1>m. Mode' = Mode
  BY DEF Mode, Save
<1>1. TypeOK'
  BY DEF TypeOK, Save
<1>2. Asking'
  BY DEF TypeOK, Asking, Answering, Save
<1>3. InTurn'
  BY DEF TypeOK, Asking, Answering, InTurn, Save
<1>4. Remembering'
  <2>1. pc = "closing" /\ request = <<>> /\ replay = <<>>
    BY DEF Save, Asking
  <2>2. finished \ forgotten \subseteq Prompts(items)
    BY <2>1, EmptyFacts DEF Remembering
  <2> QED
    BY <2>1, <2>2 DEF Remembering, Answering, Save
<1>5. Telling'
  BY DEF TypeOK, Asking, Answering, Telling, Mode, Save
<1> QED
  BY <1>1, <1>2, <1>3, <1>4, <1>5

LEMMA FinishKeeps ==
    ASSUME ConversationInv, Finish
    PROVE  ConversationInv'
<1> USE DEF ConversationInv, modeVars, adapterVars, agentVars, ghostVars, counters
<1>m. Mode' = Mode
  BY DEF Mode, Finish
<1>1. TypeOK'
  BY DEF TypeOK, Finish
<1>2. Asking'
  BY DEF TypeOK, Asking, Answering, Finish
<1>3. InTurn'
  BY DEF TypeOK, Asking, Answering, InTurn, Finish
<1>4. Remembering'
  <2>1. pc = "final" /\ request = <<>> /\ turn \in 1 .. turn
    BY DEF Finish, Asking, Answering, TypeOK
  <2>2. status = "completed" => turn \in Prompts(items) \cup forgotten
    BY <2>1, EmptyFacts DEF Remembering, Answering
  <2> QED
    BY <2>1, <2>2 DEF Remembering, Answering, Finish
<1>5. Telling'
  BY DEF TypeOK, Asking, Answering, Telling, Mode, Finish
<1> QED
  BY <1>1, <1>2, <1>3, <1>4, <1>5

LEMMA CrashKeeps ==
    ASSUME ConversationInv, Crash
    PROVE  ConversationInv'
<1> USE DEF ConversationInv, modeVars, adapterVars, agentVars, ghostVars, counters
<1>1. TypeOK'
  <2>1. {rounds, switches, modeChanges, modeFailures, crashes}' \subseteq Nat
    BY DEF TypeOK, Crash
  <2> QED
    BY <2>1, EmptyFacts DEF TypeOK, Crash
<1>2. Asking'
  BY DEF TypeOK, Asking, Answering, Crash
<1>3. InTurn'
  BY EmptyFacts DEF InTurn, Crash
<1>4. Remembering'
  BY EmptyFacts DEF Remembering, Answering, Crash
<1>5. Telling'
  BY DEF TypeOK, Asking, Answering, Telling, Mode, Crash
<1> QED
  BY <1>1, <1>2, <1>3, <1>4, <1>5

LEMMA RestartKeeps ==
    ASSUME ConversationInv, Restart
    PROVE  ConversationInv'
<1> USE DEF ConversationInv, modeVars, adapterVars, agentVars, ghostVars, counters
<1>1. TypeOK'
  BY DEF TypeOK, Restart
<1>2. Asking'
  BY DEF TypeOK, Asking, Answering, Restart
<1>3. InTurn'
  BY EmptyFacts DEF InTurn, Asking, Restart
<1>4. Remembering'
  <2>1. CASE started'
    BY <2>1, EmptyFacts DEF Remembering, Answering, Asking, Restart
  <2>2. CASE ~started'
    BY <2>2, EmptyFacts DEF Remembering, Answering, Asking, Restart
  <2> QED
    BY <2>1, <2>2
<1>5. Telling'
  <2>1. /\ pc' = "idle" /\ items' = (IF started' THEN stored.items ELSE <<>>)
        /\ replay' = replay /\ phase' \in Phases
    BY DEF Restart
  <2>2. sentPhase' = "none" /\ phase' # "none"
    BY <2>1, ModeFacts DEF Restart, Telling
  <2> QED
    BY <2>1, <2>2, EmptyFacts DEF Telling, Answering
<1> QED
  BY <1>1, <1>2, <1>3, <1>4, <1>5

LEMMA LeaveKeeps ==
    ASSUME ConversationInv, NEW from \in Answering, NEW to \in {"closing", "idle"},
           NEW how \in {"cancelled", "failed"}, Leave(from, to, how)
    PROVE  ConversationInv'
<1> USE DEF ConversationInv, modeVars, adapterVars, agentVars, ghostVars, counters
<1>m. Mode' = Mode
  BY DEF Mode, Leave
<1>1. TypeOK'
  <2>1. forgotten' \subseteq Nat
    BY UsersAreNat DEF TypeOK, Leave
  <2> QED
    BY <2>1, EmptyFacts DEF TypeOK, Leave
<1>2. Asking'
  BY DEF TypeOK, Asking, Answering, Leave
<1>3. InTurn'
  BY EmptyFacts DEF InTurn, Leave
<1>4. Remembering'
  BY EmptyFacts DEF Remembering, Answering, Leave
<1>5. Telling'
  BY DEF TypeOK, Asking, Answering, Telling, Mode, Leave
<1> QED
  BY <1>1, <1>2, <1>3, <1>4, <1>5

LEMMA StutterKeeps ==
    ASSUME ConversationInv, UNCHANGED vars
    PROVE  ConversationInv'
<1> USE DEF ConversationInv, modeVars, adapterVars, agentVars, ghostVars, counters
<1>m. Mode' = Mode
  BY DEF Mode, vars
<1>1. TypeOK'
  BY DEF TypeOK, vars
<1>2. Asking'
  <2>1. UNCHANGED <<pc, turn, protocol, items, started, sentPhase, phase, replay, request>>
    BY DEF vars
  <2> QED
    BY <2>1, <1>m DEF Asking, Answering
<1>3. InTurn'
  BY DEF TypeOK, Asking, Answering, InTurn, vars
<1>4. Remembering'
  BY DEF TypeOK, Asking, Answering, InTurn, Remembering, vars
<1>5. Telling'
  BY DEF TypeOK, Asking, Answering, Telling, Mode, vars
<1> QED
  BY <1>1, <1>2, <1>3, <1>4, <1>5

LEMMA SwitchKeeps ==
    ASSUME ConversationInv, NEW p \in Protocols, Switch(p)
    PROVE  ConversationInv'
<1> USE DEF ConversationInv, modeVars, adapterVars, agentVars, ghostVars, counters
<1>1. /\ pc = "idle" /\ pc' = "idle" /\ protocol' = p /\ replay' = History(items)
      /\ items' = <<>> /\ system' = "none" /\ started' = FALSE /\ sentPhase' = "none"
      /\ forgotten' = forgotten \cup ((Prompts(items) \cup Prompts(replay)) \ Prompts(replay'))
      /\ UNCHANGED <<turn, status, phase, authority, request, stored, finished, rounds,
                     modeChanges, modeFailures, crashes>>
  BY DEF Switch
<1>2. switches' \in Nat
  BY DEF Switch, TypeOK
<1>3. /\ replay' \in Seq(Items) /\ Ordered(replay') /\ UpTo(replay', turn)
      /\ \A i \in DOMAIN replay' : replay'[i].replayed
  BY <1>1, HistoryIs DEF TypeOK, InTurn
<1>4. TypeOK'
  <2>1. forgotten' \subseteq Nat
    BY <1>1, UsersAreNat DEF TypeOK
  <2> QED
    BY <1>1, <1>2, <1>3, <2>1, EmptyFacts DEF TypeOK
<1>5. Asking'
  BY <1>1 DEF Asking, Answering
<1>6. InTurn'
  BY <1>1, <1>3, EmptyFacts DEF InTurn, Asking
<1>7. Remembering'
  <2>1. request = <<>>
    BY <1>1 DEF Asking
  <2>2. finished \ forgotten \subseteq Prompts(items) \cup Prompts(replay)
    BY <1>1, <2>1, EmptyFacts DEF Remembering
  <2>3. finished \ forgotten' \subseteq Prompts(replay')
    BY <1>1, <2>2
  <2> QED
    BY <1>1, <2>3 DEF Remembering, Answering
<1>8. Telling'
  BY <1>1, <1>3, EmptyFacts DEF Telling, Answering
<1> QED
  BY <1>4, <1>5, <1>6, <1>7, <1>8

\* What a request consists of.
LEMMA BuiltIs ==
    ASSUME TypeOK, Asking
    PROVE  LET q == Built
               n == Len(q)
           IN  /\ q \in Seq(Items) /\ n \in Nat \ {0} /\ DOMAIN q = 1 .. n
               /\ q[n].role = "user" /\ q[n].turn = turn + 1
               /\ q[n].says = IF started /\ sentPhase # phase THEN Mode ELSE "none"
               /\ started => n = 1
               /\ ~started => /\ n > 1 /\ q[1].role = "system" /\ q[1].says = Mode
                              /\ n = Len(replay) + 2 /\ DOMAIN replay = 1 .. n - 2
                              /\ \A i \in DOMAIN q : \/ i \in {1, n}
                                                     \/ /\ i - 1 \in DOMAIN replay
                                                        /\ q[i] = replay[i - 1]
                              /\ \A i \in DOMAIN replay : /\ i + 1 \in DOMAIN q
                                                          /\ q[i + 1] = replay[i]
<1> DEFINE u == [Item("user", Note) EXCEPT !.turn = turn + 1]
           h == [Item("system", Mode) EXCEPT !.turn = turn + 1]
<1>1. /\ u \in Items /\ u.role = "user" /\ u.turn = turn + 1
      /\ u.says = IF started /\ sentPhase # phase THEN Mode ELSE "none"
  <2>1. Note \in Modes \cup {"none"} /\ turn + 1 \in Nat
    BY ModeFacts DEF Note, TypeOK
  <2> QED
    BY <2>1 DEF Item, Items, Roles, Note
<1>2. h \in Items /\ h.role = "system" /\ h.says = Mode
  <2>1. Mode \in Modes /\ turn + 1 \in Nat
    BY ModeFacts DEF TypeOK
  <2> QED
    BY <2>1 DEF Item, Items, Roles
<1>3. Built = IF started THEN <<u>> ELSE <<h>> \o replay \o <<u>>
  BY DEF Built
<1> HIDE DEF u, h
<1>4. CASE started
  <2>1. Built = <<u>>
    BY <1>3, <1>4
  <2>2. Built \in Seq(Items) /\ Len(Built) = 1 /\ DOMAIN Built = 1 .. 1 /\ Built[1] = u
    BY <1>1, <2>1, OneFacts
  <2> QED
    BY <1>1, <1>4, <2>2
<1>5. CASE ~started
  <2>1. Built = <<h>> \o replay \o <<u>> /\ replay \in Seq(Items)
    BY <1>3, <1>5 DEF TypeOK
  <2>2. Between(Built, h, replay, u)
    BY <1>1, <1>2, <2>1, BetweenFacts
  <2> HIDE <2>1
  <2> QED
    BY <1>1, <1>2, <1>5, <2>2 DEF Between
<1> QED
  BY <1>4, <1>5

LEMMA PromptKeeps ==
    ASSUME ConversationInv, Prompt
    PROVE  ConversationInv'
<1> USE DEF ConversationInv, modeVars, adapterVars, agentVars, ghostVars, counters
<1> DEFINE q == Built
           n == Len(q)
<1>1. /\ pc = "idle" /\ pc' = "sending" /\ turn' = turn + 1 /\ status' = "completed"
      /\ request' = q /\ replay' = <<>>
      /\ UNCHANGED <<phase, authority, protocol, items, system, started, sentPhase, stored,
                     finished, forgotten, rounds, switches, modeChanges, modeFailures, crashes>>
  BY DEF Prompt
<1>2. Mode' = Mode
  BY <1>1 DEF Mode
<1>3. /\ q \in Seq(Items) /\ n \in Nat \ {0} /\ DOMAIN q = 1 .. n
      /\ q[n].role = "user" /\ q[n].turn = turn + 1
      /\ q[n].says = IF started /\ sentPhase # phase THEN Mode ELSE "none"
      /\ started => n = 1
      /\ ~started => /\ n > 1 /\ q[1].role = "system" /\ q[1].says = Mode
                     /\ n = Len(replay) + 2 /\ DOMAIN replay = 1 .. n - 2
                     /\ \A i \in DOMAIN q : \/ i \in {1, n}
                                            \/ /\ i - 1 \in DOMAIN replay
                                               /\ q[i] = replay[i - 1]
                     /\ \A i \in DOMAIN replay : i + 1 \in DOMAIN q /\ q[i + 1] = replay[i]
  BY BuiltIs
<1> HIDE DEF q, n
<1>a. n \in Nat /\ n >= 1 /\ q # <<>> /\ n \in DOMAIN q /\ turn \in Nat
  <2>1. n \in Nat /\ n >= 1
    BY <1>3
  <2>2. n \in DOMAIN q
    BY <1>3, <2>1
  <2>3. q # <<>>
    BY <2>2, EmptyFacts
  <2> QED
    BY <2>1, <2>2, <2>3 DEF TypeOK
<1>b. \A i \in DOMAIN q : i \in Nat /\ i <= n /\ q[i] \in Items /\ q[i].turn \in Nat
  <2>1. \A i \in DOMAIN q : q[i] \in Items
    BY <1>3
  <2> QED
    BY <1>3, <1>a, <2>1 DEF Items
<1>c. q[n].role = "user" /\ q[n].turn = turn + 1
  BY <1>3
<1>4. TypeOK'
  <2>1. turn' \in Nat /\ q # <<>>
    BY <1>1, <1>a
  <2> QED
    BY <1>1, <1>3, <2>1, EmptyFacts DEF TypeOK
<1>5. Asking'
  <2>1. turn + 1 # 0 /\ q # <<>>
    BY <1>a
  <2>2. ~started => \A i \in DOMAIN q : i \in {1, n} \/ q[i].replayed
    BY <1>3 DEF Telling
  <2> QED
    BY <1>1, <1>2, <1>3, <2>1, <2>2 DEF Asking, Answering
<1>6. InTurn'
  <2>1. turn \in Nat
    BY DEF TypeOK
  <2>2. \A i \in DOMAIN q : q[i].role = "user" =>
           i = n \/ (~started /\ i - 1 \in DOMAIN replay /\ q[i] = replay[i - 1])
    <3>1. CASE started
      BY <1>3, <3>1
    <3>2. CASE ~started
      BY <1>3, <3>2
    <3> QED
      BY <3>1, <3>2
  <2>3. \A i \in DOMAIN replay : replay[i] \in Items
    BY DEF TypeOK
  <2>4. \A i \in DOMAIN q : q[i].role = "user" /\ i # n => q[i].turn <= turn
    BY <2>2 DEF InTurn, UpTo
  <2>5. Ordered(q)
    <3> SUFFICES ASSUME NEW i \in DOMAIN q, NEW j \in DOMAIN q, i < j,
                        q[i].role = "user", q[j].role = "user"
                 PROVE  q[i].turn < q[j].turn
      BY DEF Ordered
    <3>1. i # n
      BY <1>b
    <3>2. CASE j = n
      BY <1>b, <1>c, <2>1, <2>4, <3>1, <3>2
    <3>3. CASE j # n
      <4>1. /\ i - 1 \in DOMAIN replay /\ q[i] = replay[i - 1]
            /\ j - 1 \in DOMAIN replay /\ q[j] = replay[j - 1] /\ i - 1 < j - 1
        BY <1>b, <2>2, <3>1, <3>3
      <4> QED
        BY <4>1 DEF InTurn, Ordered
    <3> QED
      BY <3>2, <3>3
  <2>6. UpTo(q, turn + 1)
    <3> SUFFICES ASSUME NEW i \in DOMAIN q, q[i].role = "user" PROVE q[i].turn <= turn + 1
      BY DEF UpTo
    <3> QED
      BY <1>b, <1>c, <2>1, <2>4
  <2>7. Before(items, q)
    <3> SUFFICES ASSUME NEW i \in DOMAIN items, NEW j \in DOMAIN q,
                        items[i].role = "user", q[j].role = "user"
                 PROVE  items[i].turn < q[j].turn
      BY DEF Before
    <3>1. items[i] \in Items /\ items[i].turn <= turn
      BY DEF TypeOK, InTurn, UpTo
    <3>2. CASE j = n
      BY <1>c, <2>1, <3>1, <3>2 DEF Items
    <3>3. CASE j # n
      <4>1. replay # <<>>
        BY <2>2, <3>3
      <4> QED
        BY <4>1 DEF Asking
    <3> QED
      BY <3>2, <3>3
  <2>8. \A s \in Seq(Items) : UpTo(s, turn) => UpTo(s, turn + 1)
    <3> SUFFICES ASSUME NEW s \in Seq(Items), UpTo(s, turn), NEW i \in DOMAIN s, s[i].role = "user"
                 PROVE  s[i].turn <= turn + 1
      BY DEF UpTo
    <3>1. s[i] \in Items /\ s[i].turn <= turn
      BY DEF UpTo
    <3> QED
      BY <2>1, <3>1 DEF Items
  <2> QED
    BY <1>1, <2>5, <2>6, <2>7, <2>8, EmptyFacts DEF InTurn, TypeOK
<1>7. Remembering'
  <2>1. Prompts(replay) \subseteq Prompts(q)
    <3> SUFFICES ASSUME NEW t \in Prompts(replay) PROVE t \in Prompts(q)
      OBVIOUS
    <3>1. PICK i \in DOMAIN replay : replay[i].role = "user" /\ replay[i].turn = t
      BY PromptsAre
    <3>2. ~started
      BY <3>1 DEF Asking
    <3>3. i + 1 \in DOMAIN q /\ q[i + 1] = replay[i]
      BY <1>3, <3>1, <3>2
    <3> QED
      BY <3>1, <3>3, PromptsAre
  <2>2. turn + 1 \in Prompts(q)
    BY <1>a, <1>c, PromptsAre
  <2>3. request = <<>> /\ turn \in Nat
    BY <1>1 DEF Asking, TypeOK
  <2>4. finished \ forgotten \subseteq Prompts(items) \cup Prompts(q)
    BY <1>1, <2>1, <2>3, EmptyFacts DEF Remembering
  <2>5. finished \subseteq 1 .. turn + 1
    BY <2>3 DEF Remembering
  <2> QED
    BY <1>1, <2>2, <2>4, <2>5 DEF Remembering, Answering
<1>8. Telling'
  BY <1>1, <1>2, EmptyFacts DEF Telling, Answering
<1> QED
  BY <1>4, <1>5, <1>6, <1>7, <1>8

\* What of the request joins the conversation: its prompts are the same.
LEMMA BodyIs ==
    ASSUME ConversationInv, pc = "sending"
    PROVE  /\ Body \in Seq(Items) /\ Prompts(Body) = Prompts(request)
           /\ Ordered(Body) /\ UpTo(Body, turn) /\ Before(items, Body)
           /\ items \o Body \in Seq(Items) /\ Ordered(items \o Body) /\ UpTo(items \o Body, turn)
           /\ Prompts(items \o Body) = Prompts(items) \cup Prompts(request)
           /\ turn \in Prompts(request)
           /\ started => ~Apart
<1> USE DEF ConversationInv
<1>1. request \in Seq(Items) /\ items \in Seq(Items) /\ request # <<>>
  BY DEF TypeOK
<1>2. /\ Body \in Seq(Items) /\ Prompts(Body) = Prompts(request)
      /\ Ordered(Body) /\ UpTo(Body, turn) /\ Before(items, Body)
  <2>1. CASE ~Apart
    BY <1>1, <2>1 DEF Body, InTurn
  <2>2. CASE Apart
    <3> DEFINE r == Tail(request)
    <3>1. Body = r /\ request[1].role # "user"
      BY <2>2 DEF Body, Apart
    <3>2. r \in Seq(Items) /\ Prompts(r) = Prompts(request)
      BY <1>1, <3>1, TailFacts, PromptsTail
    <3>3. \A i \in DOMAIN r : i \in Nat /\ i + 1 \in DOMAIN request /\ r[i] = request[i + 1]
      BY <1>1, TailFacts
    <3> HIDE DEF r
    <3>4. Ordered(r)
      <4> SUFFICES ASSUME NEW i \in DOMAIN r, NEW j \in DOMAIN r, i < j,
                          r[i].role = "user", r[j].role = "user"
                   PROVE  r[i].turn < r[j].turn
        BY DEF Ordered
      <4>1. i + 1 < j + 1
        BY <3>3
      <4> QED
        BY <3>3, <4>1 DEF InTurn, Ordered
    <3>5. UpTo(r, turn)
      BY <3>3 DEF InTurn, UpTo
    <3>6. Before(items, r)
      BY <3>3 DEF InTurn, Before
    <3> QED
      BY <3>1, <3>2, <3>4, <3>5, <3>6
  <2> QED
    BY <2>1, <2>2
<1>3. /\ items \o Body \in Seq(Items) /\ Ordered(items \o Body) /\ UpTo(items \o Body, turn)
      /\ Prompts(items \o Body) = Prompts(items) \cup Prompts(Body)
  BY <1>1, <1>2, CatFacts, OrderCat, UpToCat, PromptsCat DEF InTurn
<1>4. turn \in Prompts(request)
  <2>1. Len(request) \in DOMAIN request
    BY <1>1
  <2> QED
    BY <2>1, PromptsAre DEF Asking
<1>5. started => ~Apart
  BY DEF Asking, Apart
<1> QED
  BY <1>2, <1>3, <1>4, <1>5

\* What the conversation says of the mode once the request has joined it.
LEMMA SpokenIs ==
    ASSUME ConversationInv, pc = "sending", Local(protocol)
    PROVE  /\ modeFailures <= 1 =>
                \/ Stale(items \o Body)
                \/ Heard(items \o Body, IF Apart THEN request[1].says ELSE system, Mode)
           /\ ~started /\ protocol = "messages" =>
                \A i \in DOMAIN (items \o Body) :
                   (items \o Body)[i].says = "none" \/ (items \o Body)[i].replayed
<1> USE DEF ConversationInv
<1> DEFINE n == Len(request)
           s == items \o Body
<1>1. request \in Seq(Items) /\ items \in Seq(Items) /\ request # <<>> /\ n \in Nat \ {0}
      /\ DOMAIN request = 1 .. n /\ protocol \in {"chat_completions", "messages"}
  BY LocalIs DEF TypeOK
<1>2. Body \in Seq(Items) /\ s \in Seq(Items)
  BY BodyIs
<1>3. /\ \A i \in DOMAIN s : \/ i \in DOMAIN items /\ s[i] = items[i]
                             \/ /\ i - Len(items) \in DOMAIN Body /\ i > Len(items)
                                /\ s[i] = Body[i - Len(items)]
      /\ \A i \in DOMAIN Body : Len(items) + i \in DOMAIN s /\ s[Len(items) + i] = Body[i]
      /\ Len(items) \in Nat /\ DOMAIN items = 1 .. Len(items)
  BY <1>1, <1>2, CatFacts
<1>4. CASE started
  <2> DEFINE u == request[1]
  <2>1. n = 1 /\ u.says = IF sentPhase # phase THEN Mode ELSE "none"
    BY <1>4 DEF Asking
  <2>2. u \in Items /\ request = <<u>>
    BY <1>1, <2>1
  <2>3. Body = <<u>> /\ ~Apart
    BY <1>4, <2>2, BodyIs DEF Body
  <2> HIDE DEF u
  <2>4. CASE sentPhase # phase
    BY <1>1, <1>4, <2>1, <2>2, <2>3, <2>4, SpeakingCat, ModeFacts
  <2>5. CASE sentPhase = phase
    BY <1>1, <1>4, <2>1, <2>2, <2>3, <2>5, SilentCat DEF Telling
  <2> QED
    BY <1>4, <2>4, <2>5
<1>5. CASE ~started
  <2>1. /\ n > 1 /\ request[1].role = "system" /\ request[1].says = Mode
        /\ request[n].says = "none"
        /\ \A i \in DOMAIN request : i \in {1, n} \/ request[i].replayed
    BY <1>5 DEF Asking
  <2>2. \A i \in DOMAIN request : i = 1 \/ request[i].says = "none" \/ request[i].replayed
    BY <2>1
  <2>3. CASE protocol = "messages"
    <3>1. Apart /\ Body = Tail(request)
      BY <2>1, <2>3 DEF Apart, Body
    <3>2. \A i \in DOMAIN Body : i + 1 \in DOMAIN request /\ Body[i] = request[i + 1] /\ i + 1 # 1
      BY <1>1, <3>1, TailFacts
    <3>3. \A i \in DOMAIN Body : Body[i].says = "none" \/ Body[i].replayed
      BY <2>2, <3>2
    <3>4. \A i \in DOMAIN items : items[i].says = "none" \/ items[i].replayed
      BY <1>5, <2>3 DEF Telling
    <3>5. \A i \in DOMAIN s : s[i].says = "none" \/ s[i].replayed
      BY <1>3, <3>3, <3>4
    <3> HIDE DEF s
    <3>6. ASSUME \A i \in DOMAIN s : s[i].says = "none"
          PROVE  Heard(s, IF Apart THEN request[1].says ELSE system, Mode)
      BY <2>1, <3>1, <3>6 DEF Heard
    <3>7. ASSUME NEW i \in DOMAIN s, s[i].says # "none" PROVE Stale(s)
      <4>1. PICK k \in DOMAIN s : Final(s, k)
        BY <1>2, <3>7, FinalExists
      <4> QED
        BY <3>5, <4>1 DEF Stale, Final
    <3>8. Stale(s) \/ Heard(s, IF Apart THEN request[1].says ELSE system, Mode)
      BY <2>1, <3>1, <3>6, <3>7
    <3> QED
      BY <3>5, <3>8 DEF s
  <2>4. CASE protocol = "chat_completions"
    <3>1. ~Apart /\ Body = request
      BY <2>4 DEF Apart, Body
    <3>2. /\ Len(items) + 1 \in DOMAIN s /\ s[Len(items) + 1].says = Mode /\ Mode # "none"
      BY <1>1, <1>3, <2>1, <3>1, ModeFacts
    <3> HIDE DEF s
    <3>3. PICK k \in DOMAIN s : Final(s, k)
      BY <1>2, <3>2, FinalExists
    <3>4. k > Len(items) /\ k - Len(items) \in DOMAIN request /\ s[k] = request[k - Len(items)]
      <4>1. k \in DOMAIN items => k < Len(items) + 1
        BY <1>3
      <4>2. k \notin DOMAIN items
        BY <3>2, <3>3, <4>1 DEF Final
      <4> QED
        BY <1>3, <3>1, <4>2
    <3>5. k - Len(items) = 1 \/ s[k].replayed
      BY <2>2, <3>3, <3>4 DEF Final
    <3>6. Stale(s) \/ Heard(s, system, Mode)
      BY <2>1, <3>3, <3>4, <3>5 DEF Stale, Heard
    <3> QED
      BY <2>4, <3>1, <3>6 DEF s
  <2> QED
    BY <1>1, <2>3, <2>4
<1> QED
  BY <1>4, <1>5

LEMMA SendKeeps ==
    ASSUME ConversationInv, NEW to \in {"streaming", "closing", "idle"},
           NEW how \in {"completed", "cancelled", "failed"}, Send(to, how),
           to = "streaming" <=> how = "completed",
           MarkSent \/ (to = "idle" /\ UNCHANGED <<started, sentPhase>>)
    PROVE  ConversationInv'
<1> USE DEF ConversationInv, modeVars, adapterVars, agentVars, ghostVars, counters
<1>1. /\ pc = "sending" /\ pc' = to /\ status' = how
      /\ UNCHANGED <<turn, phase, authority, protocol, replay, stored, finished, rounds, switches,
                     modeChanges, modeFailures, crashes>>
      /\ system' = IF Apart THEN request[1].says ELSE system
      /\ items' = IF Local(protocol) THEN items \o Body ELSE items
      /\ request' = IF Local(protocol) \/ to # "streaming" THEN <<>> ELSE Body
      /\ forgotten' = IF Local(protocol) \/ to = "streaming" THEN forgotten
                                                             ELSE forgotten \cup Prompts(Body)
  BY DEF Send, NoteSystem, Transmit
<1>2. Mode' = Mode
  BY <1>1 DEF Mode
<1>3. /\ Body \in Seq(Items) /\ Prompts(Body) = Prompts(request)
      /\ Ordered(Body) /\ UpTo(Body, turn) /\ Before(items, Body)
      /\ items \o Body \in Seq(Items) /\ Ordered(items \o Body) /\ UpTo(items \o Body, turn)
      /\ Prompts(items \o Body) = Prompts(items) \cup Prompts(request)
      /\ turn \in Prompts(request)
  BY <1>1, BodyIs
<1>4. /\ request \in Seq(Items) /\ request # <<>> /\ replay = <<>> /\ turn # 0
  BY <1>1 DEF TypeOK, Asking
<1>5. /\ started' \in BOOLEAN /\ sentPhase' \in Phases \cup {"none"} /\ (started => started')
      /\ \/ started' /\ sentPhase' = phase
         \/ to = "idle" /\ started' = started /\ sentPhase' = sentPhase
  BY DEF TypeOK, MarkSent
<1>6. TypeOK'
  <2>1. system' \in Modes \cup {"none"}
    <3>1. request[1] \in Items
      BY <1>4
    <3> QED
      BY <1>1, <3>1 DEF TypeOK, Items
  <2>2. forgotten' \subseteq Nat
    BY <1>1, <1>3, UsersAreNat DEF TypeOK
  <2>3. items' \in Seq(Items) /\ request' \in Seq(Items)
    BY <1>1, <1>3, EmptyFacts DEF TypeOK
  <2> QED
    BY <1>1, <1>5, <2>1, <2>2, <2>3 DEF TypeOK
<1>7. Asking'
  BY <1>1, <1>4 DEF Asking, Answering
<1>8. InTurn'
  <2>1. CASE Local(protocol)
    <3>1. items' = items \o Body /\ request' = <<>>
      BY <1>1, <2>1
    <3> QED
      BY <1>1, <1>3, <3>1, EmptyFacts DEF InTurn
  <2>2. CASE ~Local(protocol)
    <3>1. items' = items /\ (request' = <<>> \/ request' = Body)
      BY <1>1, <2>2
    <3> QED
      BY <1>1, <1>3, <3>1, EmptyFacts DEF InTurn
  <2> QED
    BY <2>1, <2>2
<1>9. Remembering'
  <2>1. finished \ forgotten \subseteq Prompts(items) \cup Prompts(request)
    BY <1>1, <1>4, EmptyFacts DEF Remembering
  <2>2. finished \ forgotten' \subseteq Prompts(items') \cup Prompts(request')
    BY <1>1, <1>3, <2>1
  <2>3. how = "completed" => turn \in Prompts(items') \cup Prompts(request')
    BY <1>1, <1>3
  <2>4. finished \ forgotten' \subseteq Prompts(stored.items)
    BY <1>1 DEF Remembering
  <2>5. pc' \in Answering /\ status' = "completed" => how = "completed"
    BY <1>1
  <2> QED
    BY <1>1, <2>2, <2>3, <2>4, <2>5 DEF Remembering, Answering
<1>10. Telling'
  <2>1. (Local(protocol) /\ modeFailures <= 1 => Stale(items') \/ Heard(items', system', Mode))
    BY <1>1, SpokenIs
  <2>2. ~started' /\ protocol = "messages" =>
           \A i \in DOMAIN items' : items'[i].says = "none" \/ items'[i].replayed
    <3> SUFFICES ASSUME ~started', protocol = "messages"
                 PROVE  \A i \in DOMAIN items' : items'[i].says = "none" \/ items'[i].replayed
      OBVIOUS
    <3>1. ~started /\ Local(protocol) /\ items' = items \o Body
      BY <1>1, <1>5 DEF Local
    <3> QED
      BY <1>1, <3>1, SpokenIs
  <2>3. /\ ~started' => sentPhase' = "none"
        /\ modeFailures' = 0 => sentPhase' \in {"none", phase'}
        /\ pc' \in Answering => started' /\ sentPhase' = phase'
    BY <1>1, <1>5 DEF Telling, Answering
  <2> QED
    BY <1>1, <1>2, <2>1, <2>2, <2>3 DEF Telling
<1> QED
  BY <1>6, <1>7, <1>8, <1>9, <1>10

LEMMA CreatedKeeps ==
    ASSUME ConversationInv, Created
    PROVE  ConversationInv'
<1> USE DEF ConversationInv, modeVars, adapterVars, agentVars, ghostVars, counters
<1>1. /\ pc = "streaming" /\ request # <<>> /\ items' = items \o request /\ request' = <<>>
      /\ UNCHANGED <<pc, turn, status, phase, authority, protocol, system, started, sentPhase,
                     replay, stored, finished, forgotten, rounds, switches, modeChanges,
                     modeFailures, crashes>>
  BY DEF Created
<1>2. Mode' = Mode
  BY <1>1 DEF Mode
<1>3. ~Local(protocol) /\ protocol # "messages"
  BY <1>1 DEF Asking, Local
<1>4. /\ items' \in Seq(Items) /\ Ordered(items') /\ UpTo(items', turn)
      /\ Prompts(items') = Prompts(items) \cup Prompts(request)
  BY <1>1, CatFacts, OrderCat, UpToCat, PromptsCat DEF InTurn, TypeOK
<1>5. TypeOK'
  BY <1>1, <1>4, EmptyFacts DEF TypeOK
<1>6. Asking'
  BY <1>1, <1>3 DEF Asking, Answering
<1>7. InTurn'
  BY <1>1, <1>4, EmptyFacts DEF InTurn
<1>8. Remembering'
  BY <1>1, <1>4, EmptyFacts DEF Remembering, Answering
<1>9. Telling'
  BY <1>1, <1>3 DEF Telling
<1> QED
  BY <1>5, <1>6, <1>7, <1>8, <1>9

LEMMA CompletedKeeps ==
    ASSUME ConversationInv, NEW role \in {"reply", "calls"}, Completed(role)
    PROVE  ConversationInv'
<1> USE DEF ConversationInv, modeVars, adapterVars, agentVars, ghostVars, counters
<1> DEFINE x == Item(role, "none")
           s == items \o request
<1>1. /\ pc = "streaming" /\ pc' \in {"closing", "tools"} /\ request' = <<>>
      /\ items' = s \o <<x>>
      /\ UNCHANGED <<turn, status, phase, authority, protocol, system, started, sentPhase,
                     replay, stored, finished, forgotten, switches, modeChanges,
                     modeFailures, crashes>>
  BY DEF Completed, GoesOn
<1>2. Mode' = Mode
  BY <1>1 DEF Mode
<1>3. rounds' \in Nat
  BY DEF Completed, GoesOn, TypeOK
<1>4. x \in Items /\ x.role # "user" /\ x.says = "none"
  BY DEF Item, Items, Roles, TypeOK
<1>5. /\ s \in Seq(Items) /\ Ordered(s) /\ UpTo(s, turn)
      /\ Prompts(s) = Prompts(items) \cup Prompts(request)
  BY CatFacts, OrderCat, UpToCat, PromptsCat DEF InTurn, TypeOK
<1>6. Local(protocol) => request = <<>> /\ s = items
  BY <1>1 DEF Asking, TypeOK
<1> HIDE DEF x, s
<1>7. /\ items' \in Seq(Items) /\ Ordered(items') /\ UpTo(items', turn)
      /\ Prompts(items') = Prompts(items) \cup Prompts(request)
  <2>1. s \o <<x>> \in Seq(Items)
    BY <1>4, <1>5
  <2> QED
    BY <1>1, <1>4, <1>5, <2>1, OtherCat
<1>8. TypeOK'
  BY <1>1, <1>3, <1>7, EmptyFacts DEF TypeOK
<1>9. Asking'
  BY <1>1 DEF Asking, Answering
<1>10. InTurn'
  BY <1>1, <1>7, EmptyFacts DEF InTurn
<1>11. Remembering'
  BY <1>1, <1>7, EmptyFacts DEF Remembering, Answering
<1>12. Telling'
  <2>1. Local(protocol) /\ (Stale(items) \/ Heard(items, system, Mode)) =>
           Stale(items') \/ Heard(items', system, Mode)
    BY <1>1, <1>4, <1>5, <1>6, SilentCat
  <2>2. started
    BY <1>1 DEF Telling, Answering
  <2> QED
    BY <1>1, <1>2, <2>1, <2>2 DEF Telling, Answering
<1> QED
  BY <1>8, <1>9, <1>10, <1>11, <1>12

LEMMA UnfinishedKeeps ==
    ASSUME ConversationInv, NEW role \in {"reply", "calls"}, EndsUnfinished(role)
    PROVE  ConversationInv'
<1> USE DEF ConversationInv, modeVars, adapterVars, agentVars, ghostVars, counters
<1>1. /\ pc = "streaming" /\ pc' \in {"closing", "tools"} /\ request' = <<>>
      /\ forgotten' = forgotten \cup Prompts(request)
      /\ UNCHANGED <<turn, status, phase, authority, protocol, items, system, started,
                     sentPhase, replay, stored, finished, switches, modeChanges,
                     modeFailures, crashes>>
  BY DEF EndsUnfinished, GoesOn
<1>2. Mode' = Mode
  BY <1>1 DEF Mode
<1>3. TypeOK'
  <2>1. rounds' \in Nat
    BY DEF EndsUnfinished, GoesOn, TypeOK
  <2>2. forgotten' \subseteq Nat
    BY <1>1, UsersAreNat DEF TypeOK
  <2> QED
    BY <1>1, <2>1, <2>2, EmptyFacts DEF TypeOK
<1>4. Asking'
  BY <1>1 DEF Asking, Answering
<1>5. InTurn'
  BY <1>1, EmptyFacts DEF InTurn
<1>6. Remembering'
  BY <1>1, EmptyFacts DEF Remembering, Answering
<1>7. Telling'
  BY <1>1, <1>2 DEF Telling, Answering
<1> QED
  BY <1>3, <1>4, <1>5, <1>6, <1>7

LEMMA SubmitKeeps ==
    ASSUME ConversationInv, NEW to \in {"streaming", "closing", "idle"},
           NEW how \in {"completed", "cancelled", "failed"}, Submit(to, how),
           to = "streaming" <=> how = "completed"
    PROVE  ConversationInv'
<1> USE DEF ConversationInv, modeVars, adapterVars, agentVars, ghostVars, counters
<1> DEFINE x == Item("results", "none")
<1>1. /\ pc = "tools" /\ pc' = to /\ status' = how
      /\ items' = IF Local(protocol) THEN items \o <<x>> ELSE items
      /\ request' = IF Local(protocol) \/ to # "streaming" THEN <<>> ELSE <<x>>
      /\ forgotten' = IF Local(protocol) \/ to = "streaming" THEN forgotten
                                                             ELSE forgotten \cup Prompts(<<x>>)
      /\ UNCHANGED <<turn, phase, authority, protocol, system, started, sentPhase,
                     replay, stored, finished, rounds, switches, modeChanges,
                     modeFailures, crashes>>
  BY DEF Submit, Transmit
<1>2. Mode' = Mode
  BY <1>1 DEF Mode
<1>3. x \in Items /\ x.role # "user" /\ x.says = "none"
  BY DEF Item, Items, Roles, TypeOK
<1> HIDE DEF x
<1>4. /\ <<x>> \in Seq(Items) /\ Prompts(<<x>>) = {} /\ Ordered(<<x>>) /\ UpTo(<<x>>, turn)
      /\ Before(items, <<x>>)
  BY <1>3, OneFacts, PromptsAre DEF Ordered, UpTo, Before
<1>5. /\ items' \in Seq(Items) /\ Ordered(items') /\ UpTo(items', turn)
      /\ Prompts(items') = Prompts(items)
  <2>1. items \in Seq(Items) /\ Ordered(items) /\ UpTo(items, turn)
    BY DEF TypeOK, InTurn
  <2>2. items \o <<x>> \in Seq(Items)
    BY <1>3, <2>1
  <2> QED
    BY <1>1, <1>3, <2>1, <2>2, OtherCat
<1>6. forgotten' = forgotten /\ request = <<>> /\ replay = <<>> /\ turn # 0
  BY <1>1, <1>4 DEF Asking, Answering
<1>7. request' = <<>> \/ request' = <<x>>
  BY <1>1
<1>8. TypeOK'
  BY <1>1, <1>4, <1>5, <1>6, <1>7, EmptyFacts DEF TypeOK
<1>9. Asking'
  BY <1>1, <1>6 DEF Asking, Answering
<1>10. InTurn'
  <2>1. Before(items', request')
    <3>1. CASE request' = <<>>
      BY <3>1, EmptyFacts
    <3>2. CASE request' # <<>>
      BY <1>1, <1>4, <3>2
    <3> QED
      BY <3>1, <3>2
  <2> QED
    BY <1>1, <1>4, <1>5, <1>7, <2>1, EmptyFacts DEF InTurn
<1>11. Remembering'
  <2>1. Prompts(request') = {} /\ Prompts(request) = {}
    BY <1>4, <1>6, <1>7, EmptyFacts
  <2>2. how = "completed" => turn \in Prompts(items) \cup forgotten
    <3>1. turn \in Prompts(items) \cup Prompts(request) \cup forgotten
      BY <1>1 DEF Remembering, Answering
    <3> QED
      BY <2>1, <3>1
  <2> QED
    BY <1>1, <1>5, <1>6, <2>1, <2>2 DEF Remembering, Answering
<1>12. Telling'
  <2>1. Local(protocol) /\ (Stale(items) \/ Heard(items, system, Mode)) =>
           Stale(items') \/ Heard(items', system, Mode)
    <3>1. items \in Seq(Items)
      BY DEF TypeOK
    <3> QED
      BY <1>1, <1>3, <3>1, SilentCat
  <2>2. started /\ sentPhase = phase
    BY <1>1 DEF Telling, Answering
  <2> QED
    BY <1>1, <1>2, <1>6, <2>1, <2>2, EmptyFacts DEF Telling, Answering
<1> QED
  BY <1>8, <1>9, <1>10, <1>11, <1>12

-------------------------------------------------------------------------------
(* The theorems *)

LEMMA InitHolds == Init => ConversationInv
<1> SUFFICES ASSUME Init PROVE ConversationInv
  OBVIOUS
<1>1. TypeOK
  <2>1. NoRow \in [owner : Protocols \cup {"none"}, items : Seq(Items),
                   system : Modes \cup {"none"}]
    BY EmptyFacts DEF NoRow
  <2>2. {rounds, switches, modeChanges, modeFailures, crashes} \subseteq Nat /\ turn \in Nat
    BY DEF Init
  <2>3. /\ pc = "idle" /\ status = "completed" /\ phase \in Phases /\ authority \in Authorities
        /\ protocol \in Protocols /\ items = <<>> /\ system = "none" /\ started = FALSE
        /\ sentPhase = "none" /\ replay = <<>> /\ request = <<>> /\ stored = NoRow
        /\ finished = {} /\ forgotten = {}
    BY DEF Init
  <2> QED
    BY <2>1, <2>2, <2>3, EmptyFacts DEF TypeOK
<1>2. Asking
  BY DEF Init, Asking, Answering
<1>3. InTurn
  BY EmptyFacts DEF Init, InTurn, NoRow
<1>4. Remembering
  BY DEF Init, Remembering, Answering
<1>5. Telling
  BY EmptyFacts DEF Init, Telling, Answering
<1> QED
  BY <1>1, <1>2, <1>3, <1>4, <1>5 DEF ConversationInv

LEMMA SendsKeep ==
    ASSUME ConversationInv, SendAccepted \/ SendCut \/ SendAborts \/ SendFails
    PROVE  ConversationInv'
BY SendKeeps DEF SendAccepted, SendCut, SendAborts, SendFails, agentVars

LEMMA SubmitsKeep ==
    ASSUME ConversationInv, SubmitAccepted \/ SubmitCut \/ SubmitFails
    PROVE  ConversationInv'
BY SubmitKeeps DEF SubmitAccepted, SubmitCut, SubmitFails

LEMMA LeavesKeep ==
    ASSUME ConversationInv, StreamEnds \/ ToolsCancelled \/ Aborts
    PROVE  ConversationInv'
BY LeaveKeeps DEF StreamEnds, ToolsCancelled, Aborts, Answering

THEOREM ConversationInvHolds == Spec => []ConversationInv
<1>1. ConversationInv /\ [Next]_vars => ConversationInv'
  <2> SUFFICES ASSUME ConversationInv, [Next]_vars PROVE ConversationInv'
    OBVIOUS
  <2>1. CASE \E m \in Modes : SetMode(m) \/ SetModeFails(m)
    BY <2>1, SetModeKeeps, SetModeFailsKeeps
  <2>2. CASE \E p \in Protocols : Switch(p)
    BY <2>2, SwitchKeeps
  <2>3. CASE Prompt \/ NeverSent \/ SendAccepted \/ SendCut \/ SendAborts \/ SendFails
    BY <2>3, PromptKeeps, NeverSentKeeps, SendsKeep
  <2>4. CASE Created \/ \E r \in {"reply", "calls"} : Completed(r) \/ EndsUnfinished(r)
    BY <2>4, CreatedKeeps, CompletedKeeps, UnfinishedKeeps
  <2>5. CASE StreamEnds \/ ToolsCancelled \/ Aborts
    BY <2>5, LeavesKeep
  <2>6. CASE SubmitAccepted \/ SubmitCut \/ SubmitFails
    BY <2>6, SubmitsKeep
  <2>7. CASE Save \/ Finish \/ Crash \/ Restart
    BY <2>7, SaveKeeps, FinishKeeps, CrashKeeps, RestartKeeps
  <2>8. CASE UNCHANGED vars
    BY <2>8, StutterKeeps
  <2> QED
    BY <2>1, <2>2, <2>3, <2>4, <2>5, <2>6, <2>7, <2>8 DEF Next
<1> QED
  BY InitHolds, <1>1, PTL DEF Spec

(* No prompt reaches the provider twice or out of its place, however many      *)
(* turns, failed sends, switches and crashes there are (request and            *)
(* apply_switch, agent.rs; the adapters' histories, gritt-provider).           *)
THEOREM PromptsStayInOrder == Spec => []PromptsInOrder
<1>1. ConversationInv => PromptsInOrder
  BY OrderCat DEF ConversationInv, TypeOK, InTurn, PromptsInOrder, Ordered, Shown
<1> QED
  BY <1>1, ConversationInvHolds, PTL

(* The prompt of every turn recorded as finished is in front of every later    *)
(* reply, through crashes and restarts, but for what a hand-over dropped, a row *)
(* of another protocol left behind, or a Responses body never named (run_turn's *)
(* save_continuation before the final status, agent.rs; agent_for, control.rs;  *)
(* finish, responses.rs).                                                      *)
THEOREM FinishedStayRemembered == Spec => []FinishedRemembered
<1>1. ConversationInv => FinishedRemembered
  <2> SUFFICES ASSUME ConversationInv, pc = "streaming"
               PROVE  finished \ forgotten \subseteq Prompts(items \o request)
    BY DEF FinishedRemembered, Shown
  <2>1. items \in Seq(Items) /\ request \in Seq(Items) /\ replay = <<>>
    BY DEF ConversationInv, TypeOK, Asking
  <2> QED
    BY <2>1, PromptsCat, EmptyFacts DEF ConversationInv, Remembering
<1> QED
  BY <1>1, ConversationInvHolds, PTL

(* The state keeps its type.                                                  *)
THEOREM TypeCorrect == Spec => []TypeOK
<1>1. ConversationInv => TypeOK
  BY DEF ConversationInv
<1> QED
  BY <1>1, ConversationInvHolds, PTL

(* The model that answers was last told the mode its calls are gated by, for    *)
(* any changes of mode, failed and cancelled sends and restarts, but for the    *)
(* exceptions the property names (request, set_mode and sent_phase, agent.rs).  *)
THEOREM ModelAlwaysKnowsMode == Spec => []ModelKnowsMode
<1>1. ConversationInv => ModelKnowsMode
  <2> SUFFICES ASSUME ConversationInv, pc = "streaming", Local(protocol), ~StaleNote,
                      modeFailures <= 1
               PROVE  LastTold = Mode
    BY DEF ModelKnowsMode
  <2>1. items \in Seq(Items) /\ request = <<>> /\ Shown = items
    BY DEF ConversationInv, TypeOK, Asking, Shown
  <2>2. Tells = {k \in DOMAIN items : items[k].says # "none"}
    BY <2>1 DEF Tells
  <2>3. \A k \in DOMAIN items : k \in Nat
    BY <2>1
  <2>4. \A k \in DOMAIN items : Final(items, k) => k \in Tells /\ ToldBy(k)
    BY <2>2, <2>3 DEF Final, ToldBy
  <2>5. ~Stale(items)
    BY <2>1, <2>4 DEF Stale, StaleNote
  <2>6. Heard(items, system, Mode)
    BY <2>5 DEF ConversationInv, Telling, Answering
  <2>7. CASE \A k \in DOMAIN items : items[k].says = "none"
    <3>1. Tells = {}
      BY <2>2, <2>7
    <3>2. system = Mode
      BY <2>6, <2>7 DEF Heard, Final
    <3> QED
      BY <3>1, <3>2 DEF LastTold
  <2>8. ASSUME NEW k \in DOMAIN items, Final(items, k), items[k].says = Mode
        PROVE  LastTold = Mode
    <3>1. k \in Tells /\ ToldBy(k)
      BY <2>4, <2>8
    <3>2. \A i \in Tells : ToldBy(i) => i = k
      BY <2>2, <2>3, <3>1 DEF ToldBy
    <3>3. k = CHOOSE i \in Tells : ToldBy(i)
      BY <3>1, <3>2
    <3> QED
      BY <2>1, <2>8, <3>1, <3>3 DEF LastTold
  <2> QED
    BY <2>6, <2>7, <2>8 DEF Heard
<1> QED
  BY <1>1, ConversationInvHolds, PTL
===============================================================================
