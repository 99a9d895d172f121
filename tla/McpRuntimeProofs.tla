-------------------------- MODULE McpRuntimeProofs --------------------------
(* What McpRuntime keeps for any servers, operations, launches and lists of    *)
(* tools, checked by TLAPS.                                                    *)
EXTENDS McpRuntime, FiniteSetTheorems, SequenceTheorems, TLAPS

-----------------------------------------------------------------------------
(* The inductive invariant.                                                    *)

Offered  == UNION {ToSet(list) : list \in Listings}
Tools    == [name : Nat, srv : Servers, tool : Offered]
Listed    == Listings \cup {<<>>}
Reads    == [Servers -> [print : Declared, dec : Decisions]]
Launches == [srv : Servers, print : Prints \cup {None}, gen : Nat]
Visits   == [srv : Servers, gen : Nat, conn : Conns]

Pcs == {"idle", "done", "file", "load", "closing", "look", "check", "record", "apply", "refused",
        "trust", "pending", "launch", "stale", "each", "discover", "relist", "freeze", "wait",
        "drain"}

Entries == [state : EntryStates, print : Prints \cup {None}, gen : Nat, conn : Conns \cup {0},
            by : AllKinds \cup {None}]
ConnRecords == [stage : Stages, srv : Servers \cup {None}, print : Prints \cup {None}, gen : Nat,
                by : Ops \cup {None}, alive : BOOLEAN, closed : BOOLEAN, changed : BOOLEAN,
                list : Listed]
OpRecords == [kind : AllKinds \cup {None}, pc : Pcs, srv : Servers \cup {None},
              print : Prints \cup {None}, gen : Nat, dec : Decisions,
              seen : Reads \cup Listed, todo : SUBSET (Launches \cup Visits \cup Servers),
              wait : SUBSET Conns, ref : {None} \cup Visits \cup Tools,
              cancelled : BOOLEAN, res : AllKinds \cup {None, "drained"}]

Typed ==
    /\ file \in [Servers -> Declared] /\ edits \in 0 .. MaxEdits
    /\ trust \in [Servers -> [Prints -> Decisions]]
    /\ entry \in [Servers -> Entries]
    /\ closing \in BOOLEAN /\ opened \in BOOLEAN /\ gens \in Nat
    /\ decisions \in Ops \cup {None}
    /\ conn \in [Conns -> ConnRecords]
    /\ op \in [Ops -> OpRecords]

\* A registry names each of its tools once.
Names(reg) == /\ reg \subseteq Tools /\ IsFiniteSet(reg)
              /\ \A t, u \in reg : t.name = u.name => t = u

\* What a generation number of a server stands for, as long as it is the entry's.
Stands(s, gen, print) ==
    /\ s \in Servers /\ gen \in 1 .. gens /\ print \in Prints
    /\ entry[s].gen = gen => entry[s].print = print

\* The definition an offer of tools was made for.
Offers(s, gen, print) ==
    /\ s \in Servers /\ gen \in 0 .. gens
    /\ gen # 0 /\ entry[s].gen = gen => entry[s].print = print

Known(s, gen) ==
    /\ s \in Servers /\ gen \in 1 .. gens
    /\ entry[s].gen = gen => entry[s].print \in Prints

Serves(s, c) == /\ c \in Conns /\ conn[c].stage = "installed" /\ conn[c].srv = s
                /\ conn[c].gen = entry[s].gen /\ conn[c].print = entry[s].print

EntryOK(s) ==
    /\ entry[s].gen \in 0 .. gens
    /\ entry[s].state = "absent" => entry[s].conn = 0
    /\ entry[s].state \notin {"absent", "invalid"} => entry[s].gen > 0 /\ entry[s].print \in Prints
    /\ entry[s].conn # 0 => Serves(s, entry[s].conn)
    /\ closing => entry[s].conn = 0

Ownerless == {"free", "released", "installed", "retired", "dropped"}
Launched  == {"reserved", "spawned", "attached", "failing", "ok", "failed"}

\* What a connection in each stage is, and to whom it belongs.
ConnShape(k) ==
    /\ k.stage \in {"free", "reserved", "failed", "released"} => ~k.alive
    /\ k.stage \in {"retired", "stale", "failing"} => k.closed
    /\ k.by = None <=> k.stage \in Ownerless

ConnOK(c) ==
    /\ ConnShape(conn[c])
    /\ conn[c].stage \notin {"free", "released"} =>
          Stands(conn[c].srv, conn[c].gen, conn[c].print)
    /\ conn[c].stage = "installed" => entry[conn[c].srv].conn = c
    /\ conn[c].by # None =>
          \/ op[conn[c].by].pc = "launch" /\ conn[c].stage \in Launched
          \/ op[conn[c].by].pc = "stale" /\ conn[c].stage = "stale" /\ c \in op[conn[c].by].wait

\* A start launches each server once.
Starts(o) ==
    op[o].pc = "launch" =>
        /\ op[o].todo \subseteq Launches
        /\ \A i \in op[o].todo : Stands(i.srv, i.gen, i.print)
        /\ \A i, j \in op[o].todo : i.srv = j.srv => i = j
        /\ \A c, d \in Mine(o) : conn[c].srv = conn[d].srv => c = d
        /\ \A i \in op[o].todo, c \in Mine(o) : conn[c].srv # i.srv

Releasing(o) ==
    op[o].pc = "stale" => \A c \in op[o].wait : conn[c].stage = "stale" /\ conn[c].by = o

\* A decision under way has the mutex, and nobody else's decision comes between.
Decides(o) ==
    op[o].kind \in Deciding /\ op[o].pc \in {"check", "record", "apply"} =>
        /\ decisions = o /\ op[o].print \in Prints
        /\ Same(o) \/ entry[op[o].srv].by \notin Deciding

Restarts(o) == op[o].kind = "restart" /\ op[o].pc \in {"trust", "apply"} => op[o].print \in Prints

Refreshes(o) ==
    op[o].kind = "refresh" =>
        /\ op[o].pc \in {"each", "discover", "relist"} =>
              /\ op[o].todo \subseteq Visits
              /\ \A i \in op[o].todo : Known(i.srv, i.gen)
        /\ op[o].pc \in {"discover", "relist"} =>
              op[o].ref \in Visits /\ Known(op[o].ref.srv, op[o].ref.gen)
        /\ op[o].pc = "relist" => op[o].seen \in Listed

Final == {"installed", "retired", "dropped"}

Calls(o) ==
    op[o].kind = "call" =>
        /\ op[o].pc \in {"check", "wait"} => op[o].ref \in Tools
        /\ op[o].pc = "check" => Offers(op[o].ref.srv, op[o].gen, op[o].print)
        /\ op[o].pc = "wait" =>
              /\ Known(op[o].ref.srv, op[o].gen)
              /\ \A c \in op[o].wait :
                    /\ conn[c].stage \in Final /\ conn[c].srv = op[o].ref.srv
                    /\ conn[c].gen = op[o].gen /\ conn[c].print = op[o].print

Ends(o) ==
    /\ op[o].kind \in Targeted => op[o].srv \in Servers
    /\ op[o].pc = "load" =>
          /\ op[o].seen \in Reads /\ op[o].todo \subseteq Servers
          /\ \A s \in op[o].todo : op[o].seen[s].print \in Prints
    /\ op[o].res \notin Deciding
    /\ op[o].kind = "shutdown" /\ op[o].pc \in {"closing", "drain"} => closing
    /\ op[o].res = "drained" => op[o].pc = "done" /\ closing /\ Slots = {}

OpOK(o) == /\ Starts(o) /\ Releasing(o) /\ Decides(o) /\ Restarts(o)
           /\ Refreshes(o) /\ Calls(o) /\ Ends(o)

RuntimeInv ==
    /\ Typed /\ Names(registry)
    /\ \A s \in Servers : EntryOK(s)
    /\ \A c \in Conns : ConnOK(c)
    /\ \A o \in Ops : OpOK(o)

\* What an entry dropped and nobody closed is in the hands of a call or a refresh.
Dangling == \A c \in Conns : conn[c].stage = "dropped" /\ ~conn[c].closed => c \in Held

-----------------------------------------------------------------------------
(* The registry.                                                               *)

(* The library's induction theorems take operators; least elements do as well. *)
LEMMA Least ==
    ASSUME NEW S \in SUBSET Nat, S # {}
    PROVE  \E m \in S : \A n \in S : m <= n
<1> DEFINE I == {1 .. n : n \in S}
<1>1. \A n \in S : n \in Nat
  OBVIOUS
<1>2. I \subseteq FiniteSubsetsOf(Nat)
  BY <1>1, FS_Interval DEF FiniteSubsetsOf
<1> I # {}
  OBVIOUS
<1>3. PICK x \in I : \A y \in I : <<y, x>> \notin StrictSubsetOrdering(Nat)
  BY <1>2, FS_StrictSubsetOrderingWellFounded, WFMin
<1>4. PICK m \in S : x = 1 .. m
  OBVIOUS
<1>5. ASSUME NEW n \in S, n < m
      PROVE  FALSE
  <2>1. 1 .. n \subseteq 1 .. m /\ 1 .. n # 1 .. m /\ 1 .. n \in I
    <3>1. m \in 1 .. m /\ m \notin 1 .. n
      BY <1>1, <1>5
    <3> QED
      BY <1>1, <1>5, <3>1
  <2>2. <<1 .. n, 1 .. m>> \in StrictSubsetOrdering(Nat)
    BY <1>1, <2>1 DEF StrictSubsetOrdering
  <2> QED
    BY <1>3, <1>4, <2>1, <2>2
<1> QED
  BY <1>1, <1>5

\* There is always a name left, and the first one is taken.
LEMMA UniqueIs ==
    ASSUME NEW reg, Names(reg)
    PROVE  /\ UniqueName(reg) \in Nat
           /\ \A t \in reg : t.name # UniqueName(reg)
<1> DEFINE n == Cardinality(reg) + 1
           S == {k \in 1 .. n : \A t \in reg : t.name # k}
<1>1. n \in Nat /\ IsFiniteSet(reg) /\ Cardinality(reg) \in Nat
  BY FS_CardinalityType DEF Names
<1>2. S # {}
  <2> SUFFICES ASSUME S = {}
               PROVE  FALSE
    OBVIOUS
  <2>1. \A k \in 1 .. n : \E t \in reg : t.name = k
    OBVIOUS
  <2> DEFINE f == [k \in 1 .. n |-> CHOOSE t \in reg : t.name = k]
  <2>2. \A k \in 1 .. n : f[k] \in reg /\ f[k].name = k
    BY <2>1
  <2>3. f \in [1 .. n -> reg]
    BY <2>2
  <2>4. IsFiniteSet(1 .. n) /\ Cardinality(1 .. n) = n
    <3>1. n \in Int /\ ~(1 > n) /\ n - 1 + 1 = n
      BY <1>1
    <3> HIDE DEF n
    <3> QED
      BY <3>1, FS_Interval
  <2>5. Cardinality(reg) < n
    BY <1>1
  <2> HIDE DEF f, n
  <2>6. PICK j, k \in 1 .. n : j # k /\ f[j] = f[k]
    BY <1>1, <2>3, <2>4, <2>5, FS_PigeonHole
  <2> QED
    BY <2>2, <2>6
<1>3. \A k \in S : k \in 1 .. n
  OBVIOUS
<1>4. S \in SUBSET Nat
  BY <1>1
<1>5. PICK m \in S : \A k \in S : m <= k
  BY <1>2, <1>4, Least
<1>6. \A k \in 1 .. m - 1 : \E t \in reg : t.name = k
  <2> SUFFICES ASSUME NEW k \in 1 .. m - 1, ~\E t \in reg : t.name = k
               PROVE  FALSE
    OBVIOUS
  <2>1. m \in 1 .. n /\ m \in Nat
    BY <1>1, <1>3
  <2>2. k \in 1 .. n /\ ~(m <= k)
    BY <1>1, <2>1
  <2> QED
    BY <1>5, <2>2
<1>7. m \in 1 .. n /\ \A t \in reg : t.name # m
  OBVIOUS
<1>8. UniqueName(reg) \in 1 .. n /\ \A t \in reg : t.name # UniqueName(reg)
  BY <1>6, <1>7 DEF UniqueName
<1> QED
  BY <1>1, <1>8

LEMMA InsertIs ==
    ASSUME NEW reg, Names(reg), NEW s \in Servers, NEW tool \in Offered
    PROVE  Names(Insert(reg, s, tool))
<1> DEFINE t == [name |-> UniqueName(reg), srv |-> s, tool |-> tool]
<1>1. t \in Tools /\ \A u \in reg : u.name # t.name
  BY UniqueIs DEF Tools
<1>2. Insert(reg, s, tool) = reg \cup {t}
  BY DEF Insert
<1> HIDE DEF t
<1>3. IsFiniteSet(reg \cup {t})
  BY FS_AddElement DEF Names
<1> QED
  BY <1>1, <1>2, <1>3 DEF Names

LEMMA RemoveServerIs ==
    ASSUME NEW reg, Names(reg), NEW s
    PROVE  Names(RemoveServer(reg, s))
<1>1. RemoveServer(reg, s) \in SUBSET reg
  BY DEF RemoveServer
<1>2. IsFiniteSet(RemoveServer(reg, s))
  BY <1>1, FS_Subset DEF Names
<1> QED
  BY <1>1, <1>2 DEF Names

\* What the recursion says of each of its elements.
LEMMA InsertingIs ==
    ASSUME NEW reg, NEW s, NEW list, Len(list) \in Nat
    PROVE  LET f == Inserting(reg, s, list)
           IN  /\ f[0] = reg
               /\ \A i \in 1 .. Len(list) : f[i] = Insert(f[i - 1], s, list[i])
<1> DEFINE n == Len(list)
           Nth(g, i) == IF i = 0 THEN reg ELSE Insert(g[i - 1], s, list[i])
           Upto(g, k) == g = [i \in 0 .. k |-> Nth(g, i)]
           f == Inserting(reg, s, list)
<1>1. \A k \in 0 .. n : \E g : Upto(g, k)
  <2> DEFINE S == {k \in 0 .. n : ~\E g : Upto(g, k)}
  <2> SUFFICES ASSUME S # {}
               PROVE  FALSE
    OBVIOUS
  <2>1. S \in SUBSET Nat
    OBVIOUS
  <2>2. PICK m \in S : \A k \in S : m <= k
    BY <2>1, Least
  <2>3. CASE m = 0
    <3>1. Upto([i \in 0 .. 0 |-> reg], 0)
      <4>1. \A i \in 0 .. 0 : i = 0
        OBVIOUS
      <4> QED
        BY <4>1
    <3> QED
      BY <2>3, <3>1
  <2>4. CASE m # 0
    <3>1. m - 1 \in 0 .. n /\ m \in 1 .. n /\ m \in Nat /\ ~(m <= m - 1)
      BY <2>4
    <3>2. PICK g : Upto(g, m - 1)
      BY <2>2, <3>1
    <3> DEFINE h == [i \in 0 .. m |-> IF i = m THEN Insert(g[m - 1], s, list[m]) ELSE g[i]]
    <3>3. \A i \in 0 .. m - 1 : g[i] = Nth(g, i) /\ i \in 0 .. m /\ i # m
      BY <3>1, <3>2
    <3>4. ASSUME NEW i \in 0 .. m
          PROVE  h[i] = Nth(h, i)
      <4>1. CASE i = 0
        <5>1. h[0] = g[0] /\ g[0] = reg
          BY <2>4, <3>1, <3>3
        <5> QED
          BY <4>1, <5>1
      <4>2. CASE i # 0 /\ i # m
        <5>1. i \in 0 .. m - 1 /\ i - 1 \in 0 .. m - 1
          BY <3>1, <4>2
        <5>2. h[i] = g[i] /\ h[i - 1] = g[i - 1]
          BY <3>3, <5>1
        <5> QED
          BY <3>3, <4>2, <5>1, <5>2
      <4>3. CASE i = m
        <5>1. m - 1 \in 0 .. m - 1
          BY <3>1
        <5>2. h[m - 1] = g[m - 1] /\ h[m] = Insert(g[m - 1], s, list[m])
          BY <3>1, <3>3, <5>1
        <5> QED
          BY <2>4, <4>3, <5>2
      <4> QED
        BY <4>1, <4>2, <4>3
    <3>5. Upto(h, m)
      BY <3>4
    <3> QED
      BY <3>5
  <2> QED
    BY <2>3, <2>4
<1>2. f = CHOOSE g : Upto(g, n)
  BY DEF Inserting
<1>3. Upto(f, n)
  <2>1. \E g : Upto(g, n)
    BY <1>1
  <2> HIDE DEF Upto, f
  <2> QED
    BY <1>2, <2>1
<1> HIDE DEF f
<1>4. \A i \in 0 .. n : f[i] = Nth(f, i)
  BY <1>3
<1>5. f[0] = reg
  BY <1>4
<1>6. \A i \in 1 .. n : i \in 0 .. n /\ i # 0
  OBVIOUS
<1>7. \A i \in 1 .. n : f[i] = Insert(f[i - 1], s, list[i])
  BY <1>4, <1>6
<1> QED
  BY <1>5, <1>7 DEF f

LEMMA RelistingIs ==
    ASSUME NEW order, Len(order) \in Nat
    PROVE  LET f == Relisting(order)
           IN  /\ f[0] = registry
               /\ \A i \in 1 .. Len(order) : f[i] = Relist(f[i - 1], conn[order[i]].srv, conn[order[i]].list)
<1> DEFINE n == Len(order)
           Nth(g, i) == IF i = 0 THEN registry ELSE Relist(g[i - 1], conn[order[i]].srv, conn[order[i]].list)
           Upto(g, k) == g = [i \in 0 .. k |-> Nth(g, i)]
           f == Relisting(order)
<1>1. \A k \in 0 .. n : \E g : Upto(g, k)
  <2> DEFINE S == {k \in 0 .. n : ~\E g : Upto(g, k)}
  <2> SUFFICES ASSUME S # {}
               PROVE  FALSE
    OBVIOUS
  <2>1. S \in SUBSET Nat
    OBVIOUS
  <2>2. PICK m \in S : \A k \in S : m <= k
    BY <2>1, Least
  <2>3. CASE m = 0
    <3>1. Upto([i \in 0 .. 0 |-> registry], 0)
      <4>1. \A i \in 0 .. 0 : i = 0
        OBVIOUS
      <4> QED
        BY <4>1
    <3> QED
      BY <2>3, <3>1
  <2>4. CASE m # 0
    <3>1. m - 1 \in 0 .. n /\ m \in 1 .. n /\ m \in Nat /\ ~(m <= m - 1)
      BY <2>4
    <3>2. PICK g : Upto(g, m - 1)
      BY <2>2, <3>1
    <3> DEFINE h == [i \in 0 .. m |->
                       IF i = m THEN Relist(g[m - 1], conn[order[m]].srv, conn[order[m]].list)
                       ELSE g[i]]
    <3>3. \A i \in 0 .. m - 1 : g[i] = Nth(g, i) /\ i \in 0 .. m /\ i # m
      BY <3>1, <3>2
    <3>4. ASSUME NEW i \in 0 .. m
          PROVE  h[i] = Nth(h, i)
      <4>1. CASE i = 0
        <5>1. h[0] = g[0] /\ g[0] = registry
          BY <2>4, <3>1, <3>3
        <5> QED
          BY <4>1, <5>1
      <4>2. CASE i # 0 /\ i # m
        <5>1. i \in 0 .. m - 1 /\ i - 1 \in 0 .. m - 1
          BY <3>1, <4>2
        <5>2. h[i] = g[i] /\ h[i - 1] = g[i - 1]
          BY <3>3, <5>1
        <5> QED
          BY <3>3, <4>2, <5>1, <5>2
      <4>3. CASE i = m
        <5>1. m - 1 \in 0 .. m - 1
          BY <3>1
        <5>2. h[m - 1] = g[m - 1] /\ h[m] = Relist(g[m - 1], conn[order[m]].srv, conn[order[m]].list)
          BY <3>1, <3>3, <5>1
        <5> QED
          BY <2>4, <4>3, <5>2
      <4> QED
        BY <4>1, <4>2, <4>3
    <3>5. Upto(h, m)
      BY <3>4
    <3> QED
      BY <3>5
  <2> QED
    BY <2>3, <2>4
<1>2. f = CHOOSE g : Upto(g, n)
  BY DEF Relisting
<1>3. Upto(f, n)
  <2>1. \E g : Upto(g, n)
    BY <1>1
  <2> HIDE DEF Upto, f
  <2> QED
    BY <1>2, <2>1
<1> HIDE DEF f
<1>4. \A i \in 0 .. n : f[i] = Nth(f, i)
  BY <1>3
<1>5. f[0] = registry
  BY <1>4
<1>6. \A i \in 1 .. n : i \in 0 .. n /\ i # 0
  OBVIOUS
<1>7. \A i \in 1 .. n : f[i] = Relist(f[i - 1], conn[order[i]].srv, conn[order[i]].list)
  BY <1>4, <1>6
<1> QED
  BY <1>5, <1>7 DEF f

LEMMA RelistIs ==
    ASSUME NEW reg, Names(reg), NEW s \in Servers, NEW list \in Listed
    PROVE  Names(Relist(reg, s, list))
<1> DEFINE n == Len(list)
           base == RemoveServer(reg, s)
           f == Inserting(base, s, list)
           S == {k \in 0 .. n : ~Names(f[k])}
<1>1. n \in Nat /\ \A i \in 1 .. n : list[i] \in Offered
  <2>1. CASE list = <<>>
    BY <2>1
  <2>2. CASE list \in Listings
    <3>1. list \in Seq(ToSet(list))
      BY <2>2, ListsAssumption
    <3>2. n \in Nat /\ \A i \in 1 .. n : list[i] \in ToSet(list)
      BY <3>1
    <3> QED
      BY <2>2, <3>2 DEF Offered
  <2> QED
    BY <2>1, <2>2 DEF Listed
<1>2. f[0] = base /\ \A i \in 1 .. n : f[i] = Insert(f[i - 1], s, list[i])
  BY <1>1, InsertingIs
<1>3. Names(base)
  BY RemoveServerIs
<1> HIDE DEF f, base
<1>4. S = {}
  <2> SUFFICES ASSUME S # {}
               PROVE  FALSE
    OBVIOUS
  <2>1. S \in SUBSET Nat
    BY <1>1
  <2>2. PICK m \in S : \A k \in S : m <= k
    BY <2>1, Least
  <2>3. CASE m = 0
    BY <1>2, <1>3, <2>3
  <2>4. CASE m # 0
    <3>1. m - 1 \in 0 .. n /\ m \in 1 .. n /\ ~(m <= m - 1)
      BY <1>1, <2>4
    <3>2. Names(f[m - 1])
      BY <2>2, <3>1
    <3>3. Names(f[m])
      BY <1>1, <1>2, <3>1, <3>2, InsertIs
    <3> QED
      BY <3>3
  <2> QED
    BY <2>3, <2>4
<1>5. n \in 0 .. n
  BY <1>1
<1> QED
  BY <1>4, <1>5 DEF Relist, f, base

LEMMA RelistedIs ==
    ASSUME Names(registry), NEW cs, IsFiniteSet(cs),
           \A c \in cs : conn[c].srv \in Servers /\ conn[c].list \in Listed
    PROVE  Names(Relisting(SetToSeq(cs))[Cardinality(cs)])
<1> DEFINE n == Cardinality(cs)
           order == SetToSeq(cs)
           f == Relisting(order)
           S == {k \in 0 .. n : ~Names(f[k])}
<1>1. n \in Nat /\ order \in [1 .. n -> cs]
  <2>1. n \in Nat /\ \E g : g \in Bijection(1 .. n, cs)
    BY FS_CardinalityType DEF ExistsBijection
  <2>2. PICK g : g \in Bijection(1 .. n, cs)
    BY <2>1
  <2>3. g \in [1 .. n -> cs] /\ IsInjective(g)
    BY <2>2 DEF Bijection, Injection, IsInjective
  <2> QED
    BY <2>1, <2>3 DEF SetToSeq
<1>2. Len(order) = n
  BY <1>1
<1>3. f[0] = registry
      /\ \A i \in 1 .. n : f[i] = Relist(f[i - 1], conn[order[i]].srv, conn[order[i]].list)
  BY <1>1, <1>2, RelistingIs
<1> HIDE DEF f, order
<1>4. S = {}
  <2> SUFFICES ASSUME S # {}
               PROVE  FALSE
    OBVIOUS
  <2>1. S \in SUBSET Nat
    BY <1>1
  <2>2. PICK m \in S : \A k \in S : m <= k
    BY <2>1, Least
  <2>3. CASE m = 0
    BY <1>3, <2>3
  <2>4. CASE m # 0
    <3>1. m - 1 \in 0 .. n /\ m \in 1 .. n /\ ~(m <= m - 1)
      BY <1>1, <2>4
    <3>2. Names(f[m - 1])
      BY <2>2, <3>1
    <3>3. order[m] \in cs
      BY <1>1, <3>1
    <3>4. Names(f[m])
      BY <1>3, <3>1, <3>2, <3>3, RelistIs
    <3> QED
      BY <3>4
  <2> QED
    BY <2>3, <2>4
<1>5. n \in 0 .. n
  BY <1>1
<1> QED
  BY <1>4, <1>5 DEF f, order

-----------------------------------------------------------------------------
(* What a step leaves to those who do not take it.                             *)

\* An entry changes its definition only under a generation that is new.
Grows ==
    /\ gens \in Nat /\ gens' \in Nat /\ gens' >= gens
    /\ \A s \in Servers : \/ entry'[s].gen = entry[s].gen /\ entry'[s].print = entry[s].print
                          \/ entry'[s].gen \notin 1 .. gens

LEMMA StandsKept ==
    ASSUME Grows, NEW s, NEW gen, NEW print, Stands(s, gen, print)
    PROVE  Stands(s, gen, print)'
<1>1. s \in Servers /\ gen \in 1 .. gens /\ print \in Prints
      /\ (entry[s].gen = gen => entry[s].print = print)
  BY DEF Stands
<1>2. gen \in 1 .. gens'
  BY <1>1 DEF Grows
<1> QED
  BY <1>1, <1>2 DEF Stands, Grows

LEMMA KnownKept ==
    ASSUME Grows, NEW s, NEW gen, Known(s, gen)
    PROVE  Known(s, gen)'
<1>1. s \in Servers /\ gen \in 1 .. gens /\ (entry[s].gen = gen => entry[s].print \in Prints)
  BY DEF Known
<1>2. gen \in 1 .. gens'
  BY <1>1 DEF Grows
<1> QED
  BY <1>1, <1>2 DEF Known, Grows

LEMMA OffersKept ==
    ASSUME Grows, NEW s, NEW gen, NEW print, Offers(s, gen, print)
    PROVE  Offers(s, gen, print)'
<1>1. s \in Servers /\ gen \in 0 .. gens
      /\ (gen # 0 /\ entry[s].gen = gen => entry[s].print = print)
  BY DEF Offers
<1>2. gen \in 0 .. gens' /\ (gen # 0 => gen \in 1 .. gens)
  BY <1>1 DEF Grows
<1> QED
  BY <1>1, <1>2 DEF Offers, Grows

\* The launches of an operation stay its own, what is installed is not launched
\* again, and a drained runtime stays drained.
ConnsStay(q) ==
    /\ \A c \in Conns : conn'[c].by = q <=> conn[c].by = q
    /\ \A c \in Conns : conn[c].by = q =>
          /\ conn'[c].srv = conn[c].srv
          /\ conn[c].stage = "stale" => conn'[c].stage = "stale"
    /\ \A c \in Conns : conn[c].stage \in Final =>
          /\ conn'[c].stage \in Final
          /\ conn'[c].srv = conn[c].srv /\ conn'[c].gen = conn[c].gen
          /\ conn'[c].print = conn[c].print
    /\ closing => closing'
    /\ closing /\ Slots = {} => Slots' = {}

\* No other decision comes between.
NoDecision(q) ==
    /\ decisions = q => decisions' = q
    /\ \A s \in Servers :
          \/ /\ entry'[s].gen = entry[s].gen /\ entry'[s].print = entry[s].print
             /\ entry'[s].by = entry[s].by
          \/ entry'[s].by \notin Deciding
          \/ decisions # q

\* It may be told that it is cancelled.
Stays(q) ==
    /\ op'[q].kind = op[q].kind /\ op'[q].pc = op[q].pc /\ op'[q].srv = op[q].srv
    /\ op'[q].print = op[q].print /\ op'[q].gen = op[q].gen /\ op'[q].seen = op[q].seen
    /\ op'[q].todo = op[q].todo /\ op'[q].wait = op[q].wait /\ op'[q].ref = op[q].ref
    /\ op'[q].res = op[q].res

LEMMA OthersKeep ==
    ASSUME NEW q \in Ops, OpOK(q), op[q] \in OpRecords, Stays(q),
           Grows, ConnsStay(q), NoDecision(q)
    PROVE  OpOK(q)'
<1>1. Starts(q)'
  <2> SUFFICES ASSUME op[q].pc = "launch"
               PROVE  /\ op[q].todo \subseteq Launches
                      /\ \A i \in op[q].todo : Stands(i.srv, i.gen, i.print)'
                      /\ \A i, j \in op[q].todo : i.srv = j.srv => i = j
                      /\ \A c, d \in Mine(q)' : conn'[c].srv = conn'[d].srv => c = d
                      /\ \A i \in op[q].todo, c \in Mine(q)' : conn'[c].srv # i.srv
    BY DEF Starts, Stays
  <2>1. Mine(q)' = Mine(q) /\ \A c \in Mine(q) : conn'[c].srv = conn[c].srv
    BY DEF ConnsStay, Mine
  <2>2. Starts(q) /\ op[q].pc = "launch"
    BY DEF OpOK
  <2>3. \A i \in op[q].todo : Stands(i.srv, i.gen, i.print)'
    BY <2>2, StandsKept DEF Starts
  <2> QED
    BY <2>1, <2>2, <2>3 DEF Starts
<1>2. Releasing(q)'
  <2>1. op[q].wait \subseteq Conns
    BY DEF OpRecords
  <2> QED
    BY <2>1 DEF OpOK, Releasing, ConnsStay, Stays
<1>3. Decides(q)'
  <2> SUFFICES ASSUME op[q].kind \in Deciding, op[q].pc \in {"check", "record", "apply"}
               PROVE  /\ decisions' = q /\ op[q].print \in Prints
                      /\ Same(q)' \/ entry'[op[q].srv].by \notin Deciding
    BY DEF Decides, Stays
  <2>1. /\ decisions = q /\ op[q].print \in Prints
        /\ Same(q) \/ entry[op[q].srv].by \notin Deciding
    BY DEF OpOK, Decides
  <2>2. op[q].srv \in Servers
    BY DEF OpOK, Ends, Targeted, Deciding
  <2> QED
    BY <2>1, <2>2 DEF NoDecision, Same, Stays
<1>4. Restarts(q)'
  BY DEF OpOK, Restarts, Stays
<1>5. Refreshes(q)'
  <2>1. Refreshes(q)
    BY DEF OpOK
  <2>2. \A s, gen : Known(s, gen) => Known(s, gen)'
    BY KnownKept
  <2> QED
    BY <2>1, <2>2 DEF Refreshes, Stays
<1>6. Calls(q)'
  <2>1. Calls(q) /\ op[q].wait \subseteq Conns
    BY DEF OpOK, OpRecords
  <2>2. \A s, gen : Known(s, gen) => Known(s, gen)'
    BY KnownKept
  <2>3. \A s, gen, print : Offers(s, gen, print) => Offers(s, gen, print)'
    BY OffersKept
  <2> QED
    BY <2>1, <2>2, <2>3 DEF Calls, ConnsStay, Stays
<1>7. Ends(q)'
  BY DEF OpOK, Ends, ConnsStay, Stays
<1> QED
  BY <1>1, <1>2, <1>3, <1>4, <1>5, <1>6, <1>7 DEF OpOK

(* Steps that change an operation and nothing it shares but the mutex.          *)
LEMMA OpSteps ==
    ASSUME RuntimeInv, NEW o \in Ops, NEW p \in OpRecords, op' = [op EXCEPT ![o] = p],
           op[o].pc \notin {"launch", "stale"},
           UNCHANGED <<world, entry, closing, opened, gens, conn>>,
           trust' \in [Servers -> [Prints -> Decisions]], Names(registry'),
           decisions' \in Ops \cup {None},
           \A q \in Ops \ {o} : decisions = q => decisions' = q,
           OpOK(o)'
    PROVE  RuntimeInv'
<1>1. /\ Typed /\ \A c \in Conns : ConnOK(c)
      /\ \A s \in Servers : EntryOK(s)
      /\ \A q \in Ops : OpOK(q)
  BY DEF RuntimeInv
<1>2. op' \in [Ops -> OpRecords] /\ \A q \in Ops \ {o} : op'[q] = op[q]
  BY <1>1 DEF Typed
<1>3. Typed'
  BY <1>1, <1>2 DEF Typed, world
<1>4. \A s \in Servers : EntryOK(s)'
  BY <1>1 DEF EntryOK, Serves
<1>5. \A c \in Conns : ConnOK(c)'
  <2> SUFFICES ASSUME NEW c \in Conns
               PROVE  ConnOK(c)'
    OBVIOUS
  <2>1. ConnOK(c) /\ conn[c].by \in Ops \cup {None}
    BY <1>1 DEF Typed, ConnRecords
  <2>2. conn[c].by # o
    BY <2>1, OpsAssumption DEF ConnOK, None
  <2>3. conn[c].by # None => op'[conn[c].by] = op[conn[c].by]
    BY <1>2, <2>1, <2>2
  <2> QED
    BY <2>1, <2>3 DEF ConnOK, Stands
<1>6. ASSUME NEW q \in Ops \ {o}
      PROVE  OpOK(q)'
  <2>1. OpOK(q) /\ op[q] \in OpRecords
    BY <1>1 DEF Typed
  <2>2. Grows
    BY <1>1 DEF Grows, Typed
  <2>3. ConnsStay(q)
    BY DEF ConnsStay, Slots
  <2>4. NoDecision(q)
    BY DEF NoDecision
  <2>5. Stays(q)
    BY <1>2 DEF Stays
  <2> QED
    BY <2>1, <2>2, <2>3, <2>4, <2>5, OthersKeep
<1> QED
  BY <1>3, <1>4, <1>5, <1>6 DEF RuntimeInv

(* Steps of one connection on its way, or of its child.                        *)
LEMMA ConnSteps ==
    ASSUME RuntimeInv, NEW c \in Conns, NEW k \in ConnRecords, conn' = [conn EXCEPT ![c] = k],
           UNCHANGED <<trust, entry, registry, closing, opened, gens, decisions, op>>,
           file' \in [Servers -> Declared], edits' \in 0 .. MaxEdits,
           k.srv = conn[c].srv, k.gen = conn[c].gen, k.print = conn[c].print, k.by = conn[c].by,
           ConnShape(k),
           \/ k.stage = conn[c].stage
           \/ conn[c].stage \in Launched /\ k.stage \in Launched,
           k.stage \in Owned => conn[c].stage \in Owned
    PROVE  RuntimeInv'
<1>1. /\ Typed /\ \A d \in Conns : ConnOK(d)
      /\ \A s \in Servers : EntryOK(s)
      /\ \A q \in Ops : OpOK(q)
  BY DEF RuntimeInv
<1>2. conn' \in [Conns -> ConnRecords] /\ conn'[c] = k /\ \A d \in Conns \ {c} : conn'[d] = conn[d]
  BY <1>1 DEF Typed
<1>3. Typed'
  BY <1>1, <1>2 DEF Typed
<1>4. \A s \in Servers : EntryOK(s)'
  BY <1>1, <1>2 DEF EntryOK, Serves, Launched
<1>5. \A d \in Conns \ {c} : ConnOK(d)'
  BY <1>1, <1>2 DEF ConnOK, Stands
<1>6. ConnOK(c)'
  <2>1. ConnOK(c)
    BY <1>1
  <2>2. k.stage \notin {"free", "released"} => Stands(k.srv, k.gen, k.print)'
    BY <2>1 DEF ConnOK, Stands, Launched
  <2> QED
    BY <1>2, <2>1, <2>2 DEF ConnOK, Launched
<1>7. ASSUME NEW q \in Ops
      PROVE  OpOK(q)'
  <2>1. OpOK(q) /\ op[q] \in OpRecords
    BY <1>1 DEF Typed
  <2>2. Grows
    BY <1>1 DEF Grows, Typed
  <2>3. ConnsStay(q)
    <3>1. Slots = {} => Slots' = {}
      BY <1>2 DEF Slots
    <3> QED
      BY <1>2, <3>1 DEF ConnsStay, Final, Launched
  <2>4. NoDecision(q)
    BY DEF NoDecision
  <2>5. Stays(q)
    BY DEF Stays
  <2> QED
    BY <2>1, <2>2, <2>3, <2>4, <2>5, OthersKeep
<1> QED
  BY <1>3, <1>4, <1>5, <1>6, <1>7 DEF RuntimeInv

(* Steps that take the connections of some servers from their entries, and may  *)
(* close others.                                                               *)
Taken(S) == {c \in Conns : \E s \in S : entry[s].conn = c}

Alike(k, l) ==
    /\ k.srv = l.srv /\ k.print = l.print /\ k.gen = l.gen
    /\ k.by = l.by /\ k.alive = l.alive

Dropped(S, stage) ==
    /\ conn' \in [Conns -> ConnRecords]
    /\ \A c \in Conns : Alike(conn'[c], conn[c]) /\ (conn[c].closed => conn'[c].closed)
    /\ \A c \in Taken(S) : conn'[c].stage = stage /\ (stage = "retired" => conn'[c].closed)
    /\ \A c \in Conns \ Taken(S) : conn'[c].stage = conn[c].stage

Unserved(s) ==
    /\ entry'[s].conn = 0 /\ entry'[s].gen \in 0 .. gens'
    /\ entry'[s].state \notin {"absent", "invalid"} =>
          entry'[s].gen > 0 /\ entry'[s].print \in Prints

LEMMA DropSteps ==
    ASSUME RuntimeInv, NEW S \in SUBSET Servers, NEW stage \in {"retired", "dropped"},
           NEW o \in Ops, NEW p \in OpRecords, op' = [op EXCEPT ![o] = p],
           op[o].pc \notin {"launch", "stale"},
           UNCHANGED <<world, trust, opened, decisions>>,
           entry' \in [Servers -> Entries], Grows, Dropped(S, stage), Names(registry'),
           \A s \in S : Unserved(s),
           \A s \in Servers \ S : entry'[s] = entry[s],
           \A s \in S : \/ /\ entry'[s].gen = entry[s].gen /\ entry'[s].print = entry[s].print
                           /\ entry'[s].by = entry[s].by
                        \/ entry'[s].by \notin Deciding
                        \/ decisions = o,
           closing' \in BOOLEAN, closing => closing', closing' => closing \/ S = Servers,
           OpOK(o)'
    PROVE  RuntimeInv'
<1>1. /\ Typed /\ \A d \in Conns : ConnOK(d)
      /\ \A s \in Servers : EntryOK(s)
      /\ \A q \in Ops : OpOK(q)
  BY DEF RuntimeInv
<1>2. op' \in [Ops -> OpRecords] /\ \A q \in Ops \ {o} : op'[q] = op[q]
  BY <1>1 DEF Typed
<1>3. Typed'
  BY <1>1, <1>2 DEF Typed, world, Dropped, Grows
<1>4. \A c \in Taken(S) : /\ conn[c].stage = "installed" /\ conn[c].by = None
                          /\ conn[c].srv \in S /\ entry[conn[c].srv].conn = c
  <2> SUFFICES ASSUME NEW c \in Conns, NEW s \in S, entry[s].conn = c
               PROVE  /\ conn[c].stage = "installed" /\ conn[c].by = None
                      /\ conn[c].srv \in S /\ entry[conn[c].srv].conn = c
    BY DEF Taken
  <2>1. c # 0
    BY ConnsAssumption
  <2>2. Serves(s, c)
    BY <1>1, <2>1 DEF EntryOK
  <2> QED
    BY <1>1, <2>2 DEF Serves, ConnOK, ConnShape, Ownerless
<1>5. \A c \in Conns :
         /\ conn'[c].srv = conn[c].srv /\ conn'[c].print = conn[c].print
         /\ conn'[c].gen = conn[c].gen /\ conn'[c].by = conn[c].by
         /\ conn'[c].alive = conn[c].alive
         /\ conn[c].closed => conn'[c].closed
  BY DEF Dropped, Alike
<1>6. \A c \in Taken(S) : /\ conn'[c].stage = stage /\ (stage = "retired" => conn'[c].closed)
                          /\ c \in Conns
  BY DEF Dropped, Taken
<1>7. \A s \in Servers : EntryOK(s)'
  <2>1. ASSUME NEW s \in S
        PROVE  EntryOK(s)'
    BY DEF Unserved, EntryOK
  <2>2. ASSUME NEW s \in Servers \ S
        PROVE  EntryOK(s)'
    <3>1. EntryOK(s) /\ entry'[s] = entry[s]
      BY <1>1
    <3>2. entry'[s].gen \in 0 .. gens'
      BY <3>1 DEF EntryOK, Grows
    <3>3. closing' => entry'[s].conn = 0
      BY <3>1 DEF EntryOK
    <3>4. ASSUME entry[s].conn # 0
          PROVE  Serves(s, entry[s].conn)'
      <4>1. Serves(s, entry[s].conn)
        BY <3>1, <3>4 DEF EntryOK
      <4>2. entry[s].conn \in Conns \ Taken(S)
        BY <1>4, <4>1 DEF Serves
      <4>3. PICK c \in Conns \ Taken(S) : c = entry[s].conn
        BY <4>2
      <4>4. /\ conn'[c].stage = conn[c].stage /\ conn'[c].srv = conn[c].srv
            /\ conn'[c].print = conn[c].print /\ conn'[c].gen = conn[c].gen
        BY <1>5, <4>3 DEF Dropped
      <4>5. entry'[s].conn = c /\ Serves(s, c)
        BY <3>1, <4>1, <4>3
      <4> QED
        BY <3>1, <4>4, <4>5 DEF Serves
    <3> QED
      BY <3>1, <3>2, <3>3, <3>4 DEF EntryOK
  <2> QED
    BY <2>1, <2>2
<1>8. \A c \in Conns : ConnOK(c)'
  <2> SUFFICES ASSUME NEW c \in Conns
               PROVE  ConnOK(c)'
    OBVIOUS
  <2>1. ConnOK(c) /\ conn[c].by \in Ops \cup {None}
    BY <1>1 DEF Typed, ConnRecords
  <2>2. conn[c].by # o
    BY <2>1, OpsAssumption DEF ConnOK, None
  <2>3. conn[c].by # None => op'[conn[c].by] = op[conn[c].by]
    BY <1>2, <2>1, <2>2
  <2>4. conn[c].stage \notin {"free", "released"} =>
           /\ conn[c].srv \in Servers /\ conn[c].gen \in 1 .. gens' /\ conn[c].print \in Prints
           /\ entry'[conn[c].srv].gen = conn[c].gen => entry'[conn[c].srv].print = conn[c].print
    BY <2>1 DEF ConnOK, Stands, Grows
  <2>5. CASE c \in Taken(S)
    <3>1. ConnShape(conn[c])' /\ conn'[c].by = None /\ conn'[c].stage # "installed"
      BY <1>4, <1>5, <1>6, <2>5 DEF ConnShape, Ownerless
    <3> QED
      BY <1>4, <1>5, <1>6, <2>4, <2>5, <3>1 DEF ConnOK, Stands
  <2>6. CASE c \notin Taken(S)
    <3>1. /\ conn'[c].stage = conn[c].stage /\ conn'[c].srv = conn[c].srv
          /\ conn'[c].print = conn[c].print /\ conn'[c].gen = conn[c].gen
          /\ conn'[c].by = conn[c].by /\ conn'[c].alive = conn[c].alive
          /\ conn[c].closed => conn'[c].closed
      BY <1>5, <2>6 DEF Dropped
    <3>2. ConnShape(conn[c])'
      BY <2>1, <3>1 DEF ConnOK, ConnShape
    <3>3. conn[c].stage = "installed" => entry'[conn[c].srv].conn = c
      <4> SUFFICES ASSUME conn[c].stage = "installed"
                   PROVE  entry'[conn[c].srv].conn = c
        OBVIOUS
      <4>1. conn[c].srv \in Servers /\ entry[conn[c].srv].conn = c
        BY <2>1 DEF ConnOK, Stands
      <4>2. conn[c].srv \notin S
        BY <2>6, <4>1 DEF Taken
      <4> QED
        BY <4>1, <4>2
    <3> QED
      BY <2>1, <2>3, <2>4, <3>1, <3>2, <3>3 DEF ConnOK, Stands
  <2> QED
    BY <2>5, <2>6
<1>9. ASSUME NEW q \in Ops \ {o}
      PROVE  OpOK(q)'
  <2>1. OpOK(q) /\ op[q] \in OpRecords
    BY <1>1 DEF Typed
  <2>3. ConnsStay(q)
    <3>1. Slots = {} => Slots' = {}
      BY <1>6 DEF Slots, Dropped, Owned
    <3>2. \A c \in Conns : /\ conn'[c].by = conn[c].by /\ conn'[c].srv = conn[c].srv
                           /\ conn'[c].gen = conn[c].gen /\ conn'[c].print = conn[c].print
      BY <1>5
    <3>3. \A c \in Conns : conn[c].stage \in Final => conn'[c].stage \in Final
      BY <1>6 DEF Dropped, Final
    <3>4. \A c \in Conns : conn[c].stage = "stale" => conn'[c].stage = "stale"
      BY <1>4, <1>6 DEF Dropped
    <3> QED
      BY <3>1, <3>2, <3>3, <3>4 DEF ConnsStay
  <2>4. NoDecision(q)
    <3>1. decisions = o => decisions # q
      OBVIOUS
    <3> QED
      BY <3>1 DEF NoDecision
  <2>5. Stays(q)
    BY <1>2 DEF Stays
  <2> QED
    BY <2>1, <2>3, <2>4, <2>5, OthersKeep
<1> QED
  BY <1>3, <1>7, <1>8, <1>9 DEF RuntimeInv

-----------------------------------------------------------------------------
(* The beginning.                                                              *)

LEMMA RuntimeInit == Init => RuntimeInv
<1> SUFFICES ASSUME Init
             PROVE  RuntimeInv
  OBVIOUS
<1>1. Idle \in OpRecords
  BY DEF Idle, OpRecords, Pcs, Decisions, Listed, None
<1>2. FreeConn \in ConnRecords
  BY DEF FreeConn, ConnRecords, Stages, Listed, None
<1>3. Absent \in Entries
  BY DEF Absent, Entries, EntryStates, None
<1>4. Typed
  <2>1. trust \in [Servers -> [Prints -> Decisions]]
    BY TrustAssumption DEF Init, Decisions, None
  <2>2. file \in [Servers -> Declared] /\ edits \in 0 .. MaxEdits
    BY EditsAssumption DEF Init, Declared
  <2>3. entry \in [Servers -> Entries] /\ conn \in [Conns -> ConnRecords] /\ op \in [Ops -> OpRecords]
    BY <1>1, <1>2, <1>3 DEF Init
  <2> QED
    BY <2>1, <2>2, <2>3 DEF Init, Typed
<1>5. Names(registry)
  BY FS_EmptySet DEF Init, Names
<1>6. \A s \in Servers : EntryOK(s)
  BY DEF Init, EntryOK, Absent
<1>7. \A c \in Conns : ConnOK(c)
  BY DEF Init, ConnOK, ConnShape, FreeConn, Ownerless, None
<1>8. \A o \in Ops : OpOK(o)
  BY DEF Init, OpOK, Starts, Releasing, Decides, Restarts, Refreshes, Calls, Ends, Idle, None,
         Deciding, Targeted
<1> QED
  BY <1>4, <1>5, <1>6, <1>7, <1>8 DEF RuntimeInv

LEMMA OpIn ==
    ASSUME RuntimeInv, NEW o \in Ops
    PROVE  op[o] \in OpRecords /\ OpOK(o) /\ Typed /\ Names(registry)
BY DEF RuntimeInv, Typed

\* Where an operation claims nothing of what it shares.
Quiet == {"idle", "done", "file", "closing", "look", "refused", "pending", "freeze", "drain"}

LEMMA QuietIs ==
    ASSUME NEW o \in Ops, op'[o].pc \in Quiet, op'[o].kind \in Targeted => op'[o].srv \in Servers,
           op'[o].res \notin Deciding, op'[o].res # "drained",
           op'[o].kind = "shutdown" => closing'
    PROVE  OpOK(o)'
BY DEF Quiet, OpOK, Starts, Releasing, Decides, Restarts, Refreshes, Calls, Ends

Done(res) == [Idle EXCEPT !.pc = "done", !.res = res]

LEMMA DoneIs ==
    ASSUME NEW res \in AllKinds \cup {None, "drained"}
    PROVE  /\ Done(res) \in OpRecords /\ Done(res).pc = "done" /\ Done(res).kind = None
           /\ Done(res).res = res
BY DEF Done, Idle, OpRecords, Pcs, Decisions, Listed, None

LEMMA EndIs ==
    ASSUME RuntimeInv, NEW o \in Ops, NEW res \in AllKinds \cup {None}, End(o, res),
           res \notin Deciding
    PROVE  /\ Done(res) \in OpRecords /\ op' = [op EXCEPT ![o] = Done(res)]
           /\ OpOK(o)'
<1>1. op' = [op EXCEPT ![o] = Done(res)] /\ op'[o] = Done(res)
  BY OpIn DEF End, Done, Typed
<1>2. /\ Done(res) \in OpRecords /\ Done(res).pc = "done" /\ Done(res).kind = None
      /\ Done(res).res = res
  BY DoneIs
<1>3. res # "drained" /\ None \notin Targeted /\ None # "shutdown"
  BY DEF AllKinds, UiKinds, None, Targeted
<1> HIDE DEF Done
<1> QED
  BY <1>1, <1>2, <1>3, QuietIs DEF Quiet

LEMMA BeginKeeps ==
    ASSUME RuntimeInv, NEW o \in Ops, NEW kind \in AllKinds, Begin(o, kind)
    PROVE  RuntimeInv'
<1> DEFINE p(s) == [Idle EXCEPT !.kind = kind, !.pc = FirstStep(kind),
                                !.srv = IF kind \in Targeted THEN s ELSE None]
<1>1. /\ Typed /\ Names(registry) /\ \A c \in Conns : ConnOK(c)
      /\ \A s \in Servers : EntryOK(s)
      /\ \A q \in Ops : OpOK(q)
  BY DEF RuntimeInv
<1>2. op[o].pc = "idle" /\ UNCHANGED <<world, trust, entry, registry, closing, gens, decisions, conn>>
      /\ opened' \in BOOLEAN
  BY <1>1 DEF Begin, Typed
<1>3. PICK s \in Servers :
         op' = [q \in Ops |->
                  IF q = o THEN p(s)
                  ELSE IF kind \in UiKinds /\ op[q].kind \in UiKinds /\ op[q].pc # "done"
                       THEN [op[q] EXCEPT !.cancelled = TRUE]
                       ELSE op[q]]
  BY DEF Begin
<1>4. FirstStep(kind) \in {"file", "look", "apply", "freeze"}
      /\ (kind \in Deciding \cup {"restart"} => FirstStep(kind) = "look")
  BY DEF FirstStep, AllKinds, UiKinds, Deciding
<1>5. /\ p(s) \in OpRecords /\ p(s).kind = kind /\ p(s).pc = FirstStep(kind)
      /\ p(s).res = None /\ (kind \in Targeted => p(s).srv \in Servers)
  BY <1>4 DEF Idle, OpRecords, Pcs, Decisions, Listed, None
<1> HIDE DEF p
<1>6. OpOK(o)'
  <2>1. op'[o] = p(s)
    BY <1>3
  <2>2. None \notin Deciding /\ None # "drained"
    BY DEF None, Deciding
  <2> QED
    BY <1>4, <1>5, <2>1, <2>2
    DEF OpOK, Starts, Releasing, Decides, Restarts, Refreshes, Calls, Ends
<1>7. ASSUME NEW q \in Ops \ {o}
      PROVE  Stays(q) /\ op'[q] \in OpRecords
  <2>1. op[q] \in OpRecords
    BY <1>1 DEF Typed
  <2>2. op'[q] = op[q] \/ op'[q] = [op[q] EXCEPT !.cancelled = TRUE]
    BY <1>3
  <2>3. CASE op'[q] = op[q]
    BY <2>1, <2>3 DEF Stays
  <2>4. CASE op'[q] = [op[q] EXCEPT !.cancelled = TRUE]
    BY <2>1, <2>4 DEF Stays, OpRecords
  <2> QED
    BY <2>2, <2>3, <2>4
<1>8. Typed'
  <2>1. op' \in [Ops -> OpRecords]
    <3>1. \A q \in Ops : op'[q] \in OpRecords
      BY <1>3, <1>5, <1>7
    <3> QED
      BY <1>3, <3>1
  <2> QED
    BY <1>1, <1>2, <2>1 DEF Typed, world
<1>9. \A s1 \in Servers : EntryOK(s1)'
  BY <1>1, <1>2 DEF EntryOK, Serves
<1>10. ASSUME NEW c \in Conns
       PROVE  ConnOK(c)'
  <2>1. ConnOK(c) /\ conn[c].by \in Ops \cup {None}
    BY <1>1 DEF Typed, ConnRecords
  <2>2. conn[c].by # o
    BY <1>2, <2>1, OpsAssumption DEF ConnOK, None
  <2>3. conn[c].by # None => Stays(conn[c].by)
    BY <1>7, <2>1, <2>2
  <2> QED
    BY <1>2, <2>1, <2>3 DEF ConnOK, Stands, Stays
<1>11. ASSUME NEW q \in Ops \ {o}
       PROVE  OpOK(q)'
  <2>1. OpOK(q) /\ op[q] \in OpRecords
    BY <1>1 DEF Typed
  <2>2. Grows
    BY <1>1, <1>2 DEF Grows, Typed
  <2>3. ConnsStay(q)
    BY <1>2 DEF ConnsStay, Slots
  <2>4. NoDecision(q)
    BY <1>2 DEF NoDecision
  <2> QED
    BY <1>7, <2>1, <2>2, <2>3, <2>4, OthersKeep
<1> QED
  BY <1>1, <1>2, <1>6, <1>8, <1>9, <1>10, <1>11 DEF RuntimeInv

-----------------------------------------------------------------------------
(* Steps on what an operation itself holds.                                    *)

\* A step to a place where nothing is claimed.
LEMMA QuietStep ==
    ASSUME RuntimeInv, NEW o \in Ops, NEW p \in OpRecords, op' = [op EXCEPT ![o] = p],
           p.pc \in Quiet, p.kind \in Targeted => p.srv \in Servers,
           p.res \notin Deciding, p.res # "drained", p.kind = "shutdown" => closing,
           op[o].pc \notin {"launch", "stale"},
           UNCHANGED <<world, trust, entry, closing, opened, gens, conn>>, Names(registry'),
           decisions' \in Ops \cup {None},
           \A q \in Ops \ {o} : decisions = q => decisions' = q
    PROVE  RuntimeInv'
<1>1. op'[o] = p
  BY OpIn DEF Typed
<1>2. OpOK(o)'
  BY <1>1, QuietIs
<1>3. trust' \in [Servers -> [Prints -> Decisions]]
  BY OpIn DEF Typed
<1> QED
  BY <1>2, <1>3, OpSteps

LEMMA Targets ==
    ASSUME RuntimeInv, NEW o \in Ops, op[o].pc # "done"
    PROVE  /\ op[o].kind \in Targeted => op[o].srv \in Servers
           /\ op[o].res \notin Deciding /\ op[o].res # "drained"
BY OpIn DEF OpOK, Ends

LEMMA ReadFileKeeps ==
    ASSUME RuntimeInv, NEW o \in Ops, ReadFile(o)
    PROVE  RuntimeInv'
<1> DEFINE reads == [s \in Servers |-> [print |-> file[s], dec |-> None]]
           asks == {s \in Servers : file[s] \in Prints}
           p == [op[o] EXCEPT !.pc = "load", !.seen = reads, !.todo = asks]
<1>1. op[o] \in OpRecords /\ Typed /\ Names(registry)
  BY OpIn
<1>2. reads \in Reads /\ \A s \in asks : reads[s].print \in Prints
  BY <1>1 DEF Reads, Typed, Decisions
<1>3. /\ op' = [op EXCEPT ![o] = p] /\ op[o].kind \in {"open", "reload"} /\ op[o].pc = "file"
      /\ UNCHANGED <<world, trust, entry, registry, closing, opened, gens, decisions, conn>>
  BY <1>1 DEF ReadFile, Typed, At
<1>4. asks \subseteq Servers
  OBVIOUS
<1> HIDE DEF reads, asks
<1>5. /\ p \in OpRecords /\ p.pc = "load" /\ p.kind = op[o].kind /\ p.seen = reads
      /\ p.todo = asks /\ p.srv = op[o].srv /\ p.res = op[o].res
  <2>1. /\ "load" \in Pcs /\ reads \in Reads \cup Listed
        /\ asks \in SUBSET (Launches \cup Visits \cup Servers)
    BY <1>2, <1>4 DEF Pcs
  <2> QED
    BY <1>1, <2>1 DEF OpRecords
<1> HIDE DEF p
<1>6. op'[o] = p
  BY <1>1, <1>3 DEF Typed
<1>7. OpOK(o)'
  <2>1. op[o].kind \notin Targeted /\ op[o].res \notin Deciding /\ op[o].res # "drained"
    BY <1>3, Targets DEF Targeted
  <2> QED
    BY <1>2, <1>3, <1>4, <1>5, <1>6, <2>1
    DEF OpOK, Starts, Releasing, Decides, Restarts, Refreshes, Calls, Ends, Deciding
<1> QED
  BY <1>1, <1>3, <1>5, <1>7, OpSteps DEF Typed

LEMMA ReadDecisionKeeps ==
    ASSUME RuntimeInv, NEW o \in Ops, ReadDecision(o)
    PROVE  RuntimeInv'
<1>1. op[o] \in OpRecords /\ Typed /\ Names(registry) /\ OpOK(o)
  BY OpIn
<1>2. /\ op[o].kind \in {"open", "reload"} /\ op[o].pc = "load"
      /\ UNCHANGED <<world, trust, entry, registry, closing, opened, gens, decisions, conn>>
  BY DEF ReadDecision, At
<1>3. /\ op[o].seen \in Reads /\ op[o].todo \subseteq Servers
      /\ \A s \in op[o].todo : op[o].seen[s].print \in Prints
  BY <1>1, <1>2 DEF OpOK, Ends
<1>4. PICK s \in op[o].todo :
         op' = [op EXCEPT ![o].seen[s].dec = trust[s][op[o].seen[s].print],
                          ![o].todo = @ \ {s}]
  BY DEF ReadDecision
<1> DEFINE dec == trust[s][op[o].seen[s].print]
           reads == [op[o].seen EXCEPT ![s] = [op[o].seen[s] EXCEPT !.dec = dec]]
           rest == op[o].todo \ {s}
           p == [op[o] EXCEPT !.seen = reads, !.todo = rest]
<1>5. op' = [op EXCEPT ![o] = p]
  BY <1>1, <1>4 DEF Typed
<1>6. dec \in Decisions
  BY <1>1, <1>3 DEF Typed
<1> HIDE DEF dec
<1>7. /\ reads \in Reads
      /\ \A t \in Servers : reads[t].print = op[o].seen[t].print
  BY <1>3, <1>6 DEF Reads
<1>8. rest \subseteq Servers /\ \A t \in rest : reads[t].print \in Prints
  BY <1>3, <1>7
<1> HIDE DEF reads, rest
<1>9. /\ p \in OpRecords /\ p.pc = "load" /\ p.kind = op[o].kind /\ p.seen = reads
      /\ p.todo = rest /\ p.srv = op[o].srv /\ p.res = op[o].res
  <2>1. reads \in Reads \cup Listed /\ rest \in SUBSET (Launches \cup Visits \cup Servers)
    BY <1>7, <1>8
  <2> QED
    BY <1>1, <1>2, <2>1 DEF OpRecords
<1> HIDE DEF p
<1>10. op'[o] = p
  BY <1>1, <1>5 DEF Typed
<1>11. OpOK(o)'
  <2>1. op[o].kind \notin Targeted /\ op[o].res \notin Deciding /\ op[o].res # "drained"
    BY <1>2, Targets DEF Targeted
  <2> QED
    BY <1>2, <1>7, <1>8, <1>9, <1>10, <2>1
    DEF OpOK, Starts, Releasing, Decides, Restarts, Refreshes, Calls, Ends, Deciding
<1> QED
  BY <1>1, <1>2, <1>5, <1>9, <1>11, OpSteps DEF Typed

LEMMA ReadFailsKeeps ==
    ASSUME RuntimeInv, NEW o \in Ops, ReadFails(o)
    PROVE  RuntimeInv'
<1> DEFINE p == [op[o] EXCEPT !.pc = "refused"]
<1>1. op[o] \in OpRecords /\ Typed /\ Names(registry)
  BY OpIn
<1>2. /\ op[o].kind \in {"open", "reload", "restart"} \cup Deciding
      /\ op[o].pc \in {"file", "load", "trust", "record"}
      /\ op' = [op EXCEPT ![o] = p]
      /\ UNCHANGED <<world, trust, entry, registry, closing, opened, gens, decisions, conn>>
  BY <1>1 DEF ReadFails, At, Goto, Typed
<1>3. /\ op[o].kind \in Targeted => op[o].srv \in Servers
      /\ op[o].res \notin Deciding /\ op[o].res # "drained"
  BY <1>2, Targets
<1>4. /\ p \in OpRecords /\ p.pc = "refused" /\ p.srv = op[o].srv /\ p.res = op[o].res
      /\ p.kind = op[o].kind /\ p.kind # "shutdown"
  BY <1>1, <1>2 DEF OpRecords, Pcs, Deciding
<1> HIDE DEF p
<1> QED
  BY <1>1, <1>2, <1>3, <1>4, QuietStep DEF Quiet, Typed

LEMMA LookDecideKeeps ==
    ASSUME RuntimeInv, NEW o \in Ops, LookDecide(o)
    PROVE  RuntimeInv'
<1> DEFINE s == op[o].srv
<1>1. op[o] \in OpRecords /\ Typed /\ Names(registry)
  BY OpIn
<1>2. /\ op[o].kind \in Deciding /\ op[o].pc = "look" /\ decisions = None /\ decisions' = o
      /\ UNCHANGED <<world, trust, entry, registry, closing, opened, gens, conn>>
  BY DEF LookDecide, At, TakeDecisions
<1>3. s \in Servers /\ op[o].res \notin Deciding /\ op[o].res # "drained"
  BY <1>2, Targets DEF Deciding, Targeted
<1>4. None \notin Ops
  BY OpsAssumption DEF None
<1>5. CASE entry[s].state \in {"absent", "invalid"}
  <2> DEFINE p == [op[o] EXCEPT !.pc = "refused"]
  <2>1. op' = [op EXCEPT ![o] = p]
    BY <1>1, <1>5 DEF LookDecide, Typed
  <2>2. /\ p \in OpRecords /\ p.pc = "refused" /\ p.srv = op[o].srv /\ p.res = op[o].res
        /\ p.kind # "shutdown"
    BY <1>1, <1>2 DEF OpRecords, Pcs, Deciding
  <2> HIDE DEF p
  <2> QED
    BY <1>1, <1>2, <1>3, <1>4, <2>1, <2>2, QuietStep DEF Quiet
<1>6. CASE entry[s].state \notin {"absent", "invalid"}
  <2> DEFINE p == [op[o] EXCEPT !.pc = "check", !.print = entry[s].print, !.gen = entry[s].gen]
  <2>1. op' = [op EXCEPT ![o] = p]
    BY <1>1, <1>6 DEF LookDecide, Typed
  <2>2. entry[s] \in Entries /\ EntryOK(s)
    BY <1>3 DEF RuntimeInv, Typed
  <2>3. /\ p \in OpRecords /\ p.pc = "check" /\ p.kind = op[o].kind /\ p.srv = s /\ p.res = op[o].res
        /\ p.print = entry[s].print /\ p.gen = entry[s].gen
    <3>1. "check" \in Pcs /\ entry[s].print \in Prints \cup {None} /\ entry[s].gen \in Nat
      BY <2>2 DEF Entries, Pcs
    <3> QED
      BY <1>1, <3>1 DEF OpRecords
  <2>4. entry[s].print \in Prints
    BY <1>6, <2>2 DEF EntryOK
  <2> HIDE DEF p
  <2>5. op'[o] = p
    BY <1>1, <2>1 DEF Typed
  <2>6. OpOK(o)'
    BY <1>2, <1>3, <2>3, <2>4, <2>5
    DEF OpOK, Starts, Releasing, Decides, Restarts, Refreshes, Calls, Ends, Same, Deciding
  <2> QED
    BY <1>1, <1>2, <1>4, <2>1, <2>3, <2>6, OpSteps DEF Typed
<1> QED
  BY <1>5, <1>6

LEMMA CheckDecideKeeps ==
    ASSUME RuntimeInv, NEW o \in Ops, CheckDecide(o)
    PROVE  RuntimeInv'
<1>1. op[o] \in OpRecords /\ Typed /\ Names(registry) /\ OpOK(o)
  BY OpIn
<1>2. /\ op[o].kind \in Deciding /\ op[o].pc = "check"
      /\ UNCHANGED <<world, trust, entry, registry, closing, opened, gens, decisions, conn>>
  BY DEF CheckDecide, At
<1>3. op[o].srv \in Servers /\ op[o].res \notin Deciding /\ op[o].res # "drained"
  BY <1>2, Targets DEF Deciding, Targeted
<1> DEFINE p(pc) == [op[o] EXCEPT !.pc = pc]
<1>4. op' = [op EXCEPT ![o] = p("record")] \/ op' = [op EXCEPT ![o] = p("refused")]
  BY <1>1 DEF CheckDecide, Goto, Typed
<1>5. \A pc \in {"record", "refused"} :
         /\ p(pc) \in OpRecords /\ p(pc).pc = pc /\ p(pc).kind = op[o].kind
         /\ p(pc).srv = op[o].srv /\ p(pc).res = op[o].res
         /\ p(pc).print = op[o].print /\ p(pc).gen = op[o].gen
  BY <1>1 DEF OpRecords, Pcs
<1> HIDE DEF p
<1>6. CASE op' = [op EXCEPT ![o] = p("refused")]
  BY <1>1, <1>2, <1>3, <1>5, <1>6, QuietStep DEF Quiet, Typed, Deciding
<1>7. CASE op' = [op EXCEPT ![o] = p("record")]
  <2>1. op'[o] = p("record")
    BY <1>1, <1>7 DEF Typed
  <2>2. Decides(o)
    BY <1>1 DEF OpOK
  <2>3. OpOK(o)'
    BY <1>2, <1>3, <1>5, <2>1, <2>2
    DEF OpOK, Starts, Releasing, Decides, Restarts, Refreshes, Calls, Ends, Same, Deciding
  <2> QED
    BY <1>1, <1>2, <1>5, <1>7, <2>3, OpSteps DEF Typed
<1> QED
  BY <1>4, <1>6, <1>7

LEMMA RecordKeeps ==
    ASSUME RuntimeInv, NEW o \in Ops, Record(o)
    PROVE  RuntimeInv'
<1>1. op[o] \in OpRecords /\ Typed /\ Names(registry) /\ OpOK(o)
  BY OpIn
<1>2. /\ op[o].kind \in Deciding /\ op[o].pc = "record"
      /\ UNCHANGED <<world, entry, registry, closing, opened, gens, decisions, conn>>
  BY DEF Record, At
<1>3. op[o].srv \in Servers /\ op[o].res \notin Deciding /\ op[o].res # "drained"
  BY <1>2, Targets DEF Deciding, Targeted
<1>4. Decides(o) /\ op[o].print \in Prints
  BY <1>1, <1>2 DEF OpOK, Decides
<1> DEFINE p == [op[o] EXCEPT !.pc = "apply"]
<1>5. op' = [op EXCEPT ![o] = p]
  BY <1>1 DEF Record, Goto, Typed
<1>6. /\ p \in OpRecords /\ p.pc = "apply" /\ p.kind = op[o].kind
      /\ p.srv = op[o].srv /\ p.res = op[o].res
      /\ p.print = op[o].print /\ p.gen = op[o].gen
  BY <1>1 DEF OpRecords, Pcs
<1>7. trust' \in [Servers -> [Prints -> Decisions]]
  <2>1. trust \in [Servers -> [Prints -> Decisions]] /\ trust[op[o].srv] \in [Prints -> Decisions]
    BY <1>1, <1>3 DEF Typed
  <2> DEFINE d == IF op[o].kind = "approve" THEN "approved" ELSE "denied"
  <2>2. d \in Decisions
    BY DEF Decisions
  <2>3. trust' = [trust EXCEPT ![op[o].srv] = [trust[op[o].srv] EXCEPT ![op[o].print] = d]]
    BY <2>1 DEF Record
  <2> HIDE DEF d
  <2> QED
    BY <2>1, <2>2, <2>3
<1> HIDE DEF p
<1>8. op'[o] = p
  BY <1>1, <1>5 DEF Typed
<1>9. OpOK(o)'
  BY <1>2, <1>3, <1>4, <1>6, <1>8
  DEF OpOK, Starts, Releasing, Decides, Restarts, Refreshes, Calls, Ends, Same, Deciding
<1> QED
  BY <1>1, <1>2, <1>5, <1>6, <1>7, <1>9, OpSteps DEF Typed

LEMMA RefusedKeeps ==
    ASSUME RuntimeInv, NEW o \in Ops, Refused(o)
    PROVE  RuntimeInv'
<1>1. op[o] \in OpRecords /\ Typed /\ Names(registry)
  BY OpIn
<1>2. /\ op[o].pc = "refused" /\ End(o, op[o].res)
      /\ UNCHANGED <<world, trust, entry, registry, closing, opened, gens, conn>>
      /\ decisions' = IF decisions = o THEN None ELSE decisions
  BY DEF Refused, ReleaseDecisions
<1>3. op[o].res \notin Deciding /\ op[o].res # "drained"
  BY <1>2, Targets
<1>4. op[o].res \in AllKinds \cup {None}
  BY <1>1, <1>3 DEF OpRecords
<1>5. /\ Done(op[o].res) \in OpRecords /\ op' = [op EXCEPT ![o] = Done(op[o].res)] /\ OpOK(o)'
  BY <1>2, <1>3, <1>4, EndIs
<1> QED
  BY <1>1, <1>2, <1>5, OpSteps DEF Typed

LEMMA LookRestartKeeps ==
    ASSUME RuntimeInv, NEW o \in Ops, LookRestart(o)
    PROVE  RuntimeInv'
<1> DEFINE s == op[o].srv
<1>1. op[o] \in OpRecords /\ Typed /\ Names(registry)
  BY OpIn
<1>2. /\ op[o].kind = "restart" /\ op[o].pc = "look"
      /\ UNCHANGED <<world, trust, entry, registry, closing, opened, gens, decisions, conn>>
  BY DEF LookRestart, At
<1>3. s \in Servers /\ op[o].res \notin Deciding /\ op[o].res # "drained"
  BY <1>2, Targets DEF Targeted
<1>4. CASE entry[s].state \in {"absent", "invalid"}
  <2> DEFINE p == [op[o] EXCEPT !.pc = "refused"]
  <2>1. op' = [op EXCEPT ![o] = p]
    BY <1>1, <1>4 DEF LookRestart, Typed
  <2>2. /\ p \in OpRecords /\ p.pc = "refused" /\ p.srv = op[o].srv /\ p.res = op[o].res
        /\ p.kind # "shutdown"
    BY <1>1, <1>2 DEF OpRecords, Pcs
  <2> HIDE DEF p
  <2> QED
    BY <1>1, <1>2, <1>3, <2>1, <2>2, QuietStep DEF Quiet, Typed
<1>5. CASE entry[s].state \notin {"absent", "invalid"}
  <2> DEFINE p == [op[o] EXCEPT !.pc = "trust", !.print = entry[s].print, !.gen = entry[s].gen]
  <2>1. op' = [op EXCEPT ![o] = p]
    BY <1>1, <1>5 DEF LookRestart, Typed
  <2>2. entry[s] \in Entries /\ EntryOK(s)
    BY <1>3 DEF RuntimeInv, Typed
  <2>3. /\ p \in OpRecords /\ p.pc = "trust" /\ p.kind = op[o].kind /\ p.srv = s /\ p.res = op[o].res
        /\ p.print = entry[s].print
    <3>1. "trust" \in Pcs /\ entry[s].print \in Prints \cup {None} /\ entry[s].gen \in Nat
      BY <2>2 DEF Entries, Pcs
    <3> QED
      BY <1>1, <3>1 DEF OpRecords
  <2>4. entry[s].print \in Prints
    BY <1>5, <2>2 DEF EntryOK
  <2> HIDE DEF p
  <2>5. op'[o] = p
    BY <1>1, <2>1 DEF Typed
  <2>6. OpOK(o)'
    BY <1>2, <1>3, <2>3, <2>4, <2>5
    DEF OpOK, Starts, Releasing, Decides, Restarts, Refreshes, Calls, Ends, Deciding
  <2> QED
    BY <1>1, <1>2, <2>1, <2>3, <2>6, OpSteps DEF Typed
<1> QED
  BY <1>4, <1>5

LEMMA ReadTrustKeeps ==
    ASSUME RuntimeInv, NEW o \in Ops, ReadTrust(o)
    PROVE  RuntimeInv'
<1> DEFINE dec == trust[op[o].srv][op[o].print]
           p == [op[o] EXCEPT !.pc = "apply", !.dec = dec]
<1>1. op[o] \in OpRecords /\ Typed /\ Names(registry) /\ OpOK(o)
  BY OpIn
<1>2. /\ op[o].kind = "restart" /\ op[o].pc = "trust"
      /\ UNCHANGED <<world, trust, entry, registry, closing, opened, gens, decisions, conn>>
  BY DEF ReadTrust, At
<1>3. op[o].srv \in Servers /\ op[o].res \notin Deciding /\ op[o].res # "drained"
  BY <1>2, Targets DEF Targeted
<1>4. op[o].print \in Prints
  BY <1>1, <1>2 DEF OpOK, Restarts
<1>5. dec \in Decisions /\ "apply" \in Pcs
  BY <1>1, <1>3, <1>4 DEF Typed, Pcs
<1>6. op' = [op EXCEPT ![o] = p]
  BY <1>1 DEF ReadTrust, Typed
<1> HIDE DEF dec
<1>7. /\ p \in OpRecords /\ p.pc = "apply" /\ p.kind = op[o].kind /\ p.srv = op[o].srv
      /\ p.res = op[o].res /\ p.print = op[o].print
  BY <1>1, <1>5 DEF OpRecords
<1> HIDE DEF p
<1>8. op'[o] = p
  BY <1>1, <1>6 DEF Typed
<1>9. OpOK(o)'
  BY <1>2, <1>3, <1>4, <1>7, <1>8
  DEF OpOK, Starts, Releasing, Decides, Restarts, Refreshes, Calls, Ends, Deciding
<1> QED
  BY <1>1, <1>2, <1>6, <1>7, <1>9, OpSteps DEF Typed

LEMMA ClosedKeeps ==
    ASSUME RuntimeInv, NEW o \in Ops, Closed(o)
    PROVE  RuntimeInv'
<1>1. op[o] \in OpRecords /\ Typed /\ Names(registry)
  BY OpIn
<1>2. /\ op[o].pc = "closing"
      /\ UNCHANGED <<world, trust, entry, registry, closing, opened, gens, conn>>
      /\ decisions' = IF decisions = o THEN None ELSE decisions
  BY DEF Closed, At, ReleaseDecisions
<1>3. /\ op[o].kind \in Targeted => op[o].srv \in Servers
      /\ op[o].res \notin Deciding /\ op[o].res # "drained"
  BY <1>2, Targets
<1>4. CASE op[o].kind = "stop"
  <2>1. End(o, None)
    BY <1>4 DEF Closed
  <2>2. /\ Done(None) \in OpRecords /\ op' = [op EXCEPT ![o] = Done(None)] /\ OpOK(o)'
    BY <2>1, EndIs DEF None, Deciding
  <2> QED
    BY <1>1, <1>2, <2>2, OpSteps DEF Typed
<1>5. CASE op[o].kind # "stop"
  <2> DEFINE p == [op[o] EXCEPT !.pc = "pending", !.wait = {}]
  <2>1. op' = [op EXCEPT ![o] = p]
    BY <1>1, <1>5 DEF Closed, Typed
  <2>2. /\ p \in OpRecords /\ p.pc = "pending" /\ p.srv = op[o].srv /\ p.res = op[o].res
        /\ p.kind = op[o].kind /\ p.kind # "shutdown"
    <3>1. "pending" \in Pcs /\ {} \in SUBSET Conns /\ op[o].kind # "shutdown"
      BY DEF Pcs, Closed, At
    <3> QED
      BY <1>1, <3>1 DEF OpRecords
  <2> HIDE DEF p
  <2> QED
    BY <1>1, <1>2, <1>3, <2>1, <2>2, QuietStep DEF Quiet, Typed
<1> QED
  BY <1>4, <1>5

LEMMA PendingKeeps ==
    ASSUME RuntimeInv, NEW o \in Ops, Pending(o)
    PROVE  RuntimeInv'
<1>1. op[o] \in OpRecords /\ Typed /\ Names(registry)
  BY OpIn
<1>2. /\ op[o].pc = "pending"
      /\ UNCHANGED <<world, trust, entry, registry, closing, opened, gens, decisions, conn>>
  BY DEF Pending
<1>3. /\ op[o].kind \in Targeted => op[o].srv \in Servers
      /\ op[o].res \notin Deciding /\ op[o].res # "drained"
  BY <1>2, Targets
<1>4. CASE Startable = {}
  <2>1. End(o, None)
    BY <1>4 DEF Pending
  <2>2. /\ Done(None) \in OpRecords /\ op' = [op EXCEPT ![o] = Done(None)] /\ OpOK(o)'
    BY <2>1, EndIs DEF None, Deciding
  <2> QED
    BY <1>1, <1>2, <2>2, OpSteps DEF Typed
<1>5. CASE Startable # {}
  <2> DEFINE item(s) == [srv |-> s, print |-> entry[s].print, gen |-> entry[s].gen]
             items == {item(s) : s \in Startable}
             p == [op[o] EXCEPT !.pc = "launch", !.todo = items]
  <2>1. op' = [op EXCEPT ![o] = p]
    BY <1>1, <1>5 DEF Pending, Typed
  <2>2. \A s \in Startable : item(s) \in Launches /\ item(s).srv = s
                             /\ Stands(s, item(s).gen, item(s).print)
    <3> SUFFICES ASSUME NEW s \in Startable
                 PROVE  item(s) \in Launches /\ item(s).srv = s
                        /\ Stands(s, item(s).gen, item(s).print)
      OBVIOUS
    <3>1. s \in Servers /\ entry[s].state = "starting" /\ entry[s] \in Entries /\ EntryOK(s)
      BY <1>1 DEF Startable, RuntimeInv, Typed
    <3>2. entry[s].gen \in 1 .. gens /\ entry[s].print \in Prints
      BY <1>1, <3>1 DEF EntryOK, Typed
    <3> QED
      BY <1>1, <3>1, <3>2 DEF Launches, Stands, Typed
  <2>3. /\ items \subseteq Launches
        /\ \A i \in items : Stands(i.srv, i.gen, i.print)
        /\ \A i, j \in items : i.srv = j.srv => i = j
    BY <2>2
  <2> HIDE DEF items
  <2>4. /\ p \in OpRecords /\ p.pc = "launch" /\ p.srv = op[o].srv /\ p.res = op[o].res
        /\ p.kind = op[o].kind /\ p.todo = items
    <3>1. "launch" \in Pcs /\ items \in SUBSET (Launches \cup Visits \cup Servers)
      BY <2>3 DEF Pcs
    <3> QED
      BY <1>1, <3>1 DEF OpRecords
  <2> HIDE DEF p
  <2>5. op'[o] = p
    BY <1>1, <2>1 DEF Typed
  <2>6. Mine(o)' = {}
    <3>1. \A c \in Conns : conn[c].by # o
      BY <1>2, OpsAssumption DEF RuntimeInv, ConnOK, None
    <3> QED
      BY <1>2, <3>1 DEF Mine
  <2>7. Starts(o)'
    BY <1>2, <2>3, <2>4, <2>5, <2>6 DEF Starts, Stands
  <2>8. OpOK(o)'
    BY <1>3, <2>4, <2>5, <2>7
    DEF OpOK, Releasing, Decides, Restarts, Refreshes, Calls, Ends
  <2> QED
    BY <1>1, <1>2, <2>1, <2>4, <2>8, OpSteps DEF Typed
<1> QED
  BY <1>4, <1>5

-----------------------------------------------------------------------------
(* Steps that take a connection from its entry.                                *)

LEMMA TakenIs ==
    ASSUME RuntimeInv, NEW S \in SUBSET Servers
    PROVE  /\ UNION {ConnOf(s) : s \in S} = Taken(S)
           /\ Taken(S) \subseteq Conns
           /\ \A s \in Servers : ConnOf(s) = Taken({s})
<1>1. \A s \in Servers : entry[s].conn \in Conns \cup {0}
  BY DEF RuntimeInv, Typed, Entries
<1>2. 0 \notin Conns
  BY ConnsAssumption
<1>3. \A s \in Servers : ConnOf(s) = {c \in Conns : entry[s].conn = c}
  BY <1>1, <1>2 DEF ConnOf
<1> QED
  BY <1>3 DEF Taken

\* An entry's connection is told to stop.
LEMMA ToldIs ==
    ASSUME RuntimeInv, NEW S \in SUBSET Servers, conn' = Told(Taken(S), "retired")
    PROVE  Dropped(S, "retired")
<1> DEFINE r(c) == [conn[c] EXCEPT !.stage = "retired", !.closed = TRUE]
<1>1. \A c \in Conns : conn[c] \in ConnRecords
  BY DEF RuntimeInv, Typed
<1>2. /\ \A c \in Taken(S) : c \in Conns /\ conn'[c] = r(c)
      /\ \A c \in Conns \ Taken(S) : conn'[c] = conn[c]
  BY DEF Told, Taken
<1>3. \A c \in Conns : /\ r(c) \in ConnRecords /\ r(c).stage = "retired" /\ r(c).closed
                       /\ Alike(r(c), conn[c])
  BY <1>1 DEF ConnRecords, Stages, Alike
<1> HIDE DEF r
<1>4. \A c \in Conns : conn'[c] \in ConnRecords
  BY <1>1, <1>2, <1>3
<1>5. conn' \in [Conns -> ConnRecords]
  BY <1>4 DEF Told
<1>6. \A c \in Conns : Alike(conn[c], conn[c])
  BY DEF Alike
<1>7. \A c \in Conns : Alike(conn'[c], conn[c]) /\ (conn[c].closed => conn'[c].closed)
  BY <1>2, <1>3, <1>6
<1> QED
  BY <1>2, <1>3, <1>5, <1>7 DEF Dropped

\* Closing what nobody holds changes nothing else.
LEMMA LetGoIs ==
    ASSUME NEW k \in [Conns -> ConnRecords]
    PROVE  /\ LetGo(k) \in [Conns -> ConnRecords]
           /\ \A c \in Conns : /\ Alike(LetGo(k)[c], k[c]) /\ LetGo(k)[c].stage = k[c].stage
                               /\ k[c].closed => LetGo(k)[c].closed
                               /\ k[c].stage # "dropped" => LetGo(k)[c] = k[c]
                               /\ k[c].stage = "dropped" /\ c \notin Held' => LetGo(k)[c].closed
<1> DEFINE l(c) == [k[c] EXCEPT !.closed = TRUE]
<1>1. \A c \in Conns : LetGo(k)[c] = IF k[c].stage = "dropped" /\ c \notin Held' THEN l(c) ELSE k[c]
  BY DEF LetGo
<1>2. \A c \in Conns : /\ l(c) \in ConnRecords /\ Alike(l(c), k[c]) /\ l(c).stage = k[c].stage
                       /\ l(c).closed
  BY DEF ConnRecords, Alike
<1> HIDE DEF l
<1>3. \A c \in Conns : LetGo(k)[c] \in ConnRecords
  BY <1>1, <1>2
<1>4. LetGo(k) \in [Conns -> ConnRecords]
  BY <1>3 DEF LetGo
<1>5. \A c \in Conns : Alike(k[c], k[c])
  BY DEF Alike
<1> QED
  BY <1>1, <1>2, <1>4, <1>5

LEMMA LetGoDangles ==
    ASSUME NEW k \in [Conns -> ConnRecords], conn' = LetGo(k)
    PROVE  Dangling'
BY LetGoIs DEF Dangling

LEMMA DropIs ==
    ASSUME RuntimeInv, NEW S \in SUBSET Servers, conn' = LetGo(Drop(Taken(S)))
    PROVE  Dropped(S, "dropped") /\ Dangling'
<1> DEFINE k == Drop(Taken(S))
           d(c) == [conn[c] EXCEPT !.stage = "dropped"]
<1>1. \A c \in Conns : conn[c] \in ConnRecords
  BY DEF RuntimeInv, Typed
<1>2. \A c \in Conns : k[c] = IF c \in Taken(S) THEN d(c) ELSE conn[c]
  BY DEF Drop
<1>3. \A c \in Conns : /\ d(c) \in ConnRecords /\ d(c).stage = "dropped"
                       /\ d(c).closed = conn[c].closed /\ Alike(d(c), conn[c])
  BY <1>1 DEF ConnRecords, Stages, Alike
<1> HIDE DEF d
<1>4. \A c \in Conns : k[c] \in ConnRecords
  BY <1>1, <1>2, <1>3
<1>5. k \in [Conns -> ConnRecords]
  BY <1>4 DEF Drop
<1>6. \A c \in Conns : Alike(k[c], conn[c]) /\ (conn[c].closed => k[c].closed)
  <2>1. \A c \in Conns : Alike(conn[c], conn[c])
    BY DEF Alike
  <2> QED
    BY <1>2, <1>3, <2>1
<1>7. Taken(S) \subseteq Conns
  BY DEF Taken
<1> HIDE DEF k
<1>8. /\ conn' \in [Conns -> ConnRecords]
      /\ \A c \in Conns : /\ Alike(conn'[c], k[c]) /\ conn'[c].stage = k[c].stage
                          /\ k[c].closed => conn'[c].closed
  BY <1>5, LetGoIs DEF k
<1>9. \A c \in Conns : Alike(conn'[c], conn[c])
  BY <1>6, <1>8 DEF Alike
<1>10. Dangling'
  BY <1>5, LetGoDangles DEF k
<1> QED
  BY <1>2, <1>3, <1>6, <1>7, <1>8, <1>9, <1>10 DEF Dropped

\* A step that changes nothing of the connections but their lists and lets go of
\* some handles.
LEMMA LetGoSteps ==
    ASSUME RuntimeInv, NEW o \in Ops, NEW p \in OpRecords, op' = [op EXCEPT ![o] = p],
           op[o].pc \notin {"launch", "stale"},
           UNCHANGED <<world, trust, entry, closing, opened, gens, decisions>>,
           Names(registry'), OpOK(o)',
           NEW k \in [Conns -> ConnRecords], conn' = LetGo(k),
           \A c \in Conns : /\ Alike(k[c], conn[c]) /\ k[c].stage = conn[c].stage
                           /\ k[c].closed = conn[c].closed
    PROVE  RuntimeInv' /\ Dangling'
<1> DEFINE S == {}
<1>1. Typed /\ S \in SUBSET Servers /\ Taken(S) = {}
  BY DEF RuntimeInv, Taken
<1>2. /\ conn' \in [Conns -> ConnRecords]
      /\ \A c \in Conns : /\ Alike(conn'[c], k[c]) /\ conn'[c].stage = k[c].stage
                          /\ k[c].closed => conn'[c].closed
  BY LetGoIs
<1>3. \A c \in Conns : Alike(conn'[c], conn[c])
  BY <1>2 DEF Alike
<1>4. Dropped(S, "retired")
  BY <1>1, <1>2, <1>3 DEF Dropped
<1>5. Grows
  BY <1>1 DEF Grows, Typed
<1>6. /\ entry' \in [Servers -> Entries] /\ closing' \in BOOLEAN /\ closing' = closing
      /\ \A s \in S : Unserved(s)
      /\ \A s \in S : entry'[s].by \notin Deciding
      /\ \A s \in Servers \ S : entry'[s] = entry[s]
  BY <1>1 DEF Typed
<1>7. \A s \in S : \/ /\ entry'[s].gen = entry[s].gen /\ entry'[s].print = entry[s].print
                       /\ entry'[s].by = entry[s].by
                    \/ entry'[s].by \notin Deciding
                    \/ decisions = o
  OBVIOUS
<1>8. (closing => closing') /\ (closing' => closing \/ S = Servers)
  BY <1>6
<1> HIDE DEF S
<1> QED
  BY <1>1, <1>4, <1>5, <1>6, <1>7, <1>8, DropSteps, LetGoDangles

LEMMA MoveKeeps ==
    ASSUME RuntimeInv, NEW o \in Ops, NEW s \in Servers, NEW state \in EntryStates,
           Move(o, s, state), op[o].pc = "apply", op[o].kind \in Targeted,
           state \notin {"absent", "invalid"} => entry[s].print \in Prints,
           op[o].kind \in Deciding => decisions = o,
           UNCHANGED <<world, trust, closing, opened, decisions>>
    PROVE  RuntimeInv'
<1> DEFINE p == [op[o] EXCEPT !.pc = "closing", !.wait = ConnOf(s),
                              !.print = None, !.gen = 0, !.dec = None]
           e == [entry[s] EXCEPT !.state = state, !.gen = gens + 1, !.conn = 0, !.by = op[o].kind]
<1>1. op[o] \in OpRecords /\ Typed /\ Names(registry) /\ entry[s] \in Entries /\ gens \in Nat
  BY OpIn DEF Typed
<1>2. /\ op[o].srv \in Servers /\ op[o].res \notin Deciding /\ op[o].res # "drained"
      /\ op[o].kind \in AllKinds /\ op[o].kind # "shutdown"
  BY Targets DEF Targeted, AllKinds, UiKinds
<1>3. ConnOf(s) = Taken({s}) /\ Taken({s}) \subseteq Conns
  BY TakenIs
<1>4. op' = [op EXCEPT ![o] = p]
  BY <1>1 DEF Move, Typed
<1>5. /\ p \in OpRecords /\ p.pc = "closing" /\ p.srv = op[o].srv /\ p.res = op[o].res
      /\ p.kind = op[o].kind
  <2>1. "closing" \in Pcs /\ ConnOf(s) \in SUBSET Conns /\ None \in Decisions /\ 0 \in Nat
    BY <1>3 DEF Pcs, Decisions
  <2> QED
    BY <1>1, <2>1 DEF OpRecords
<1>6. /\ e \in Entries /\ e.state = state /\ e.gen = gens + 1 /\ e.conn = 0
      /\ e.print = entry[s].print /\ e.by = op[o].kind
  <2>1. gens + 1 \in Nat /\ op[o].kind \in AllKinds \cup {None}
    BY <1>1, <1>2
  <2> QED
    BY <1>1, <2>1 DEF Entries
<1>7. entry' = [entry EXCEPT ![s] = e]
  BY <1>1 DEF Move, Typed
<1>8. gens' = gens + 1 /\ registry' = RemoveServer(registry, s) /\ conn' = Told(Taken({s}), "retired")
  BY <1>3 DEF Move, Retire
<1> HIDE DEF p, e
<1>9. op'[o] = p /\ entry'[s] = e
  BY <1>1, <1>4, <1>7 DEF Typed
<1>10. OpOK(o)'
  BY <1>2, <1>5, <1>9, QuietIs DEF Quiet
<1>11. entry' \in [Servers -> Entries] /\ \A t \in Servers \ {s} : entry'[t] = entry[t]
  BY <1>1, <1>6, <1>7 DEF Typed
<1>12. Grows
  BY <1>1, <1>6, <1>8, <1>9, <1>11 DEF Grows
<1>13. Dropped({s}, "retired")
  BY <1>8, ToldIs
<1>14. Names(registry')
  BY <1>1, <1>8, RemoveServerIs
<1>15. Unserved(s)
  BY <1>1, <1>6, <1>8, <1>9 DEF Unserved
<1>16. entry'[s].by \notin Deciding \/ decisions = o
  BY <1>6, <1>9
<1> QED
  BY <1>1, <1>4, <1>5, <1>10, <1>11, <1>12, <1>13, <1>14, <1>15, <1>16, DropSteps DEF Typed

LEMMA ApplyDecideKeeps ==
    ASSUME RuntimeInv, NEW o \in Ops, ApplyDecide(o)
    PROVE  RuntimeInv'
<1> DEFINE s == op[o].srv
<1>1. op[o] \in OpRecords /\ Typed /\ Names(registry) /\ OpOK(o)
  BY OpIn
<1>2. /\ op[o].kind \in Deciding /\ op[o].pc = "apply"
      /\ UNCHANGED <<world, trust, closing, opened, decisions>>
  BY DEF ApplyDecide, At
<1>3. s \in Servers /\ op[o].res \notin Deciding /\ op[o].res # "drained" /\ op[o].kind \in Targeted
  BY <1>2, Targets DEF Deciding, Targeted
<1>4. decisions = o /\ op[o].print \in Prints /\ (Same(o) \/ entry[s].by \notin Deciding)
  BY <1>1, <1>2 DEF OpOK, Decides
<1>5. CASE Same(o)
  <2>1. Move(o, s, IF op[o].kind = "approve" THEN "starting" ELSE "denied")
    BY <1>5 DEF ApplyDecide
  <2>2. entry[s].print \in Prints
    BY <1>4, <1>5 DEF Same
  <2>3. (IF op[o].kind = "approve" THEN "starting" ELSE "denied") \in EntryStates
    BY DEF EntryStates
  <2> QED
    BY <1>2, <1>3, <1>4, <2>1, <2>2, <2>3, MoveKeeps
<1>6. CASE ~Same(o) /\ entry[s].state = "absent"
  <2> DEFINE p == [op[o] EXCEPT !.pc = "closing"]
  <2>1. op' = [op EXCEPT ![o] = p] /\ UNCHANGED <<entry, registry, gens, conn>>
    BY <1>1, <1>6 DEF ApplyDecide, Typed
  <2>2. /\ p \in OpRecords /\ p.pc = "closing" /\ p.srv = op[o].srv /\ p.res = op[o].res
        /\ p.kind # "shutdown"
    BY <1>1, <1>2 DEF OpRecords, Pcs, Deciding
  <2> HIDE DEF p
  <2> QED
    BY <1>1, <1>2, <1>3, <2>1, <2>2, QuietStep DEF Quiet, Typed
<1>7. CASE ~Same(o) /\ entry[s].state # "absent"
  <2> DEFINE p == [op[o] EXCEPT !.pc = "refused", !.res = entry[s].by]
  <2>1. op' = [op EXCEPT ![o] = p] /\ UNCHANGED <<entry, registry, gens, conn>>
    BY <1>1, <1>7 DEF ApplyDecide, Typed
  <2>2. entry[s].by \in AllKinds \cup {None} /\ entry[s].by \notin Deciding /\ entry[s].by # "drained"
    <3>1. entry[s] \in Entries
      BY <1>1, <1>3 DEF Typed
    <3> QED
      BY <1>4, <1>7, <3>1 DEF Entries, AllKinds, UiKinds, None
  <2>3. /\ p \in OpRecords /\ p.pc = "refused" /\ p.srv = op[o].srv /\ p.res = entry[s].by
        /\ p.kind # "shutdown"
    <3>1. /\ "refused" \in Pcs /\ entry[s].by \in AllKinds \cup {None, "drained"}
          /\ op[o].kind # "shutdown"
      BY <1>2, <2>2 DEF Pcs, Deciding
    <3> QED
      BY <1>1, <3>1, ZenonT(40) DEF OpRecords
  <2> HIDE DEF p
  <2> QED
    BY <1>1, <1>2, <1>3, <2>1, <2>2, <2>3, QuietStep DEF Quiet, Typed
<1> QED
  BY <1>5, <1>6, <1>7

LEMMA ApplyRestartKeeps ==
    ASSUME RuntimeInv, NEW o \in Ops, ApplyRestart(o)
    PROVE  RuntimeInv'
<1> DEFINE s == op[o].srv
<1>1. op[o] \in OpRecords /\ Typed /\ Names(registry) /\ OpOK(o)
  BY OpIn
<1>2. /\ op[o].kind = "restart" /\ op[o].pc = "apply"
      /\ UNCHANGED <<world, trust, closing, opened, decisions>>
  BY DEF ApplyRestart, At
<1>3. s \in Servers /\ op[o].res \notin Deciding /\ op[o].res # "drained" /\ op[o].kind \in Targeted
  BY <1>2, Targets DEF Targeted
<1>4. CASE Same(o)
  <2>1. Move(o, s, StateFor(op[o].dec)) /\ StateFor(op[o].dec) \in EntryStates
    BY <1>4 DEF ApplyRestart, StateFor, EntryStates
  <2>2. entry[s].print \in Prints
    BY <1>1, <1>2, <1>4 DEF Same, OpOK, Restarts
  <2>3. op[o].kind \notin Deciding
    BY <1>2 DEF Deciding
  <2> QED
    BY <1>2, <1>3, <2>1, <2>2, <2>3, MoveKeeps
<1>5. CASE ~Same(o)
  <2> DEFINE p == [op[o] EXCEPT !.pc = "refused"]
  <2>1. op' = [op EXCEPT ![o] = p] /\ UNCHANGED <<entry, registry, gens, conn>>
    BY <1>1, <1>5 DEF ApplyRestart, Goto, Typed
  <2>2. /\ p \in OpRecords /\ p.pc = "refused" /\ p.srv = op[o].srv /\ p.res = op[o].res
        /\ p.kind # "shutdown"
    BY <1>1, <1>2 DEF OpRecords, Pcs
  <2> HIDE DEF p
  <2> QED
    BY <1>1, <1>2, <1>3, <2>1, <2>2, QuietStep DEF Quiet, Typed
<1> QED
  BY <1>4, <1>5

LEMMA ApplyStopKeeps ==
    ASSUME RuntimeInv, NEW o \in Ops, ApplyStop(o)
    PROVE  RuntimeInv'
<1> DEFINE s == op[o].srv
           state == IF entry[s].state = "invalid" THEN "invalid" ELSE "stopped"
<1>1. op[o] \in OpRecords /\ Typed /\ Names(registry) /\ OpOK(o)
  BY OpIn
<1>2. /\ op[o].kind = "stop" /\ op[o].pc = "apply"
      /\ UNCHANGED <<world, trust, closing, opened, decisions>>
  BY DEF ApplyStop, At
<1>3. s \in Servers /\ op[o].res \notin Deciding /\ op[o].res # "drained" /\ op[o].kind \in Targeted
  BY <1>2, Targets DEF Targeted
<1>4. CASE entry[s].state # "absent"
  <2>1. Move(o, s, state) /\ state \in EntryStates
    BY <1>4 DEF ApplyStop, EntryStates
  <2>2. state \notin {"absent", "invalid"} => entry[s].print \in Prints
    <3>1. EntryOK(s)
      BY <1>3 DEF RuntimeInv
    <3> QED
      BY <1>4, <3>1 DEF EntryOK
  <2>3. op[o].kind \notin Deciding
    BY <1>2 DEF Deciding
  <2> HIDE DEF state
  <2> QED
    BY <1>2, <1>3, <2>1, <2>2, <2>3, MoveKeeps
<1>5. CASE entry[s].state = "absent"
  <2> DEFINE p == [op[o] EXCEPT !.pc = "refused"]
  <2>1. op' = [op EXCEPT ![o] = p] /\ UNCHANGED <<entry, registry, gens, conn>>
    BY <1>1, <1>5 DEF ApplyStop, Goto, Typed
  <2>2. /\ p \in OpRecords /\ p.pc = "refused" /\ p.srv = op[o].srv /\ p.res = op[o].res
        /\ p.kind # "shutdown"
    BY <1>1, <1>2 DEF OpRecords, Pcs
  <2> HIDE DEF p
  <2> QED
    BY <1>1, <1>2, <1>3, <2>1, <2>2, QuietStep DEF Quiet, Typed
<1> QED
  BY <1>4, <1>5

LEMMA NamesSubset ==
    ASSUME NEW reg, Names(reg), NEW sub \in SUBSET reg
    PROVE  Names(sub)
<1>1. IsFiniteSet(sub)
  BY FS_Subset DEF Names
<1> QED
  BY <1>1 DEF Names

LEMMA LoadKeeps ==
    ASSUME RuntimeInv, NEW o \in Ops, Load(o)
    PROVE  RuntimeInv'
<1> DEFINE seen == op[o].seen
           S == {t \in Servers : ~Kept(t, seen)}
           p == [op[o] EXCEPT !.pc = "closing", !.wait = Taken(S), !.seen = <<>>]
<1>1. op[o] \in OpRecords /\ Typed /\ Names(registry) /\ OpOK(o) /\ gens \in Nat
  BY OpIn DEF Typed
<1>2. /\ op[o].kind \in {"open", "reload"} /\ op[o].pc = "load"
      /\ UNCHANGED <<world, trust, closing, opened, decisions>>
      /\ entry' = [s \in Servers |-> Loaded(s, seen, gens + 1)]
      /\ gens' = gens + 1
      /\ registry' = {t \in registry : Kept(t.srv, seen)}
  BY DEF Load, At
<1>3. op[o].res \notin Deciding /\ op[o].res # "drained" /\ op[o].kind \notin Targeted
      /\ op[o].kind # "shutdown"
  BY <1>2, Targets DEF Targeted
<1>4. seen \in Reads
  BY <1>1, <1>2 DEF OpOK, Ends
<1>5. UNION {ConnOf(s) : s \in S} = Taken(S) /\ Taken(S) \in SUBSET Conns
  BY TakenIs
<1>6. op' = [op EXCEPT ![o] = p] /\ conn' = Told(Taken(S), "retired")
  BY <1>1, <1>5 DEF Load, Typed, Retire
<1>7. /\ p \in OpRecords /\ p.pc = "closing" /\ p.kind = op[o].kind /\ p.res = op[o].res
  <2>1. "closing" \in Pcs /\ <<>> \in Reads \cup Listed
    BY DEF Pcs, Listed
  <2> HIDE DEF S
  <2> QED
    BY <1>1, <1>5, <2>1 DEF OpRecords
<1> HIDE DEF p
<1>8. op'[o] = p
  BY <1>1, <1>6 DEF Typed
<1>9. OpOK(o)'
  BY <1>3, <1>7, <1>8, QuietIs DEF Quiet
<1>10. Dropped(S, "retired")
  BY <1>6, ToldIs
<1>11. Names(registry')
  <2>1. registry' \in SUBSET registry
    BY <1>2
  <2>2. Names(registry)
    BY <1>1
  <2> QED
    BY <1>1, <2>1, NamesSubset
<1>12. \A s \in Servers \ S : entry'[s] = entry[s]
  BY <1>2, PrintsAssumption DEF Loaded, Kept
<1>13. ASSUME NEW s \in S
       PROVE  /\ entry'[s] \in Entries /\ entry'[s].conn = 0
              /\ entry'[s].gen = 0 \/ entry'[s].gen = gens + 1
              /\ entry'[s].by \notin Deciding
              /\ entry'[s].state \notin {"absent", "invalid"} =>
                    entry'[s].gen = gens + 1 /\ entry'[s].print \in Prints
  <2>1. seen[s].print \in Declared /\ seen[s].dec \in Decisions /\ entry'[s] = Loaded(s, seen, gens + 1)
    BY <1>2, <1>4 DEF Reads
  <2>2. gens + 1 \in Nat
    BY <1>1
  <2> DEFINE g == gens + 1
             absent == Absent
             invalid == [state |-> "invalid", print |-> None, gen |-> g, conn |-> 0, by |-> "reload"]
             fresh == [state |-> StateFor(seen[s].dec), print |-> seen[s].print, gen |-> g,
                       conn |-> 0, by |-> "reload"]
  <2> HIDE DEF g
  <2>3. absent \in Entries /\ absent.conn = 0 /\ absent.gen = 0 /\ absent.by = None
        /\ absent.state = "absent"
    BY DEF Absent, Entries, EntryStates
  <2>4. invalid \in Entries
    BY <2>2 DEF g, Entries, EntryStates, AllKinds, UiKinds
  <2>5. CASE seen[s].print = "absent"
    <3>1. entry'[s] = absent
      BY <2>1, <2>5 DEF Loaded
    <3> QED
      BY <2>3, <3>1 DEF Deciding, None
  <2>6. CASE seen[s].print # "absent" /\ seen[s].print = "rejected"
    <3>1. entry'[s] = invalid
      BY <2>1, <2>6 DEF Loaded, g
    <3> QED
      BY <2>4, <3>1 DEF Deciding, g
  <2>7. CASE seen[s].print # "absent" /\ seen[s].print # "rejected"
    <3>1. entry'[s] = fresh
      BY <2>1, <2>7 DEF Loaded, g
    <3>2. StateFor(seen[s].dec) \in EntryStates /\ "reload" \in AllKinds \cup {None}
      BY DEF StateFor, EntryStates, AllKinds, UiKinds
    <3>3. seen[s].print \in Prints
      BY <2>1, <2>7 DEF Declared
    <3>4. fresh \in Entries
      BY <2>2, <3>2, <3>3 DEF g, Entries
    <3> QED
      BY <3>1, <3>3, <3>4 DEF Deciding, g
  <2> QED
    BY <2>5, <2>6, <2>7
<1>14. entry' \in [Servers -> Entries]
  <2>1. \A s \in Servers : entry[s] \in Entries
    BY <1>1 DEF Typed
  <2>2. \A s \in Servers : entry'[s] \in Entries
    BY <1>12, <1>13, <2>1
  <2> QED
    BY <1>2, <2>2
<1> HIDE DEF S
<1>15. S \in SUBSET Servers
  BY DEF S
<1>16. Grows
  <2>1. gens + 1 \in Nat /\ gens + 1 >= gens /\ gens + 1 \notin 1 .. gens /\ 0 \notin 1 .. gens
    BY <1>1
  <2> QED
    BY <1>1, <1>2, <1>12, <1>13, <2>1 DEF Grows
<1>17. \A s \in S : Unserved(s)
  <2>1. gens + 1 \in 0 .. gens + 1 /\ 0 \in 0 .. gens + 1 /\ gens + 1 > 0
    BY <1>1
  <2> QED
    BY <1>2, <1>13, <2>1 DEF Unserved
<1>18. closing' \in BOOLEAN /\ closing' = closing
  BY <1>1, <1>2 DEF Typed
<1>19. op[o].pc \notin {"launch", "stale"}
  BY <1>2
<1>20. /\ UNCHANGED <<world, trust, opened, decisions>>
       /\ op' = [op EXCEPT ![o] = p] /\ p \in OpRecords
  BY <1>2, <1>6, <1>7
<1>21. \A s \in S : entry'[s].by \notin Deciding
  BY <1>13
<1> HIDE DEF seen
<1> QED
  BY <1>9, <1>10, <1>11, <1>12, <1>14, <1>15, <1>16, <1>17, <1>18, <1>19, <1>20, <1>21, DropSteps

-----------------------------------------------------------------------------
(* Connections on their way.                                                   *)

LEMMA ConnIn ==
    ASSUME RuntimeInv, NEW c \in Conns
    PROVE  conn[c] \in ConnRecords /\ ConnOK(c) /\ ConnShape(conn[c]) /\ Typed
BY DEF RuntimeInv, Typed, ConnOK

LEMMA StageKeeps ==
    ASSUME RuntimeInv, NEW c \in Conns, NEW from \in Launched, NEW to \in Launched,
           Stage(c, from, to), from \in Owned, to \notin {"reserved", "failing"},
           to = "failed" => ~conn[c].alive
    PROVE  RuntimeInv'
<1> DEFINE k == [conn[c] EXCEPT !.stage = to]
<1>1. conn[c] \in ConnRecords /\ ConnShape(conn[c]) /\ Typed
  BY ConnIn
<1>2. /\ conn[c].stage = from /\ conn' = [conn EXCEPT ![c] = k]
      /\ UNCHANGED <<world, trust, entry, registry, closing, opened, gens, decisions, op>>
  BY <1>1 DEF Stage, Typed
<1>3. /\ k \in ConnRecords /\ k.stage = to /\ k.srv = conn[c].srv /\ k.print = conn[c].print
      /\ k.gen = conn[c].gen /\ k.by = conn[c].by /\ k.alive = conn[c].alive
      /\ k.closed = conn[c].closed
  <2>1. to \in Stages
    BY DEF Launched, Stages
  <2> QED
    BY <1>1, <2>1 DEF ConnRecords
<1> HIDE DEF k
<1>4. ConnShape(k)
  BY <1>1, <1>2, <1>3 DEF ConnShape, Launched, Ownerless
<1>5. k.stage \in Owned => conn[c].stage \in Owned
  BY <1>2
<1>6. file' \in [Servers -> Declared] /\ edits' \in 0 .. MaxEdits
  BY <1>1, <1>2 DEF Typed, world
<1> QED
  BY <1>2, <1>3, <1>4, <1>5, <1>6, ConnSteps

LEMMA SpawnKeeps ==
    ASSUME RuntimeInv, NEW c \in Conns, Spawn(c)
    PROVE  RuntimeInv'
<1> DEFINE k == [conn[c] EXCEPT !.stage = "spawned", !.alive = TRUE]
<1>1. conn[c] \in ConnRecords /\ ConnShape(conn[c]) /\ Typed
  BY ConnIn
<1>2. /\ conn[c].stage = "reserved" /\ conn' = [conn EXCEPT ![c] = k]
      /\ UNCHANGED <<world, trust, entry, registry, closing, opened, gens, decisions, op>>
  BY <1>1 DEF Spawn, Typed
<1>3. /\ k \in ConnRecords /\ k.stage = "spawned" /\ k.srv = conn[c].srv
      /\ k.print = conn[c].print /\ k.gen = conn[c].gen /\ k.by = conn[c].by
  BY <1>1 DEF ConnRecords, Stages
<1> HIDE DEF k
<1>4. ConnShape(k)
  BY <1>1, <1>2, <1>3 DEF ConnShape, Ownerless
<1>5. conn[c].stage \in Owned /\ conn[c].stage \in Launched /\ k.stage \in Launched
  BY <1>2, <1>3 DEF Owned, Launched
<1>6. file' \in [Servers -> Declared] /\ edits' \in 0 .. MaxEdits
  BY <1>1, <1>2 DEF Typed, world
<1> QED
  BY <1>2, <1>3, <1>4, <1>5, <1>6, ConnSteps

LEMMA NegotiatedKeeps ==
    ASSUME RuntimeInv, NEW c \in Conns, Negotiated(c)
    PROVE  RuntimeInv'
<1>1. conn[c] \in ConnRecords /\ ConnShape(conn[c]) /\ Typed
  BY ConnIn
<1> DEFINE k(list) == [conn[c] EXCEPT !.stage = "ok", !.list = list]
<1>2. PICK list \in Listings : conn' = [conn EXCEPT ![c] = k(list)]
  BY <1>1 DEF Negotiated, Typed
<1>3. /\ conn[c].stage = "attached"
      /\ UNCHANGED <<world, trust, entry, registry, closing, opened, gens, decisions, op>>
  BY DEF Negotiated
<1>4. /\ k(list) \in ConnRecords /\ k(list).stage = "ok" /\ k(list).srv = conn[c].srv
      /\ k(list).print = conn[c].print /\ k(list).gen = conn[c].gen /\ k(list).by = conn[c].by
  <2>1. "ok" \in Stages /\ list \in Listed
    BY DEF Stages, Listed
  <2> QED
    BY <1>1, <2>1 DEF ConnRecords
<1> HIDE DEF k
<1>5. ConnShape(k(list))
  BY <1>1, <1>3, <1>4 DEF ConnShape, Ownerless
<1>6. conn[c].stage \in Owned /\ conn[c].stage \in Launched /\ k(list).stage \in Launched
  BY <1>3, <1>4 DEF Owned, Launched
<1>7. file' \in [Servers -> Declared] /\ edits' \in 0 .. MaxEdits
  BY <1>1, <1>3 DEF Typed, world
<1> QED
  BY <1>2, <1>3, <1>4, <1>5, <1>6, <1>7, ConnSteps

LEMMA NegotiateFailsKeeps ==
    ASSUME RuntimeInv, NEW c \in Conns, NegotiateFails(c)
    PROVE  RuntimeInv'
<1> DEFINE k == [conn[c] EXCEPT !.stage = "failing", !.closed = TRUE]
<1>1. conn[c] \in ConnRecords /\ ConnShape(conn[c]) /\ Typed
  BY ConnIn
<1>2. /\ conn[c].stage = "attached" /\ conn' = [conn EXCEPT ![c] = k]
      /\ UNCHANGED <<world, trust, entry, registry, closing, opened, gens, decisions, op>>
  BY <1>1 DEF NegotiateFails, Told, Typed
<1>3. /\ k \in ConnRecords /\ k.stage = "failing" /\ k.srv = conn[c].srv /\ k.closed
      /\ k.print = conn[c].print /\ k.gen = conn[c].gen /\ k.by = conn[c].by
  BY <1>1 DEF ConnRecords, Stages
<1> HIDE DEF k
<1>4. ConnShape(k)
  BY <1>1, <1>2, <1>3 DEF ConnShape, Ownerless
<1>5. conn[c].stage \in Owned /\ conn[c].stage \in Launched /\ k.stage \in Launched
  BY <1>2, <1>3 DEF Owned, Launched
<1>6. file' \in [Servers -> Declared] /\ edits' \in 0 .. MaxEdits
  BY <1>1, <1>2 DEF Typed, world
<1> QED
  BY <1>2, <1>3, <1>4, <1>5, <1>6, ConnSteps

LEMMA LaunchingKeeps ==
    ASSUME RuntimeInv, NEW c \in Conns, Launching(c)
    PROVE  RuntimeInv'
<1>1. CASE Spawn(c)
  BY <1>1, SpawnKeeps
<1>2. CASE SpawnFails(c)
  <2>1. ~conn[c].alive
    BY <1>2, ConnIn DEF SpawnFails, Stage, ConnShape
  <2> QED
    BY <1>2, <2>1, StageKeeps DEF SpawnFails, Launched, Owned
<1>3. CASE Attach(c)
  BY <1>3, StageKeeps DEF Attach, Launched, Owned
<1>4. CASE Negotiated(c)
  BY <1>4, NegotiatedKeeps
<1>5. CASE NegotiateFails(c)
  BY <1>5, NegotiateFailsKeeps
<1>6. CASE FinishFailed(c)
  BY <1>6, StageKeeps DEF FinishFailed, Launched, Owned
<1> QED
  BY <1>1, <1>2, <1>3, <1>4, <1>5, <1>6 DEF Launching

LEMMA BreakKeeps ==
    ASSUME RuntimeInv, NEW c \in Conns, Break(c)
    PROVE  RuntimeInv'
<1> DEFINE k == [conn[c] EXCEPT !.closed = TRUE]
<1>1. conn[c] \in ConnRecords /\ ConnShape(conn[c]) /\ Typed
  BY ConnIn
<1>2. /\ conn' = [conn EXCEPT ![c] = k]
      /\ UNCHANGED <<world, trust, entry, registry, closing, opened, gens, decisions, op>>
  BY <1>1 DEF Break, Close, Typed
<1>3. /\ k \in ConnRecords /\ k.stage = conn[c].stage /\ k.srv = conn[c].srv /\ k.closed
      /\ k.print = conn[c].print /\ k.gen = conn[c].gen /\ k.by = conn[c].by
      /\ k.alive = conn[c].alive
  BY <1>1 DEF ConnRecords
<1> HIDE DEF k
<1>4. ConnShape(k)
  BY <1>1, <1>3 DEF ConnShape
<1>5. file' \in [Servers -> Declared] /\ edits' \in 0 .. MaxEdits
  BY <1>1, <1>2 DEF Typed, world
<1> QED
  BY <1>2, <1>3, <1>4, <1>5, ConnSteps

LEMMA ChildEndsKeeps ==
    ASSUME RuntimeInv, NEW c \in Conns, ChildEnds(c)
    PROVE  RuntimeInv'
<1> DEFINE k == [conn[c] EXCEPT !.alive = FALSE, !.list = <<>>, !.changed = FALSE]
<1>1. conn[c] \in ConnRecords /\ ConnShape(conn[c]) /\ Typed
  BY ConnIn
<1>2. /\ conn' = [conn EXCEPT ![c] = k]
      /\ UNCHANGED <<world, trust, entry, registry, closing, opened, gens, decisions, op>>
  BY <1>1 DEF ChildEnds, Typed
<1>3. /\ k \in ConnRecords /\ k.stage = conn[c].stage /\ k.srv = conn[c].srv
      /\ k.closed = conn[c].closed /\ k.print = conn[c].print /\ k.gen = conn[c].gen
      /\ k.by = conn[c].by /\ k.alive = FALSE
  <2>1. <<>> \in Listed
    BY DEF Listed
  <2> QED
    BY <1>1, <2>1 DEF ConnRecords
<1> HIDE DEF k
<1>4. ConnShape(k)
  BY <1>1, <1>3 DEF ConnShape
<1>5. file' \in [Servers -> Declared] /\ edits' \in 0 .. MaxEdits
  BY <1>1, <1>2 DEF Typed, world
<1> QED
  BY <1>2, <1>3, <1>4, <1>5, ConnSteps

LEMMA ListChangesKeeps ==
    ASSUME RuntimeInv, NEW c \in Conns, ListChanges(c)
    PROVE  RuntimeInv'
<1>1. conn[c] \in ConnRecords /\ ConnShape(conn[c]) /\ Typed
  BY ConnIn
<1> DEFINE k(list) == [conn[c] EXCEPT !.list = list, !.changed = TRUE]
<1>2. PICK list \in Listings : conn' = [conn EXCEPT ![c] = k(list)]
  BY <1>1 DEF ListChanges, Typed
<1>3. /\ edits < MaxEdits /\ edits' = edits + 1
      /\ UNCHANGED <<file, trust, entry, registry, closing, opened, gens, decisions, op>>
  BY DEF ListChanges
<1>4. /\ k(list) \in ConnRecords /\ k(list).stage = conn[c].stage /\ k(list).srv = conn[c].srv
      /\ k(list).closed = conn[c].closed /\ k(list).print = conn[c].print
      /\ k(list).gen = conn[c].gen /\ k(list).by = conn[c].by /\ k(list).alive = conn[c].alive
  <2>1. list \in Listed
    BY DEF Listed
  <2> QED
    BY <1>1, <2>1 DEF ConnRecords
<1> HIDE DEF k
<1>5. ConnShape(k(list))
  BY <1>1, <1>4 DEF ConnShape
<1>6. file' \in [Servers -> Declared] /\ edits' \in 0 .. MaxEdits
  BY <1>1, <1>3, EditsAssumption DEF Typed
<1> QED
  BY <1>2, <1>3, <1>4, <1>5, <1>6, ConnSteps

LEMMA EditFileKeeps ==
    ASSUME RuntimeInv, EditFile
    PROVE  RuntimeInv'
<1>1. UNCHANGED <<trust, entry, registry, closing, opened, gens, decisions, conn, op>>
      /\ edits < MaxEdits /\ edits' = edits + 1
  BY DEF EditFile
<1>2. file' \in [Servers -> Declared]
  BY DEF EditFile, RuntimeInv, Typed
<1>3. Typed'
  BY <1>1, <1>2, EditsAssumption DEF RuntimeInv, Typed
<1>4. \A s \in Servers : EntryOK(s)'
  BY <1>1 DEF RuntimeInv, EntryOK, Serves
<1>5. \A c \in Conns : ConnOK(c)'
  BY <1>1 DEF RuntimeInv, ConnOK, Stands
<1>6. ASSUME NEW q \in Ops
      PROVE  OpOK(q)'
  <2>1. OpOK(q) /\ op[q] \in OpRecords
    BY OpIn
  <2>2. Grows
    BY <1>1 DEF Grows, RuntimeInv, Typed
  <2>3. ConnsStay(q)
    BY <1>1 DEF ConnsStay, Slots
  <2>4. NoDecision(q)
    BY <1>1 DEF NoDecision
  <2>5. Stays(q)
    BY <1>1 DEF Stays
  <2> QED
    BY <2>1, <2>2, <2>3, <2>4, <2>5, OthersKeep
<1> QED
  BY <1>1, <1>3, <1>4, <1>5, <1>6 DEF RuntimeInv

-----------------------------------------------------------------------------
(* refresh, mark_lost and calls.                                               *)

LEMMA MarkLostGrows ==
    ASSUME RuntimeInv, NEW s \in Servers, NEW gen, MarkLost(s, gen), gens' = gens
    PROVE  Grows
<1>1. Typed
  BY DEF RuntimeInv
<1>2. \A t \in Servers : entry'[t].gen = entry[t].gen /\ entry'[t].print = entry[t].print
  <2>1. CASE entry' = entry
    BY <2>1
  <2>2. CASE entry' # entry
    <3>1. entry' = [entry EXCEPT ![s] = [entry[s] EXCEPT !.state = "failed", !.conn = 0]]
      BY <1>1, <2>2 DEF MarkLost, Typed
    <3>2. entry[s] \in Entries
      BY <1>1 DEF Typed
    <3>3. /\ [entry[s] EXCEPT !.state = "failed", !.conn = 0].gen = entry[s].gen
          /\ [entry[s] EXCEPT !.state = "failed", !.conn = 0].print = entry[s].print
      BY <3>2 DEF Entries
    <3> QED
      BY <1>1, <3>1, <3>3 DEF Typed
  <2> QED
    BY <2>1, <2>2
<1>3. gens \in Nat
  BY <1>1 DEF Typed
<1> QED
  BY <1>2, <1>3 DEF Grows

LEMMA MarkLostKeeps ==
    ASSUME RuntimeInv, NEW o \in Ops, NEW p \in OpRecords, op' = [op EXCEPT ![o] = p],
           op[o].pc \notin {"launch", "stale"}, NEW s, NEW gen, Known(s, gen), MarkLost(s, gen),
           UNCHANGED <<world, trust, closing, opened, gens, decisions>>, OpOK(o)'
    PROVE  RuntimeInv' /\ Dangling'
<1>1. Typed /\ Names(registry) /\ s \in Servers /\ entry[s] \in Entries
  BY DEF RuntimeInv, Typed, Known
<1>2. CASE entry[s].gen = gen /\ gen # 0
  <2> DEFINE e == [entry[s] EXCEPT !.state = "failed", !.conn = 0]
  <2>1. /\ entry' = [entry EXCEPT ![s] = e] /\ registry' = RemoveServer(registry, s)
        /\ conn' = LetGo(Drop(ConnOf(s)))
    BY <1>1, <1>2 DEF MarkLost, Typed
  <2>2. /\ e \in Entries /\ e.state = "failed" /\ e.conn = 0 /\ e.gen = entry[s].gen
        /\ e.print = entry[s].print /\ e.by = entry[s].by
    BY <1>1 DEF Entries, EntryStates
  <2> HIDE DEF e
  <2>3. /\ entry' \in [Servers -> Entries] /\ entry'[s] = e
        /\ \A t \in Servers \ {s} : entry'[t] = entry[t]
    BY <1>1, <2>1, <2>2 DEF Typed
  <2>4. Grows
    BY <1>1, MarkLostGrows
  <2>5. Dropped({s}, "dropped") /\ Dangling'
    <3>1. ConnOf(s) = Taken({s})
      BY <1>1, TakenIs
    <3> QED
      BY <1>1, <2>1, <3>1, DropIs
  <2>6. Names(registry')
    BY <1>1, <2>1, RemoveServerIs
  <2>7. Unserved(s)
    <3>1. gen \in 1 .. gens /\ entry[s].print \in Prints
      BY <1>2 DEF Known
    <3> QED
      BY <1>1, <1>2, <2>2, <2>3, <3>1 DEF Unserved, Typed
  <2>8. closing' \in BOOLEAN /\ closing' = closing /\ {s} \in SUBSET Servers
    BY <1>1 DEF Typed
  <2> DEFINE S == {s}
  <2>9. /\ \A t \in S : Unserved(t)
        /\ \A t \in S : /\ entry'[t].gen = entry[t].gen /\ entry'[t].print = entry[t].print
                       /\ entry'[t].by = entry[t].by
        /\ \A t \in Servers \ S : entry'[t] = entry[t]
        /\ S \in SUBSET Servers /\ Dropped(S, "dropped") /\ Dangling'
    BY <2>2, <2>3, <2>5, <2>7, <2>8
  <2>10. /\ UNCHANGED <<world, trust, opened, decisions>>
         /\ closing => closing'
         /\ closing' => closing \/ S = Servers
    BY <2>8
  <2>11. entry' \in [Servers -> Entries]
    BY <2>3
  <2>12. closing' \in BOOLEAN
    BY <2>8
  <2> HIDE DEF S
  <2> QED
    BY <2>4, <2>6, <2>9, <2>10, <2>11, <2>12, DropSteps
<1>3. CASE ~(entry[s].gen = gen /\ gen # 0)
  <2>1. UNCHANGED <<entry, registry>> /\ conn' = LetGo(conn) /\ conn \in [Conns -> ConnRecords]
    BY <1>1, <1>3 DEF MarkLost, Typed
  <2>2. \A c \in Conns : Alike(conn[c], conn[c])
    BY DEF Alike
  <2> QED
    BY <1>1, <2>1, <2>2, LetGoSteps
<1> QED
  BY <1>2, <1>3

\* Who has no handle may go on: the others keep theirs.
LEMMA HandsKept ==
    ASSUME Dangling, NEW o \in Ops, Handles(o) = {},
           \A q \in Ops \ {o} :
               /\ op'[q].kind = op[q].kind /\ op'[q].pc = op[q].pc /\ op'[q].todo = op[q].todo
               /\ op'[q].wait = op[q].wait /\ op'[q].ref = op[q].ref,
           \A c \in Conns : conn'[c].stage = "dropped" /\ ~conn'[c].closed =>
                             conn[c].stage = "dropped" /\ ~conn[c].closed
    PROVE  Dangling'
<1> SUFFICES ASSUME NEW c \in Conns, conn'[c].stage = "dropped", ~conn'[c].closed
             PROVE  c \in Held'
  BY DEF Dangling
<1>1. PICK q \in Ops : c \in Handles(q)
  BY DEF Dangling, Held
<1>2. q # o
  BY <1>1
<1>3. c \in Handles(q)'
  BY <1>1, <1>2 DEF Handles, At
<1> QED
  BY <1>3 DEF Held

LEMMA RefreshIs ==
    ASSUME NEW o \in Ops, op'[o].kind = "refresh", op'[o].pc \in {"each", "discover", "relist"},
           op'[o].todo \subseteq Visits, Grows,
           \A i \in op'[o].todo : Known(i.srv, i.gen),
           op'[o].pc \in {"discover", "relist"} =>
              op'[o].ref \in Visits /\ Known(op'[o].ref.srv, op'[o].ref.gen),
           op'[o].pc = "relist" => op'[o].seen \in Listed,
           op'[o].res \notin Deciding, op'[o].res # "drained"
    PROVE  OpOK(o)'
<1>1. \A s, gen : Known(s, gen) => Known(s, gen)'
  BY KnownKept
<1>2. Refreshes(o)'
  BY <1>1 DEF Refreshes
<1> QED
  BY <1>2 DEF OpOK, Starts, Releasing, Decides, Restarts, Calls, Ends, Deciding, Targeted

LEMMA SameGrows ==
    ASSUME Typed, UNCHANGED <<entry, gens>>
    PROVE  Grows
BY DEF Grows, Typed

LEMMA LookRefreshKeeps ==
    ASSUME RuntimeInv, NEW o \in Ops, LookRefresh(o)
    PROVE  RuntimeInv'
<1> DEFINE item(s) == [srv |-> s, gen |-> entry[s].gen, conn |-> entry[s].conn]
           S == {t \in Servers : entry[t].state = "ready" /\ entry[t].conn # 0}
           items == {item(s) : s \in S}
           p == [op[o] EXCEPT !.pc = "each", !.todo = items]
<1>1. op[o] \in OpRecords /\ Typed /\ Names(registry)
  BY OpIn
<1>2. /\ op[o].kind = "refresh" /\ op[o].pc = "look"
      /\ UNCHANGED <<world, trust, entry, registry, closing, opened, gens, decisions, conn>>
  BY DEF LookRefresh, At
<1>3. op[o].res \notin Deciding /\ op[o].res # "drained"
  BY <1>2, Targets
<1>4. op' = [op EXCEPT ![o] = p]
  BY <1>1 DEF LookRefresh, Typed
<1>5. \A s \in S : item(s) \in Visits /\ Known(item(s).srv, item(s).gen)
  <2> SUFFICES ASSUME NEW s \in S
               PROVE  item(s) \in Visits /\ Known(item(s).srv, item(s).gen)
    OBVIOUS
  <2>1. s \in Servers /\ entry[s] \in Entries /\ EntryOK(s)
    BY DEF RuntimeInv, Typed
  <2>2. entry[s].gen \in 1 .. gens /\ entry[s].print \in Prints /\ entry[s].conn \in Conns
    BY <1>1, <2>1 DEF EntryOK, Typed, Entries
  <2> QED
    BY <1>1, <2>1, <2>2 DEF Visits, Known, Typed
<1>6. items \subseteq Visits /\ \A i \in items : Known(i.srv, i.gen)
  BY <1>5
<1> HIDE DEF items
<1>7. /\ p \in OpRecords /\ p.pc = "each" /\ p.kind = "refresh" /\ p.res = op[o].res
      /\ p.todo = items
  <2>1. "each" \in Pcs /\ items \in SUBSET (Launches \cup Visits \cup Servers)
    BY <1>6 DEF Pcs
  <2> QED
    BY <1>1, <1>2, <2>1 DEF OpRecords
<1> HIDE DEF p
<1>8. op'[o] = p
  BY <1>1, <1>4 DEF Typed
<1>9. OpOK(o)'
  BY <1>1, <1>2, <1>3, <1>6, <1>7, <1>8, SameGrows, RefreshIs
<1> QED
  BY <1>1, <1>2, <1>4, <1>7, <1>9, OpSteps DEF Typed

LEMMA Refreshing ==
    ASSUME RuntimeInv, NEW o \in Ops, op[o].kind = "refresh",
           op[o].pc \in {"each", "discover", "relist"}
    PROVE  /\ op[o] \in OpRecords /\ Typed /\ Names(registry)
           /\ op[o].res \notin Deciding /\ op[o].res # "drained"
           /\ op[o].todo \subseteq Visits
           /\ \A i \in op[o].todo : Known(i.srv, i.gen)
           /\ op[o].pc \in {"discover", "relist"} =>
                 op[o].ref \in Visits /\ Known(op[o].ref.srv, op[o].ref.gen)
           /\ op[o].pc = "relist" => op[o].seen \in Listed
BY OpIn, Targets DEF OpOK, Refreshes

LEMMA EachRefreshKeeps ==
    ASSUME RuntimeInv, NEW o \in Ops, EachRefresh(o)
    PROVE  RuntimeInv' /\ (Dangling => Dangling')
<1>1. /\ op[o].kind = "refresh" /\ op[o].pc = "each"
      /\ UNCHANGED <<world, trust, closing, opened, gens, decisions>>
  BY DEF EachRefresh, At
<1>2. /\ op[o] \in OpRecords /\ Typed /\ Names(registry)
      /\ op[o].res \notin Deciding /\ op[o].res # "drained"
      /\ op[o].todo \subseteq Visits
      /\ \A i \in op[o].todo : Known(i.srv, i.gen)
  BY <1>1, Refreshing
<1>3. CASE op[o].todo = {}
  <2>1. End(o, None) /\ UNCHANGED <<entry, registry, conn>>
    BY <1>3 DEF EachRefresh
  <2>2. /\ Done(None) \in OpRecords /\ op' = [op EXCEPT ![o] = Done(None)] /\ OpOK(o)'
    BY <2>1, EndIs DEF None, Deciding
  <2>3. RuntimeInv'
    BY <1>1, <1>2, <2>1, <2>2, OpSteps DEF Typed
  <2>4. ASSUME Dangling
        PROVE  Dangling'
    <3>1. o \notin Ops \/ Handles(o) = {}
      BY <1>1, <1>3 DEF Handles, At
    <3>2. \A q \in Ops \ {o} : op'[q] = op[q]
      BY <1>2, <2>2 DEF Typed
    <3> QED
      BY <2>1, <2>4, <3>1, <3>2, HandsKept
  <2> QED
    BY <2>3, <2>4
<1>4. CASE op[o].todo # {}
  <2>1. PICK i \in op[o].todo :
            IF conn[i.conn].closed
            THEN /\ op' = [op EXCEPT ![o].todo = @ \ {i}]
                 /\ MarkLost(i.srv, i.gen)
            ELSE /\ op' = [op EXCEPT ![o].todo = @ \ {i},
                      ![o].pc = IF conn[i.conn].changed THEN "discover" ELSE "each",
                      ![o].ref = IF conn[i.conn].changed THEN i ELSE None]
                 /\ conn' = LetGo([conn EXCEPT ![i.conn].changed = FALSE])
                 /\ UNCHANGED <<entry, registry>>
    BY <1>4 DEF EachRefresh
  <2>2. i \in Visits /\ Known(i.srv, i.gen) /\ i.conn \in Conns /\ i.srv \in Servers
    BY <1>2 DEF Visits
  <2> DEFINE rest == op[o].todo \ {i}
  <2>3. rest \subseteq Visits /\ \A j \in rest : Known(j.srv, j.gen)
    BY <1>2
  <2>4. CASE conn[i.conn].closed
    <3> DEFINE p == [op[o] EXCEPT !.todo = rest]
    <3>1. op' = [op EXCEPT ![o] = p] /\ MarkLost(i.srv, i.gen)
      BY <1>2, <2>1, <2>4 DEF Typed
    <3> HIDE DEF rest
    <3>2. /\ p \in OpRecords /\ p.pc = "each" /\ p.kind = "refresh" /\ p.res = op[o].res
          /\ p.todo = rest
      <4>1. rest \in SUBSET (Launches \cup Visits \cup Servers)
        BY <2>3
      <4> QED
        BY <1>1, <1>2, <4>1 DEF OpRecords
    <3> HIDE DEF p
    <3>3. op'[o] = p
      BY <1>2, <3>1 DEF Typed
    <3>4. Grows
      BY <1>1, <2>2, <3>1, MarkLostGrows
    <3>5. OpOK(o)'
      BY <1>2, <2>3, <3>2, <3>3, <3>4, RefreshIs
    <3> QED
      BY <1>1, <2>2, <3>1, <3>2, <3>5, MarkLostKeeps
  <2>5. CASE ~conn[i.conn].closed
    <3> DEFINE pc == IF conn[i.conn].changed THEN "discover" ELSE "each"
               ref == IF conn[i.conn].changed THEN i ELSE None
               p == [op[o] EXCEPT !.todo = rest, !.pc = pc, !.ref = ref]
    <3>1. /\ op' = [op EXCEPT ![o] = p] /\ UNCHANGED <<entry, registry>>
          /\ conn' = LetGo([conn EXCEPT ![i.conn].changed = FALSE])
      BY <1>2, <2>1, <2>5 DEF Typed
    <3>2. pc \in {"each", "discover"} /\ (pc = "discover" => ref = i) /\ ref \in {None, i}
      OBVIOUS
    <3> HIDE DEF rest, pc, ref
    <3>3. /\ p \in OpRecords /\ p.pc = pc /\ p.kind = "refresh" /\ p.res = op[o].res
          /\ p.todo = rest /\ p.ref = ref
      <4>1. rest \in SUBSET (Launches \cup Visits) /\ pc \in Pcs /\ ref \in {None} \cup Visits \cup Tools
        BY <2>2, <2>3, <3>2 DEF Pcs
      <4> QED
        BY <1>1, <1>2, <4>1, ZenonT(40) DEF OpRecords
    <3> HIDE DEF p
    <3>4. op'[o] = p
      BY <1>2, <3>1 DEF Typed
    <3>5. Grows
      BY <1>1, <1>2, <3>1, SameGrows
    <3>6. OpOK(o)'
      BY <1>2, <2>2, <2>3, <3>2, <3>3, <3>4, <3>5, RefreshIs
    <3> DEFINE k == [conn EXCEPT ![i.conn].changed = FALSE]
               l == [conn[i.conn] EXCEPT !.changed = FALSE]
    <3>7. conn[i.conn] \in ConnRecords /\ conn \in [Conns -> ConnRecords]
      BY <1>2, <2>2 DEF Typed
    <3>8. /\ l \in ConnRecords /\ l.stage = conn[i.conn].stage /\ l.closed = conn[i.conn].closed
          /\ Alike(l, conn[i.conn])
      BY <3>7 DEF ConnRecords, Alike
    <3>9. k = [conn EXCEPT ![i.conn] = l]
      BY <3>7
    <3> HIDE DEF l
    <3>10. /\ k \in [Conns -> ConnRecords] /\ k[i.conn] = l
           /\ \A c \in Conns \ {i.conn} : k[c] = conn[c]
      BY <2>2, <3>7, <3>8, <3>9
    <3>11. conn' = LetGo(k)
      BY <3>1
    <3> HIDE DEF k
    <3>12. \A c \in Conns : /\ Alike(k[c], conn[c]) /\ k[c].stage = conn[c].stage
                           /\ k[c].closed = conn[c].closed
      <4>1. \A c \in Conns : Alike(conn[c], conn[c])
        BY DEF Alike
      <4> QED
        BY <3>8, <3>10, <4>1
    <3>13. op[o].pc \notin {"launch", "stale"} /\ Names(registry')
      BY <1>1, <1>2, <3>1
    <3> QED
      BY <1>1, <3>1, <3>3, <3>6, <3>10, <3>11, <3>12, <3>13, LetGoSteps
  <2> QED
    BY <2>4, <2>5
<1> QED
  BY <1>3, <1>4

LEMMA DiscoveredKeeps ==
    ASSUME RuntimeInv, NEW o \in Ops, Discovered(o)
    PROVE  RuntimeInv'
<1> DEFINE list == conn[op[o].ref.conn].list
           p == [op[o] EXCEPT !.pc = "relist", !.seen = list]
<1>1. /\ op[o].kind = "refresh" /\ op[o].pc = "discover"
      /\ UNCHANGED <<world, trust, entry, registry, closing, opened, gens, decisions, conn>>
  BY DEF Discovered, At
<1>2. /\ op[o] \in OpRecords /\ Typed /\ Names(registry)
      /\ op[o].res \notin Deciding /\ op[o].res # "drained"
      /\ op[o].todo \subseteq Visits
      /\ \A i \in op[o].todo : Known(i.srv, i.gen)
      /\ op[o].ref \in Visits /\ Known(op[o].ref.srv, op[o].ref.gen)
  BY <1>1, Refreshing
<1>3. list \in Listed
  <2>1. op[o].ref.conn \in Conns
    BY <1>2 DEF Visits
  <2> QED
    BY <1>2, <2>1 DEF Typed, ConnRecords
<1>4. op' = [op EXCEPT ![o] = p]
  BY <1>2 DEF Discovered, Typed
<1> HIDE DEF list
<1>5. /\ p \in OpRecords /\ p.pc = "relist" /\ p.kind = "refresh" /\ p.res = op[o].res
      /\ p.todo = op[o].todo /\ p.ref = op[o].ref /\ p.seen = list
  <2>1. "relist" \in Pcs /\ list \in Reads \cup Listed
    BY <1>3 DEF Pcs
  <2> QED
    BY <1>1, <1>2, <2>1 DEF OpRecords
<1> HIDE DEF p
<1>6. op'[o] = p
  BY <1>2, <1>4 DEF Typed
<1>7. OpOK(o)'
  BY <1>1, <1>2, <1>3, <1>5, <1>6, SameGrows, RefreshIs
<1> QED
  BY <1>1, <1>2, <1>4, <1>5, <1>7, OpSteps DEF Typed

LEMMA DiscoverFailsKeeps ==
    ASSUME RuntimeInv, NEW o \in Ops, DiscoverFails(o)
    PROVE  RuntimeInv' /\ Dangling'
<1> DEFINE i == op[o].ref
           p == [op[o] EXCEPT !.pc = "each", !.ref = None]
<1>1. /\ op[o].kind = "refresh" /\ op[o].pc = "discover" /\ MarkLost(i.srv, i.gen)
      /\ UNCHANGED <<world, trust, closing, opened, gens, decisions>>
  BY DEF DiscoverFails, At
<1>2. /\ op[o] \in OpRecords /\ Typed /\ Names(registry)
      /\ op[o].res \notin Deciding /\ op[o].res # "drained"
      /\ op[o].todo \subseteq Visits
      /\ \A j \in op[o].todo : Known(j.srv, j.gen)
      /\ i \in Visits /\ Known(i.srv, i.gen) /\ i.srv \in Servers
  BY <1>1, Refreshing DEF Visits
<1>3. op' = [op EXCEPT ![o] = p]
  BY <1>2 DEF DiscoverFails, Typed
<1>4. /\ p \in OpRecords /\ p.pc = "each" /\ p.kind = "refresh" /\ p.res = op[o].res
      /\ p.todo = op[o].todo
  BY <1>1, <1>2 DEF OpRecords, Pcs
<1> HIDE DEF p, i
<1>5. op'[o] = p
  BY <1>2, <1>3 DEF Typed
<1>6. Grows
  BY <1>1, <1>2, MarkLostGrows
<1>7. OpOK(o)'
  BY <1>2, <1>4, <1>5, <1>6, RefreshIs
<1> QED
  BY <1>1, <1>2, <1>3, <1>4, <1>7, MarkLostKeeps

LEMMA RelistToolsKeeps ==
    ASSUME RuntimeInv, NEW o \in Ops, RelistTools(o)
    PROVE  RuntimeInv' /\ Dangling'
<1> DEFINE i == op[o].ref
           p == [op[o] EXCEPT !.pc = "each", !.ref = None, !.seen = <<>>]
<1>1. /\ op[o].kind = "refresh" /\ op[o].pc = "relist" /\ conn' = LetGo(conn)
      /\ UNCHANGED <<world, trust, entry, closing, opened, gens, decisions>>
  BY DEF RelistTools, At
<1>2. /\ op[o] \in OpRecords /\ Typed /\ Names(registry)
      /\ op[o].res \notin Deciding /\ op[o].res # "drained"
      /\ op[o].todo \subseteq Visits
      /\ \A j \in op[o].todo : Known(j.srv, j.gen)
      /\ i \in Visits /\ i.srv \in Servers /\ op[o].seen \in Listed
  BY <1>1, Refreshing DEF Visits
<1>3. op' = [op EXCEPT ![o] = p]
  BY <1>2 DEF RelistTools, Typed
<1>4. /\ p \in OpRecords /\ p.pc = "each" /\ p.kind = "refresh" /\ p.res = op[o].res
      /\ p.todo = op[o].todo
  <2>1. "each" \in Pcs /\ <<>> \in Reads \cup Listed
    BY DEF Pcs, Listed
  <2> QED
    BY <1>1, <1>2, <2>1 DEF OpRecords
<1> HIDE DEF p
<1>5. op'[o] = p
  BY <1>2, <1>3 DEF Typed
<1>6. OpOK(o)'
  BY <1>1, <1>2, <1>4, <1>5, SameGrows, RefreshIs
<1>7. Names(registry')
  <2>1. Names(Relist(registry, i.srv, op[o].seen))
    BY <1>2, RelistIs
  <2>2. registry' = Relist(registry, i.srv, op[o].seen) \/ registry' = registry
    BY DEF RelistTools
  <2> QED
    BY <1>2, <2>1, <2>2
<1>8. conn \in [Conns -> ConnRecords] /\ \A c \in Conns : Alike(conn[c], conn[c])
  BY <1>2 DEF Typed, Alike
<1> QED
  BY <1>1, <1>3, <1>4, <1>6, <1>7, <1>8, LetGoSteps

LEMMA FreezeKeeps ==
    ASSUME RuntimeInv, NEW o \in Ops, Freeze(o)
    PROVE  RuntimeInv'
<1> DEFINE p(t) == [op[o] EXCEPT !.pc = "check", !.ref = t, !.gen = entry[t.srv].gen,
                                 !.print = entry[t.srv].print]
<1>1. /\ op[o].kind = "call" /\ op[o].pc = "freeze"
      /\ UNCHANGED <<world, trust, entry, registry, closing, opened, gens, decisions, conn>>
  BY DEF Freeze, At
<1>2. op[o] \in OpRecords /\ Typed /\ Names(registry)
      /\ op[o].res \notin Deciding /\ op[o].res # "drained"
  BY <1>1, OpIn, Targets
<1>3. PICK t \in registry : op' = [op EXCEPT ![o] = p(t)]
  BY <1>2 DEF Freeze, Typed
<1>4. /\ t \in Tools /\ t.srv \in Servers /\ entry[t.srv].gen \in 0 .. gens
      /\ entry[t.srv].gen \in Nat /\ entry[t.srv].print \in Prints \cup {None}
  <2>1. t \in Tools /\ t.srv \in Servers
    BY <1>2 DEF Names, Tools
  <2> QED
    BY <1>2, <2>1 DEF Typed, Entries, RuntimeInv, EntryOK
<1>5. /\ p(t) \in OpRecords /\ p(t).pc = "check" /\ p(t).kind = "call" /\ p(t).res = op[o].res
      /\ p(t).ref = t /\ p(t).gen = entry[t.srv].gen /\ p(t).print = entry[t.srv].print
  <2>1. "check" \in Pcs /\ t \in {None} \cup Visits \cup Tools
    BY <1>4 DEF Pcs
  <2> QED
    BY <1>1, <1>2, <1>4, <2>1 DEF OpRecords
<1> HIDE DEF p
<1>6. op'[o] = p(t)
  BY <1>2, <1>3 DEF Typed
<1>7. \A s, g, d : Offers(s, g, d) => Offers(s, g, d)'
  BY <1>1 DEF Offers
<1>8. Offers(t.srv, entry[t.srv].gen, entry[t.srv].print)
  BY <1>4 DEF Offers
<1>9. Calls(o)'
  <2>1. Offers(p(t).ref.srv, p(t).gen, p(t).print)
    BY <1>5, <1>8
  <2>2. \A r : r = p(t) => Offers(r.ref.srv, r.gen, r.print)'
    BY <1>7, <2>1
  <2> QED
    BY <1>4, <1>5, <1>6, <2>2 DEF Calls
<1>10. OpOK(o)'
  BY <1>2, <1>5, <1>6, <1>9
  DEF OpOK, Starts, Releasing, Decides, Restarts, Refreshes, Ends, Deciding, Targeted
<1> QED
  BY <1>1, <1>2, <1>3, <1>5, <1>10, OpSteps DEF Typed

LEMMA CheckKeeps ==
    ASSUME RuntimeInv, NEW o \in Ops, Check(o)
    PROVE  RuntimeInv'
<1> DEFINE t == op[o].ref
           s == t.srv
           Sent == /\ OfferStands(o) /\ entry[s].state = "ready"
                   /\ t \in registry /\ entry[s].conn # 0
<1>1. /\ op[o].kind = "call" /\ op[o].pc = "check"
      /\ UNCHANGED <<world, trust, entry, registry, closing, opened, gens, decisions, conn>>
  BY DEF Check, At
<1>2. op[o] \in OpRecords /\ Typed /\ Names(registry) /\ OpOK(o)
      /\ op[o].res \notin Deciding /\ op[o].res # "drained"
  BY <1>1, OpIn, Targets
<1>3. t \in Tools /\ s \in Servers
  BY <1>1, <1>2 DEF OpOK, Calls, Tools
<1>4. CASE ~Sent
  <2> DEFINE p == [op[o] EXCEPT !.pc = "refused"]
  <2>1. op' = [op EXCEPT ![o] = p]
    BY <1>2, <1>4 DEF Check, Typed
  <2>2. p \in OpRecords /\ p.pc = "refused" /\ p.kind = "call" /\ p.res = op[o].res
    BY <1>1, <1>2 DEF OpRecords, Pcs
  <2> HIDE DEF p
  <2> QED
    BY <1>1, <1>2, <2>1, <2>2, QuietStep DEF Quiet, Typed, Targeted
<1>5. CASE Sent
  <2> DEFINE c == entry[s].conn
             p == [op[o] EXCEPT !.pc = "wait", !.wait = {c}]
  <2>1. op' = [op EXCEPT ![o] = p]
    BY <1>2, <1>5 DEF Check, Typed
  <2>2. /\ EntryOK(s) /\ c \in Conns /\ conn[c].stage = "installed" /\ conn[c].srv = s
        /\ conn[c].gen = entry[s].gen /\ conn[c].print = entry[s].print
    BY <1>3, <1>5 DEF RuntimeInv, EntryOK, Serves
  <2>3. /\ Known(s, op[o].gen) /\ entry[s].gen = op[o].gen /\ op[o].gen > 0
        /\ entry[s].print = op[o].print
    <3>1. entry[s].gen \in 1 .. gens /\ entry[s].print \in Prints
      BY <1>2, <1>5, <2>2 DEF EntryOK, Typed
    <3>2. Offers(s, op[o].gen, op[o].print)
      BY <1>1, <1>2 DEF OpOK, Calls
    <3> QED
      BY <1>2, <1>3, <1>5, <3>1, <3>2 DEF OfferStands, Known, Offers, Typed
  <2>4. /\ p \in OpRecords /\ p.pc = "wait" /\ p.kind = "call" /\ p.res = op[o].res
        /\ p.ref = t /\ p.wait = {c} /\ p.gen = op[o].gen /\ p.print = op[o].print
    <3>1. "wait" \in Pcs /\ {c} \in SUBSET Conns
      BY <2>2 DEF Pcs
    <3> QED
      BY <1>1, <1>2, <3>1 DEF OpRecords
  <2> HIDE DEF p
  <2>5. op'[o] = p
    BY <1>2, <2>1 DEF Typed
  <2>6. Calls(o)'
    <3>1. op'[o].ref = t /\ op'[o].gen = op[o].gen /\ op'[o].print = op[o].print
          /\ op'[o].wait = {c} /\ op'[o].pc = "wait"
      BY <2>4, <2>5
    <3>2. \A r : r = p => Known(r.ref.srv, r.gen)'
      <4>1. \A a, g : Known(a, g) => Known(a, g)'
        BY <1>1 DEF Known
      <4>2. Known(p.ref.srv, p.gen)
        BY <2>3, <2>4
      <4> QED
        BY <4>1, <4>2
    <3>3. \A d \in {c} : conn'[d].stage \in Final /\ conn'[d].srv = s
                         /\ conn'[d].gen = op[o].gen /\ conn'[d].print = op[o].print
      BY <1>1, <2>2, <2>3 DEF Final
    <3> QED
      BY <1>3, <2>4, <2>5, <3>1, <3>2, <3>3 DEF Calls
  <2>7. OpOK(o)'
    BY <1>2, <2>4, <2>5, <2>6
    DEF OpOK, Starts, Releasing, Decides, Restarts, Refreshes, Ends, Deciding, Targeted
  <2> QED
    BY <1>1, <1>2, <2>1, <2>4, <2>7, OpSteps DEF Typed
<1> QED
  BY <1>4, <1>5

LEMMA AnsweredKeeps ==
    ASSUME RuntimeInv, NEW o \in Ops, Answered(o)
    PROVE  RuntimeInv' /\ Dangling'
<1>1. op[o] \in OpRecords /\ Typed /\ Names(registry)
  BY OpIn
<1>2. /\ op[o].pc = "wait" /\ End(o, None) /\ conn' = LetGo(conn)
      /\ UNCHANGED <<world, trust, entry, registry, closing, opened, gens, decisions>>
  BY DEF Answered, At
<1>3. /\ Done(None) \in OpRecords /\ op' = [op EXCEPT ![o] = Done(None)] /\ OpOK(o)'
  BY <1>2, EndIs DEF None, Deciding
<1>4. conn \in [Conns -> ConnRecords] /\ \A c \in Conns : Alike(conn[c], conn[c])
  BY <1>1 DEF Typed, Alike
<1> QED
  BY <1>1, <1>2, <1>3, <1>4, LetGoSteps

LEMMA CallFailsKeeps ==
    ASSUME RuntimeInv, NEW o \in Ops, CallFails(o)
    PROVE  RuntimeInv' /\ Dangling'
<1>1. op[o] \in OpRecords /\ Typed /\ Names(registry) /\ OpOK(o)
  BY OpIn
<1>2. /\ op[o].kind = "call" /\ op[o].pc = "wait" /\ End(o, None)
      /\ UNCHANGED <<world, trust, closing, opened, gens, decisions>>
  BY DEF CallFails, At
<1>3. /\ Done(None) \in OpRecords /\ op' = [op EXCEPT ![o] = Done(None)] /\ OpOK(o)'
  BY <1>2, EndIs DEF None, Deciding
<1>4. Known(op[o].ref.srv, op[o].gen)
  BY <1>1, <1>2 DEF OpOK, Calls
<1>5. CASE MarkLost(op[o].ref.srv, op[o].gen)
  BY <1>2, <1>3, <1>4, <1>5, MarkLostKeeps
<1>6. CASE UNCHANGED <<entry, registry>> /\ conn' = LetGo(conn)
  <2>1. conn \in [Conns -> ConnRecords] /\ \A c \in Conns : Alike(conn[c], conn[c])
    BY <1>1 DEF Typed, Alike
  <2> QED
    BY <1>1, <1>2, <1>3, <1>6, <2>1, LetGoSteps
<1> QED
  BY <1>5, <1>6 DEF CallFails

-----------------------------------------------------------------------------
(* shutdown.                                                                   *)

\* Some connections lose their server's entry, others are closed.
LEMMA ClosedIs ==
    ASSUME RuntimeInv, NEW S \in SUBSET Servers, NEW cs \in SUBSET Conns,
           conn' = [c \in Conns |-> IF c \in Taken(S) THEN Retire(Taken(S))[c] ELSE Close(cs)[c]]
    PROVE  Dropped(S, "retired")
<1>1. \A c \in Conns : conn[c] \in ConnRecords
  BY DEF RuntimeInv, Typed
<1>2. Taken(S) \subseteq Conns
  BY DEF Taken
<1> DEFINE r(c) == [conn[c] EXCEPT !.stage = "retired", !.closed = TRUE]
           k(c) == [conn[c] EXCEPT !.closed = TRUE]
<1>3. \A c \in Taken(S) : conn'[c] = r(c)
  BY <1>2 DEF Retire, Told
<1>4. \A c \in Conns \ Taken(S) : conn'[c] = k(c) \/ conn'[c] = conn[c]
  BY DEF Close
<1>5. \A c \in Conns : /\ r(c) \in ConnRecords /\ r(c).stage = "retired" /\ r(c).closed
                       /\ Alike(r(c), conn[c])
  BY <1>1 DEF ConnRecords, Stages, Alike
<1>6. \A c \in Conns : /\ k(c) \in ConnRecords /\ k(c).stage = conn[c].stage /\ k(c).closed
                       /\ Alike(k(c), conn[c])
  BY <1>1 DEF ConnRecords, Alike
<1> HIDE DEF r, k
<1>7. \A c \in Conns : conn'[c] \in ConnRecords
  BY <1>1, <1>3, <1>4, <1>5, <1>6
<1>8. conn' \in [Conns -> ConnRecords]
  BY <1>7
<1>9. \A c \in Conns : Alike(conn[c], conn[c])
  BY DEF Alike
<1>10. \A c \in Conns : Alike(conn'[c], conn[c]) /\ (conn[c].closed => conn'[c].closed)
  BY <1>3, <1>4, <1>5, <1>6, <1>9
<1>11. /\ \A c \in Taken(S) : conn'[c].stage = "retired" /\ conn'[c].closed
       /\ \A c \in Conns \ Taken(S) : conn'[c].stage = conn[c].stage
  BY <1>2, <1>3, <1>4, <1>5, <1>6
<1> QED
  BY <1>8, <1>10, <1>11 DEF Dropped

LEMMA ApplyShutdownKeeps ==
    ASSUME RuntimeInv, NEW o \in Ops, ApplyShutdown(o)
    PROVE  RuntimeInv'
<1> DEFINE waits == Taken(Servers) \cup Attached
           p == [op[o] EXCEPT !.pc = "closing", !.wait = waits]
           e(s) == [entry[s] EXCEPT !.state = IF @ = "ready" THEN "stopped" ELSE @,
                                    !.gen = gens + 1, !.conn = 0, !.by = "shutdown"]
<1>1. op[o] \in OpRecords /\ Typed /\ Names(registry) /\ gens \in Nat
  BY OpIn DEF Typed
<1>2. /\ op[o].kind = "shutdown" /\ op[o].pc = "apply" /\ closing' = TRUE /\ gens' = gens + 1
      /\ registry' = {}
      /\ UNCHANGED <<world, trust, opened, decisions>>
  BY DEF ApplyShutdown, At
<1>3. op[o].res \notin Deciding /\ op[o].res # "drained"
  BY <1>2, Targets
<1>4. /\ UNION {ConnOf(s) : s \in Servers} = Taken(Servers)
      /\ Taken(Servers) \in SUBSET Conns /\ Attached \in SUBSET Conns
  BY TakenIs DEF Attached, Slots
<1>5. /\ op' = [op EXCEPT ![o] = p]
      /\ conn' = [c \in Conns |-> IF c \in Taken(Servers) THEN Retire(Taken(Servers))[c]
                                  ELSE Close(Attached)[c]]
      /\ entry' = [s \in Servers |-> IF entry[s].state = "absent" THEN entry[s] ELSE e(s)]
  BY <1>1, <1>4 DEF ApplyShutdown, Typed
<1> HIDE DEF waits
<1>6. /\ p \in OpRecords /\ p.pc = "closing" /\ p.kind = "shutdown" /\ p.res = op[o].res
  <2>1. "closing" \in Pcs /\ waits \in SUBSET Conns
    BY <1>4 DEF Pcs, waits
  <2> QED
    BY <1>1, <1>2, <2>1 DEF OpRecords
<1> HIDE DEF p
<1>7. op'[o] = p
  BY <1>1, <1>5 DEF Typed
<1>8. OpOK(o)'
  BY <1>2, <1>3, <1>6, <1>7, QuietIs DEF Quiet, Targeted
<1>9. Dropped(Servers, "retired")
  BY <1>4, <1>5, ClosedIs
<1>10. \A s \in Servers : /\ e(s) \in Entries /\ e(s).gen = gens + 1 /\ e(s).conn = 0
                          /\ e(s).by = "shutdown" /\ e(s).print = entry[s].print
                          /\ e(s).state \in {"absent", "invalid"} <=>
                                entry[s].state \in {"absent", "invalid"}
  <2> SUFFICES ASSUME NEW s \in Servers
               PROVE  /\ e(s) \in Entries /\ e(s).gen = gens + 1 /\ e(s).conn = 0
                      /\ e(s).by = "shutdown" /\ e(s).print = entry[s].print
                      /\ e(s).state \in {"absent", "invalid"} <=>
                            entry[s].state \in {"absent", "invalid"}
    OBVIOUS
  <2>1. entry[s] \in Entries /\ gens + 1 \in Nat /\ "shutdown" \in AllKinds \cup {None}
        /\ "stopped" \in EntryStates
    BY <1>1 DEF Typed, AllKinds, EntryStates
  <2> QED
    BY <2>1 DEF Entries
<1> HIDE DEF e
<1>11. \A s \in Servers : entry'[s] = IF entry[s].state = "absent" THEN entry[s] ELSE e(s)
  BY <1>5
<1>12. \A s \in Servers : entry[s] \in Entries /\ EntryOK(s)
  BY DEF RuntimeInv, Typed
<1>13. entry' \in [Servers -> Entries]
  BY <1>5, <1>10, <1>12
<1>14. Grows
  <2>1. gens + 1 \in Nat /\ gens + 1 >= gens /\ gens + 1 \notin 1 .. gens
    BY <1>1
  <2> QED
    BY <1>1, <1>2, <1>10, <1>11, <2>1 DEF Grows
<1>15. \A s \in Servers : Unserved(s)
  <2> SUFFICES ASSUME NEW s \in Servers
               PROVE  Unserved(s)
    OBVIOUS
  <2>1. EntryOK(s)
    BY <1>12
  <2>2. CASE entry[s].state = "absent"
    <3>1. entry'[s] = entry[s] /\ entry[s].conn = 0 /\ entry[s].gen \in 0 .. gens + 1
      BY <1>1, <1>11, <2>1, <2>2 DEF EntryOK
    <3> QED
      BY <1>2, <2>2, <3>1 DEF Unserved
  <2>3. CASE entry[s].state # "absent"
    <3>1. entry'[s] = e(s)
      BY <1>11, <2>3
    <3>2. e(s).state \notin {"absent", "invalid"} => entry[s].print \in Prints
      BY <1>10, <2>1 DEF EntryOK
    <3>3. gens + 1 > 0 /\ gens + 1 \in 0 .. gens + 1
      BY <1>1
    <3> QED
      BY <1>2, <1>10, <3>1, <3>2, <3>3 DEF Unserved
  <2> QED
    BY <2>2, <2>3
<1>16. \A s \in Servers : \/ /\ entry'[s].gen = entry[s].gen /\ entry'[s].print = entry[s].print
                             /\ entry'[s].by = entry[s].by
                          \/ entry'[s].by \notin Deciding
  BY <1>10, <1>11 DEF Deciding
<1>17. Names(registry')
  BY <1>2, FS_EmptySet DEF Names
<1>18. /\ op[o].pc \notin {"launch", "stale"} /\ p \in OpRecords /\ op' = [op EXCEPT ![o] = p]
       /\ UNCHANGED <<world, trust, opened, decisions>> /\ closing' \in BOOLEAN /\ closing'
  BY <1>2, <1>5, <1>6
<1>19. \A s \in Servers \ Servers : entry'[s] = entry[s]
  OBVIOUS
<1> DEFINE S == Servers
<1>20. /\ \A s \in S : Unserved(s)
       /\ \A s \in S : \/ /\ entry'[s].gen = entry[s].gen /\ entry'[s].print = entry[s].print
                          /\ entry'[s].by = entry[s].by
                       \/ entry'[s].by \notin Deciding
       /\ \A s \in Servers \ S : entry'[s] = entry[s]
       /\ S \in SUBSET Servers /\ Dropped(S, "retired") /\ S = Servers
  BY <1>9, <1>15, <1>16, <1>19
<1> HIDE DEF S
<1> QED
  BY <1>8, <1>13, <1>14, <1>17, <1>18, <1>20, DropSteps

LEMMA ClosedShutdownKeeps ==
    ASSUME RuntimeInv, NEW o \in Ops, ClosedShutdown(o)
    PROVE  RuntimeInv'
<1> DEFINE p == [op[o] EXCEPT !.pc = "drain", !.wait = {}]
<1>1. op[o] \in OpRecords /\ Typed /\ Names(registry) /\ OpOK(o)
  BY OpIn
<1>2. /\ op[o].kind = "shutdown" /\ op[o].pc = "closing"
      /\ UNCHANGED <<world, trust, entry, registry, closing, opened, gens, decisions, conn>>
  BY DEF ClosedShutdown, At
<1>3. op[o].res \notin Deciding /\ op[o].res # "drained" /\ closing
  BY <1>1, <1>2, Targets DEF OpOK, Ends
<1>4. op' = [op EXCEPT ![o] = p]
  BY <1>1 DEF ClosedShutdown, Typed
<1>5. p \in OpRecords /\ p.pc = "drain" /\ p.kind = "shutdown" /\ p.res = op[o].res
  <2>1. "drain" \in Pcs /\ {} \in SUBSET Conns
    BY DEF Pcs
  <2> QED
    BY <1>1, <1>2, <2>1 DEF OpRecords
<1> HIDE DEF p
<1> QED
  BY <1>1, <1>2, <1>3, <1>4, <1>5, QuietStep DEF Quiet, Typed, Targeted

LEMMA DrainKeeps ==
    ASSUME RuntimeInv, NEW o \in Ops, Drain(o)
    PROVE  RuntimeInv'
<1>1. op[o] \in OpRecords /\ Typed /\ Names(registry) /\ OpOK(o)
  BY OpIn
<1>2. /\ op[o].kind = "shutdown" /\ op[o].pc = "drain"
      /\ UNCHANGED <<world, trust, entry, registry, closing, opened, gens, decisions>>
  BY DEF Drain, At
<1>3. op[o].res \notin Deciding /\ op[o].res # "drained" /\ closing
  BY <1>1, <1>2, Targets DEF OpOK, Ends
<1>4. CASE Slots = {}
  <2>1. End(o, "drained") /\ UNCHANGED conn
    BY <1>4 DEF Drain, Drained
  <2>2. /\ Done("drained") \in OpRecords /\ Done("drained").pc = "done"
        /\ Done("drained").kind = None /\ Done("drained").res = "drained"
    BY DoneIs
  <2>3. op' = [op EXCEPT ![o] = Done("drained")]
    BY <2>1 DEF End, Done
  <2> HIDE DEF Done
  <2>4. op'[o] = Done("drained")
    BY <1>1, <2>3 DEF Typed
  <2>5. Slots' = {}
    BY <1>4, <2>1 DEF Slots
  <2>6. OpOK(o)'
    BY <1>2, <1>3, <2>2, <2>4, <2>5
    DEF OpOK, Starts, Releasing, Decides, Restarts, Refreshes, Calls, Ends, Deciding, Targeted, None
  <2> QED
    BY <1>1, <1>2, <2>1, <2>2, <2>3, <2>6, OpSteps DEF Typed
<1>5. CASE Slots # {}
  <2> DEFINE p == [op[o] EXCEPT !.pc = "closing", !.wait = Attached]
  <2>1. conn' = Close(Attached) /\ op' = [op EXCEPT ![o] = p]
    BY <1>1, <1>5 DEF Drain, Drained, Typed
  <2>2. Attached \in SUBSET Conns
    BY DEF Attached, Slots
  <2>3. p \in OpRecords /\ p.pc = "closing" /\ p.kind = "shutdown" /\ p.res = op[o].res
    <3>1. "closing" \in Pcs
      BY DEF Pcs
    <3> QED
      BY <1>1, <1>2, <2>2, <3>1 DEF OpRecords
  <2> HIDE DEF p
  <2>4. op'[o] = p
    BY <1>1, <2>1 DEF Typed
  <2>5. OpOK(o)'
    BY <1>2, <1>3, <2>3, <2>4, QuietIs DEF Quiet, Targeted
  <2> DEFINE S == {}
  <2>6. Taken(S) = {}
    BY DEF Taken
  <2>7. conn' = [c \in Conns |-> IF c \in Taken(S) THEN Retire(Taken(S))[c] ELSE Close(Attached)[c]]
    BY <2>1, <2>6 DEF Close
  <2>8. S \in SUBSET Servers
    OBVIOUS
  <2>9. Dropped(S, "retired")
    BY <2>2, <2>7, <2>8, ClosedIs
  <2>10. Grows
    BY <1>1, <1>2, SameGrows
  <2>11. /\ UNCHANGED <<world, trust, opened, decisions>> /\ closing' = closing
         /\ closing' \in BOOLEAN /\ Names(registry') /\ entry' \in [Servers -> Entries]
         /\ op[o].pc \notin {"launch", "stale"} /\ p \in OpRecords /\ op' = [op EXCEPT ![o] = p]
    BY <1>1, <1>2, <2>1, <2>3 DEF Typed
  <2>12. /\ \A s \in S : Unserved(s)
         /\ \A s \in S : entry'[s].by \notin Deciding
         /\ \A s \in Servers \ S : entry'[s] = entry[s]
    BY <1>2
  <2> HIDE DEF S
  <2> QED
    BY <2>5, <2>8, <2>9, <2>10, <2>11, <2>12, DropSteps
<1> QED
  BY <1>4, <1>5

-----------------------------------------------------------------------------
(* Launches are reserved, and their outcomes installed or released.            *)

LEMMA ReserveKeeps ==
    ASSUME RuntimeInv, NEW o \in Ops, Reserve(o)
    PROVE  RuntimeInv'
<1> DEFINE c == CHOOSE d \in Free : \A e \in Free : d <= e
           k(i) == [FreeConn EXCEPT !.stage = IF closing THEN "failed" ELSE "reserved",
                                    !.srv = i.srv, !.print = i.print, !.gen = i.gen, !.by = o]
           p(i) == [op[o] EXCEPT !.todo = op[o].todo \ {i}]
<1>1. /\ Typed /\ Names(registry) /\ \A d \in Conns : ConnOK(d)
      /\ \A s \in Servers : EntryOK(s)
      /\ \A q \in Ops : OpOK(q)
      /\ op[o] \in OpRecords
  BY DEF RuntimeInv, Typed
<1>2. /\ op[o].pc = "launch" /\ Free # {}
      /\ UNCHANGED <<world, trust, entry, registry, closing, opened, gens, decisions>>
  BY DEF Reserve
<1>3. c \in Free
  <2>1. Free \in SUBSET Nat
    BY ConnsAssumption DEF Free
  <2>2. \E d \in Free : \A e \in Free : d <= e
    BY <1>2, <2>1, Least
  <2> QED
    BY <2>2
<1>4. PICK i \in op[o].todo : conn' = [conn EXCEPT ![c] = k(i)] /\ op' = [op EXCEPT ![o] = p(i)]
  BY <1>1 DEF Reserve, Typed
<1> HIDE DEF c
<1>5. c \in Conns /\ conn[c].stage = "free" /\ conn[c].by = None
  BY <1>1, <1>3 DEF Free, ConnOK, ConnShape, Ownerless
<1>6. Starts(o) /\ i \in Launches /\ Stands(i.srv, i.gen, i.print)
  BY <1>1, <1>2 DEF OpOK, Starts
<1>7. /\ k(i) \in ConnRecords /\ k(i).srv = i.srv /\ k(i).print = i.print /\ k(i).gen = i.gen
      /\ k(i).by = o /\ ~k(i).alive
      /\ k(i).stage = IF closing THEN "failed" ELSE "reserved"
  <2>1. i.srv \in Servers /\ i.print \in Prints \cup {None} /\ i.gen \in Nat
    BY <1>6 DEF Launches
  <2> QED
    BY <2>1 DEF FreeConn, ConnRecords, Stages, Listed
<1>8. /\ p(i) \in OpRecords /\ p(i).todo = op[o].todo \ {i} /\ p(i).kind = op[o].kind
      /\ p(i).pc = "launch" /\ p(i).srv = op[o].srv /\ p(i).res = op[o].res
  <2>1. op[o].todo \ {i} \in SUBSET (Launches \cup Visits \cup Servers)
    BY <1>1 DEF OpRecords
  <2> QED
    BY <1>1, <1>2, <2>1 DEF OpRecords
<1> HIDE DEF k, p
<1>9. /\ conn' \in [Conns -> ConnRecords] /\ conn'[c] = k(i)
      /\ \A d \in Conns \ {c} : conn'[d] = conn[d]
  BY <1>1, <1>4, <1>5, <1>7 DEF Typed
<1>10. /\ op' \in [Ops -> OpRecords] /\ op'[o] = p(i)
       /\ \A q \in Ops \ {o} : op'[q] = op[q]
  BY <1>1, <1>4, <1>8 DEF Typed
<1>11. Typed'
  BY <1>1, <1>2, <1>9, <1>10 DEF Typed, world
<1>12. ASSUME NEW s \in Servers
       PROVE  EntryOK(s)'
  <2>1. EntryOK(s) /\ entry' = entry /\ gens' = gens /\ closing' = closing
    BY <1>1, <1>2
  <2>2. ASSUME entry[s].conn # 0
        PROVE  Serves(s, entry[s].conn)'
    <3>1. Serves(s, entry[s].conn)
      BY <2>1, <2>2 DEF EntryOK
    <3>2. entry[s].conn \in Conns \ {c}
      BY <1>5, <3>1 DEF Serves
    <3> QED
      BY <1>9, <2>1, <3>1, <3>2 DEF Serves
  <2> QED
    BY <2>1, <2>2 DEF EntryOK
<1>13. ASSUME NEW d \in Conns
       PROVE  ConnOK(d)'
  <2>1. CASE d = c
    <3>1. ConnShape(k(i))
      BY <1>7, OpsAssumption DEF ConnShape, Ownerless, None
    <3>2. Stands(i.srv, i.gen, i.print)'
      BY <1>2, <1>6 DEF Stands
    <3> QED
      BY <1>7, <1>8, <1>9, <1>10, <2>1, <3>1, <3>2 DEF ConnOK, Launched
  <2>2. CASE d # c
    <3>1. ConnOK(d) /\ conn'[d] = conn[d] /\ conn[d].by \in Ops \cup {None}
      BY <1>1, <1>9, <2>2 DEF Typed, ConnRecords
    <3>2. conn[d].by # None => op'[conn[d].by].pc = op[conn[d].by].pc
                               /\ (op[conn[d].by].pc # "launch" =>
                                      op'[conn[d].by] = op[conn[d].by])
      BY <1>2, <1>8, <1>10, <3>1
    <3> QED
      BY <1>2, <3>1, <3>2 DEF ConnOK, Stands
  <2> QED
    BY <2>1, <2>2
<1>14. OpOK(o)'
  <2>1. Mine(o)' = Mine(o) \cup {c} /\ \A d \in Mine(o) : conn'[d] = conn[d] /\ d # c
    BY <1>5, <1>7, <1>9, OpsAssumption DEF Mine, None
  <2>2. Starts(o)'
    <3>1. /\ op[o].todo \subseteq Launches
          /\ \A j \in op[o].todo : Stands(j.srv, j.gen, j.print)
          /\ \A j, l \in op[o].todo : j.srv = l.srv => j = l
          /\ \A d, e \in Mine(o) : conn[d].srv = conn[e].srv => d = e
          /\ \A j \in op[o].todo, d \in Mine(o) : conn[d].srv # j.srv
      BY <1>2, <1>6 DEF Starts
    <3>2. \A j \in op[o].todo : Stands(j.srv, j.gen, j.print)'
      BY <1>2, <3>1 DEF Stands
    <3>3. op'[o].todo = op[o].todo \ {i} /\ conn'[c].srv = i.srv
      BY <1>7, <1>8, <1>9, <1>10
    <3>4. \A d, e \in Mine(o)' : conn'[d].srv = conn'[e].srv => d = e
      BY <2>1, <3>1, <3>3
    <3>5. \A j \in op'[o].todo, d \in Mine(o)' : conn'[d].srv # j.srv
      BY <2>1, <3>1, <3>3
    <3> QED
      BY <3>1, <3>2, <3>3, <3>4, <3>5 DEF Starts
  <2>3. /\ op[o].kind \in Targeted => op[o].srv \in Servers
        /\ op[o].res \notin Deciding /\ op[o].res # "drained"
    BY <1>2, Targets
  <2> QED
    BY <1>8, <1>10, <2>2, <2>3
    DEF OpOK, Releasing, Decides, Restarts, Refreshes, Calls, Ends
<1>15. ASSUME NEW q \in Ops \ {o}
       PROVE  OpOK(q)'
  <2>1. OpOK(q) /\ op[q] \in OpRecords
    BY <1>1 DEF Typed
  <2>2. Grows
    BY <1>1, <1>2, SameGrows
  <2>3. ConnsStay(q)
    <3>1. ASSUME closing, Slots = {}
          PROVE  closing' /\ Slots' = {}
      <4>1. \A d \in Conns : conn[d].stage \notin Owned
        BY <3>1 DEF Slots
      <4>2. \A d \in Conns : conn'[d].stage \notin Owned
        BY <1>7, <1>9, <3>1, <4>1 DEF Owned
      <4> QED
        BY <1>2, <3>1, <4>2 DEF Slots
    <3>2. \A d \in Conns : conn'[d].by = q <=> conn[d].by = q
      BY <1>5, <1>7, <1>9, OpsAssumption DEF None
    <3>3. \A d \in Conns \ {c} : conn'[d] = conn[d]
      BY <1>9
    <3>4. conn[c].by # q /\ conn[c].stage \notin Final
      BY <1>5, OpsAssumption DEF None, Final
    <3> QED
      BY <1>2, <3>1, <3>2, <3>3, <3>4 DEF ConnsStay
  <2>4. NoDecision(q)
    BY <1>2 DEF NoDecision
  <2>5. Stays(q)
    BY <1>10 DEF Stays
  <2> QED
    BY <2>1, <2>2, <2>3, <2>4, <2>5, OthersKeep
<1> QED
  BY <1>1, <1>2, <1>11, <1>12, <1>13, <1>14, <1>15 DEF RuntimeInv

LEMMA ReleaseStaleKeeps ==
    ASSUME RuntimeInv, NEW o \in Ops, ReleaseStale(o)
    PROVE  RuntimeInv'
<1> DEFINE k == [FreeConn EXCEPT !.stage = "released"]
           W == op[o].wait
<1>1. /\ Typed /\ Names(registry) /\ \A d \in Conns : ConnOK(d)
      /\ \A s \in Servers : EntryOK(s)
      /\ \A q \in Ops : OpOK(q)
      /\ op[o] \in OpRecords
  BY DEF RuntimeInv, Typed
<1>2. /\ op[o].pc = "stale" /\ End(o, None)
      /\ conn' = [c \in Conns |-> IF c \in W THEN k ELSE conn[c]]
      /\ UNCHANGED <<world, trust, entry, registry, closing, opened, gens, decisions>>
  BY DEF ReleaseStale
<1>3. W \subseteq Conns /\ \A c \in W : conn[c].stage = "stale" /\ conn[c].by = o
  BY <1>1, <1>2 DEF OpRecords, OpOK, Releasing
<1>4. k \in ConnRecords /\ k.stage = "released" /\ k.by = None /\ ~k.alive
  BY DEF FreeConn, ConnRecords, Stages, Listed, None
<1>5. /\ Done(None) \in OpRecords /\ op' = [op EXCEPT ![o] = Done(None)] /\ OpOK(o)'
  BY <1>2, EndIs DEF None, Deciding
<1> HIDE DEF k, W
<1>6. \A c \in Conns : conn[c].by = o => c \in W
  BY <1>1, <1>2, OpsAssumption DEF ConnOK, None, W
<1>7. /\ \A c \in W : conn'[c] = k
      /\ \A c \in Conns \ W : conn'[c] = conn[c]
      /\ conn' \in [Conns -> ConnRecords]
  <2>1. \A c \in Conns : conn[c] \in ConnRecords
    BY <1>1 DEF Typed
  <2> QED
    BY <1>2, <1>3, <1>4, <2>1
<1>8. op' \in [Ops -> OpRecords] /\ \A q \in Ops \ {o} : op'[q] = op[q]
  BY <1>1, <1>5 DEF Typed
<1>9. Typed'
  BY <1>1, <1>2, <1>7, <1>8 DEF Typed, world
<1>10. ASSUME NEW s \in Servers
       PROVE  EntryOK(s)'
  <2>1. EntryOK(s) /\ entry' = entry /\ gens' = gens /\ closing' = closing
    BY <1>1, <1>2
  <2>2. ASSUME entry[s].conn # 0
        PROVE  Serves(s, entry[s].conn)'
    <3>1. Serves(s, entry[s].conn)
      BY <2>1, <2>2 DEF EntryOK
    <3>2. entry[s].conn \in Conns \ W
      BY <1>3, <3>1 DEF Serves
    <3> QED
      BY <1>7, <2>1, <3>1, <3>2 DEF Serves
  <2> QED
    BY <2>1, <2>2 DEF EntryOK
<1>11. ASSUME NEW d \in Conns
       PROVE  ConnOK(d)'
  <2>1. CASE d \in W
    BY <1>4, <1>7, <2>1 DEF ConnOK, ConnShape, Ownerless
  <2>2. CASE d \notin W
    <3>1. ConnOK(d) /\ conn'[d] = conn[d] /\ conn[d].by \in Ops \cup {None} /\ conn[d].by # o
      BY <1>1, <1>6, <1>7, <2>2 DEF Typed, ConnRecords
    <3>2. conn[d].by # None => op'[conn[d].by] = op[conn[d].by]
      BY <1>8, <3>1
    <3> QED
      BY <1>2, <3>1, <3>2 DEF ConnOK, Stands
  <2> QED
    BY <2>1, <2>2
<1>12. ASSUME NEW q \in Ops \ {o}
       PROVE  OpOK(q)'
  <2>1. OpOK(q) /\ op[q] \in OpRecords
    BY <1>1 DEF Typed
  <2>2. Grows
    BY <1>1, <1>2, SameGrows
  <2>3. ConnsStay(q)
    <3>1. Slots = {} => Slots' = {}
      BY <1>4, <1>7 DEF Slots, Owned
    <3>2. \A d \in W : conn[d].by # q /\ conn'[d].by # q /\ conn[d].stage \notin Final
      BY <1>3, <1>4, <1>7, OpsAssumption DEF None, Final
    <3> QED
      BY <1>2, <1>7, <3>1, <3>2 DEF ConnsStay
  <2>4. NoDecision(q)
    BY <1>2 DEF NoDecision
  <2>5. Stays(q)
    BY <1>8 DEF Stays
  <2> QED
    BY <2>1, <2>2, <2>3, <2>4, <2>5, OthersKeep
<1> QED
  BY <1>1, <1>2, <1>5, <1>9, <1>10, <1>11, <1>12 DEF RuntimeInv

\* What an install leaves of each connection: those it keeps, those it refuses,
\* those that failed, and those its entries had before.
LEMMA InstallKeeps ==
    ASSUME RuntimeInv, NEW o \in Ops, Install(o)
    PROVE  RuntimeInv' /\ Dangling'
<1> DEFINE good  == {c \in Mine(o) : conn[c].stage = "ok" /\ Current(c)}
           bad   == {c \in Mine(o) : conn[c].stage = "failed" /\ Current(c)}
           stale == {c \in Mine(o) : conn[c].stage = "ok"} \ good
           S == {conn[c].srv : c \in good \cup bad}
           lost == Taken(S)
           kept(c) == [conn[c] EXCEPT !.stage = "installed", !.by = None]
           refused(c) == [conn[c] EXCEPT !.stage = "stale", !.closed = TRUE]
           gone == [FreeConn EXCEPT !.stage = "released"]
           dropped(c) == [conn[c] EXCEPT !.stage = "dropped"]
           p == [op[o] EXCEPT !.pc = "stale", !.wait = stale]
           ready(s) == [entry[s] EXCEPT !.state = "ready",
                                        !.conn = CHOOSE c \in good : conn[c].srv = s]
           failed(s) == [entry[s] EXCEPT !.state = "failed", !.conn = 0]
<1>1. /\ Typed /\ Names(registry) /\ \A d \in Conns : ConnOK(d)
      /\ \A s \in Servers : EntryOK(s)
      /\ \A q \in Ops : OpOK(q)
      /\ op[o] \in OpRecords
      /\ \A c \in Conns : conn[c] \in ConnRecords
  BY DEF RuntimeInv, Typed
<1>2. /\ op[o].pc = "launch"
      /\ \A c \in Mine(o) : conn[c].stage \in {"ok", "failed"}
      /\ UNCHANGED <<world, trust, closing, opened, gens, decisions>>
  BY DEF Install
<1>3. /\ good \subseteq Mine(o) /\ bad \subseteq Mine(o) /\ stale \subseteq Mine(o)
      /\ Mine(o) \subseteq Conns
      /\ \A c \in Mine(o) : conn[c].by = o
      /\ \A c \in good \cup stale : conn[c].stage = "ok"
      /\ \A c \in bad : conn[c].stage = "failed"
      /\ \A c \in good : c \notin stale
      /\ \A c \in good \cup bad : ~closing /\ entry[conn[c].srv].gen = conn[c].gen
  BY DEF Mine, Current
<1>4. \A c, d \in Mine(o) : conn[c].srv = conn[d].srv => c = d
  BY <1>1, <1>2 DEF OpOK, Starts
<1>5. \A c \in Mine(o) : /\ conn[c].srv \in Servers /\ conn[c].gen \in 1 .. gens
                         /\ conn[c].print \in Prints
                         /\ entry[conn[c].srv].gen = conn[c].gen =>
                               entry[conn[c].srv].print = conn[c].print
  <2>1. ASSUME NEW c \in Mine(o)
        PROVE  Stands(conn[c].srv, conn[c].gen, conn[c].print)
    BY <1>1, <1>2, <1>3 DEF ConnOK
  <2> QED
    BY <2>1 DEF Stands
<1>6. S \in SUBSET Servers
  BY <1>3, <1>5
<1>7. \A c \in lost : /\ c \in Conns /\ conn[c].stage = "installed" /\ conn[c].by = None
                      /\ conn[c].srv \in S /\ entry[conn[c].srv].conn = c /\ c \notin Mine(o)
  <2> SUFFICES ASSUME NEW c \in Conns, NEW s \in S, entry[s].conn = c
               PROVE  /\ conn[c].stage = "installed" /\ conn[c].by = None
                      /\ conn[c].srv \in S /\ entry[conn[c].srv].conn = c /\ c \notin Mine(o)
    BY DEF Taken
  <2>1. c # 0 /\ s \in Servers
    BY <1>6, ConnsAssumption
  <2>2. Serves(s, c)
    BY <1>1, <2>1 DEF EntryOK
  <2>3. conn[c].stage = "installed" /\ conn[c].srv = s /\ conn[c].by = None
    BY <1>1, <2>2 DEF Serves, ConnOK, ConnShape, Ownerless
  <2> QED
    BY <1>2, <2>3
<1>8. UNION {ConnOf(conn[c].srv) : c \in good \cup bad} = lost
  <2>1. UNION {ConnOf(s) : s \in S} = Taken(S)
    BY <1>6, TakenIs
  <2>2. UNION {ConnOf(conn[c].srv) : c \in good \cup bad} = UNION {ConnOf(s) : s \in S}
    OBVIOUS
  <2> QED
    BY <2>1, <2>2
<1>9. /\ entry' = [s \in Servers |->
            IF \E c \in good : conn[c].srv = s THEN ready(s)
            ELSE IF \E c \in bad : conn[c].srv = s THEN failed(s) ELSE entry[s]]
      /\ registry' = Relisting(SetToSeq(good))[Cardinality(good)]
  BY DEF Install
<1>10. op' = [op EXCEPT ![o] = p]
  BY <1>1 DEF Install, Typed
<1> DEFINE base == [c \in Conns |->
            IF c \in good THEN [conn[c] EXCEPT !.stage = "installed", !.by = None]
            ELSE IF c \in stale THEN Told(stale, "stale")[c]
            ELSE IF c \in Mine(o) THEN [FreeConn EXCEPT !.stage = "released"]
            ELSE Drop(lost)[c]]
<1>11. conn' = LetGo(base)
  BY <1>8 DEF Install
<1>12. \A c \in Conns :
          base[c] = IF c \in good THEN kept(c)
                    ELSE IF c \in stale THEN refused(c)
                    ELSE IF c \in Mine(o) THEN gone
                    ELSE IF c \in lost THEN dropped(c)
                    ELSE conn[c]
  <2> HIDE DEF good, stale, lost
  <2>1. \A c \in Conns : Told(stale, "stale")[c] = IF c \in stale THEN refused(c) ELSE conn[c]
    BY DEF Told
  <2>2. \A c \in Conns : Drop(lost)[c] = IF c \in lost THEN dropped(c) ELSE conn[c]
    BY DEF Drop
  <2> QED
    BY <2>1, <2>2
<1>13. DOMAIN base = Conns /\ base = [c \in Conns |-> base[c]]
  OBVIOUS
<1> HIDE DEF good, bad, stale, S, lost, base
<1>14. \A c \in Conns :
          /\ kept(c) \in ConnRecords /\ kept(c).stage = "installed" /\ kept(c).by = None
          /\ kept(c).srv = conn[c].srv /\ kept(c).gen = conn[c].gen
          /\ kept(c).print = conn[c].print
  BY <1>1 DEF ConnRecords, Stages
<1>15. \A c \in Conns :
          /\ refused(c) \in ConnRecords /\ refused(c).stage = "stale" /\ refused(c).closed
          /\ refused(c).by = conn[c].by
          /\ refused(c).srv = conn[c].srv /\ refused(c).gen = conn[c].gen
          /\ refused(c).print = conn[c].print
  BY <1>1 DEF ConnRecords, Stages
<1>16. \A c \in Conns : /\ dropped(c) \in ConnRecords /\ dropped(c).stage = "dropped"
                        /\ Alike(dropped(c), conn[c]) /\ Alike(conn[c], conn[c])
  BY <1>1 DEF ConnRecords, Stages, Alike
<1>17. gone \in ConnRecords /\ gone.stage = "released" /\ gone.by = None /\ ~gone.alive
  BY DEF FreeConn, ConnRecords, Stages, Listed, None
<1> HIDE DEF kept, refused, dropped, gone
<1>18. /\ conn' \in [Conns -> ConnRecords]
       /\ \A c \in Conns : /\ Alike(conn'[c], base[c]) /\ conn'[c].stage = base[c].stage
                           /\ base[c].closed => conn'[c].closed
                           /\ base[c].stage # "dropped" => conn'[c] = base[c]
       /\ Dangling'
  <2>1. \A c \in Conns : base[c] \in ConnRecords
    BY <1>1, <1>12, <1>14, <1>15, <1>16, <1>17
  <2>2. base \in [Conns -> ConnRecords]
    BY <1>13, <2>1
  <2> QED
    BY <1>11, <2>2, LetGoIs, LetGoDangles
\* What is left of each connection.
<1>34. /\ \A c \in good : conn'[c] = kept(c)
       /\ \A c \in stale : conn'[c] = refused(c)
       /\ \A c \in Mine(o) \ (good \cup stale) : conn'[c] = gone
       /\ \A c \in lost : conn'[c].stage = "dropped" /\ Alike(conn'[c], conn[c])
       /\ \A c \in Conns \ (Mine(o) \cup lost) :
             /\ conn'[c].stage = conn[c].stage /\ Alike(conn'[c], conn[c])
             /\ conn[c].closed => conn'[c].closed
  <2>1. ASSUME NEW c \in good
        PROVE  conn'[c] = kept(c)
    BY <1>3, <1>12, <1>14, <1>18
  <2>2. ASSUME NEW c \in stale
        PROVE  conn'[c] = refused(c)
    BY <1>3, <1>12, <1>15, <1>18
  <2>3. ASSUME NEW c \in Mine(o) \ (good \cup stale)
        PROVE  conn'[c] = gone
    BY <1>3, <1>12, <1>17, <1>18
  <2>4. ASSUME NEW c \in lost
        PROVE  conn'[c].stage = "dropped" /\ Alike(conn'[c], conn[c])
    <3>1. c \in Conns /\ base[c] = dropped(c)
      BY <1>3, <1>7, <1>12
    <3> QED
      BY <1>16, <1>18, <3>1 DEF Alike
  <2>5. ASSUME NEW c \in Conns \ (Mine(o) \cup lost)
        PROVE  /\ conn'[c].stage = conn[c].stage /\ Alike(conn'[c], conn[c])
               /\ conn[c].closed => conn'[c].closed
    <3>1. base[c] = conn[c]
      BY <1>3, <1>12
    <3> QED
      BY <1>18, <3>1
  <2> QED
    BY <2>1, <2>2, <2>3, <2>4, <2>5
<1>19. /\ p \in OpRecords /\ p.pc = "stale" /\ p.wait = stale /\ p.kind = op[o].kind
       /\ p.srv = op[o].srv /\ p.res = op[o].res
  <2>1. "stale" \in Pcs /\ stale \in SUBSET Conns
    BY <1>3 DEF Pcs
  <2> QED
    BY <1>1, <2>1 DEF OpRecords
<1> HIDE DEF p
<1>20. /\ op' \in [Ops -> OpRecords] /\ op'[o] = p
       /\ \A q \in Ops \ {o} : op'[q] = op[q]
  BY <1>1, <1>10, <1>19 DEF Typed

<1>21. \A c \in good : (CHOOSE d \in good : conn[d].srv = conn[c].srv) = c
  BY <1>3, <1>4
<1>22. ASSUME NEW c \in good
       PROVE  /\ entry'[conn[c].srv].conn = c /\ entry'[conn[c].srv].state = "ready"
              /\ entry'[conn[c].srv] \in Entries
              /\ entry'[conn[c].srv].gen = entry[conn[c].srv].gen
              /\ entry'[conn[c].srv].print = entry[conn[c].srv].print
              /\ entry'[conn[c].srv].by = entry[conn[c].srv].by
  <2> DEFINE s == conn[c].srv
             e == [entry[s] EXCEPT !.state = "ready", !.conn = c]
  <2>1. s \in Servers /\ c \in Conns /\ entry[s] \in Entries
    BY <1>1, <1>3, <1>5 DEF Typed
  <2>2. entry'[s] = ready(s)
    BY <1>9, <2>1
  <2>3. ready(s) = e
    BY <1>21
  <2>4. /\ e \in Entries /\ e.conn = c /\ e.state = "ready" /\ e.gen = entry[s].gen
        /\ e.print = entry[s].print /\ e.by = entry[s].by
    BY <2>1 DEF Entries, EntryStates
  <2> HIDE DEF e, ready, s
  <2> QED
    BY <2>2, <2>3, <2>4 DEF s
<1>23. ASSUME NEW c \in bad
       PROVE  /\ entry'[conn[c].srv].conn = 0 /\ entry'[conn[c].srv].state = "failed"
              /\ entry'[conn[c].srv] \in Entries
              /\ entry'[conn[c].srv].gen = entry[conn[c].srv].gen
              /\ entry'[conn[c].srv].print = entry[conn[c].srv].print
              /\ entry'[conn[c].srv].by = entry[conn[c].srv].by
  <2> DEFINE s == conn[c].srv
             e == failed(s)
  <2>1. s \in Servers /\ c \in Conns /\ entry[s] \in Entries
    BY <1>1, <1>3, <1>5 DEF Typed
  <2>2. ~\E d \in good : conn[d].srv = s
    BY <1>3, <1>4
  <2>3. entry'[s] = e
    BY <1>9, <2>1, <2>2
  <2>4. /\ e \in Entries /\ e.conn = 0 /\ e.state = "failed" /\ e.gen = entry[s].gen
        /\ e.print = entry[s].print /\ e.by = entry[s].by
    BY <2>1 DEF Entries, EntryStates
  <2> HIDE DEF e, s
  <2> QED
    BY <2>3, <2>4 DEF s
<1>24. \A s \in Servers \ S : entry'[s] = entry[s]
  BY <1>9 DEF S
<1>25. \A s \in Servers : /\ entry'[s] \in Entries /\ entry'[s].gen = entry[s].gen
                          /\ entry'[s].print = entry[s].print /\ entry'[s].by = entry[s].by
  <2>1. ASSUME NEW s \in S
        PROVE  /\ entry'[s] \in Entries /\ entry'[s].gen = entry[s].gen
               /\ entry'[s].print = entry[s].print /\ entry'[s].by = entry[s].by
    <3>1. PICK c \in good \cup bad : s = conn[c].srv
      BY DEF S
    <3> QED
      BY <1>22, <1>23, <3>1
  <2>2. \A s \in Servers : entry[s] \in Entries
    BY <1>1 DEF Typed
  <2> QED
    BY <1>24, <2>1, <2>2
<1>26. entry' \in [Servers -> Entries]
  BY <1>9, <1>25
<1>27. Typed'
  BY <1>1, <1>2, <1>18, <1>20, <1>26 DEF Typed, world
<1>28. Names(registry')
  <2>1. IsFiniteSet(good)
    BY <1>3, ConnsAssumption, FS_Subset
  <2>2. \A c \in good : conn[c].srv \in Servers /\ conn[c].list \in Listed
    BY <1>1, <1>3, <1>5 DEF ConnRecords
  <2>3. Names(Relisting(SetToSeq(good))[Cardinality(good)])
    BY <1>1, <2>1, <2>2, RelistedIs
  <2> QED
    BY <1>9, <2>3
<1>29. \A c \in Conns : /\ conn'[c].stage # "released" =>
                              /\ conn'[c].srv = conn[c].srv /\ conn'[c].gen = conn[c].gen
                              /\ conn'[c].print = conn[c].print
                        /\ c \notin Mine(o) \cup lost =>
                              /\ conn'[c].stage = conn[c].stage /\ conn'[c].by = conn[c].by
                              /\ conn'[c].srv = conn[c].srv /\ conn'[c].gen = conn[c].gen
                              /\ conn'[c].print = conn[c].print /\ conn'[c].alive = conn[c].alive
                              /\ conn[c].closed => conn'[c].closed
  BY <1>3, <1>14, <1>15, <1>17, <1>34 DEF Alike
<1>30. ASSUME NEW s \in Servers
       PROVE  EntryOK(s)'
  <2>1. EntryOK(s) /\ gens' = gens /\ closing' = closing
    BY <1>1, <1>2
  <2>2. ASSUME NEW c \in good, s = conn[c].srv
        PROVE  EntryOK(s)'
    <3>1. /\ conn[c].gen \in 1 .. gens /\ conn[c].print \in Prints /\ c \in Conns /\ ~closing
          /\ entry[s].gen = conn[c].gen /\ entry[s].print = conn[c].print
      BY <1>3, <1>5, <2>2
    <3>2. conn'[c] = kept(c)
      BY <1>34
    <3>3. Serves(s, c)'
      BY <1>14, <1>25, <2>2, <3>1, <3>2 DEF Serves
    <3>4. entry'[s].conn = c /\ entry'[s].state = "ready"
      BY <1>22, <2>2
    <3>5. entry'[s].gen \in 0 .. gens' /\ entry'[s].gen > 0 /\ entry'[s].print \in Prints
      BY <1>25, <2>1, <3>1 DEF EntryOK
    <3> QED
      BY <2>1, <3>1, <3>3, <3>4, <3>5 DEF EntryOK
  <2>3. ASSUME NEW c \in bad, s = conn[c].srv
        PROVE  EntryOK(s)'
    <3>1. /\ conn[c].gen \in 1 .. gens /\ conn[c].print \in Prints
          /\ entry[s].gen = conn[c].gen /\ entry[s].print = conn[c].print
      BY <1>3, <1>5, <2>3
    <3>2. entry'[s].conn = 0
      BY <1>23, <2>3
    <3>3. entry'[s].gen \in 0 .. gens' /\ entry'[s].gen > 0 /\ entry'[s].print \in Prints
      BY <1>25, <2>1, <3>1 DEF EntryOK
    <3> QED
      BY <3>2, <3>3 DEF EntryOK
  <2>4. ASSUME s \notin S
        PROVE  EntryOK(s)'
    <3>1. entry'[s] = entry[s]
      BY <1>24, <2>4
    <3>2. ASSUME entry[s].conn # 0
          PROVE  Serves(s, entry[s].conn)'
      <4>1. Serves(s, entry[s].conn)
        BY <2>1, <3>2 DEF EntryOK
      <4>2. PICK c \in Conns : c = entry[s].conn
        BY <4>1 DEF Serves
      <4>3. Serves(s, c)
        BY <4>1, <4>2
      <4>4. c \notin Mine(o) \cup lost
        BY <1>2, <1>7, <2>4, <4>3 DEF Serves
      <4>5. /\ conn'[c].stage = conn[c].stage /\ conn'[c].srv = conn[c].srv
            /\ conn'[c].gen = conn[c].gen /\ conn'[c].print = conn[c].print
        BY <1>29, <4>2, <4>4
      <4> QED
        BY <3>1, <4>2, <4>3, <4>5 DEF Serves
    <3>3. gens' = gens /\ closing' = closing
      BY <2>1
    <3> QED
      BY <2>1, <3>1, <3>2, <3>3 DEF EntryOK
  <2> QED
    BY <2>2, <2>3, <2>4 DEF S
<1>31. ASSUME NEW c \in Conns
       PROVE  ConnOK(c)'
  <2>1. ConnOK(c) /\ conn[c].by \in Ops \cup {None} /\ gens' = gens
    BY <1>1, <1>2 DEF ConnRecords
  <2>2. conn[c].stage \notin {"free", "released"} =>
           /\ conn[c].srv \in Servers /\ conn[c].gen \in 1 .. gens' /\ conn[c].print \in Prints
           /\ entry'[conn[c].srv].gen = conn[c].gen => entry'[conn[c].srv].print = conn[c].print
    BY <1>25, <2>1 DEF ConnOK, Stands
  <2>3. c \in Mine(o) \cup lost => conn[c].stage \notin {"free", "released"}
    BY <1>2, <1>7
  <2>4. CASE c \in good
    <3>1. conn'[c] = kept(c)
      BY <1>34, <2>4
    <3>2. entry'[conn[c].srv].conn = c
      BY <1>22, <2>4
    <3>3. ConnShape(kept(c))
      BY <1>14 DEF ConnShape, Ownerless
    <3> QED
      BY <1>3, <1>14, <2>2, <2>3, <2>4, <3>1, <3>2, <3>3 DEF ConnOK, Stands
  <2>5. CASE c \in stale
    <3>1. conn'[c] = refused(c) /\ conn[c].by = o
      BY <1>3, <1>34, <2>5
    <3>2. ConnShape(refused(c))
      BY <1>15, <3>1, OpsAssumption DEF ConnShape, Ownerless, None
    <3> QED
      BY <1>3, <1>15, <1>19, <1>20, <2>2, <2>3, <2>5, <3>1, <3>2 DEF ConnOK, Stands
  <2>6. CASE c \in Mine(o) /\ c \notin good \cup stale
    <3>1. conn'[c] = gone
      BY <1>34, <2>6
    <3> QED
      BY <1>17, <3>1 DEF ConnOK, ConnShape, Ownerless
  <2>7. CASE c \in lost
    <3>1. /\ conn'[c].stage = "dropped" /\ conn'[c].by = None /\ conn'[c].srv = conn[c].srv
          /\ conn'[c].gen = conn[c].gen /\ conn'[c].print = conn[c].print
      BY <1>7, <1>34, <2>7 DEF Alike
    <3>2. ConnShape(conn[c])'
      BY <3>1 DEF ConnShape, Ownerless
    <3> QED
      BY <2>2, <2>3, <2>7, <3>1, <3>2 DEF ConnOK, Stands
  <2>8. CASE c \notin Mine(o) \cup lost
    <3>1. /\ conn'[c].stage = conn[c].stage /\ conn'[c].by = conn[c].by
          /\ conn'[c].srv = conn[c].srv /\ conn'[c].gen = conn[c].gen
          /\ conn'[c].print = conn[c].print /\ conn'[c].alive = conn[c].alive
          /\ conn[c].closed => conn'[c].closed
          /\ conn[c].by # o
      BY <1>29, <2>8 DEF Mine
    <3>2. conn[c].by # None => op'[conn[c].by] = op[conn[c].by]
      BY <1>20, <2>1, <3>1
    <3>3. ASSUME conn[c].stage = "installed"
          PROVE  entry'[conn[c].srv].conn = c
      <4>1. conn[c].srv \in Servers /\ entry[conn[c].srv].conn = c
        BY <2>1, <3>3 DEF ConnOK, Stands
      <4>2. conn[c].srv \notin S
        BY <2>8, <4>1 DEF lost, Taken
      <4> QED
        BY <1>24, <4>1, <4>2
    <3>4. ConnShape(conn[c])'
      BY <2>1, <3>1 DEF ConnOK, ConnShape
    <3> QED
      BY <2>1, <2>2, <3>1, <3>2, <3>3, <3>4 DEF ConnOK, Stands
  <2> QED
    BY <2>4, <2>5, <2>6, <2>7, <2>8
<1>32. OpOK(o)'
  <2>1. Releasing(o)'
    <3>1. \A c \in stale : conn'[c].stage = "stale" /\ conn'[c].by = o
      BY <1>3, <1>15, <1>34
    <3> QED
      BY <1>19, <1>20, <3>1 DEF Releasing
  <2>2. /\ op[o].kind \in Targeted => op[o].srv \in Servers
        /\ op[o].res \notin Deciding /\ op[o].res # "drained"
    BY <1>2, Targets
  <2> QED
    BY <1>19, <1>20, <2>1, <2>2
    DEF OpOK, Starts, Decides, Restarts, Refreshes, Calls, Ends
<1>33. ASSUME NEW q \in Ops \ {o}
       PROVE  OpOK(q)'
  <2>1. OpOK(q) /\ op[q] \in OpRecords
    BY <1>1 DEF Typed
  <2>2. Grows
    BY <1>1, <1>2, <1>25 DEF Grows, Typed
  <2>3. None # q
    BY OpsAssumption DEF None
  <2>4. ConnsStay(q)
    <3>1. ASSUME closing, Slots = {}
          PROVE  closing' /\ Slots' = {}
      <4>1. \A c \in Conns : conn[c].stage \notin Owned
        BY <3>1 DEF Slots
      <4>2. \A c \in Conns : conn'[c].stage \notin Owned
        <5>1. good = {} /\ stale = {}
          BY <1>3, <4>1 DEF Owned
        <5>2. \A c \in Mine(o) \cup lost : conn'[c].stage \in {"released", "dropped"}
          BY <1>17, <1>34, <5>1
        <5> QED
          BY <1>29, <4>1, <5>2 DEF Owned
      <4> QED
        BY <1>2, <3>1, <4>2 DEF Slots
    <3>2. \A c \in Conns : conn'[c].by = q <=> conn[c].by = q
      <4> SUFFICES ASSUME NEW c \in Conns
                   PROVE  conn'[c].by = q <=> conn[c].by = q
        OBVIOUS
      <4>1. CASE c \in Mine(o)
        BY <1>3, <1>14, <1>15, <1>17, <1>34, <2>3, <4>1
      <4>2. CASE c \in lost
        BY <1>7, <1>34, <2>3, <4>2 DEF Alike
      <4>3. CASE c \notin Mine(o) \cup lost
        BY <1>29, <4>3
      <4> QED
        BY <4>1, <4>2, <4>3
    <3>3. \A c \in Conns : conn[c].by = q =>
             conn'[c].srv = conn[c].srv /\ conn'[c].stage = conn[c].stage
      BY <1>3, <1>7, <1>29, <2>3
    <3>4. \A c \in Conns : conn[c].stage \in Final =>
             /\ conn'[c].stage \in Final
             /\ conn'[c].srv = conn[c].srv /\ conn'[c].gen = conn[c].gen
             /\ conn'[c].print = conn[c].print
      <4> SUFFICES ASSUME NEW c \in Conns, conn[c].stage \in Final
                   PROVE  /\ conn'[c].stage \in Final
                          /\ conn'[c].srv = conn[c].srv /\ conn'[c].gen = conn[c].gen
                          /\ conn'[c].print = conn[c].print
        OBVIOUS
      <4>1. c \notin Mine(o)
        BY <1>2 DEF Final
      <4>2. CASE c \in lost
        BY <1>34, <4>2 DEF Final, Alike
      <4>3. CASE c \notin lost
        BY <1>29, <4>1, <4>3
      <4> QED
        BY <4>2, <4>3
    <3> QED
      BY <1>2, <3>1, <3>2, <3>3, <3>4 DEF ConnsStay
  <2>5. NoDecision(q)
    BY <1>2, <1>25 DEF NoDecision
  <2>6. Stays(q)
    BY <1>20 DEF Stays
  <2> QED
    BY <2>1, <2>2, <2>4, <2>5, <2>6, OthersKeep
<1> QED
  BY <1>18, <1>27, <1>28, <1>30, <1>31, <1>32, <1>33 DEF RuntimeInv

-----------------------------------------------------------------------------
(* Handles.                                                                    *)

\* A step of a connection.
LEMMA ConnDangles ==
    ASSUME Dangling, op' = op,
           \A c \in Conns : conn'[c].stage = "dropped" /\ ~conn'[c].closed =>
                             conn[c].stage = "dropped" /\ ~conn[c].closed
    PROVE  Dangling'
<1> SUFFICES ASSUME NEW c \in Conns, conn'[c].stage = "dropped", ~conn'[c].closed
             PROVE  c \in Held'
  BY DEF Dangling
<1>1. PICK q \in Ops : c \in Handles(q)
  BY DEF Dangling, Held
<1>2. c \in Handles(q)'
  BY <1>1 DEF Handles, At
<1> QED
  BY <1>2 DEF Held

\* The steps that leave the connections alone.
LEMMA StillDangles ==
    ASSUME RuntimeInv, Dangling, NEW o \in Ops,
           \/ ReadFile(o) \/ ReadDecision(o) \/ ReadFails(o)
           \/ LookDecide(o) \/ CheckDecide(o) \/ Record(o) \/ Refused(o)
           \/ LookRestart(o) \/ ReadTrust(o) \/ Closed(o) \/ Pending(o)
           \/ LookRefresh(o) \/ Freeze(o) \/ Check(o) \/ ClosedShutdown(o)
    PROVE  Dangling'
<1>1. conn' = conn /\ op[o].pc \notin {"wait", "each", "discover", "relist"}
  BY DEF ReadFile, ReadDecision, ReadFails, LookDecide, CheckDecide, Record, Refused, LookRestart,
         ReadTrust, Closed, Pending, LookRefresh, Freeze, Check, ClosedShutdown, At
<1>2. op \in [Ops -> OpRecords]
  BY DEF RuntimeInv, Typed
<1>3. CASE ReadFile(o) \/ ReadDecision(o) \/ ReadFails(o)
  <2>1. \A q \in Ops \ {o} : op'[q] = op[q]
    BY <1>2, <1>3 DEF ReadFile, ReadDecision, ReadFails, Goto
  <2> QED
    BY <1>1, <2>1, HandsKept DEF Handles, At
<1>4. CASE LookDecide(o) \/ CheckDecide(o) \/ Record(o) \/ Refused(o)
  <2>1. \A q \in Ops \ {o} : op'[q] = op[q]
    BY <1>2, <1>4 DEF LookDecide, CheckDecide, Record, Refused, Goto, End
  <2> QED
    BY <1>1, <2>1, HandsKept DEF Handles, At
<1>5. CASE LookRestart(o) \/ ReadTrust(o) \/ Closed(o) \/ Pending(o)
  <2>1. \A q \in Ops \ {o} : op'[q] = op[q]
    BY <1>2, <1>5 DEF LookRestart, ReadTrust, Closed, Pending, Goto, End
  <2> QED
    BY <1>1, <2>1, HandsKept DEF Handles, At
<1>6. CASE LookRefresh(o) \/ Freeze(o) \/ Check(o) \/ ClosedShutdown(o)
  <2>1. \A q \in Ops \ {o} : op'[q] = op[q]
    BY <1>2, <1>6 DEF LookRefresh, Freeze, Check, ClosedShutdown
  <2> QED
    BY <1>1, <2>1, HandsKept DEF Handles, At
<1> QED
  BY <1>3, <1>4, <1>5, <1>6

\* The steps that close connections, or start and release them.
LEMMA CloseDangles ==
    ASSUME RuntimeInv, Dangling, NEW o \in Ops,
           \/ Load(o) \/ ApplyDecide(o) \/ ApplyRestart(o) \/ ApplyStop(o)
           \/ Reserve(o) \/ ReleaseStale(o) \/ ApplyShutdown(o) \/ Drain(o)
    PROVE  Dangling'
<1> DEFINE Less == \A c \in Conns : conn'[c].stage = "dropped" /\ ~conn'[c].closed =>
                                     conn[c].stage = "dropped" /\ ~conn[c].closed
           Others == \A q \in Ops \ {o} : op'[q] = op[q]
<1>1. /\ op \in [Ops -> OpRecords] /\ conn \in [Conns -> ConnRecords]
      /\ \A c \in Conns : conn[c] \in ConnRecords
  BY DEF RuntimeInv, Typed
<1>2. op[o].pc \notin {"wait", "each", "discover", "relist"}
  BY DEF Load, ApplyDecide, ApplyRestart, ApplyStop, Reserve, ReleaseStale, ApplyShutdown, Drain, At
<1>3. ASSUME NEW cs, conn' = Retire(cs)
      PROVE  Less
  BY <1>1, <1>3 DEF Retire, Told, ConnRecords
<1>4. ASSUME NEW cs, conn' = Close(cs)
      PROVE  Less
  BY <1>1, <1>4 DEF Close, ConnRecords
<1>5. CASE Load(o)
  <2>1. Less
    BY <1>3, <1>5 DEF Load
  <2>2. Others
    BY <1>1, <1>5 DEF Load
  <2> QED
    BY <1>2, <2>1, <2>2, HandsKept DEF Handles, At
<1>6. CASE ApplyDecide(o) \/ ApplyRestart(o) \/ ApplyStop(o)
  <2>1. (\E s, state : Move(o, s, state)) \/ (conn' = conn /\ Others)
    BY <1>1, <1>6 DEF ApplyDecide, ApplyRestart, ApplyStop, Goto
  <2>2. ASSUME NEW s, NEW state, Move(o, s, state)
        PROVE  Less /\ Others
    BY <1>1, <1>3, <2>2 DEF Move
  <2>3. Less /\ Others
    BY <2>1, <2>2
  <2> QED
    BY <1>2, <2>3, HandsKept DEF Handles, At
<1>7. CASE Reserve(o)
  <2>1. PICK i \in op[o].todo : \E c :
          /\ conn' = [conn EXCEPT ![c] =
                [FreeConn EXCEPT !.stage = IF closing THEN "failed" ELSE "reserved",
                                 !.srv = i.srv, !.print = i.print, !.gen = i.gen, !.by = o]]
          /\ op' = [op EXCEPT ![o].todo = @ \ {i}]
    BY <1>7 DEF Reserve
  <2>2. Less
    BY <1>1, <2>1 DEF FreeConn
  <2>3. Others
    BY <1>1, <2>1
  <2> QED
    BY <1>2, <2>2, <2>3, HandsKept DEF Handles, At
<1>8. CASE ReleaseStale(o)
  <2>1. Less
    BY <1>1, <1>8 DEF ReleaseStale, FreeConn
  <2>2. Others
    BY <1>1, <1>8 DEF ReleaseStale, End
  <2> QED
    BY <1>2, <2>1, <2>2, HandsKept DEF Handles, At
<1>9. CASE ApplyShutdown(o)
  <2>1. Less
    <3> DEFINE taken == UNION {ConnOf(s) : s \in Servers}
    <3>1. conn' = [c \in Conns |-> IF c \in taken THEN Retire(taken)[c] ELSE Close(Attached)[c]]
      BY <1>9 DEF ApplyShutdown
    <3> HIDE DEF taken
    <3>2. \A c \in Conns : \/ conn'[c] = conn[c]
                           \/ conn'[c].closed
      BY <1>1, <3>1 DEF Retire, Told, Close, ConnRecords
    <3> QED
      BY <3>2
  <2>2. Others
    BY <1>1, <1>9 DEF ApplyShutdown
  <2> QED
    BY <1>2, <2>1, <2>2, HandsKept DEF Handles, At
<1>10. CASE Drain(o)
  <2>1. Less
    BY <1>4, <1>10 DEF Drain
  <2>2. Others
    BY <1>1, <1>10 DEF Drain, End
  <2> QED
    BY <1>2, <2>1, <2>2, HandsKept DEF Handles, At
<1> QED
  BY <1>5, <1>6, <1>7, <1>8, <1>9, <1>10

\* The steps of no operation.
LEMMA WorldDangles ==
    ASSUME RuntimeInv, Dangling, op' = op,
           \/ \E c \in Conns : Launching(c) \/ Break(c) \/ ChildEnds(c) \/ ListChanges(c)
           \/ conn' = conn
    PROVE  Dangling'
<1>1. conn \in [Conns -> ConnRecords] /\ \A c \in Conns : conn[c] \in ConnRecords
  BY DEF RuntimeInv, Typed
<1>2. CASE conn' = conn
  BY <1>2, ConnDangles
<1>3. ASSUME NEW c \in Conns, Launching(c) \/ Break(c) \/ ChildEnds(c) \/ ListChanges(c)
      PROVE  \A d \in Conns : conn'[d].stage = "dropped" /\ ~conn'[d].closed =>
                               conn[d].stage = "dropped" /\ ~conn[d].closed
  <2>1. CASE Spawn(c) \/ SpawnFails(c) \/ Attach(c) \/ FinishFailed(c)
    BY <1>1, <2>1 DEF Spawn, SpawnFails, Attach, FinishFailed, Stage, ConnRecords
  <2>2. CASE Negotiated(c)
    BY <1>1, <2>2 DEF Negotiated, ConnRecords
  <2>3. CASE NegotiateFails(c)
    BY <1>1, <2>3 DEF NegotiateFails, Told, ConnRecords
  <2>4. CASE Break(c)
    BY <1>1, <2>4 DEF Break, Close, ConnRecords
  <2>5. CASE ChildEnds(c)
    <3> DEFINE k == [conn[c] EXCEPT !.alive = FALSE, !.list = <<>>, !.changed = FALSE]
    <3>1. conn' = [conn EXCEPT ![c] = k]
      BY <1>1, <2>5 DEF ChildEnds
    <3>2. k.stage = conn[c].stage /\ k.closed = conn[c].closed
      BY <1>1 DEF ConnRecords
    <3> HIDE DEF k
    <3> QED
      BY <1>1, <3>1, <3>2
  <2>6. CASE ListChanges(c)
    <3> DEFINE k(list) == [conn[c] EXCEPT !.list = list, !.changed = TRUE]
    <3>1. PICK list : conn' = [conn EXCEPT ![c] = k(list)]
      BY <1>1, <2>6 DEF ListChanges
    <3>2. k(list).stage = conn[c].stage /\ k(list).closed = conn[c].closed
      BY <1>1 DEF ConnRecords
    <3> HIDE DEF k
    <3> QED
      BY <1>1, <3>1, <3>2
  <2> QED
    BY <1>3, <2>1, <2>2, <2>3, <2>4, <2>5, <2>6 DEF Launching
<1> QED
  BY <1>2, <1>3, ConnDangles

\* A refresh goes on with what it holds.
LEMMA DiscoveredDangles ==
    ASSUME RuntimeInv, Dangling, NEW o \in Ops, Discovered(o)
    PROVE  Dangling'
<1> DEFINE seen == conn[op[o].ref.conn].list
           p == [op[o] EXCEPT !.pc = "relist", !.seen = seen]
<1>1. op \in [Ops -> OpRecords] /\ op[o] \in OpRecords /\ conn' = conn
      /\ op[o].kind = "refresh" /\ op[o].pc = "discover"
  BY DEF RuntimeInv, Typed, Discovered, At
<1>2. op' = [op EXCEPT ![o] = p]
  BY <1>1 DEF Discovered
<1>3. p.kind = "refresh" /\ p.pc = "relist" /\ p.todo = op[o].todo /\ p.ref = op[o].ref
  BY <1>1 DEF OpRecords
<1> HIDE DEF p
<1>4. op'[o] = p /\ \A q \in Ops \ {o} : op'[q] = op[q]
  BY <1>1, <1>2
<1> SUFFICES ASSUME NEW c \in Conns, conn[c].stage = "dropped", ~conn[c].closed
             PROVE  c \in Held'
  BY <1>1 DEF Dangling
<1>5. PICK q \in Ops : c \in Handles(q)
  BY DEF Dangling, Held
<1>6. c \in Handles(q)'
  <2>1. CASE q = o
    BY <1>1, <1>3, <1>4, <1>5, <2>1 DEF Handles, At
  <2>2. CASE q # o
    BY <1>4, <1>5, <2>2 DEF Handles, At
  <2> QED
    BY <2>1, <2>2
<1> QED
  BY <1>6 DEF Held

LEMMA BeginDangles ==
    ASSUME RuntimeInv, Dangling, NEW o \in Ops, NEW kind, Begin(o, kind)
    PROVE  Dangling'
<1>1. op \in [Ops -> OpRecords] /\ (\A q \in Ops : op[q] \in OpRecords) /\ op[o].pc = "idle" /\ conn' = conn
  BY DEF RuntimeInv, Typed, Begin
<1>2. \A q \in Ops \ {o} : op'[q] = op[q] \/ op'[q] = [op[q] EXCEPT !.cancelled = TRUE]
  BY <1>1 DEF Begin
<1>3. \A q \in Ops \ {o} :
          /\ op'[q].kind = op[q].kind /\ op'[q].pc = op[q].pc /\ op'[q].todo = op[q].todo
          /\ op'[q].wait = op[q].wait /\ op'[q].ref = op[q].ref
  BY <1>1, <1>2 DEF OpRecords
<1> QED
  BY <1>1, <1>3, HandsKept DEF Handles, At

-----------------------------------------------------------------------------
(* The invariant, and what follows from it.                                    *)

LEMMA RuntimeNext == RuntimeInv /\ [Next]_vars => RuntimeInv'
<1> SUFFICES ASSUME RuntimeInv, [Next]_vars
             PROVE  RuntimeInv'
  OBVIOUS
<1>1. ASSUME NEW o \in Ops, Step(o)
      PROVE  RuntimeInv'
  <2>1. CASE ReadFile(o) \/ ReadDecision(o) \/ ReadFails(o) \/ Load(o)
    BY <2>1, ReadFileKeeps, ReadDecisionKeeps, ReadFailsKeeps, LoadKeeps
  <2>2. CASE LookDecide(o) \/ CheckDecide(o) \/ Record(o) \/ ApplyDecide(o) \/ Refused(o)
    BY <2>2, LookDecideKeeps, CheckDecideKeeps, RecordKeeps, ApplyDecideKeeps, RefusedKeeps
  <2>3. CASE LookRestart(o) \/ ReadTrust(o) \/ ApplyRestart(o) \/ ApplyStop(o)
    BY <2>3, LookRestartKeeps, ReadTrustKeeps, ApplyRestartKeeps, ApplyStopKeeps
  <2>4. CASE Closed(o) \/ Pending(o) \/ Reserve(o) \/ Install(o) \/ ReleaseStale(o)
    BY <2>4, ClosedKeeps, PendingKeeps, ReserveKeeps, InstallKeeps, ReleaseStaleKeeps
  <2>5. CASE LookRefresh(o) \/ EachRefresh(o) \/ Discovered(o) \/ DiscoverFails(o) \/ RelistTools(o)
    BY <2>5, LookRefreshKeeps, EachRefreshKeeps, DiscoveredKeeps, DiscoverFailsKeeps,
       RelistToolsKeeps
  <2>6. CASE Freeze(o) \/ Check(o) \/ Answered(o) \/ CallFails(o)
    BY <2>6, FreezeKeeps, CheckKeeps, AnsweredKeeps, CallFailsKeeps
  <2>7. CASE ApplyShutdown(o) \/ ClosedShutdown(o) \/ Drain(o)
    BY <2>7, ApplyShutdownKeeps, ClosedShutdownKeeps, DrainKeeps
  <2> QED
    BY <1>1, <2>1, <2>2, <2>3, <2>4, <2>5, <2>6, <2>7 DEF Step
<1>2. ASSUME NEW o \in Ops, NEW kind \in AllKinds, Begin(o, kind)
      PROVE  RuntimeInv'
  BY <1>2, BeginKeeps
<1>3. ASSUME NEW c \in Conns, Launching(c) \/ Break(c) \/ ChildEnds(c) \/ ListChanges(c)
      PROVE  RuntimeInv'
  BY <1>3, LaunchingKeeps, BreakKeeps, ChildEndsKeeps, ListChangesKeeps
<1>4. CASE EditFile
  BY <1>4, EditFileKeeps
<1>5. CASE UNCHANGED vars
  <2>1. UNCHANGED <<file, edits, trust, entry, registry, closing, opened, gens, decisions, conn, op>>
    BY <1>5 DEF vars
  <2>2. Typed' /\ Names(registry)'
    BY <2>1 DEF RuntimeInv, Typed, Names
  <2>3. \A s \in Servers : EntryOK(s)'
    BY <2>1 DEF RuntimeInv, EntryOK, Serves
  <2>4. \A c \in Conns : ConnOK(c)'
    BY <2>1 DEF RuntimeInv, ConnOK, Stands
  <2>5. ASSUME NEW q \in Ops
        PROVE  OpOK(q)'
    <3>1. OpOK(q) /\ op[q] \in OpRecords /\ Typed
      BY OpIn
    <3>2. Grows
      BY <2>1, <3>1, SameGrows
    <3>3. ConnsStay(q)
      BY <2>1 DEF ConnsStay, Slots
    <3>4. NoDecision(q)
      BY <2>1 DEF NoDecision
    <3>5. Stays(q)
      BY <2>1 DEF Stays
    <3> QED
      BY <3>1, <3>2, <3>3, <3>4, <3>5, OthersKeep
  <2> QED
    BY <2>2, <2>3, <2>4, <2>5 DEF RuntimeInv
<1> QED
  BY <1>1, <1>2, <1>3, <1>4, <1>5 DEF Next

LEMMA DanglingNext == RuntimeInv /\ Dangling /\ [Next]_vars => Dangling'
<1> SUFFICES ASSUME RuntimeInv, Dangling, [Next]_vars
             PROVE  Dangling'
  OBVIOUS
<1>1. ASSUME NEW o \in Ops, Step(o)
      PROVE  Dangling'
  <2>1. CASE \/ ReadFile(o) \/ ReadDecision(o) \/ ReadFails(o)
             \/ LookDecide(o) \/ CheckDecide(o) \/ Record(o) \/ Refused(o)
             \/ LookRestart(o) \/ ReadTrust(o) \/ Closed(o) \/ Pending(o)
             \/ LookRefresh(o) \/ Freeze(o) \/ Check(o) \/ ClosedShutdown(o)
    BY <2>1, StillDangles
  <2>2. CASE \/ Load(o) \/ ApplyDecide(o) \/ ApplyRestart(o) \/ ApplyStop(o)
             \/ Reserve(o) \/ ReleaseStale(o) \/ ApplyShutdown(o) \/ Drain(o)
    BY <2>2, CloseDangles
  <2>3. CASE \/ EachRefresh(o) \/ DiscoverFails(o) \/ RelistTools(o)
             \/ Install(o) \/ Answered(o) \/ CallFails(o)
    BY <2>3, EachRefreshKeeps, DiscoverFailsKeeps, RelistToolsKeeps, InstallKeeps, AnsweredKeeps,
       CallFailsKeeps
  <2>4. CASE Discovered(o)
    BY <2>4, DiscoveredDangles
  <2> QED
    BY <1>1, <2>1, <2>2, <2>3, <2>4 DEF Step
<1>2. ASSUME NEW o \in Ops, NEW kind \in AllKinds, Begin(o, kind)
      PROVE  Dangling'
  BY <1>2, BeginDangles
<1>3. ASSUME NEW c \in Conns, Launching(c) \/ Break(c) \/ ChildEnds(c) \/ ListChanges(c)
      PROVE  Dangling'
  <2>1. op' = op
    BY <1>3 DEF Launching, Spawn, SpawnFails, Attach, Negotiated, NegotiateFails, FinishFailed,
                Stage, Break, ChildEnds, ListChanges
  <2> QED
    BY <1>3, <2>1, WorldDangles
<1>4. CASE EditFile \/ UNCHANGED vars
  BY <1>4, WorldDangles DEF EditFile, vars
<1> QED
  BY <1>1, <1>2, <1>3, <1>4 DEF Next

\* Both are inductive together: every theorem below reads its property off them.
LEMMA RuntimeAlways == Spec => [](RuntimeInv /\ Dangling)
<1>1. Init => RuntimeInv /\ Dangling
  <2>1. Init => Dangling
    BY DEF Init, Dangling, FreeConn
  <2> QED
    BY <2>1, RuntimeInit
<1>2. RuntimeInv /\ Dangling /\ [Next]_vars => RuntimeInv' /\ Dangling'
  BY RuntimeNext, DanglingNext
<1> QED
  BY <1>1, <1>2, PTL DEF Spec

(* Whatever reload, denial, stop or restart overtook the handshake, an outcome *)
(* reaches an entry only while it stands for the definition that was launched  *)
(* (start in mod.rs).                                                          *)
THEOREM CurrentIsInstalled == Spec => []OnlyCurrentInstalled
<1>1. RuntimeInv => OnlyCurrentInstalled
  <2> SUFFICES ASSUME RuntimeInv
               PROVE  OnlyCurrentInstalled
    OBVIOUS
  <2>1. TypeOK
    <3>1. \A t \in registry : t.srv \in Servers
      BY DEF RuntimeInv, Names, Tools
    <3>2. \A c \in Conns : conn[c].stage \in Stages /\ conn[c].by \in Ops \cup {None}
      BY DEF RuntimeInv, Typed, ConnRecords
    <3>3. \A o \in Ops : op[o].kind \in AllKinds \cup {None} /\ op[o].wait \subseteq Conns
      BY DEF RuntimeInv, Typed, OpRecords
    <3> QED
      BY <3>1, <3>2, <3>3 DEF RuntimeInv, Typed, TypeOK, Entries
  <2>2. \A s \in Servers : entry[s].conn # 0 => Serves(s, entry[s].conn)
    BY DEF RuntimeInv, EntryOK
  <2> QED
    BY <2>1, <2>2 DEF OnlyCurrentInstalled, Serves
<1> QED
  BY <1>1, RuntimeAlways, PTL

(* A call goes to a child of the definition and the generation the model was   *)
(* offered (tool_set and call in mod.rs), whatever reload, restart or decision *)
(* came between: the generation compared stands for one definition for good.   *)
THEOREM CallsReachFrozen == Spec => []CallReachesFrozen
<1>1. RuntimeInv => CallReachesFrozen
  BY DEF RuntimeInv, OpOK, Calls, CallReachesFrozen, At
<1> QED
  BY <1>1, RuntimeAlways, PTL

(* A recorded decision that did not apply was overtaken, and not by another    *)
(* decision (decide in mod.rs, under the decisions mutex).                     *)
THEOREM DecisionsAreSerial == Spec => []DecisionsSerial
<1>1. RuntimeInv => DecisionsSerial
  BY DEF RuntimeInv, OpOK, Ends, DecisionsSerial
<1> QED
  BY <1>1, RuntimeAlways, PTL

(* No child is left to itself: it has a slot, serves an entry, was told to     *)
(* stop, or is in the hands of a call or refresh that lets go of it when it    *)
(* ends (connect_inner, start, mark_lost, refresh and call in mod.rs).         *)
THEOREM ChildrenAreOwned == Spec => []EveryChildOwned
<1>1. RuntimeInv /\ Dangling => EveryChildOwned
  <2> SUFFICES ASSUME RuntimeInv, Dangling, NEW c \in Conns, conn[c].alive
               PROVE  \/ c \in Slots
                      \/ conn[c].stage = "installed" /\ entry[conn[c].srv].conn = c
                      \/ conn[c].closed
                      \/ conn[c].stage = "dropped" /\ c \in Held
    BY DEF EveryChildOwned
  <2>1. ConnOK(c) /\ conn[c].stage \in Stages
    BY ConnIn DEF ConnRecords
  <2> QED
    BY <2>1 DEF ConnOK, ConnShape, Stages, Slots, Owned, Dangling
<1> QED
  BY <1>1, RuntimeAlways, PTL

(* When shutdown has returned every launch has ended, and a child that lives   *)
(* was told to stop or is one a call or refresh still holds (shutdown in       *)
(* mod.rs).                                                                    *)
THEOREM ShutdownHasDrained == Spec => []ShutdownDrains
<1>1. RuntimeInv /\ Dangling => ShutdownDrains
  <2> SUFFICES ASSUME RuntimeInv, Dangling,
                      NEW o \in Ops, op[o].res = "drained", NEW c \in Conns
               PROVE  /\ c \notin Slots
                      /\ conn[c].alive =>
                            \/ conn[c].closed /\ conn[c].stage \in {"retired", "dropped"}
                            \/ conn[c].stage = "dropped" /\ c \in Held
    BY DEF ShutdownDrains
  <2>1. closing /\ Slots = {}
    BY OpIn DEF OpOK, Ends
  <2>2. ConnOK(c) /\ conn[c].stage \in Stages /\ \A s \in Servers : EntryOK(s)
    BY ConnIn DEF ConnRecords, RuntimeInv
  <2>3. conn[c].stage # "installed"
    BY <2>1, <2>2, ConnsAssumption DEF ConnOK, Stands, EntryOK
  <2> QED
    BY <2>1, <2>2, <2>3 DEF ConnOK, ConnShape, Stages, Slots, Owned, Dangling
<1> QED
  BY <1>1, RuntimeAlways, PTL

=============================================================================
