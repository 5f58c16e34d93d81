----------------------------- MODULE BookmarkProofs -----------------------------
(***************************************************************************)
(* What this device tells the account of its bookmarks, for any number of  *)
(* nodes, changes of the user and restarts: nothing another device created *)
(* (NoEcho), and every other bookmark exactly once (AnnouncedExactlyOnce). *)
(*                                                                         *)
(* Both speak of operations already created; the invariants follow the     *)
(* ways to one: an event in the queue or in a flush, a staged operation,   *)
(* and the import's list of nodes, which depends on the mappings still     *)
(* being there.                                                            *)
(***************************************************************************)
EXTENDS BookmarkCapture, SequenceTheorems, FiniteSetTheorems, WellFoundedInduction, TLAPS

EventRecord == [kind : {"created", "removed", "moved", "changed"}, n : Nat, p : Nat, in : SUBSET Nat]

\* A node the user made.
Native(n) == n \in 1 .. used /\ n \notin applied

\* Nodes that were removed from the browser.
Gone(S) == S \in SUBSET (1 .. used) /\ S \cap DOMAIN tree = {}

EventOk(e) ==
  /\ e.kind = "created" => Native(e.n)
  /\ e.kind = "removed" => Gone(e.in)

EventsOk(events) == events \in Seq(EventRecord) /\ \A k \in 1 .. Len(events) : EventOk(events[k])

IsList(s) == \E S : s \in Seq(S)

OpsOk(ops) ==
  IsList(ops) /\ \A k \in 1 .. Len(ops) : ops[k].kind = "create" => Native(ops[k].node)

SlotOk(f) ==
  /\ DOMAIN f = {"at", "events", "news", "dels", "ops"}
  /\ EventsOk(f.events) /\ OpsOk(f.ops) /\ Gone(f.dels)

NodesOk ==
  /\ used \in Nat /\ guard \in 0 .. used
  /\ applied \in SUBSET (1 .. used) /\ DOMAIN tree \in SUBSET (1 .. used)

FlushesOk == DOMAIN flush = Slots /\ \A i \in Slots : SlotOk(flush[i])

OutboxOk ==
  /\ IsList(outbox)
  /\ \A k \in 1 .. Len(outbox) :
       outbox[k].kind = "create" => outbox[k].node \in 1 .. used /\ outbox[k].node \notin applied \ twice

\* What the applier made is linked, or being linked.
LinkedOk ==
  \A n \in applied \cap DOMAIN tree :
    n = guard \/ n \in twice \/ (n \in DOMAIN map /\ map[n] \in moved)

\* Of what the applier made, the import lists only what it was busy with then;
\* what it waits for is not the applier's.
WalkOk ==
  /\ DOMAIN walk = DOMAIN Idle
  /\ \A n \in walk.owed : n \in 1 .. used /\ n \notin applied
  /\ walk.at = "walk" => /\ walk.todo \in SUBSET (1 .. used)
                         /\ \A n \in walk.todo \cap applied : n \in walk.busy \/ n \in twice

EchoInv ==
  NodesOk /\ EventsOk(queue) /\ FlushesOk /\ OutboxOk /\ LinkedOk /\ WalkOk

--------------------------------------------------------------------------------
(***************************************************************************)
(* Facts about data.                                                       *)
(***************************************************************************)
\* A nonempty set of naturals has a least element.
LEMMA FirstNumber ==
  ASSUME NEW T \in SUBSET Nat, T # {}
  PROVE  \E x \in T : \A y \in T : x <= y
<1>1. IsWellFoundedOn(OpToRel(<, Nat), Nat)
  BY NatLessThanWellFounded
<1>2. PICK x \in T : \A y \in T : <<y, x>> \notin OpToRel(<, Nat)
  BY <1>1, WFMin
<1>3. \A y \in T : x <= y
  <2>1. TAKE y \in T
  <2>2. <<y, x>> \notin OpToRel(<, Nat)
    BY <1>2
  <2>3. ~(y < x)
    BY <2>2 DEF OpToRel
  <2> QED  BY <2>3
<1> QED  BY <1>3

LEMMA ListFacts ==
  ASSUME NEW s, IsList(s)
  PROVE  /\ Len(s) \in Nat /\ DOMAIN s = 1 .. Len(s)
         /\ Range(s) = {s[k] : k \in 1 .. Len(s)}
<1>1. PICK S : s \in Seq(S)
  BY DEF IsList
<1> QED  BY <1>1 DEF Range

LEMMA AppendList ==
  ASSUME NEW s, IsList(s), NEW x
  PROVE  /\ IsList(Append(s, x)) /\ Len(s) \in Nat /\ Len(Append(s, x)) = Len(s) + 1
         /\ \A k \in 1 .. Len(s) : Append(s, x)[k] = s[k]
         /\ Append(s, x)[Len(s) + 1] = x
<1>1. PICK S : s \in Seq(S)
  BY DEF IsList
<1>2. s \in Seq(S \union {x})
  BY <1>1
<1>3. PICK T : T = S \union {x}
  OBVIOUS
<1>4. s \in Seq(T) /\ x \in T
  BY <1>2, <1>3
<1>5. /\ Append(s, x) \in Seq(T) /\ Len(s) \in Nat /\ Len(Append(s, x)) = Len(s) + 1
      /\ \A k \in 1 .. Len(s) : Append(s, x)[k] = s[k]
      /\ Append(s, x)[Len(s) + 1] = x
  BY <1>4, AppendProperties
<1> QED  BY <1>5 DEF IsList

LEMMA ConcatList ==
  ASSUME NEW s, NEW t, IsList(s), IsList(t)
  PROVE  /\ IsList(s \o t)
         /\ \A k \in 1 .. Len(s \o t) : \/ \E j \in 1 .. Len(s) : (s \o t)[k] = s[j]
                                        \/ \E j \in 1 .. Len(t) : (s \o t)[k] = t[j]
<1>1. PICK S, T : s \in Seq(S) /\ t \in Seq(T)
  BY DEF IsList
<1>2. PICK U : U = S \union T
  OBVIOUS
<1>3. s \in Seq(U) /\ t \in Seq(U)
  BY <1>1, <1>2
<1>4. /\ s \o t \in Seq(U) /\ Len(s \o t) = Len(s) + Len(t) /\ Len(s) \in Nat /\ Len(t) \in Nat
      /\ \A i \in 1 .. Len(s) + Len(t) : (s \o t)[i] = IF i <= Len(s) THEN s[i] ELSE t[i - Len(s)]
  BY <1>3, ConcatProperties
<1>5. \A i \in 1 .. Len(s \o t) : i \in 1 .. Len(s) \/ i - Len(s) \in 1 .. Len(t)
  BY <1>4
<1>6. \A i \in 1 .. Len(s \o t) : \/ \E j \in 1 .. Len(s) : (s \o t)[i] = s[j]
                                  \/ \E j \in 1 .. Len(t) : (s \o t)[i] = t[j]
  BY <1>4, <1>5
<1> QED  BY <1>4, <1>6 DEF IsList

(***************************************************************************)
(* A fold of StageOne goes through one accumulator per event.  First, the  *)
(* function that FoldLeft is defined with exists: by the least number of   *)
(* events for which it does not.                                           *)
(***************************************************************************)
FoldOf(near, base, events, m, g) ==
  g = [T \in SUBSET (1 .. m) |->
         IF T = {} THEN base ELSE StageOne(g[T \ {Max(T)}], events[Max(T)], near)]

LEMMA FoldExists ==
  ASSUME NEW near, NEW base, NEW events, NEW m \in Nat
  PROVE  \E g : FoldOf(near, base, events, m, g)
<1> DEFINE Bad == {k \in Nat : ~\E g : FoldOf(near, base, events, k, g)}
<1>1. Bad = {}
  <2> SUFFICES ASSUME Bad # {} PROVE FALSE
    OBVIOUS
  <2>1. PICK k \in Bad : \A j \in Bad : k <= j
    <3>1. Bad \in SUBSET Nat
      OBVIOUS
    <3> HIDE DEF Bad
    <3> QED  BY <3>1, FirstNumber
  <2>2. k \in Nat /\ ~\E g : FoldOf(near, base, events, k, g)
    OBVIOUS
  <2>3. k # 0
    <3> SUFFICES ASSUME k = 0 PROVE FALSE
      OBVIOUS
    <3>1. SUBSET (1 .. k) = {{}}
      OBVIOUS
    <3> DEFINE g == [T \in {{}} |-> base]
    <3>2. FoldOf(near, base, events, k, g)
      BY <3>1 DEF FoldOf
    <3> QED  BY <2>2, <3>2
  <2>4. k - 1 \in Nat /\ k - 1 \notin Bad
    <3> HIDE DEF Bad
    <3> QED  BY <2>1, <2>2, <2>3
  <2>5. PICK g : FoldOf(near, base, events, k - 1, g)
    BY <2>4
  <2>6. 1 .. k = (1 .. k - 1) \union {k} /\ k \notin 1 .. k - 1
    BY <2>2, <2>3
  <2>7. \A T \in SUBSET (1 .. k - 1) :
          g[T] = IF T = {} THEN base ELSE StageOne(g[T \ {Max(T)}], events[Max(T)], near)
    BY <2>5 DEF FoldOf
  <2> DEFINE h == [T \in SUBSET (1 .. k) |-> IF k \in T THEN StageOne(g[T \ {k}], events[k], near) ELSE g[T]]
  <2>8. \A T \in SUBSET (1 .. k - 1) : T \in SUBSET (1 .. k) /\ k \notin T /\ h[T] = g[T]
    BY <2>6
  <2>9. \A T \in SUBSET (1 .. k) : k \in T => Max(T) = k /\ T \ {k} \in SUBSET (1 .. k - 1)
    <3> SUFFICES ASSUME NEW T \in SUBSET (1 .. k), k \in T
                 PROVE  Max(T) = k /\ T \ {k} \in SUBSET (1 .. k - 1)
      OBVIOUS
    <3>1. \A y \in T : y \in Nat /\ k >= y
      BY <2>2
    <3>2. Max(T) \in T /\ \A y \in T : Max(T) >= y
      <4>1. \E x \in T : \A y \in T : x >= y
        BY <3>1
      <4> QED  BY <4>1 DEF Max
    <3>3. Max(T) = k
      <4>1. PICK x : x = Max(T)
        OBVIOUS
      <4>2. x \in T /\ x >= k
        BY <3>2, <4>1
      <4>3. x \in Nat /\ k >= x
        BY <3>1, <4>2
      <4> QED  BY <2>2, <4>1, <4>2, <4>3
    <3> QED  BY <2>6, <3>3
  <2>10. ASSUME NEW T \in SUBSET (1 .. k)
         PROVE  h[T] = IF T = {} THEN base ELSE StageOne(h[T \ {Max(T)}], events[Max(T)], near)
    <3>1. CASE k \in T
      <4>1. h[T] = StageOne(g[T \ {k}], events[k], near)
        BY <3>1
      <4>2. Max(T) = k /\ h[T \ {k}] = g[T \ {k}]
        BY <2>8, <2>9, <3>1
      <4> HIDE DEF h
      <4> QED  BY <3>1, <4>1, <4>2
    <3>2. CASE k \notin T
      <4>1. T \in SUBSET (1 .. k - 1) /\ T \ {Max(T)} \in SUBSET (1 .. k - 1)
        BY <2>6, <3>2
      <4>2. h[T] = g[T] /\ h[T \ {Max(T)}] = g[T \ {Max(T)}]
        BY <2>8, <4>1
      <4> HIDE DEF h
      <4> QED  BY <2>7, <4>1, <4>2
    <3> QED  BY <3>1, <3>2
  <2>11. DOMAIN h = SUBSET (1 .. k) /\ h = [T \in DOMAIN h |-> h[T]]
    OBVIOUS
  <2> HIDE DEF h
  <2>12. h = [T \in SUBSET (1 .. k) |->
                IF T = {} THEN base ELSE StageOne(h[T \ {Max(T)}], events[Max(T)], near)]
    BY <2>10, <2>11
  <2>13. FoldOf(near, base, events, k, h)
    BY <2>12 DEF FoldOf
  <2> QED  BY <2>2, <2>13
<1> QED  BY <1>1

LEMMA FoldSteps ==
  ASSUME NEW near, NEW events, NEW m \in Nat, DOMAIN events = 1 .. m
  PROVE  \E f : /\ f[0] = FlushCaches
                /\ \A k \in 1 .. m : f[k] = StageOne(f[k - 1], events[k], near)
                /\ f[m] = Staged(events, near)
<1>1. PICK base : base = FlushCaches
  OBVIOUS
<1> DEFINE g == CHOOSE g : FoldOf(near, base, events, m, g)
<1>2. FoldOf(near, base, events, m, g)
  BY FoldExists
<1>3. Staged(events, near) = g[1 .. m]
  BY <1>1 DEF Staged, FoldLeft, MapThenFoldSet, FoldOf
<1> HIDE DEF g
<1>4. \A T \in SUBSET (1 .. m) :
        g[T] = IF T = {} THEN base ELSE StageOne(g[T \ {Max(T)}], events[Max(T)], near)
  BY <1>2 DEF FoldOf
<1> DEFINE f == [k \in 0 .. m |-> g[1 .. k]]
<1>5. f[0] = base
  <2>1. 1 .. 0 = {} /\ 0 \in 0 .. m
    OBVIOUS
  <2> QED  BY <1>4, <2>1
<1>6. ASSUME NEW k \in 1 .. m PROVE f[k] = StageOne(f[k - 1], events[k], near)
  <2>1. /\ k \in 0 .. m /\ k - 1 \in 0 .. m /\ 1 .. k \in SUBSET (1 .. m) /\ 1 .. k # {}
        /\ (1 .. k) \ {k} = 1 .. k - 1
    <3>1. k \in Nat /\ 1 <= k /\ k <= m
      OBVIOUS
    <3>2. 1 .. k \in SUBSET (1 .. m) /\ k \in 1 .. k
      BY <3>1
    <3>3. \A j : j \in (1 .. k) \ {k} <=> j \in 1 .. k - 1
      BY <3>1
    <3> QED  BY <3>1, <3>2, <3>3
  <2>2. Max(1 .. k) = k
    <3>1. k \in 1 .. k /\ \A y \in 1 .. k : k >= y
      OBVIOUS
    <3>2. \E x \in 1 .. k : \A y \in 1 .. k : x >= y
      BY <3>1
    <3>3. Max(1 .. k) = CHOOSE x \in 1 .. k : \A y \in 1 .. k : x >= y
      BY DEF Max
    <3>4. Max(1 .. k) \in 1 .. k /\ \A y \in 1 .. k : Max(1 .. k) >= y
      BY <3>2, <3>3
    <3>5. Max(1 .. k) >= k /\ k >= Max(1 .. k) /\ Max(1 .. k) \in Int
      BY <3>1, <3>4
    <3> QED  BY <3>5
  <2>3. g[1 .. k] = StageOne(g[(1 .. k) \ {k}], events[k], near)
    BY <1>4, <2>1, <2>2
  <2> QED  BY <2>1, <2>3
<1>7. f[m] = g[1 .. m]
  OBVIOUS
<1> HIDE DEF f
<1> QED  BY <1>1, <1>3, <1>5, <1>6, <1>7

--------------------------------------------------------------------------------
(***************************************************************************)
(* What a flush stages: creations of the user's nodes, and the removal of  *)
(* mappings of nodes that are gone.                                        *)
(***************************************************************************)
AccFields == {"cache", "news", "dels", "ops", "next"}

AccOk(acc) == DOMAIN acc = AccFields /\ OpsOk(acc.ops) /\ Gone(acc.dels)

LEMMA MintsOk ==
  ASSUME NEW acc, AccOk(acc), NEW S
  PROVE  AccOk(Mints(acc, S))
<1>1. PICK ids, next :
        Mints(acc, S) = [acc EXCEPT !.cache = Over(ids, acc.cache), !.news = Over(ids, acc.news), !.next = next]
  BY DEF Mints, AccOk, AccFields
<1>2. /\ DOMAIN Mints(acc, S) = AccFields
      /\ Mints(acc, S).ops = acc.ops /\ Mints(acc, S).dels = acc.dels
  BY <1>1 DEF AccOk, AccFields
<1> QED  BY <1>2 DEF AccOk

LEMMA DoesOk ==
  ASSUME NEW acc, AccOk(acc), NEW kind, NEW e, NEW p, kind = "create" => Native(e.n)
  PROVE  AccOk(Does(acc, kind, e, p)) /\ Does(acc, kind, e, p).dels = acc.dels
<1>1. PICK op : op = [kind |-> kind, node |-> e.n, obj |-> IdOf(acc, e.n), parent |-> p]
  OBVIOUS
<1>2. op.kind = kind /\ op.node = e.n
  BY <1>1
<1>3. Does(acc, kind, e, p) = [acc EXCEPT !.ops = Append(acc.ops, op)]
  BY <1>1 DEF Does, AccOk, AccFields
<1>4. /\ DOMAIN Does(acc, kind, e, p) = AccFields
      /\ Does(acc, kind, e, p).ops = Append(acc.ops, op) /\ Does(acc, kind, e, p).dels = acc.dels
  BY <1>3 DEF AccOk, AccFields
<1>5. PICK s : s = acc.ops
  OBVIOUS
<1>6. IsList(s) /\ \A k \in 1 .. Len(s) : s[k].kind = "create" => Native(s[k].node)
  BY <1>5 DEF AccOk, OpsOk
<1>7. /\ IsList(Append(s, op)) /\ Len(s) \in Nat /\ Len(Append(s, op)) = Len(s) + 1
      /\ \A k \in 1 .. Len(s) : Append(s, op)[k] = s[k]
      /\ Append(s, op)[Len(s) + 1] = op
  BY <1>6, AppendList
<1>8. ASSUME NEW k \in 1 .. Len(Append(s, op)), Append(s, op)[k].kind = "create"
      PROVE  Native(Append(s, op)[k].node)
  <2>1. CASE k \in 1 .. Len(s)
    BY <1>6, <1>7, <1>8, <2>1
  <2>2. CASE k = Len(s) + 1
    BY <1>2, <1>7, <1>8, <2>2
  <2>3. k \in 1 .. Len(s) \/ k = Len(s) + 1
    BY <1>7
  <2> QED  BY <2>1, <2>2, <2>3
<1>9. OpsOk(Append(s, op))
  BY <1>7, <1>8 DEF OpsOk
<1> QED  BY <1>4, <1>5, <1>9 DEF AccOk

LEMMA StageOneOk ==
  ASSUME NEW acc, AccOk(acc), NEW e \in EventRecord, EventOk(e), NEW near
  PROVE  AccOk(StageOne(acc, e, near))
<1> DEFINE sib == {n \in near \cap DOMAIN tree : tree[n] = e.p} \ {e.n}
<1>1. PICK ids : AccOk(ids) /\ ids = Mints(acc, {e.n, e.p} \union (IF Exists(e.p) THEN sib ELSE {}))
  BY MintsOk
<1>2. PICK to : AccOk(to) /\ to = Mints(acc, {e.p} \union sib)
  BY MintsOk
<1>3. PICK fold : AccOk(fold) /\ fold = Mints(acc, {e.p})
  BY MintsOk
<1>4. PICK new : new = Does(ids, "create", e, IdOf(ids, e.p)) /\ (e.kind = "created" => AccOk(new))
  BY <1>1, DoesOk DEF EventOk
<1>5. PICK moving : moving = Does(to, "move", e, IdOf(to, e.p)) /\ AccOk(moving)
  BY <1>2, DoesOk
<1>6. PICK upd : upd = Does(acc, "update", e, 0) /\ AccOk(upd)
  BY DoesOk
<1>7. PICK del : del = Does(acc, "delete", e, 0) /\ AccOk(del)
  BY DoesOk
<1>8. PICK done : done = [del EXCEPT !.cache = Without(@, e.in), !.dels = @ \union e.in]
  OBVIOUS
<1>9. e.kind = "removed" => AccOk(done)
  <2> SUFFICES ASSUME e.kind = "removed" PROVE AccOk(done)
    OBVIOUS
  <2>1. DOMAIN done = AccFields /\ done.ops = del.ops /\ done.dels = del.dels \union e.in
    BY <1>7, <1>8 DEF AccOk, AccFields
  <2>2. Gone(e.in) /\ Gone(del.dels)
    BY <1>7 DEF EventOk, AccOk
  <2>3. Gone(done.dels)
    BY <2>1, <2>2 DEF Gone
  <2> QED  BY <1>7, <2>1, <2>3 DEF AccOk
<1> DEFINE known == e.n \in DOMAIN acc.cache
<1>10. StageOne(acc, e, near) =
        CASE e.kind = "created" /\ Exists(e.p) -> new
          [] e.kind = "created" /\ ~Exists(e.p) -> ids
          [] e.kind = "removed" /\ known -> done
          [] e.kind = "changed" /\ known /\ Exists(e.n) -> upd
          [] e.kind = "moved" /\ known /\ Exists(e.n) /\ Exists(e.p) -> moving
          [] e.kind = "moved" /\ known /\ Exists(e.n) /\ ~Exists(e.p) -> fold
          [] OTHER -> acc
  BY <1>1, <1>2, <1>3, <1>4, <1>5, <1>6, <1>7, <1>8, Zenon DEF StageOne
<1>11. CASE e.kind = "created"
  BY <1>1, <1>4, <1>10, <1>11
<1>12. CASE e.kind # "created"
  BY <1>2, <1>3, <1>5, <1>6, <1>9, <1>10, <1>12
<1> QED  BY <1>11, <1>12

LEMMA StagedOk ==
  ASSUME NodesOk, NEW events, EventsOk(events), NEW near
  PROVE  AccOk(Staged(events, near))
<1>1. PICK m \in Nat : m = Len(events) /\ DOMAIN events = 1 .. m
  BY DEF EventsOk
<1>2. PICK f : /\ f[0] = FlushCaches
               /\ \A k \in 1 .. m : f[k] = StageOne(f[k - 1], events[k], near)
               /\ f[m] = Staged(events, near)
  BY <1>1, FoldSteps
<1>3. \A k \in 1 .. m : events[k] \in EventRecord /\ EventOk(events[k])
  <2>1. events \in Seq(EventRecord) /\ \A k \in 1 .. m : EventOk(events[k])
    BY <1>1 DEF EventsOk
  <2> QED  BY <1>1, <2>1, ElementOfSeq
<1> DEFINE Bad == {k \in 0 .. m : ~AccOk(f[k])}
<1>4. AccOk(FlushCaches)
  <2>1. /\ DOMAIN FlushCaches = AccFields /\ FlushCaches.ops = << >> /\ FlushCaches.dels = {}
    BY DEF FlushCaches, AccFields
  <2>2. << >> \in Seq({}) /\ \A k \in 1 .. Len(<< >>) : FALSE
    OBVIOUS
  <2> QED  BY <2>1, <2>2 DEF AccOk, OpsOk, IsList, Gone
<1>5. Bad = {}
  <2> SUFFICES ASSUME Bad # {} PROVE FALSE
    OBVIOUS
  <2>1. PICK k \in Bad : \A j \in Bad : k <= j
    <3>1. Bad \in SUBSET Nat
      OBVIOUS
    <3> HIDE DEF Bad
    <3> QED  BY <3>1, FirstNumber
  <2>2. k \in 0 .. m /\ ~AccOk(f[k])
    OBVIOUS
  <2>3. k # 0
    BY <1>2, <1>4, <2>2
  <2>4. k \in 1 .. m /\ k - 1 \in 0 .. m /\ ~(k <= k - 1)
    BY <2>2, <2>3
  <2>5. AccOk(f[k - 1])
    BY <2>1, <2>4
  <2>6. AccOk(StageOne(f[k - 1], events[k], near))
    BY <1>3, <2>4, <2>5, StageOneOk
  <2> QED  BY <1>2, <2>2, <2>4, <2>6
<1>6. m \in 0 .. m
  OBVIOUS
<1> QED  BY <1>2, <1>5, <1>6

--------------------------------------------------------------------------------
(***************************************************************************)
(* The steps.                                                              *)
(***************************************************************************)
\* Nodes go, or one comes that was never there.
Onward ==
  /\ twice \subseteq twice'
  /\ \/ used' = used /\ applied' = applied /\ DOMAIN tree' \subseteq DOMAIN tree
     \/ /\ used' = used + 1 /\ DOMAIN tree' = DOMAIN tree \union {used + 1}
        /\ applied' \in {applied, applied \union {used + 1}}

LEMMA OnwardKeeps ==
  ASSUME EchoInv, Onward
  PROVE  /\ used' \in Nat /\ applied' \in SUBSET (1 .. used') /\ DOMAIN tree' \in SUBSET (1 .. used')
         /\ \A n \in 1 .. used : n \in 1 .. used'
         /\ \A e : EventOk(e) => EventOk(e)'
         /\ \A f : SlotOk(f) => SlotOk(f)'
         /\ outbox' = outbox => OutboxOk'
         /\ walk' = walk => WalkOk'
<1>1. used \in Nat /\ applied \in SUBSET (1 .. used) /\ DOMAIN tree \in SUBSET (1 .. used)
  BY DEF EchoInv, NodesOk
<1>2. used' \in {used, used + 1} /\ used + 1 \notin 1 .. used /\ \A n \in 1 .. used : n \in 1 .. used'
  BY <1>1 DEF Onward
<1>3. applied' \in SUBSET (1 .. used') /\ DOMAIN tree' \in SUBSET (1 .. used')
  <2>1. CASE used' = used /\ applied' = applied /\ DOMAIN tree' \subseteq DOMAIN tree
    BY <1>1, <2>1
  <2>2. CASE used' = used + 1 /\ DOMAIN tree' = DOMAIN tree \union {used + 1}
             /\ applied' \in {applied, applied \union {used + 1}}
    <3>1. used + 1 \in 1 .. used'
      BY <1>1, <2>2
    <3> QED  BY <1>1, <1>2, <2>2, <3>1
  <2> QED  BY <2>1, <2>2 DEF Onward
<1>4. \A n \in 1 .. used : (n \in applied' => n \in applied) /\ (n \in DOMAIN tree' => n \in DOMAIN tree)
  BY <1>2 DEF Onward
<1>5. \A n : Native(n) => Native(n)'
  BY <1>2, <1>4 DEF Native
<1>6. \A S : Gone(S) => Gone(S)'
  BY <1>2, <1>4 DEF Gone
<1>7. \A e : EventOk(e) => EventOk(e)'
  BY <1>5, <1>6 DEF EventOk
<1>8. \A s : EventsOk(s) => EventsOk(s)'
  BY <1>7 DEF EventsOk
<1>9. \A s : OpsOk(s) => OpsOk(s)'
  BY <1>5 DEF OpsOk
<1>10. \A f : SlotOk(f) => SlotOk(f)'
  BY <1>6, <1>8, <1>9 DEF SlotOk
<1>11. outbox' = outbox => OutboxOk'
  BY <1>2, <1>4 DEF EchoInv, OutboxOk, Onward
<1>12. walk' = walk => WalkOk'
  BY <1>2, <1>4 DEF EchoInv, WalkOk, Onward, Idle
<1> QED  BY <1>1, <1>2, <1>3, <1>7, <1>10, <1>11, <1>12

\* A step that leaves the flushes, the outbox and the walk alone.
LEMMA OnwardInv ==
  ASSUME EchoInv, Onward, UNCHANGED <<flush, outbox, walk>>, guard' \in 0 .. used',
         \/ queue' = queue
         \/ \E e \in EventRecord : EventOk(e)' /\ queue' = Append(queue, e),
         LinkedOk'
  PROVE  EchoInv'
<1>1. /\ used' \in Nat /\ applied' \in SUBSET (1 .. used') /\ DOMAIN tree' \in SUBSET (1 .. used')
      /\ \A e : EventOk(e) => EventOk(e)'
      /\ \A f : SlotOk(f) => SlotOk(f)'
      /\ OutboxOk' /\ WalkOk'
  BY OnwardKeeps
<1>2. FlushesOk'
  <2>1. DOMAIN flush' = Slots
    BY DEF EchoInv, FlushesOk
  <2>2. ASSUME NEW i \in Slots PROVE SlotOk(flush[i])'
    <3>1. PICK f : f = flush[i] /\ f = flush'[i]
      OBVIOUS
    <3>2. SlotOk(f)'
      BY <1>1, <3>1 DEF EchoInv, FlushesOk
    <3> QED  BY <3>1, <3>2 DEF SlotOk
  <2> QED  BY <2>1, <2>2 DEF FlushesOk
<1>3. EventsOk(queue)'
  <2>1. queue \in Seq(EventRecord) /\ \A k \in 1 .. Len(queue) : EventOk(queue[k])
    BY DEF EchoInv, EventsOk
  <2>2. PICK q \in Seq(EventRecord) : q = queue
    BY <2>1
  <2>3. \A k \in 1 .. Len(q) : EventOk(q[k])'
    BY <1>1, <2>1, <2>2
  <2>4. CASE queue' = queue
    <3>1. queue' = q
      BY <2>2, <2>4
    <3> QED  BY <2>3, <3>1 DEF EventsOk, EventOk
  <2>5. CASE \E e \in EventRecord : EventOk(e)' /\ queue' = Append(queue, e)
    <3>1. PICK e \in EventRecord : EventOk(e)' /\ queue' = Append(q, e)
      BY <2>2, <2>5
    <3>2. PICK r \in Seq(EventRecord) : r = Append(q, e)
      BY AppendProperties
    <3>3. Len(q) \in Nat /\ Len(r) = Len(q) + 1 /\ r[Len(q) + 1] = e /\ \A k \in 1 .. Len(q) : r[k] = q[k]
      BY <3>2, AppendProperties
    <3>4. ASSUME NEW k \in 1 .. Len(r) PROVE EventOk(r[k])'
      <4>1. k \in 1 .. Len(q) \/ k = Len(q) + 1
        BY <3>3
      <4>2. CASE k \in 1 .. Len(q)
        <5>1. r[k] = q[k]
          BY <3>3, <4>2
        <5> QED  BY <2>3, <4>2, <5>1
      <4>3. CASE k = Len(q) + 1
        <5>1. r[k] = e
          BY <3>3, <4>3
        <5> QED  BY <3>1, <5>1
      <4> QED  BY <4>1, <4>2, <4>3
    <3>5. queue' = r
      BY <3>1, <3>2
    <3> QED  BY <3>4, <3>5 DEF EventsOk, EventOk
  <2> QED  BY <2>4, <2>5
<1> QED  BY <1>1, <1>2, <1>3 DEF EchoInv, NodesOk

LEMMA UserInv ==
  ASSUME EchoInv, User
  PROVE  EchoInv'
<1>1. /\ used \in Nat /\ guard \in 0 .. used /\ applied \in SUBSET (1 .. used)
      /\ DOMAIN tree \in SUBSET (1 .. used) /\ DOMAIN tree \in SUBSET Nat
  BY DEF EchoInv, NodesOk
<1>2. UNCHANGED <<map, moved, outbox, flush, walk, guard, applied, twice>>
  BY DEF User
<1>3. ASSUME NEW e \in EventRecord, EventOk(e)', Fires(e)
      PROVE  \/ queue' = queue
             \/ \E x \in EventRecord : EventOk(x)' /\ queue' = Append(queue, x)
  BY <1>3 DEF Fires
<1>4. CASE \E p \in DOMAIN tree \union {0} :
             /\ used' = used + 1 /\ tree' = Over([n \in {used'} |-> p], tree)
             /\ Fires([kind |-> "created", n |-> used', p |-> p, in |-> {used'}])
  <2>1. PICK p \in DOMAIN tree \union {0} :
          /\ used' = used + 1 /\ tree' = Over([n \in {used'} |-> p], tree)
          /\ Fires([kind |-> "created", n |-> used', p |-> p, in |-> {used'}])
    BY <1>4
  <2>2. PICK u \in Nat : u = used' /\ u = used + 1
    BY <1>1, <2>1
  <2>3. DOMAIN tree' = DOMAIN tree \union {used + 1}
    <3>1. PICK t : t = tree
      OBVIOUS
    <3>2. tree' = Over([n \in {u} |-> p], t)
      BY <2>1, <2>2, <3>1
    <3>3. DOMAIN Over([n \in {u} |-> p], t) = DOMAIN t \union {u}
      BY DEF Over
    <3> QED  BY <2>2, <3>1, <3>2, <3>3
  <2>4. Onward
    BY <1>2, <2>2, <2>3 DEF Onward
  <2>5. PICK e \in EventRecord : e = [kind |-> "created", n |-> u, p |-> p, in |-> {u}]
    <3>1. p \in Nat
      BY <1>1
    <3> QED  BY <3>1 DEF EventRecord
  <2>6. EventOk(e)'
    <3>1. e.kind = "created" /\ e.n = u
      BY <2>5
    <3>2. u \in 1 .. used' /\ u \notin applied'
      BY <1>1, <1>2, <2>2
    <3> QED  BY <3>1, <3>2 DEF EventOk, Native
  <2>7. Fires(e)
    BY <2>1, <2>2, <2>5
  <2>8. LinkedOk'
    <3>1. \A n \in applied : n # used + 1
      BY <1>1
    <3> QED  BY <1>2, <2>3, <3>1 DEF EchoInv, LinkedOk
  <2>9. guard' \in 0 .. used'
    BY <1>1, <1>2, <2>2
  <2> QED  BY <1>2, <1>3, <2>4, <2>6, <2>7, <2>8, <2>9, OnwardInv
<1>5. ASSUME used' = used, DOMAIN tree' \subseteq DOMAIN tree, NEW e \in EventRecord, EventOk(e)', Fires(e)
      PROVE  EchoInv'
  <2>1. Onward
    BY <1>2, <1>5 DEF Onward
  <2>2. guard' \in 0 .. used'
    BY <1>1, <1>2, <1>5
  <2>3. LinkedOk'
    BY <1>2, <1>5 DEF EchoInv, LinkedOk
  <2> QED  BY <1>2, <1>3, <1>5, <2>1, <2>2, <2>3, OnwardInv
<1>6. CASE \E n \in DOMAIN tree :
             /\ used' = used /\ tree' = Without(tree, Subtree(n))
             /\ Fires([kind |-> "removed", n |-> n, p |-> 0, in |-> Subtree(n)])
  <2>1. PICK n \in DOMAIN tree :
          /\ used' = used /\ tree' = Without(tree, Subtree(n))
          /\ Fires([kind |-> "removed", n |-> n, p |-> 0, in |-> Subtree(n)])
    BY <1>6
  <2>2. PICK S : S = Subtree(n)
    OBVIOUS
  <2>3. S \in SUBSET (DOMAIN tree) /\ DOMAIN tree' = DOMAIN tree \ S
    BY <2>1, <2>2 DEF Subtree, Without
  <2>4. n \in Nat /\ S \in SUBSET Nat /\ S \in SUBSET (1 .. used')
    BY <1>1, <2>1, <2>3
  <2>5. PICK e \in EventRecord : e = [kind |-> "removed", n |-> n, p |-> 0, in |-> S]
    BY <2>4 DEF EventRecord
  <2>6. e.kind = "removed" /\ e.in = S
    BY <2>5
  <2>7. EventOk(e)'
    BY <2>3, <2>4, <2>6 DEF EventOk, Gone
  <2> QED  BY <1>5, <2>1, <2>2, <2>3, <2>5, <2>7
<1>7. CASE \E n \in DOMAIN tree : \E p \in DOMAIN tree \union {0} :
             /\ used' = used /\ tree' = [tree EXCEPT ![n] = p]
             /\ Fires([kind |-> "moved", n |-> n, p |-> p, in |-> {n}])
  <2>1. PICK n \in DOMAIN tree, p \in DOMAIN tree \union {0} :
          /\ used' = used /\ tree' = [tree EXCEPT ![n] = p]
          /\ Fires([kind |-> "moved", n |-> n, p |-> p, in |-> {n}])
    BY <1>7
  <2>2. PICK e \in EventRecord : e = [kind |-> "moved", n |-> n, p |-> p, in |-> {n}]
    <3>1. n \in Nat /\ p \in Nat
      BY <1>1
    <3> QED  BY <3>1 DEF EventRecord
  <2>3. EventOk(e)'
    BY <2>2 DEF EventOk
  <2> QED  BY <1>5, <2>1, <2>2, <2>3
<1>8. CASE \E n \in DOMAIN tree :
             /\ used' = used /\ tree' = tree
             /\ Fires([kind |-> "changed", n |-> n, p |-> 0, in |-> {n}])
  <2>1. PICK n \in DOMAIN tree :
          /\ used' = used /\ tree' = tree
          /\ Fires([kind |-> "changed", n |-> n, p |-> 0, in |-> {n}])
    BY <1>8
  <2>2. PICK e \in EventRecord : e = [kind |-> "changed", n |-> n, p |-> 0, in |-> {n}]
    <3>1. n \in Nat
      BY <1>1
    <3> QED  BY <3>1 DEF EventRecord
  <2>3. EventOk(e)'
    BY <2>2 DEF EventOk
  <2> QED  BY <1>5, <2>1, <2>2, <2>3
<1> QED  BY <1>4, <1>6, <1>7, <1>8 DEF User

LEMMA ApplyInv ==
  ASSUME EchoInv, ApplyCreate \/ ApplyLink
  PROVE  EchoInv'
<1>1. /\ used \in Nat /\ guard \in 0 .. used /\ applied \in SUBSET (1 .. used)
      /\ DOMAIN tree \in SUBSET (1 .. used)
  BY DEF EchoInv, NodesOk
<1>2. CASE ApplyCreate
  <2>1. PICK p : /\ used' = used + 1 /\ guard' = used + 1 /\ applied' = applied \union {used + 1}
                 /\ tree' = Over([n \in {used + 1} |-> p], tree)
                 /\ UNCHANGED <<map, moved, outbox, flush, walk, twice>> /\ guard = 0
    BY <1>2 DEF ApplyCreate
  <2>2. queue' = queue
    <3>1. Suppressed(guard')
      BY <1>1, <2>1 DEF Suppressed
    <3> QED  BY <1>2, <3>1 DEF ApplyCreate
  <2>3. DOMAIN tree' = DOMAIN tree \union {used + 1}
    <3>1. PICK u, t : u = used + 1 /\ t = tree
      OBVIOUS
    <3>2. tree' = Over([n \in {u} |-> p], t)
      BY <2>1, <3>1
    <3>3. DOMAIN Over([n \in {u} |-> p], t) = DOMAIN t \union {u}
      BY DEF Over
    <3> QED  BY <3>1, <3>2, <3>3
  <2>4. Onward /\ guard' \in 0 .. used'
    BY <1>1, <2>1, <2>3 DEF Onward
  <2>5. LinkedOk'
    <3>1. \A n \in applied : n # guard
      BY <1>1, <2>1
    <3>2. \A n \in applied' \cap DOMAIN tree' : n = guard' \/ n \in applied \cap DOMAIN tree
      BY <2>1, <2>3
    <3> QED  BY <2>1, <3>1, <3>2 DEF EchoInv, LinkedOk
  <2> QED  BY <2>1, <2>2, <2>4, <2>5, OnwardInv
<1>3. CASE ApplyLink
  <2>1. /\ map' = Over([n \in {guard} |-> -guard], map) /\ moved' = moved \union {-guard} /\ guard' = 0
        /\ UNCHANGED <<tree, outbox, queue, flush, walk, used, applied, twice>>
    BY <1>3 DEF ApplyLink
  <2>2. PICK g, o, m : g = guard /\ o = -guard /\ m = map
    OBVIOUS
  <2>3. DOMAIN map' = DOMAIN map \union {g} /\ map'[g] = o /\ \A n \in DOMAIN map : n # g => map'[n] = map[n]
    <3>1. map' = Over([n \in {g} |-> o], m)
      BY <2>1, <2>2
    <3>2. /\ DOMAIN Over([n \in {g} |-> o], m) = DOMAIN m \union {g}
          /\ Over([n \in {g} |-> o], m)[g] = o
          /\ \A y \in DOMAIN m : y # g => Over([n \in {g} |-> o], m)[y] = m[y]
      BY DEF Over
    <3> QED  BY <2>2, <3>1, <3>2, Zenon
  <2>4. Onward /\ guard' \in 0 .. used'
    BY <1>1, <2>1 DEF Onward
  <2>5. LinkedOk'
    BY <2>1, <2>2, <2>3 DEF EchoInv, LinkedOk
  <2> QED  BY <2>1, <2>4, <2>5, OnwardInv
<1> QED  BY <1>2, <1>3

LEMMA EmptyOk ==
  ASSUME NodesOk
  PROVE  EventsOk(<< >>) /\ OpsOk(<< >>) /\ Gone({}) /\ SlotOk(Free)
<1>1. EventsOk(<< >>)
  <2>1. << >> \in Seq(EventRecord) /\ \A k \in 1 .. Len(<< >>) : FALSE
    OBVIOUS
  <2> QED  BY <2>1 DEF EventsOk
<1>2. OpsOk(<< >>)
  <2>1. << >> \in Seq({}) /\ \A k \in 1 .. Len(<< >>) : FALSE
    OBVIOUS
  <2> QED  BY <2>1 DEF OpsOk, IsList
<1>3. Gone({})
  BY DEF Gone
<1>4. /\ DOMAIN Free = {"at", "events", "news", "dels", "ops"}
      /\ Free.events = << >> /\ Free.ops = << >> /\ Free.dels = {}
  BY DEF Free
<1> QED  BY <1>1, <1>2, <1>3, <1>4 DEF SlotOk

\* The applier's links survive a step that keeps them, or counts the node.
Links ==
  \A n \in applied \cap DOMAIN tree :
    n \in DOMAIN map /\ map[n] \in moved => \/ n \in twice'
                                            \/ n \in DOMAIN map' /\ map'[n] \in moved'

\* A step that leaves the nodes alone.
LEMMA QuietInv ==
  ASSUME EchoInv, UNCHANGED <<used, applied, tree, guard>>, twice \subseteq twice', Links,
         FlushesOk', queue' = queue \/ queue' = << >>,
         outbox' = outbox \/ OutboxOk', walk' = walk \/ WalkOk'
  PROVE  EchoInv'
<1>1. Onward
  BY DEF Onward
<1>2. OutboxOk' /\ WalkOk'
  BY <1>1, OnwardKeeps
<1>3. NodesOk'
  BY DEF EchoInv, NodesOk
<1>4. LinkedOk'
  BY DEF EchoInv, LinkedOk, Links
<1>5. EventsOk(queue)'
  <2>1. CASE queue' = queue
    BY <2>1 DEF EchoInv, EventsOk, EventOk, Native, Gone
  <2>2. CASE queue' = << >>
    <3>1. queue' \in Seq(EventRecord) /\ \A k \in 1 .. Len(queue') : FALSE
      BY <2>2
    <3> QED  BY <3>1 DEF EventsOk
  <2> QED  BY <2>1, <2>2
<1> QED  BY <1>2, <1>3, <1>4, <1>5 DEF EchoInv

\* One flush goes on, or nothing happens to the flushes.
LEMMA SlotKeeps ==
  ASSUME EchoInv, UNCHANGED <<used, applied, tree>>, twice \subseteq twice',
         \/ flush' = flush
         \/ \E i \in Slots : \E f : SlotOk(f) /\ flush' = [flush EXCEPT ![i] = f]
  PROVE  FlushesOk'
<1>1. Onward
  BY DEF Onward
<1>2. \A f : SlotOk(f) => SlotOk(f)'
  BY <1>1, OnwardKeeps
<1>3. DOMAIN flush = Slots /\ \A j \in Slots : SlotOk(flush[j])
  BY DEF EchoInv, FlushesOk
<1>4. DOMAIN flush' = Slots
  BY <1>3
<1>5. ASSUME NEW j \in Slots PROVE SlotOk(flush[j])'
  <2>1. PICK g : g = flush'[j] /\ SlotOk(g)
    BY <1>3
  <2>2. SlotOk(g)'
    BY <1>2, <2>1
  <2> QED  BY <2>1, <2>2 DEF SlotOk
<1> QED  BY <1>4, <1>5 DEF FlushesOk

\* Only the place in the code changes.
LEMMA SlotMoves ==
  ASSUME NEW f, SlotOk(f), NEW at
  PROVE  SlotOk([f EXCEPT !.at = at])
<1>1. PICK g : g = [f EXCEPT !.at = at]
  OBVIOUS
<1>2. DOMAIN g = DOMAIN f /\ g.events = f.events /\ g.ops = f.ops /\ g.dels = f.dels
  BY <1>1 DEF SlotOk
<1> QED  BY <1>1, <1>2 DEF SlotOk

LEMMA TakesInv ==
  ASSUME EchoInv, NEW i \in Slots, TakesQueue(i),
         UNCHANGED <<tree, map, moved, outbox, guard, used, applied>>, walk' = walk \/ WalkOk'
  PROVE  EchoInv'
<1>1. PICK f : f = [Free EXCEPT !.at = "stage", !.events = queue] /\ flush' = [flush EXCEPT ![i] = f]
  BY DEF TakesQueue
<1>2. /\ DOMAIN f = {"at", "events", "news", "dels", "ops"}
      /\ f.events = queue /\ f.ops = << >> /\ f.dels = {}
  BY <1>1 DEF Free
<1>3. SlotOk(f)
  BY <1>2, EmptyOk DEF SlotOk, EchoInv
<1>4. twice \subseteq twice' /\ queue' = << >>
  BY DEF TakesQueue
<1>5. FlushesOk'
  BY <1>1, <1>3, <1>4, SlotKeeps
<1>6. Links
  BY DEF Links
<1> QED  BY <1>4, <1>5, <1>6, QuietInv

LEMMA DrainInv ==
  ASSUME EchoInv, FlushTimer \/ WalkDrain
  PROVE  EchoInv'
<1>1. CASE FlushTimer
  BY <1>1, TakesInv DEF FlushTimer
<1>2. CASE WalkDrain
  <2>2. UNCHANGED <<tree, map, moved, outbox, guard, used, applied>>
    BY <1>2 DEF WalkDrain
  <2>1. WalkOk'
    <3>1. PICK i : Drained(i)
      BY <1>2 DEF WalkDrain
    <3>2. DOMAIN walk' = DOMAIN Idle /\ walk'.at = "drained" /\ walk'.owed = Queued
      BY <3>1 DEF Drained, Idle
    <3>3. Range(queue) = {queue[k] : k \in 1 .. Len(queue)}
      BY ListFacts DEF EchoInv, EventsOk, IsList
    <3>4. \A n \in Queued : n \in 1 .. used /\ n \notin applied
      BY <3>3 DEF Queued, EchoInv, EventsOk, EventOk, Native
    <3> QED  BY <2>2, <3>2, <3>4 DEF WalkOk, Idle
  <2>3. CASE \E i \in Slots : TakesQueue(i)
    BY <2>1, <2>2, <2>3, TakesInv
  <2>4. CASE UNCHANGED <<queue, flush, twice>>
    <3>1. FlushesOk' /\ Links
      BY <2>2, <2>4, SlotKeeps DEF Links
    <3> QED  BY <2>1, <2>2, <2>4, <3>1, QuietInv
  <2> QED  BY <1>2, <2>3, <2>4 DEF WalkDrain
<1> QED  BY <1>1, <1>2

LEMMA StageInv ==
  ASSUME EchoInv, NEW i \in Slots, Stage(i)
  PROVE  EchoInv'
<1>1. EventsOk(flush[i].events)
  BY DEF EchoInv, FlushesOk, SlotOk
<1>2. PICK events : events = flush[i].events /\ EventsOk(events)
  BY <1>1
<1>3. PICK near, done, f :
        /\ done = Staged(events, near)
        /\ f = IF done.ops = << >> THEN Free
               ELSE [at |-> IF done.news # None THEN "maps" ELSE AfterMaps(done.dels),
                     events |-> events, news |-> done.news, dels |-> done.dels, ops |-> done.ops]
        /\ flush' = [flush EXCEPT ![i] = f]
  <2>1. PICK near :
          flush' = [flush EXCEPT ![i] =
            IF Staged(flush[i].events, near).ops = << >> THEN Free
            ELSE [at |-> IF Staged(flush[i].events, near).news # None THEN "maps"
                         ELSE AfterMaps(Staged(flush[i].events, near).dels),
                  events |-> @.events, news |-> Staged(flush[i].events, near).news,
                  dels |-> Staged(flush[i].events, near).dels, ops |-> Staged(flush[i].events, near).ops]]
    BY DEF Stage
  <2>2. PICK done : done = Staged(events, near)
    OBVIOUS
  <2>3. Staged(flush[i].events, near) = done
    BY <1>2, <2>2
  <2>4. flush' = [flush EXCEPT ![i] =
            IF done.ops = << >> THEN Free
            ELSE [at |-> IF done.news # None THEN "maps" ELSE AfterMaps(done.dels),
                  events |-> events, news |-> done.news, dels |-> done.dels, ops |-> done.ops]]
    BY <1>2, <2>1, <2>3
  <2> QED  BY <2>2, <2>4
<1>4. AccOk(done)
  BY <1>2, <1>3, StagedOk DEF EchoInv
<1>5. SlotOk(f)
  <2>1. CASE done.ops = << >>
    BY <1>3, <2>1, EmptyOk DEF EchoInv
  <2>2. CASE done.ops # << >>
    <3>1. /\ DOMAIN f = {"at", "events", "news", "dels", "ops"}
          /\ f.events = events /\ f.ops = done.ops /\ f.dels = done.dels
      BY <1>3, <2>2
    <3> QED  BY <1>2, <1>4, <3>1 DEF SlotOk, AccOk
  <2> QED  BY <2>1, <2>2
<1>6. UNCHANGED <<tree, map, moved, outbox, queue, walk, guard, used, applied, twice>>
  BY DEF Stage
<1>7. FlushesOk' /\ Links
  BY <1>3, <1>5, <1>6, SlotKeeps DEF Links
<1> QED  BY <1>6, <1>7, QuietInv

LEMMA MappingsInv ==
  ASSUME EchoInv, NEW i \in Slots, PutMappings(i) \/ DeleteMappings(i)
  PROVE  EchoInv'
<1>1. UNCHANGED <<tree, moved, outbox, queue, walk, guard, used, applied>> /\ twice \subseteq twice'
  BY DEF PutMappings, DeleteMappings
<1>2. PICK f : f = flush[i] /\ SlotOk(f)
  BY DEF EchoInv, FlushesOk
<1>3. FlushesOk'
  <2>1. PICK at : flush' = [flush EXCEPT ![i].at = at]
    BY DEF PutMappings, DeleteMappings
  <2>2. PICK g : g = [f EXCEPT !.at = at]
    OBVIOUS
  <2>3. flush' = [flush EXCEPT ![i] = g] /\ SlotOk(g)
    BY <1>2, <2>1, <2>2, SlotMoves
  <2> QED  BY <1>1, <2>3, SlotKeeps
<1>4. Links
  <2>1. CASE PutMappings(i)
    BY <1>1, <2>1 DEF PutMappings, Links, Over
  <2>2. CASE DeleteMappings(i)
    <3>1. map' = Without(map, f.dels) /\ f.dels \cap DOMAIN tree = {}
      BY <1>2, <2>2 DEF DeleteMappings, SlotOk, Gone
    <3> QED  BY <1>1, <3>1 DEF Links, Without
  <2> QED  BY <2>1, <2>2
<1> QED  BY <1>1, <1>3, <1>4, QuietInv

LEMMA OperationsInv ==
  ASSUME EchoInv, NEW i \in Slots, CreateOperations(i) \/ RecordStates(i)
  PROVE  EchoInv'
<1>1. UNCHANGED <<tree, map, queue, walk, guard, used, applied, twice>> /\ moved \subseteq moved'
  BY DEF CreateOperations, RecordStates
<1>2. Links
  BY <1>1 DEF Links
<1>3. PICK f : f = flush[i] /\ SlotOk(f)
  BY DEF EchoInv, FlushesOk
<1>4. CASE CreateOperations(i)
  <2>1. FlushesOk'
    <3>1. PICK g : g = [f EXCEPT !.at = "states"]
      OBVIOUS
    <3>2. flush' = [flush EXCEPT ![i] = g] /\ SlotOk(g)
      BY <1>3, <1>4, <3>1, SlotMoves DEF CreateOperations
    <3> QED  BY <1>1, <3>2, SlotKeeps
  <2>2. PICK s, t, r : s = outbox /\ t = f.ops /\ r = s \o t
    OBVIOUS
  <2>3. outbox' = r
    BY <1>3, <1>4, <2>2 DEF CreateOperations
  <2>4. /\ IsList(s) /\ IsList(t)
        /\ \A k \in 1 .. Len(s) : s[k].kind = "create" => s[k].node \in 1 .. used /\ s[k].node \notin applied \ twice
        /\ \A k \in 1 .. Len(t) : t[k].kind = "create" => Native(t[k].node)
    BY <1>3, <2>2 DEF EchoInv, OutboxOk, SlotOk, OpsOk
  <2>5. /\ IsList(r)
        /\ \A k \in 1 .. Len(r) : \/ \E j \in 1 .. Len(s) : r[k] = s[j]
                                  \/ \E j \in 1 .. Len(t) : r[k] = t[j]
    BY <2>2, <2>4, ConcatList
  <2>6. ASSUME NEW k \in 1 .. Len(r), r[k].kind = "create"
        PROVE  r[k].node \in 1 .. used /\ r[k].node \notin applied \ twice
    <3>1. CASE \E j \in 1 .. Len(s) : r[k] = s[j]
      BY <2>4, <2>6, <3>1
    <3>2. CASE \E j \in 1 .. Len(t) : r[k] = t[j]
      BY <2>4, <2>6, <3>2 DEF Native
    <3> QED  BY <2>5, <3>1, <3>2
  <2>7. OutboxOk'
    BY <1>1, <2>3, <2>5, <2>6 DEF OutboxOk
  <2> QED  BY <1>1, <1>2, <2>1, <2>7, QuietInv
<1>5. CASE RecordStates(i)
  <2>1. PICK g : g = Free /\ SlotOk(g)
    BY EmptyOk DEF EchoInv
  <2>2. flush' = [flush EXCEPT ![i] = g] /\ outbox' = outbox
    BY <1>5, <2>1 DEF RecordStates
  <2>3. FlushesOk'
    BY <1>1, <2>1, <2>2, SlotKeeps
  <2> QED  BY <1>1, <1>2, <2>2, <2>3, QuietInv
<1> QED  BY <1>4, <1>5

LEMMA WalkReadInv ==
  ASSUME EchoInv, WalkRead
  PROVE  EchoInv'
<1>1. UNCHANGED <<tree, map, moved, outbox, queue, flush, guard, used, applied, twice>>
  BY DEF WalkRead
<1>2. /\ DOMAIN walk' = DOMAIN Idle /\ walk'.todo = DOMAIN tree \ AlreadyMapped
      /\ guard \in walk'.busy /\ walk'.owed = walk.owed
  BY DEF WalkRead, Idle
<1>3. \A n \in walk'.todo \cap applied : n \in walk'.busy \/ n \in twice
  BY <1>2 DEF EchoInv, LinkedOk, AlreadyMapped, MappedChromiumIds
<1>4. WalkOk'
  BY <1>1, <1>2, <1>3 DEF WalkOk, Idle, EchoInv, NodesOk
<1>5. FlushesOk' /\ Links
  BY <1>1, SlotKeeps DEF Links
<1> QED  BY <1>1, <1>4, <1>5, QuietInv

LEMMA WalkCommitInv ==
  ASSUME EchoInv, WalkCommit
  PROVE  EchoInv'
<1>1. UNCHANGED <<tree, queue, flush, guard, used, applied>> /\ twice \subseteq twice' /\ moved \subseteq moved'
  BY DEF WalkCommit, CommitBookmarkBackfillBatch
<1>2. PICK n, obj, op :
        /\ walk.at = "walk" /\ n \in walk.todo /\ op.kind = "create" /\ op.node = n
        /\ map' = Over([x \in {n} |-> obj], map) /\ obj \in moved'
        /\ outbox' = Append(outbox, op)
        /\ walk' = [walk EXCEPT !.todo = @ \ {n}, !.ids = Over([x \in {n} |-> obj], @)]
        /\ n \in walk.busy /\ n \notin walk.owed => n \in twice'
  <2>1. PICK n \in walk.todo :
          /\ CommitBookmarkBackfillBatch(n, minted + 1,
               IF walk.place[n] = 0 THEN 0 ELSE walk.ids[walk.place[n]])
          /\ walk' = [walk EXCEPT !.todo = @ \ {n}, !.ids = Over([x \in {n} |-> minted + 1], @)]
          /\ twice' = IF Overtaken(n) THEN twice \union {n} ELSE twice
    BY DEF WalkCommit
  <2>2. PICK obj, p : obj = minted + 1 /\ p = IF walk.place[n] = 0 THEN 0 ELSE walk.ids[walk.place[n]]
    OBVIOUS
  <2>3. PICK op : op = [kind |-> "create", node |-> n, obj |-> obj, parent |-> p]
    OBVIOUS
  <2>4. op.kind = "create" /\ op.node = n
    BY <2>3
  <2>5. CommitBookmarkBackfillBatch(n, obj, p)
    BY <2>1, <2>2
  <2>6. map' = Over([x \in {n} |-> obj], map) /\ obj \in moved' /\ outbox' = Append(outbox, op)
    BY <2>3, <2>5 DEF CommitBookmarkBackfillBatch
  <2>7. n \in walk.busy /\ n \notin walk.owed => n \in twice'
    BY <2>1 DEF Overtaken
  <2>8. walk' = [walk EXCEPT !.todo = @ \ {n}, !.ids = Over([x \in {n} |-> obj], @)]
    BY <2>1, <2>2
  <2>9. walk.at = "walk"
    BY DEF WalkCommit
  <2> QED  BY <2>1, <2>4, <2>6, <2>7, <2>8, <2>9
<1>3. /\ DOMAIN walk = DOMAIN Idle /\ walk.todo \in SUBSET (1 .. used)
      /\ \A x \in walk.todo \cap applied : x \in walk.busy \/ x \in twice
      /\ \A x \in walk.owed : x \in 1 .. used /\ x \notin applied
  BY <1>2 DEF EchoInv, WalkOk
<1>4. WalkOk'
  <2>1. /\ DOMAIN walk' = DOMAIN Idle /\ walk'.todo = walk.todo \ {n} /\ walk'.busy = walk.busy
        /\ walk'.owed = walk.owed
    BY <1>2, <1>3 DEF Idle
  <2> QED  BY <1>1, <1>3, <2>1 DEF WalkOk, Idle
<1>5. OutboxOk'
  <2>1. PICK s, r : s = outbox /\ r = Append(s, op) /\ outbox' = r
    BY <1>2
  <2>2. /\ IsList(s)
        /\ \A k \in 1 .. Len(s) : s[k].kind = "create" => s[k].node \in 1 .. used /\ s[k].node \notin applied \ twice
    BY <2>1 DEF EchoInv, OutboxOk
  <2>3. /\ IsList(r) /\ Len(s) \in Nat /\ Len(r) = Len(s) + 1
        /\ \A k \in 1 .. Len(s) : r[k] = s[k]
        /\ r[Len(s) + 1] = op
    BY <2>1, <2>2, AppendList
  <2>4. n \in 1 .. used /\ n \notin applied \ twice'
    BY <1>1, <1>2, <1>3
  <2>5. ASSUME NEW k \in 1 .. Len(r), r[k].kind = "create"
        PROVE  r[k].node \in 1 .. used /\ r[k].node \notin applied \ twice'
    <3>1. CASE k \in 1 .. Len(s)
      BY <1>1, <2>2, <2>3, <2>5, <3>1
    <3>2. CASE k = Len(s) + 1
      BY <1>2, <2>3, <2>4, <3>2
    <3>3. k \in 1 .. Len(s) \/ k = Len(s) + 1
      BY <2>3
    <3> QED  BY <3>1, <3>2, <3>3
  <2> QED  BY <1>1, <2>1, <2>3, <2>5 DEF OutboxOk
<1>6. Links
  <2>1. \A x \in DOMAIN map : x \in DOMAIN map' /\ (map'[x] = map[x] \/ map'[x] = obj)
    BY <1>2 DEF Over
  <2> QED  BY <1>1, <1>2, <2>1 DEF Links
<1>7. FlushesOk'
  BY <1>1, SlotKeeps
<1> QED  BY <1>1, <1>4, <1>5, <1>6, <1>7, QuietInv

LEMMA WalkEndInv ==
  ASSUME EchoInv, WalkEnd
  PROVE  EchoInv'
<1>1. UNCHANGED <<tree, map, moved, outbox, queue, flush, guard, used, applied, twice>> /\ walk' = Idle
  BY DEF WalkEnd
<1>2. WalkOk'
  BY <1>1 DEF WalkOk, Idle
<1>3. FlushesOk' /\ Links
  BY <1>1, SlotKeeps DEF Links
<1> QED  BY <1>1, <1>2, <1>3, QuietInv

LEMMA CrashInv ==
  ASSUME EchoInv, Crash
  PROVE  EchoInv'
<1>1. /\ UNCHANGED <<tree, map, moved, outbox, used, applied>> /\ twice \subseteq twice'
      /\ guard # 0 => guard \in twice'
      /\ queue' = << >> /\ flush' = [i \in Slots |-> Free] /\ walk' = Idle /\ guard' = 0
  BY DEF Crash
<1>2. Onward
  BY <1>1 DEF Onward
<1>3. OutboxOk'
  BY <1>1, <1>2, OnwardKeeps
<1>4. NodesOk'
  BY <1>1 DEF EchoInv, NodesOk
<1>5. WalkOk'
  BY <1>1 DEF WalkOk, Idle
<1>6. LinkedOk'
  <2>1. \A n \in applied : n # 0
    BY DEF EchoInv, NodesOk
  <2> QED  BY <1>1, <2>1 DEF EchoInv, LinkedOk
<1>7. EventsOk(queue)'
  <2>1. queue' \in Seq(EventRecord) /\ \A k \in 1 .. Len(queue') : FALSE
    BY <1>1
  <2> QED  BY <2>1 DEF EventsOk
<1>8. FlushesOk'
  <2>1. PICK f : f = Free /\ SlotOk(f)
    BY EmptyOk DEF EchoInv
  <2>2. SlotOk(f)'
    BY <1>2, <2>1, OnwardKeeps
  <2>3. DOMAIN flush' = Slots /\ \A i \in Slots : flush'[i] = f
    BY <1>1, <2>1
  <2> QED  BY <2>2, <2>3 DEF FlushesOk, SlotOk
<1> QED  BY <1>3, <1>4, <1>5, <1>6, <1>7, <1>8 DEF EchoInv

LEMMA InitInv ==
  ASSUME Init
  PROVE  EchoInv
<1>1. /\ tree = [n \in 1 .. Before |-> IF n = 1 THEN 0 ELSE 1] /\ outbox = << >> /\ queue = << >>
      /\ flush = [i \in Slots |-> Free] /\ walk = Idle /\ guard = 0 /\ used = Before /\ applied = {}
  BY DEF Init
<1>2. NodesOk
  BY <1>1, CaptureAssumption DEF NodesOk
<1>3. EventsOk(queue) /\ FlushesOk
  BY <1>1, <1>2, EmptyOk DEF FlushesOk
<1>4. OutboxOk
  <2>1. outbox \in Seq({}) /\ \A k \in 1 .. Len(outbox) : FALSE
    BY <1>1
  <2> QED  BY <2>1 DEF OutboxOk, IsList
<1>5. LinkedOk
  BY <1>1 DEF LinkedOk
<1>6. WalkOk
  BY <1>1 DEF WalkOk, Idle
<1> QED  BY <1>2, <1>3, <1>4, <1>5, <1>6 DEF EchoInv

LEMMA StepInv ==
  ASSUME EchoInv, [Next]_vars
  PROVE  EchoInv'
<1>1. CASE UNCHANGED vars
  <2>1. UNCHANGED <<tree, map, moved, outbox, queue, flush, walk, guard, used, applied, twice>>
    BY <1>1 DEF vars
  <2>2. FlushesOk' /\ Links
    BY <2>1, SlotKeeps DEF Links
  <2> QED  BY <2>1, <2>2, QuietInv
<1>2. ASSUME NEW i \in Slots,
             Stage(i) \/ PutMappings(i) \/ DeleteMappings(i) \/ CreateOperations(i) \/ RecordStates(i)
      PROVE  EchoInv'
  BY <1>2, StageInv, MappingsInv, OperationsInv
<1>3. CASE User \/ ApplyCreate \/ ApplyLink \/ FlushTimer \/ Crash
  BY <1>3, UserInv, ApplyInv, DrainInv, CrashInv
<1>4. CASE WalkDrain \/ WalkRead \/ WalkCommit \/ WalkEnd
  BY <1>4, DrainInv, WalkReadInv, WalkCommitInv, WalkEndInv
<1> QED  BY <1>1, <1>2, <1>3, <1>4 DEF Next

(***************************************************************************)
(* Whatever the user does meanwhile, however the flushes and the import    *)
(* overlap and whenever the worker is killed, a bookmark the applier made  *)
(* is in no "create" operation of this device, unless two captures worked  *)
(* on it (guard.run, isSuppressed, the mapping written with its "move"     *)
(* record, and the import that passes over what is mapped).                *)
(***************************************************************************)
THEOREM NoEchoHolds == Spec => []NoEcho
<1>1. Init => EchoInv
  BY InitInv
<1>2. EchoInv /\ [Next]_vars => EchoInv'
  BY StepInv
<1>3. EchoInv => NoEcho
  <2> SUFFICES ASSUME EchoInv PROVE NoEcho
    OBVIOUS
  <2>1. PICK s : s = outbox
    OBVIOUS
  <2>2. Range(s) = {s[k] : k \in 1 .. Len(s)}
    BY <2>1, ListFacts DEF EchoInv, OutboxOk
  <2> QED  BY <2>1, <2>2 DEF EchoInv, OutboxOk, NoEcho
<1> QED  BY <1>1, <1>2, <1>3, PTL DEF Spec

--------------------------------------------------------------------------------
(***************************************************************************)
(* Every bookmark is announced exactly once.  Events of a node, creations  *)
(* in a list of operations, and the ids that nodes own.                    *)
(***************************************************************************)
Touches(events, n) == \E k \in 1 .. Len(events) : n \in events[k].in

CreatedIn(events, n) == \E k \in 1 .. Len(events) : events[k].kind = "created" /\ events[k].n = n

CreateOp(ops, n, a) ==
  \E k \in 1 .. Len(ops) : ops[k].kind = "create" /\ ops[k].node = n /\ ops[k].obj = a

InOps(ops, n, a) == \E k \in 1 .. Len(ops) : ops[k].node = n /\ ops[k].obj = a

LEMMA AppendEvents ==
  ASSUME NEW s, IsList(s), NEW e
  PROVE  /\ IsList(Append(s, e))
         /\ \A n : Touches(Append(s, e), n) <=> Touches(s, n) \/ n \in e.in
         /\ \A n : CreatedIn(Append(s, e), n) <=> CreatedIn(s, n) \/ (e.kind = "created" /\ e.n = n)
<1>1. PICK r : r = Append(s, e)
  OBVIOUS
<1>2. /\ IsList(r) /\ Len(s) \in Nat /\ Len(r) = Len(s) + 1
      /\ \A k \in 1 .. Len(s) : r[k] = s[k]
      /\ r[Len(s) + 1] = e
  BY <1>1, AppendList
<1>3. \A k : k \in 1 .. Len(r) <=> k \in 1 .. Len(s) \/ k = Len(s) + 1
  BY <1>2
<1>4. \A n : Touches(r, n) <=> Touches(s, n) \/ n \in e.in
  BY <1>2, <1>3 DEF Touches
<1>5. \A n : CreatedIn(r, n) <=> CreatedIn(s, n) \/ (e.kind = "created" /\ e.n = n)
  BY <1>2, <1>3 DEF CreatedIn
<1> QED  BY <1>1, <1>2, <1>4, <1>5

LEMMA AppendOps ==
  ASSUME NEW s, IsList(s), NEW op
  PROVE  /\ IsList(Append(s, op))
         /\ \A n, a : CreateOp(Append(s, op), n, a) <=>
              CreateOp(s, n, a) \/ (op.kind = "create" /\ op.node = n /\ op.obj = a)
         /\ \A n, a : InOps(Append(s, op), n, a) <=> InOps(s, n, a) \/ (op.node = n /\ op.obj = a)
<1>1. PICK r : r = Append(s, op)
  OBVIOUS
<1>2. /\ IsList(r) /\ Len(s) \in Nat /\ Len(r) = Len(s) + 1
      /\ \A k \in 1 .. Len(s) : r[k] = s[k]
      /\ r[Len(s) + 1] = op
  BY <1>1, AppendList
<1>3. \A k : k \in 1 .. Len(r) <=> k \in 1 .. Len(s) \/ k = Len(s) + 1
  BY <1>2
<1>4. \A n, a : CreateOp(r, n, a) <=> CreateOp(s, n, a) \/ (op.kind = "create" /\ op.node = n /\ op.obj = a)
  BY <1>2, <1>3 DEF CreateOp
<1>5. \A n, a : InOps(r, n, a) <=> InOps(s, n, a) \/ (op.node = n /\ op.obj = a)
  BY <1>2, <1>3 DEF InOps
<1> QED  BY <1>1, <1>2, <1>4, <1>5

\* What the outbox holds after a batch was appended.
LEMMA ConcatOps ==
  ASSUME NEW s, NEW t, IsList(s), IsList(t)
  PROVE  /\ IsList(s \o t) /\ Len(s) \in Nat /\ Len(t) \in Nat /\ Len(s \o t) = Len(s) + Len(t)
         /\ \A n, a : CreateOp(s \o t, n, a) <=> CreateOp(s, n, a) \/ CreateOp(t, n, a)
         /\ \A k \in 1 .. Len(s) : (s \o t)[k] = s[k]
         /\ \A n, a : CreateOp(t, n, a) => \E k \in Len(s) + 1 .. Len(s \o t) : (s \o t)[k].node = n
<1>1. PICK S, T : s \in Seq(S) /\ t \in Seq(T)
  BY DEF IsList
<1>2. PICK U : U = S \union T
  OBVIOUS
<1>3. s \in Seq(U) /\ t \in Seq(U)
  BY <1>1, <1>2
<1>4. /\ s \o t \in Seq(U) /\ Len(s \o t) = Len(s) + Len(t) /\ Len(s) \in Nat /\ Len(t) \in Nat
      /\ \A i \in 1 .. Len(s) + Len(t) : (s \o t)[i] = IF i <= Len(s) THEN s[i] ELSE t[i - Len(s)]
  BY <1>3, ConcatProperties
<1>5. PICK r : r = s \o t
  OBVIOUS
<1>6. /\ Len(r) = Len(s) + Len(t)
      /\ \A k \in 1 .. Len(s) : k \in 1 .. Len(r) /\ r[k] = s[k]
      /\ \A k \in 1 .. Len(t) : Len(s) + k \in Len(s) + 1 .. Len(r) /\ r[Len(s) + k] = t[k]
  <2>1. Len(r) = Len(s) + Len(t)
    BY <1>4, <1>5
  <2>2. ASSUME NEW k \in 1 .. Len(s) PROVE k \in 1 .. Len(r) /\ r[k] = s[k]
    <3>1. k \in 1 .. Len(s) + Len(t) /\ k <= Len(s)
      BY <1>4
    <3> QED  BY <1>4, <1>5, <3>1
  <2>3. ASSUME NEW k \in 1 .. Len(t) PROVE Len(s) + k \in Len(s) + 1 .. Len(r) /\ r[Len(s) + k] = t[k]
    <3>1. Len(s) + k \in 1 .. Len(s) + Len(t) /\ ~(Len(s) + k <= Len(s)) /\ Len(s) + k - Len(s) = k
      BY <1>4
    <3>2. r[Len(s) + k] = t[Len(s) + k - Len(s)]
      BY <1>4, <1>5, <3>1
    <3> QED  BY <1>4, <2>1, <3>1, <3>2
  <2> QED  BY <2>1, <2>2, <2>3
<1>7. \A k \in 1 .. Len(r) : k \in 1 .. Len(s) \/ \E j \in 1 .. Len(t) : k = Len(s) + j
  <2>1. ASSUME NEW k \in 1 .. Len(r), k \notin 1 .. Len(s) PROVE \E j \in 1 .. Len(t) : k = Len(s) + j
    <3>1. k - Len(s) \in 1 .. Len(t) /\ k = Len(s) + (k - Len(s))
      BY <1>4, <1>6, <2>1
    <3> QED  BY <3>1
  <2> QED  BY <2>1
<1>8. \A n, a : CreateOp(r, n, a) <=> CreateOp(s, n, a) \/ CreateOp(t, n, a)
  <2>1. ASSUME NEW n, NEW a, CreateOp(r, n, a) PROVE CreateOp(s, n, a) \/ CreateOp(t, n, a)
    <3>1. PICK k \in 1 .. Len(r) : r[k].kind = "create" /\ r[k].node = n /\ r[k].obj = a
      BY <2>1 DEF CreateOp
    <3>2. CASE k \in 1 .. Len(s)
      <4>1. r[k] = s[k]
        BY <1>6, <3>2
      <4> QED  BY <3>1, <3>2, <4>1 DEF CreateOp
    <3>3. ASSUME NEW j \in 1 .. Len(t), k = Len(s) + j PROVE CreateOp(t, n, a)
      <4>1. r[k] = t[j]
        BY <1>6, <3>3
      <4> QED  BY <3>1, <4>1 DEF CreateOp
    <3> QED  BY <1>7, <3>2, <3>3
  <2>2. ASSUME NEW n, NEW a, CreateOp(s, n, a) PROVE CreateOp(r, n, a)
    BY <1>6, <2>2 DEF CreateOp
  <2>3. ASSUME NEW n, NEW a, CreateOp(t, n, a) PROVE CreateOp(r, n, a)
    <3>1. PICK k \in 1 .. Len(t) : t[k].kind = "create" /\ t[k].node = n /\ t[k].obj = a
      BY <2>3 DEF CreateOp
    <3>2. Len(s) + k \in 1 .. Len(r) /\ r[Len(s) + k] = t[k]
      BY <1>4, <1>6
    <3> QED  BY <3>1, <3>2 DEF CreateOp
  <2> QED  BY <2>1, <2>2, <2>3
<1>9. ASSUME NEW n, NEW a, CreateOp(t, n, a) PROVE \E k \in Len(s) + 1 .. Len(r) : r[k].node = n
  BY <1>6, <1>9 DEF CreateOp
<1>10. IsList(r)
  BY <1>4, <1>5 DEF IsList
<1> QED  BY <1>4, <1>5, <1>6, <1>8, <1>9, <1>10

LEMMA SetToSeqFacts ==
  ASSUME NEW S, IsFiniteSet(S)
  PROVE  /\ Len(SetToSeq(S)) \in Nat /\ DOMAIN SetToSeq(S) = 1 .. Len(SetToSeq(S))
         /\ Range(SetToSeq(S)) = S
<1>1. PICK c \in Nat : c = Cardinality(S) /\ Bijection(1 .. c, S) # {}
  BY FS_CardinalityType DEF ExistsBijection
<1>2. \E f \in [1 .. c -> S] : IsInjective(f)
  BY <1>1 DEF Bijection, Injection
<1>3. PICK f : f = SetToSeq(S)
  OBVIOUS
<1>4. f \in [1 .. c -> S] /\ IsInjective(f)
  BY <1>1, <1>2, <1>3 DEF SetToSeq
<1>5. f \in Injection(1 .. c, S)
  BY <1>4 DEF Injection
<1>6. Cardinality(1 .. c) = c
  BY FS_Interval
<1>7. f \in Surjection(1 .. c, S)
  BY <1>1, <1>5, <1>6, FS_Injection
<1>8. Range(f) = S
  BY <1>4, <1>7 DEF Surjection, Range
<1>9. f \in Seq(S) /\ Len(f) = c
  BY <1>4
<1> QED  BY <1>3, <1>4, <1>8, <1>9

--------------------------------------------------------------------------------
(***************************************************************************)
(* The staging of a flush, once more: the ids it gives out, one creation   *)
(* for every "created" event, under the id the node has or gets.           *)
(***************************************************************************)
LEMMA MintsIs ==
  ASSUME NEW acc, DOMAIN acc = AccFields, acc.next \in Nat, NEW S, IsFiniteSet(S)
  PROVE  \E ids :
           /\ DOMAIN ids = S \ (DOMAIN acc.cache \union {0})
           /\ DOMAIN Mints(acc, S) = AccFields
           /\ Mints(acc, S).cache = Over(ids, acc.cache) /\ Mints(acc, S).news = Over(ids, acc.news)
           /\ Mints(acc, S).ops = acc.ops /\ Mints(acc, S).dels = acc.dels
           /\ Mints(acc, S).next \in Nat /\ acc.next <= Mints(acc, S).next
           /\ \A n \in DOMAIN ids : ids[n] \in Nat /\ acc.next < ids[n] /\ ids[n] <= Mints(acc, S).next
           /\ \A n, m \in DOMAIN ids : ids[n] = ids[m] => n = m
<1>1. PICK T : T = S \ (DOMAIN acc.cache \union {0})
  OBVIOUS
<1>2. IsFiniteSet(T)
  BY <1>1, FS_Difference
<1>3. PICK new : new = SetToSeq(T)
  OBVIOUS
<1>4. Len(new) \in Nat /\ DOMAIN new = 1 .. Len(new) /\ Range(new) = T
  BY <1>2, <1>3, SetToSeqFacts
<1>5. PICK ids : ids = [n \in Range(new) |-> acc.next + (CHOOSE k \in DOMAIN new : new[k] = n)]
  OBVIOUS
<1>6. Mints(acc, S) = [acc EXCEPT !.cache = Over(ids, @), !.news = Over(ids, @), !.next = @ + Len(new)]
  BY <1>1, <1>3, <1>5 DEF Mints
<1>7. /\ DOMAIN Mints(acc, S) = AccFields
      /\ Mints(acc, S).cache = Over(ids, acc.cache) /\ Mints(acc, S).news = Over(ids, acc.news)
      /\ Mints(acc, S).ops = acc.ops /\ Mints(acc, S).dels = acc.dels
      /\ Mints(acc, S).next = acc.next + Len(new)
  BY <1>6 DEF AccFields
<1>8. ASSUME NEW n \in DOMAIN ids
      PROVE  \E k \in 1 .. Len(new) : new[k] = n /\ ids[n] = acc.next + k
  <2>1. n \in Range(new) /\ ids[n] = acc.next + (CHOOSE k \in DOMAIN new : new[k] = n)
    BY <1>5
  <2>2. \E k \in DOMAIN new : new[k] = n
    BY <2>1 DEF Range
  <2>3. PICK k : k = CHOOSE j \in DOMAIN new : new[j] = n
    OBVIOUS
  <2>4. k \in DOMAIN new /\ new[k] = n
    BY <2>2, <2>3
  <2> QED  BY <1>4, <2>1, <2>3, <2>4
<1>9. \A n \in DOMAIN ids : ids[n] \in Nat /\ acc.next < ids[n] /\ ids[n] <= acc.next + Len(new)
  BY <1>4, <1>8
<1>10. ASSUME NEW n \in DOMAIN ids, NEW m \in DOMAIN ids, ids[n] = ids[m] PROVE n = m
  <2>1. PICK k \in 1 .. Len(new) : new[k] = n /\ ids[n] = acc.next + k
    BY <1>8
  <2>2. PICK j \in 1 .. Len(new) : new[j] = m /\ ids[m] = acc.next + j
    BY <1>8
  <2>3. k = j
    <3>1. k \in Nat /\ j \in Nat
      BY <1>4
    <3>2. PICK p \in Nat : p = acc.next
      OBVIOUS
    <3>3. ids[n] = p + k /\ ids[m] = p + j
      BY <2>1, <2>2, <3>2
    <3>4. p + k = p + j
      BY <1>10, <3>3
    <3> QED  BY <3>1, <3>4
  <2> QED  BY <2>1, <2>2, <2>3
<1>11. DOMAIN ids = S \ (DOMAIN acc.cache \union {0})
  BY <1>1, <1>4, <1>5
<1>12. Mints(acc, S).next \in Nat /\ acc.next <= Mints(acc, S).next
  BY <1>4, <1>7
<1> QED  BY <1>7, <1>9, <1>10, <1>11, <1>12

\* The node's id, by any of the accumulator's parts.
AccOwns(acc, n, o) ==
  \/ n \in DOMAIN acc.cache /\ acc.cache[n] = o
  \/ n \in DOMAIN acc.news /\ acc.news[n] = o
  \/ InOps(acc.ops, n, o)

Numbered(acc) ==
  /\ acc.next \in Nat /\ minted <= acc.next
  /\ \A n, o : AccOwns(acc, n, o) =>
       /\ n \in 1 .. used /\ o \in Int /\ o # 0 /\ o <= acc.next
       /\ o <= minted => n \in DOMAIN map /\ map[n] = o
  /\ \A n, m, o : AccOwns(acc, n, o) /\ AccOwns(acc, m, o) => n = m

\* Not removed by one of the first k events.
Intact(events, k, n) == \A j \in 1 .. k : ~(events[j].kind = "removed" /\ n \in events[j].in)

\* Where the id of an intact node is: in the mappings, or new.
Agreed(acc, events, k) ==
  \A n : Intact(events, k, n) =>
    /\ n \in DOMAIN map => n \in DOMAIN acc.cache /\ acc.cache[n] = map[n] /\ n \notin DOMAIN acc.news
    /\ n \notin DOMAIN map => /\ n \in DOMAIN acc.cache <=> n \in DOMAIN acc.news
                              /\ n \in DOMAIN acc.cache => acc.cache[n] = acc.news[n]
    /\ \A a : CreateOp(acc.ops, n, a) => n \in DOMAIN acc.cache /\ acc.cache[n] = a

Creating(acc, events, k) ==
  /\ \A n, a : CreateOp(acc.ops, n, a) =>
       /\ \E j \in 1 .. k : events[j].kind = "created" /\ events[j].n = n
       /\ n \in DOMAIN map => a = map[n]
  /\ \A n, a, b : CreateOp(acc.ops, n, a) /\ CreateOp(acc.ops, n, b) => a = b
  /\ \A n \in acc.dels : \E j \in 1 .. k : n \in events[j].in

AccIs(acc, events, k) ==
  /\ DOMAIN acc = AccFields /\ IsList(acc.ops)
  /\ Numbered(acc) /\ Agreed(acc, events, k) /\ Creating(acc, events, k)

LEMMA MintsKeeps ==
  ASSUME used \in Nat, minted \in Nat, NEW acc, NEW events, NEW k, AccIs(acc, events, k),
         NEW S \in SUBSET (0 .. used), IsFiniteSet(S)
  PROVE  /\ AccIs(Mints(acc, S), events, k) /\ Mints(acc, S).ops = acc.ops
         /\ \A n \in S : n # 0 => n \in DOMAIN Mints(acc, S).cache
         /\ DOMAIN acc.cache \subseteq DOMAIN Mints(acc, S).cache
<1>1. DOMAIN acc = AccFields /\ acc.next \in Nat
  BY DEF AccIs, Numbered
<1>2. PICK r : r = Mints(acc, S)
  OBVIOUS
<1>3. PICK ids :
        /\ DOMAIN ids = S \ (DOMAIN acc.cache \union {0})
        /\ DOMAIN r = AccFields
        /\ r.cache = Over(ids, acc.cache) /\ r.news = Over(ids, acc.news)
        /\ r.ops = acc.ops /\ r.dels = acc.dels
        /\ r.next \in Nat /\ acc.next <= r.next
        /\ \A n \in DOMAIN ids : ids[n] \in Nat /\ acc.next < ids[n] /\ ids[n] <= r.next
        /\ \A n, m \in DOMAIN ids : ids[n] = ids[m] => n = m
  BY <1>1, <1>2, MintsIs
<1>4. /\ DOMAIN r.cache = DOMAIN acc.cache \union DOMAIN ids
      /\ DOMAIN r.news = DOMAIN acc.news \union DOMAIN ids
      /\ \A n \in DOMAIN ids : r.cache[n] = ids[n] /\ r.news[n] = ids[n] /\ n \notin DOMAIN acc.cache
      /\ \A n \in DOMAIN acc.cache : r.cache[n] = acc.cache[n]
      /\ \A n \in DOMAIN acc.news : n \notin DOMAIN ids => r.news[n] = acc.news[n]
  <2>1. PICK c, w : c = acc.cache /\ w = acc.news
    OBVIOUS
  <2>2. DOMAIN ids \cap DOMAIN c = {} /\ r.cache = Over(ids, c) /\ r.news = Over(ids, w)
    BY <1>3, <2>1
  <2>3. /\ DOMAIN Over(ids, c) = DOMAIN c \union DOMAIN ids
        /\ DOMAIN Over(ids, w) = DOMAIN w \union DOMAIN ids
        /\ \A n \in DOMAIN ids : Over(ids, c)[n] = ids[n] /\ Over(ids, w)[n] = ids[n]
        /\ \A n \in DOMAIN c : n \notin DOMAIN ids => Over(ids, c)[n] = c[n]
        /\ \A n \in DOMAIN w : n \notin DOMAIN ids => Over(ids, w)[n] = w[n]
    BY DEF Over
  <2> QED  BY <2>1, <2>2, <2>3
<1>5. \A n, o : AccOwns(r, n, o) => AccOwns(acc, n, o) \/ (n \in DOMAIN ids /\ ids[n] = o)
  BY <1>3, <1>4 DEF AccOwns
<1>6. Numbered(r)
  <2>1. /\ minted <= acc.next
        /\ \A n, o : AccOwns(acc, n, o) =>
             /\ n \in 1 .. used /\ o \in Int /\ o # 0 /\ o <= acc.next
             /\ o <= minted => n \in DOMAIN map /\ map[n] = o
        /\ \A n, m, o : AccOwns(acc, n, o) /\ AccOwns(acc, m, o) => n = m
    BY DEF AccIs, Numbered
  <2>2. minted <= r.next
    BY <1>1, <1>3, <2>1
  <2>3. ASSUME NEW n, NEW o, AccOwns(r, n, o)
        PROVE  /\ n \in 1 .. used /\ o \in Int /\ o # 0 /\ o <= r.next
               /\ o <= minted => n \in DOMAIN map /\ map[n] = o
    <3>1. CASE AccOwns(acc, n, o)
      BY <1>1, <1>3, <2>1, <3>1
    <3>2. CASE n \in DOMAIN ids /\ ids[n] = o
      <4>1. n \in 1 .. used
        <5>1. n \in 0 .. used /\ n # 0
          BY <1>3, <3>2
        <5> QED  BY <5>1
      <4>2. o \in Nat /\ acc.next < o /\ o <= r.next
        BY <1>3, <3>2
      <4> QED  BY <1>1, <2>1, <4>1, <4>2
    <3> QED  BY <1>5, <2>3, <3>1, <3>2
  <2>4. ASSUME NEW n, NEW m, NEW o, AccOwns(r, n, o), AccOwns(r, m, o)
        PROVE  n = m
    <3>1. \A x : AccOwns(acc, x, o) => ~(o > acc.next)
      BY <1>1, <2>1
    <3>2. \A x \in DOMAIN ids : ids[x] = o => o > acc.next
      BY <1>1, <1>3
    <3> QED  BY <1>3, <1>5, <2>1, <2>4, <3>1, <3>2
  <2> QED  BY <1>3, <2>2, <2>3, <2>4 DEF Numbered
<1>7. Agreed(r, events, k)
  BY <1>3, <1>4 DEF AccIs, Agreed
<1>8. Creating(r, events, k)
  BY <1>3 DEF AccIs, Creating
<1>9. IsList(r.ops)
  BY <1>3 DEF AccIs
<1>10. (\A n \in S : n # 0 => n \in DOMAIN r.cache) /\ DOMAIN acc.cache \subseteq DOMAIN r.cache
  BY <1>3, <1>4
<1> QED  BY <1>2, <1>3, <1>6, <1>7, <1>8, <1>9, <1>10 DEF AccIs

LEMMA DoesIs ==
  ASSUME NEW acc, DOMAIN acc = AccFields, IsList(acc.ops), NEW kind, NEW e, NEW p, e.n # 0
  PROVE  LET r == Does(acc, kind, e, p)
         IN  /\ DOMAIN r = AccFields /\ IsList(r.ops)
             /\ r.cache = acc.cache /\ r.news = acc.news /\ r.dels = acc.dels /\ r.next = acc.next
             /\ \A n, a : CreateOp(r.ops, n, a) <=>
                  CreateOp(acc.ops, n, a) \/ (kind = "create" /\ e.n = n /\ acc.cache[e.n] = a)
             /\ \A n, a : InOps(r.ops, n, a) <=> InOps(acc.ops, n, a) \/ (e.n = n /\ acc.cache[e.n] = a)
<1>1. PICK op : op = [kind |-> kind, node |-> e.n, obj |-> IdOf(acc, e.n), parent |-> p]
  OBVIOUS
<1>2. op.kind = kind /\ op.node = e.n /\ op.obj = acc.cache[e.n]
  BY <1>1 DEF IdOf
<1>3. PICK r : r = Does(acc, kind, e, p)
  OBVIOUS
<1>4. r = [acc EXCEPT !.ops = Append(acc.ops, op)]
  BY <1>1, <1>3 DEF Does, AccFields
<1>5. PICK s : s = acc.ops /\ IsList(s)
  OBVIOUS
<1>6. /\ DOMAIN r = AccFields /\ r.ops = Append(s, op)
      /\ r.cache = acc.cache /\ r.news = acc.news /\ r.dels = acc.dels /\ r.next = acc.next
  BY <1>4, <1>5 DEF AccFields
<1>7. /\ IsList(Append(s, op))
      /\ \A n, a : CreateOp(Append(s, op), n, a) <=>
           CreateOp(s, n, a) \/ (op.kind = "create" /\ op.node = n /\ op.obj = a)
      /\ \A n, a : InOps(Append(s, op), n, a) <=> InOps(s, n, a) \/ (op.node = n /\ op.obj = a)
  BY <1>5, AppendOps
<1>8. /\ IsList(r.ops)
      /\ \A n, a : CreateOp(r.ops, n, a) <=>
           CreateOp(acc.ops, n, a) \/ (kind = "create" /\ e.n = n /\ acc.cache[e.n] = a)
      /\ \A n, a : InOps(r.ops, n, a) <=> InOps(acc.ops, n, a) \/ (e.n = n /\ acc.cache[e.n] = a)
  BY <1>2, <1>5, <1>6, <1>7
<1> QED  BY <1>3, <1>6, <1>8

\* An operation is about an id its node already has.
LEMMA DoesNumbered ==
  ASSUME NEW acc, Numbered(acc), DOMAIN acc = AccFields, IsList(acc.ops),
         NEW kind, NEW e, NEW p, e.n # 0, e.n \in DOMAIN acc.cache
  PROVE  Numbered(Does(acc, kind, e, p))
<1>1. PICK r : r = Does(acc, kind, e, p)
  OBVIOUS
<1>2. /\ r.cache = acc.cache /\ r.news = acc.news /\ r.next = acc.next
      /\ \A n, a : InOps(r.ops, n, a) <=> InOps(acc.ops, n, a) \/ (e.n = n /\ acc.cache[e.n] = a)
  BY <1>1, DoesIs
<1>3. \A n, o : AccOwns(r, n, o) <=> AccOwns(acc, n, o)
  BY <1>2 DEF AccOwns
<1>4. Numbered(r)
  BY <1>2, <1>3 DEF Numbered
<1> QED  BY <1>1, <1>4

\* An event may be passed over.
LEMMA PassedKeeps ==
  ASSUME NEW acc, NEW events, NEW k \in Nat \ {0}, AccIs(acc, events, k - 1)
  PROVE  AccIs(acc, events, k)
<1>1. \A j \in 1 .. k - 1 : j \in 1 .. k
  OBVIOUS
<1>2. \A n : Intact(events, k, n) => Intact(events, k - 1, n)
  BY <1>1 DEF Intact
<1>3. Agreed(acc, events, k)
  BY <1>2 DEF AccIs, Agreed
<1>4. Creating(acc, events, k)
  BY <1>1 DEF AccIs, Creating
<1> QED  BY <1>3, <1>4 DEF AccIs

LEMMA DoesKeeps ==
  ASSUME NEW acc, NEW events, NEW k, AccIs(acc, events, k),
         NEW kind, kind # "create", NEW e, NEW p, e.n # 0, e.n \in DOMAIN acc.cache
  PROVE  /\ AccIs(Does(acc, kind, e, p), events, k)
         /\ \A n, a : CreateOp(acc.ops, n, a) => CreateOp(Does(acc, kind, e, p).ops, n, a)
<1>1. PICK r : r = Does(acc, kind, e, p)
  OBVIOUS
<1>2. /\ DOMAIN r = AccFields /\ IsList(r.ops)
      /\ r.cache = acc.cache /\ r.news = acc.news /\ r.dels = acc.dels
      /\ \A n, a : CreateOp(r.ops, n, a) <=> CreateOp(acc.ops, n, a)
  BY <1>1, DoesIs DEF AccIs
<1>3. Numbered(r)
  BY <1>1, DoesNumbered DEF AccIs
<1>4. Agreed(r, events, k)
  BY <1>2 DEF AccIs, Agreed
<1>5. Creating(r, events, k)
  BY <1>2 DEF AccIs, Creating
<1> QED  BY <1>1, <1>2, <1>3, <1>4, <1>5 DEF AccIs

\* Event k is the first about its node.
LEMMA CreateKeeps ==
  ASSUME NEW acc, NEW events, NEW k \in Nat \ {0}, AccIs(acc, events, k - 1),
         NEW e, e = events[k], e.kind = "created", e.n # 0, e.n \in DOMAIN acc.cache,
         \A j \in 1 .. k - 1 : events[j].n \in events[j].in /\ e.n \notin events[j].in, NEW p
  PROVE  /\ AccIs(Does(acc, "create", e, p), events, k)
         /\ \A n, a : CreateOp(acc.ops, n, a) => CreateOp(Does(acc, "create", e, p).ops, n, a)
         /\ \E a : CreateOp(Does(acc, "create", e, p).ops, e.n, a)
<1>1. PICK r : r = Does(acc, "create", e, p)
  OBVIOUS
<1>2. /\ DOMAIN r = AccFields /\ IsList(r.ops)
      /\ r.cache = acc.cache /\ r.news = acc.news /\ r.dels = acc.dels
      /\ \A n, a : CreateOp(r.ops, n, a) <=> CreateOp(acc.ops, n, a) \/ (e.n = n /\ acc.cache[e.n] = a)
  BY <1>1, DoesIs DEF AccIs
<1>3. Numbered(r)
  BY <1>1, DoesNumbered DEF AccIs
<1>4. AccIs(acc, events, k)
  BY PassedKeeps
<1>5. Agreed(r, events, k)
  BY <1>2, <1>4 DEF AccIs, Agreed
<1>6. \A a : ~CreateOp(acc.ops, e.n, a)
  BY DEF AccIs, Creating
<1>7. e.n \in DOMAIN map => acc.cache[e.n] = map[e.n]
  <2>1. Intact(events, k - 1, e.n)
    BY DEF Intact
  <2> QED  BY <2>1 DEF AccIs, Agreed
<1>8. Creating(r, events, k)
  <2>1. k \in 1 .. k
    OBVIOUS
  <2>2. ASSUME NEW n, NEW a, CreateOp(r.ops, n, a)
        PROVE  /\ \E j \in 1 .. k : events[j].kind = "created" /\ events[j].n = n
               /\ n \in DOMAIN map => a = map[n]
    <3>1. CASE CreateOp(acc.ops, n, a)
      BY <1>4, <3>1 DEF AccIs, Creating
    <3>2. CASE e.n = n /\ acc.cache[e.n] = a
      BY <1>7, <2>1, <3>2
    <3> QED  BY <1>2, <2>2, <3>1, <3>2
  <2>3. \A n, a, b : CreateOp(r.ops, n, a) /\ CreateOp(r.ops, n, b) => a = b
    BY <1>2, <1>4, <1>6 DEF AccIs, Creating
  <2>4. \A n \in r.dels : \E j \in 1 .. k : n \in events[j].in
    BY <1>2, <1>4 DEF AccIs, Creating
  <2> QED  BY <2>2, <2>3, <2>4 DEF Creating
<1> QED  BY <1>1, <1>2, <1>3, <1>5, <1>8 DEF AccIs

LEMMA RemoveKeeps ==
  ASSUME NEW acc, NEW events, NEW k \in Nat \ {0}, AccIs(acc, events, k - 1),
         NEW e, e = events[k], e.kind = "removed",
         NEW r, DOMAIN r = AccFields, r.ops = acc.ops, r.news = acc.news, r.next = acc.next,
         r.cache = Without(acc.cache, e.in), r.dels = acc.dels \union e.in
  PROVE  AccIs(r, events, k)
<1>1. AccIs(acc, events, k) /\ k \in 1 .. k
  BY PassedKeeps
<1>2. /\ DOMAIN r.cache = DOMAIN acc.cache \ e.in
      /\ \A n \in DOMAIN r.cache : r.cache[n] = acc.cache[n]
  BY DEF Without
<1>3. \A n, o : AccOwns(r, n, o) => AccOwns(acc, n, o)
  BY <1>2 DEF AccOwns
<1>4. Numbered(r)
  BY <1>1, <1>3 DEF AccIs, Numbered
<1>5. Agreed(r, events, k)
  <2>1. \A n : Intact(events, k, n) => n \notin e.in
    BY <1>1 DEF Intact
  <2> QED  BY <1>1, <1>2, <2>1 DEF AccIs, Agreed
<1>6. Creating(r, events, k)
  <2>1. \A n \in r.dels : \E j \in 1 .. k : n \in events[j].in
    BY <1>1 DEF AccIs, Creating
  <2> QED  BY <1>1, <2>1 DEF AccIs, Creating
<1> QED  BY <1>1, <1>4, <1>5, <1>6 DEF AccIs

\* The events of a node begin with its creation.
OrderedUpTo(u, events) ==
  \A k \in 1 .. Len(events) :
    /\ events[k].in \in SUBSET (1 .. u) /\ events[k].n \in events[k].in
    /\ events[k].p \in 0 .. u
    /\ events[k].kind = "created" => \A j \in 1 .. k - 1 : events[k].n \notin events[j].in

Ordered(events) == OrderedUpTo(used, events)

Complete(acc, events, k) ==
  \A j \in 1 .. k : events[j].kind = "created" /\ Exists(events[j].p) =>
    \E a : CreateOp(acc.ops, events[j].n, a)

LEMMA StageOneKeeps ==
  ASSUME NodesOk, minted \in Nat, NEW events, Ordered(events), Len(events) \in Nat,
         NEW k \in 1 .. Len(events), NEW acc, AccIs(acc, events, k - 1), Complete(acc, events, k - 1),
         NEW near
  PROVE  AccIs(StageOne(acc, events[k], near), events, k)
         /\ Complete(StageOne(acc, events[k], near), events, k)
<1> DEFINE Done(r) == /\ AccIs(r, events, k)
                      /\ \A n, a : CreateOp(acc.ops, n, a) => CreateOp(r.ops, n, a)
<1>1. PICK e : e = events[k]
  OBVIOUS
<1>2. /\ k \in Nat \ {0} /\ e.n # 0 /\ e.n \in e.in
      /\ \A j \in 1 .. k - 1 : /\ events[j].n \in events[j].in
                               /\ e.kind = "created" => e.n \notin events[j].in
  <2>1. k \in Nat \ {0} /\ \A j \in 1 .. k - 1 : j \in 1 .. Len(events)
    OBVIOUS
  <2>2. e.in \in SUBSET (1 .. used) /\ e.n \in e.in
    BY <1>1 DEF Ordered, OrderedUpTo
  <2>3. 0 \notin 1 .. used
    OBVIOUS
  <2> QED  BY <1>1, <2>1, <2>2, <2>3 DEF Ordered, OrderedUpTo
<1> DEFINE sib == {n \in near \cap DOMAIN tree : tree[n] = e.p} \ {e.n}
<1>3. /\ IsFiniteSet(sib) /\ IsFiniteSet({e.n, e.p}) /\ IsFiniteSet({e.p}) /\ IsFiniteSet({})
      /\ sib \in SUBSET (0 .. used) /\ {e.n, e.p} \in SUBSET (0 .. used) /\ used \in Nat
  <2>1. used \in Nat /\ DOMAIN tree \in SUBSET (1 .. used)
    BY DEF NodesOk
  <2>2. IsFiniteSet(1 .. used)
    BY <2>1, FS_Interval
  <2>3. sib \in SUBSET (1 .. used)
    BY <2>1
  <2>4. IsFiniteSet({e.p}) /\ IsFiniteSet({e.n}) /\ {e.n} \union {e.p} = {e.n, e.p}
    BY FS_Singleton
  <2>5. IsFiniteSet({e.n, e.p})
    <3>1. PICK one, two : one = {e.n} /\ two = {e.p}
      OBVIOUS
    <3>2. IsFiniteSet(one \union two)
      BY <2>4, <3>1, FS_Union
    <3> QED  BY <2>4, <3>1, <3>2
  <2>6. e.n \in 0 .. used /\ e.p \in 0 .. used /\ \A n \in 1 .. used : n \in 0 .. used
    BY <1>1, <2>1 DEF Ordered, OrderedUpTo
  <2> HIDE DEF sib
  <2> QED  BY <2>1, <2>2, <2>3, <2>4, <2>5, <2>6, FS_Subset, FS_EmptySet
<1> DEFINE all == {e.n, e.p} \union (IF Exists(e.p) THEN sib ELSE {})
<1>4. /\ IsFiniteSet(all) /\ IsFiniteSet({e.p} \union sib) /\ e.n \in all
      /\ all \in SUBSET (0 .. used) /\ {e.p} \union sib \in SUBSET (0 .. used) /\ {e.p} \in SUBSET (0 .. used)
  <2>1. all = IF Exists(e.p) THEN {e.n, e.p} \union sib ELSE {e.n, e.p}
    BY Zenon
  <2>2. IsFiniteSet({e.n, e.p} \union sib) /\ IsFiniteSet({e.p} \union sib)
    <3> HIDE DEF sib
    <3> QED  BY <1>3, FS_Union
  <2>3. e.n \in all
    OBVIOUS
  <2> HIDE DEF sib, all
  <2> QED  BY <1>3, <2>1, <2>2, <2>3
<1> HIDE DEF sib, all
<1>5. PICK ids : ids = Mints(acc, all) /\ AccIs(ids, events, k - 1) /\ ids.ops = acc.ops /\ e.n \in DOMAIN ids.cache
  BY <1>2, <1>3, <1>4, MintsKeeps
<1>6. PICK to : /\ to = Mints(acc, {e.p} \union sib) /\ AccIs(to, events, k - 1) /\ to.ops = acc.ops
                /\ DOMAIN acc.cache \subseteq DOMAIN to.cache
  BY <1>3, <1>4, MintsKeeps
<1>7. PICK fold : fold = Mints(acc, {e.p}) /\ AccIs(fold, events, k - 1) /\ fold.ops = acc.ops
  BY <1>3, <1>4, MintsKeeps
<1> DEFINE known == e.n \in DOMAIN acc.cache
<1>8. PICK new : /\ new = Does(ids, "create", e, IdOf(ids, e.p))
                 /\ e.kind = "created" => Done(new) /\ \E a : CreateOp(new.ops, e.n, a)
  <2>1. PICK new, p : new = Does(ids, "create", e, p) /\ p = IdOf(ids, e.p)
    OBVIOUS
  <2>2. e.kind = "created" =>
          /\ AccIs(new, events, k) /\ \A n, a : CreateOp(ids.ops, n, a) => CreateOp(new.ops, n, a)
          /\ \E a : CreateOp(new.ops, e.n, a)
    BY <1>1, <1>2, <1>5, <2>1, CreateKeeps
  <2> QED  BY <1>5, <2>1, <2>2
<1>9. PICK moving : moving = Does(to, "move", e, IdOf(to, e.p)) /\ (known => Done(moving))
  <2>1. PICK moving, p : moving = Does(to, "move", e, p) /\ p = IdOf(to, e.p)
    OBVIOUS
  <2>2. known => AccIs(moving, events, k - 1) /\ \A n, a : CreateOp(to.ops, n, a) => CreateOp(moving.ops, n, a)
    BY <1>2, <1>6, <2>1, DoesKeeps
  <2> QED  BY <1>2, <1>6, <2>1, <2>2, PassedKeeps
<1>10. PICK upd : upd = Does(acc, "update", e, 0) /\ (known => Done(upd))
  <2>1. PICK upd : upd = Does(acc, "update", e, 0)
    OBVIOUS
  <2>2. known => AccIs(upd, events, k - 1) /\ \A n, a : CreateOp(acc.ops, n, a) => CreateOp(upd.ops, n, a)
    BY <1>2, <2>1, DoesKeeps
  <2> QED  BY <1>2, <2>1, <2>2, PassedKeeps
<1>11. PICK del : /\ del = Does(acc, "delete", e, 0)
                  /\ known => /\ AccIs(del, events, k - 1)
                              /\ \A n, a : CreateOp(acc.ops, n, a) => CreateOp(del.ops, n, a)
  BY <1>2, DoesKeeps
<1>12. PICK gone : /\ gone = [del EXCEPT !.cache = Without(@, e.in), !.dels = @ \union e.in]
                   /\ known /\ e.kind = "removed" => Done(gone)
  <2>1. PICK gone : gone = [del EXCEPT !.cache = Without(@, e.in), !.dels = @ \union e.in]
    OBVIOUS
  <2>2. known /\ e.kind = "removed" => AccIs(gone, events, k) /\ gone.ops = del.ops
    <3> SUFFICES ASSUME known, e.kind = "removed" PROVE AccIs(gone, events, k) /\ gone.ops = del.ops
      OBVIOUS
    <3>1. AccIs(del, events, k - 1) /\ DOMAIN del = AccFields
      BY <1>11 DEF AccIs
    <3>2. /\ DOMAIN gone = AccFields /\ gone.ops = del.ops /\ gone.news = del.news /\ gone.next = del.next
          /\ gone.cache = Without(del.cache, e.in) /\ gone.dels = del.dels \union e.in
      BY <2>1, <3>1 DEF AccFields
    <3> QED  BY <1>1, <1>2, <3>1, <3>2, RemoveKeeps
  <2> QED  BY <1>11, <2>1, <2>2
<1>13. Done(ids) /\ Done(fold) /\ Done(acc)
  BY <1>2, <1>5, <1>7, PassedKeeps
<1>14. StageOne(acc, e, near) =
        CASE e.kind = "created" /\ Exists(e.p) -> new
          [] e.kind = "created" /\ ~Exists(e.p) -> ids
          [] e.kind = "removed" /\ known -> gone
          [] e.kind = "changed" /\ known /\ Exists(e.n) -> upd
          [] e.kind = "moved" /\ known /\ Exists(e.n) /\ Exists(e.p) -> moving
          [] e.kind = "moved" /\ known /\ Exists(e.n) /\ ~Exists(e.p) -> fold
          [] OTHER -> acc
  BY <1>5, <1>6, <1>7, <1>8, <1>9, <1>10, <1>11, <1>12, Zenon DEF StageOne, sib, all
<1> HIDE DEF Done
<1>15. PICK r : r = StageOne(acc, e, near)
  OBVIOUS
<1>16. Done(r) /\ (e.kind = "created" /\ Exists(e.p) => \E a : CreateOp(r.ops, e.n, a))
  <2>1. CASE e.kind = "created" /\ Exists(e.p)
    BY <1>8, <1>14, <1>15, <2>1
  <2>2. CASE e.kind = "created" /\ ~Exists(e.p)
    BY <1>13, <1>14, <1>15, <2>2
  <2>3. CASE e.kind # "created"
    BY <1>9, <1>10, <1>12, <1>13, <1>14, <1>15, <2>3
  <2> QED  BY <2>1, <2>2, <2>3
<1>17. \A j \in 1 .. k : j \in 1 .. k - 1 \/ j = k
  BY <1>2
<1>18. AccIs(r, events, k) /\ Complete(r, events, k)
  BY <1>1, <1>16, <1>17 DEF Done, Complete
<1> QED  BY <1>1, <1>15, <1>18

LEMMA StagedIs ==
  ASSUME NodesOk, minted \in Nat,
         \A n \in DOMAIN map : n \in 1 .. used /\ map[n] \in Int /\ map[n] # 0 /\ map[n] <= minted,
         \A n, m \in DOMAIN map : map[n] = map[m] => n = m,
         NEW events, IsList(events), Ordered(events), NEW near
  PROVE  /\ AccIs(Staged(events, near), events, Len(events))
         /\ Complete(Staged(events, near), events, Len(events))
<1>1. PICK m \in Nat : m = Len(events) /\ DOMAIN events = 1 .. m
  BY ListFacts
<1>2. PICK f : /\ f[0] = FlushCaches
               /\ \A k \in 1 .. m : f[k] = StageOne(f[k - 1], events[k], near)
               /\ f[m] = Staged(events, near)
  BY <1>1, FoldSteps
<1> DEFINE Good(k) == AccIs(f[k], events, k) /\ Complete(f[k], events, k)
<1>3. PICK base : base = FlushCaches
  OBVIOUS
<1>4. AccIs(base, events, 0) /\ Complete(base, events, 0)
  <2>1. /\ DOMAIN base = AccFields /\ base.ops = << >> /\ base.dels = {} /\ base.next = minted
        /\ base.cache = map /\ DOMAIN base.news = {}
    BY <1>3 DEF FlushCaches, AccFields, None
  <2>2. IsList(base.ops) /\ 1 .. 0 = {}
    <3>1. << >> \in Seq({})
      OBVIOUS
    <3> QED  BY <2>1, <3>1 DEF IsList
  <2>3. \A n, a : ~CreateOp(base.ops, n, a) /\ ~InOps(base.ops, n, a)
    <3>1. \A k \in 1 .. Len(<< >>) : FALSE
      OBVIOUS
    <3> QED  BY <2>1, <3>1 DEF CreateOp, InOps
  <2>4. \A n, o : AccOwns(base, n, o) <=> n \in DOMAIN map /\ map[n] = o
    BY <2>1, <2>3 DEF AccOwns
  <2>5. Numbered(base)
    BY <2>1, <2>4 DEF Numbered
  <2>6. Agreed(base, events, 0)
    BY <2>1, <2>3 DEF Agreed
  <2>7. Creating(base, events, 0)
    BY <2>1, <2>3 DEF Creating
  <2>8. Complete(base, events, 0)
    BY <2>2 DEF Complete
  <2> QED  BY <2>1, <2>2, <2>5, <2>6, <2>7, <2>8 DEF AccIs
<1> DEFINE Bad == {k \in 0 .. m : ~Good(k)}
<1>5. Bad = {}
  <2> SUFFICES ASSUME Bad # {} PROVE FALSE
    OBVIOUS
  <2>1. PICK k \in Bad : \A j \in Bad : k <= j
    <3>1. Bad \in SUBSET Nat
      OBVIOUS
    <3> HIDE DEF Bad
    <3> QED  BY <3>1, FirstNumber
  <2>2. k \in 0 .. m /\ ~Good(k)
    OBVIOUS
  <2>3. k # 0
    BY <1>2, <1>3, <1>4, <2>2
  <2> HIDE DEF Good
  <2>4. k \in 1 .. m /\ k - 1 \in 0 .. m /\ ~(k <= k - 1)
    BY <2>2, <2>3
  <2>5. Good(k - 1)
    BY <2>1, <2>4
  <2>6. PICK acc : acc = f[k - 1]
    OBVIOUS
  <2>7. AccIs(acc, events, k - 1) /\ Complete(acc, events, k - 1)
    BY <2>5, <2>6 DEF Good
  <2>8. /\ AccIs(StageOne(acc, events[k], near), events, k)
        /\ Complete(StageOne(acc, events[k], near), events, k)
    BY <1>1, <2>4, <2>7, StageOneKeeps
  <2>9. f[k] = StageOne(acc, events[k], near)
    BY <1>2, <2>4, <2>6
  <2>10. Good(k)
    BY <2>8, <2>9 DEF Good
  <2> QED  BY <2>2, <2>10
<1>6. m \in 0 .. m
  OBVIOUS
<1>7. Good(m)
  BY <1>5, <1>6
<1> QED  BY <1>1, <1>2, <1>7

--------------------------------------------------------------------------------
(***************************************************************************)
(* The invariant.  A node that has been told of keeps the id it was told   *)
(* under in the mappings as long as it is in the browser or a capture has  *)
(* yet to stage it, so that the next capture finds it; what has not been   *)
(* told of is on its way in an event, in a staged operation or in the list *)
(* of an import that has not completed.                                    *)
(***************************************************************************)
Writing == {"maps", "dels", "ops"}

Awaited(n) ==
  CreatedIn(queue, n) \/ \E i \in Slots : flush[i].at = "stage" /\ CreatedIn(flush[i].events, n)

Told(o) == \E n : CreateOp(outbox, n, o)

Owns(n, o) ==
  \/ n \in DOMAIN map /\ map[n] = o
  \/ \E i \in Slots : n \in DOMAIN flush[i].news /\ flush[i].news[n] = o
  \/ \E i \in Slots : InOps(flush[i].ops, n, o)

OrderOk ==
  /\ Ordered(queue)
  /\ \A i \in Slots : /\ Ordered(flush[i].events)
                      /\ \A n : CreatedIn(queue, n) => ~Touches(flush[i].events, n)

\* Two flushes about one node overlap.
ApartOk ==
  \A i, j \in Slots : \A n :
    i # j /\ Touches(flush[i].events, n) /\ Touches(flush[j].events, n) => n \in twice

SlotIn(f) ==
  /\ f.at \in {"free", "stage", "states"} \union Writing
  /\ f.at \in {"free", "stage"} => f.ops = << >>
  /\ \A n \in f.dels : Touches(f.events, n)
  /\ \A n, a : CreateOp(f.ops, n, a) => Touches(f.events, n)

SlotsIn == \A i \in Slots : SlotIn(flush[i])

\* The id of a staged creation is the node's mapping, or about to be.
Agrees(f, n, a) ==
  \/ f.at = "maps" /\ n \in DOMAIN f.news /\ f.news[n] = a
  \/ ~(f.at = "maps" /\ n \in DOMAIN f.news) /\ n \in DOMAIN map /\ map[n] = a

AgreeOk ==
  \A i \in Slots : \A n, a :
    /\ flush[i].at \in Writing /\ n \in DOMAIN tree /\ n \notin twice
    /\ CreateOp(flush[i].ops, n, a)
    => Agrees(flush[i], n, a)

SameOk ==
  \A i \in Slots : \A n, a, b :
    /\ flush[i].at \in Writing /\ n \notin twice /\ CreateOp(flush[i].ops, n, a)
    /\ CreateOp(outbox, n, b) \/ CreateOp(flush[i].ops, n, b)
    => a = b

OneOk == \A n, a, b : n \notin twice /\ CreateOp(outbox, n, a) /\ CreateOp(outbox, n, b) => a = b

ToldOk ==
  \A n, a :
    n \notin twice /\ CreateOp(outbox, n, a) /\ (n \in DOMAIN tree \/ Awaited(n)) =>
      /\ n \in DOMAIN map /\ map[n] = a
      /\ a \in moved \/ \E i \in Slots : flush[i].at = "states" /\ CreateOp(flush[i].ops, n, a)

TodoOk ==
  walk.at = "walk" =>
    /\ walk.seen \in 0 .. Len(outbox)
    /\ \A n, a : n \in walk.todo /\ n \notin twice /\ CreateOp(outbox, n, a) =>
         n \in walk.busy \/ \E k \in walk.seen + 1 .. Len(outbox) : outbox[k].node = n

OwnOk ==
  /\ minted \in Nat /\ (guard # 0 => guard \in applied)
  /\ \A n, o : Owns(n, o) => n \in 1 .. used /\ o \in Int /\ o # 0 /\ o <= minted /\ (o < 0 => n = -o)
  /\ \A n, m, o : Owns(n, o) /\ Owns(m, o) => n = m
  /\ \A o \in moved : o \in Int /\ o <= minted

Excused(n) == n \in unheard \/ n \in twice

MovedOk ==
  \A n \in DOMAIN tree : \A o \in moved : Owns(n, o) => o < 0 \/ Told(o) \/ Excused(n)

StatesOk ==
  \A i \in Slots : \A k \in 1 .. Len(flush[i].ops) :
    flush[i].at = "states" /\ flush[i].ops[k].kind \in {"create", "move"} =>
      flush[i].ops[k].obj < 0 \/ Told(flush[i].ops[k].obj) \/ flush[i].ops[k].node \in unheard

CoveredOk ==
  \A n \in DOMAIN tree :
    \/ Excused(n) \/ n = guard \/ Awaited(n)
    \/ n \in DOMAIN map /\ (map[n] < 0 \/ Told(map[n]))
    \/ \E i \in Slots : flush[i].at \in Writing /\ \E a : CreateOp(flush[i].ops, n, a)
    \/ ~imported /\ (walk.at = "walk" => n \in walk.todo)

OnceInv ==
  /\ OrderOk /\ ApartOk /\ SlotsIn /\ AgreeOk /\ SameOk /\ OneOk /\ ToldOk /\ TodoOk
  /\ OwnOk /\ MovedOk /\ StatesOk /\ CoveredOk

\* An announcement on its way in a flush comes from an event of the flush.
SlotOwed(f) ==
  /\ f.at = "free" => f.events = << >>
  /\ \A n, a : CreateOp(f.ops, n, a) => CreatedIn(f.events, n)

\* What was queued when the import began is in the flush it waits for, and not on
\* its way any more once the tree is read: then it has been announced, and is not
\* in the import's list, or nobody else will announce it.
OwedInv ==
  /\ \A i \in Slots : SlotOwed(flush[i])
  /\ walk.at # "idle" => \A n \in walk.owed : ~CreatedIn(queue, n)
  /\ walk.at = "drained" =>
       \A n \in walk.owed : \A i \in Slots : i # walk.slot => ~CreatedIn(flush[i].events, n)
  /\ walk.at = "walk" =>
       \A n \in walk.owed \cap walk.todo :
         \/ n \in twice
         \/ (\A i \in Slots : ~CreatedIn(flush[i].events, n)) /\ \A a : ~CreateOp(outbox, n, a)

LEMMA TouchesIs ==
  ASSUME NEW s, IsList(s), NEW n
  PROVE  n \in Nodes(s) <=> Touches(s, n)
<1>1. Range(s) = {s[k] : k \in 1 .. Len(s)}
  BY ListFacts
<1> QED  BY <1>1 DEF Nodes, Touches

LEMMA NothingIn ==
  /\ \A n : ~Touches(<< >>, n) /\ ~CreatedIn(<< >>, n)
  /\ \A n, a : ~CreateOp(<< >>, n, a) /\ ~InOps(<< >>, n, a)
  /\ \A u : OrderedUpTo(u, << >>)
<1>1. \A k \in 1 .. Len(<< >>) : FALSE
  OBVIOUS
<1> QED  BY <1>1 DEF Touches, CreatedIn, CreateOp, InOps, OrderedUpTo

LEMMA OrderedFacts ==
  ASSUME NEW u, NEW s, OrderedUpTo(u, s)
  PROVE  /\ \A n : CreatedIn(s, n) => Touches(s, n)
         /\ \A n : Touches(s, n) => n \in 1 .. u
BY DEF OrderedUpTo, CreatedIn, Touches

LEMMA CreateInOps ==
  ASSUME NEW s, NEW n, NEW a, CreateOp(s, n, a)
  PROVE  InOps(s, n, a)
BY DEF CreateOp, InOps

LEMMA AppendOrdered ==
  ASSUME NEW u, NEW s, IsList(s), OrderedUpTo(u, s), NEW e,
         e.in \in SUBSET (1 .. u) /\ e.n \in e.in /\ e.p \in 0 .. u,
         e.kind = "created" => ~Touches(s, e.n)
  PROVE  OrderedUpTo(u, Append(s, e))
<1>1. PICK r : r = Append(s, e)
  OBVIOUS
<1>2. /\ Len(s) \in Nat /\ Len(r) = Len(s) + 1
      /\ \A k \in 1 .. Len(s) : r[k] = s[k]
      /\ r[Len(s) + 1] = e
  BY <1>1, AppendList
<1>3. ASSUME NEW k \in 1 .. Len(r)
      PROVE  /\ r[k].in \in SUBSET (1 .. u) /\ r[k].n \in r[k].in /\ r[k].p \in 0 .. u
             /\ r[k].kind = "created" => \A j \in 1 .. k - 1 : r[k].n \notin r[j].in
  <2>1. CASE k \in 1 .. Len(s)
    <3>1. \A j \in 1 .. k - 1 : j \in 1 .. Len(s)
      BY <1>2, <2>1
    <3> QED  BY <1>2, <2>1, <3>1 DEF OrderedUpTo
  <2>2. CASE k = Len(s) + 1
    <3>1. 1 .. k - 1 = 1 .. Len(s) /\ r[k] = e
      BY <1>2, <2>2
    <3> QED  BY <1>2, <3>1 DEF Touches
  <2>3. k \in 1 .. Len(s) \/ k = Len(s) + 1
    BY <1>2
  <2> QED  BY <2>1, <2>2, <2>3
<1> QED  BY <1>1, <1>3 DEF OrderedUpTo

LEMMA OrderedGrows ==
  ASSUME NEW u \in Nat, NEW s, OrderedUpTo(u, s)
  PROVE  OrderedUpTo(u + 1, s)
<1>1. \A n : (n \in 1 .. u => n \in 1 .. u + 1) /\ (n \in 0 .. u => n \in 0 .. u + 1)
  OBVIOUS
<1> QED  BY <1>1 DEF OrderedUpTo

LEMMA OnceFacts ==
  ASSUME EchoInv, OnceInv
  PROVE  /\ used \in Nat /\ DOMAIN tree \in SUBSET (1 .. used) /\ guard \in 0 .. used
         /\ IsList(queue) /\ IsList(outbox) /\ DOMAIN flush = Slots
         /\ \A n : CreatedIn(queue, n) => Touches(queue, n)
         /\ \A n : Touches(queue, n) => n \in 1 .. used
         /\ \A n, a : CreateOp(outbox, n, a) => n \in 1 .. used /\ n \notin applied \ twice
         /\ \A i \in Slots :
              /\ DOMAIN flush[i] = {"at", "events", "news", "dels", "ops"}
              /\ IsList(flush[i].events) /\ IsList(flush[i].ops) /\ flush[i].dels \cap DOMAIN tree = {}
              /\ \A n : CreatedIn(flush[i].events, n) => Touches(flush[i].events, n)
              /\ \A n : Touches(flush[i].events, n) => n \in 1 .. used
              /\ \A n, a : CreateOp(flush[i].ops, n, a) =>
                   Touches(flush[i].events, n) /\ n \in 1 .. used /\ n \notin applied /\ Owns(n, a)
<1>1. used \in Nat /\ DOMAIN tree \in SUBSET (1 .. used) /\ guard \in 0 .. used /\ DOMAIN flush = Slots
  BY DEF EchoInv, NodesOk, FlushesOk
<1>2. IsList(queue) /\ IsList(outbox)
  BY DEF EchoInv, EventsOk, OutboxOk, IsList
<1>3. \A n : (CreatedIn(queue, n) => Touches(queue, n)) /\ (Touches(queue, n) => n \in 1 .. used)
  BY OrderedFacts DEF OnceInv, OrderOk, Ordered
<1>4. \A n, a : CreateOp(outbox, n, a) => n \in 1 .. used /\ n \notin applied \ twice
  BY DEF EchoInv, OutboxOk, CreateOp
<1>5. ASSUME NEW i \in Slots
      PROVE  /\ DOMAIN flush[i] = {"at", "events", "news", "dels", "ops"}
             /\ IsList(flush[i].events) /\ IsList(flush[i].ops) /\ flush[i].dels \cap DOMAIN tree = {}
             /\ \A n : CreatedIn(flush[i].events, n) => Touches(flush[i].events, n)
             /\ \A n : Touches(flush[i].events, n) => n \in 1 .. used
             /\ \A n, a : CreateOp(flush[i].ops, n, a) =>
                  Touches(flush[i].events, n) /\ n \in 1 .. used /\ n \notin applied /\ Owns(n, a)
  <2>1. PICK f : f = flush[i]
    OBVIOUS
  <2>2. SlotOk(f) /\ OrderedUpTo(used, f.events) /\ SlotIn(f)
    BY <2>1 DEF EchoInv, FlushesOk, OnceInv, OrderOk, Ordered, SlotsIn
  <2>3. /\ DOMAIN f = {"at", "events", "news", "dels", "ops"}
        /\ IsList(f.events) /\ IsList(f.ops) /\ f.dels \cap DOMAIN tree = {}
    BY <2>2 DEF SlotOk, EventsOk, OpsOk, IsList, Gone
  <2>4. \A n : (CreatedIn(f.events, n) => Touches(f.events, n)) /\ (Touches(f.events, n) => n \in 1 .. used)
    BY <2>2, OrderedFacts
  <2>5. \A n, a : CreateOp(f.ops, n, a) => Touches(f.events, n) /\ n \in 1 .. used /\ n \notin applied
    BY <2>2 DEF SlotIn, SlotOk, OpsOk, Native, CreateOp
  <2>6. \A n, a : CreateOp(f.ops, n, a) => Owns(n, a)
    BY <2>1, CreateInOps DEF Owns
  <2> QED  BY <2>1, <2>3, <2>4, <2>5, <2>6
<1> QED  BY <1>1, <1>2, <1>3, <1>4, <1>5

\* Nodes go, or an event about one that stays is queued.
LEMMA ShrinksOnce ==
  ASSUME EchoInv, OnceInv,
         UNCHANGED <<map, moved, outbox, flush, walk, imported, guard, minted, used, applied, twice>>,
         DOMAIN tree' \subseteq DOMAIN tree, unheard \subseteq unheard',
         \/ queue' = queue
         \/ \E e : /\ queue' = Append(queue, e) /\ e.kind # "created"
                   /\ e.in \in SUBSET (1 .. used) /\ e.n \in e.in /\ e.p \in 0 .. used
  PROVE  OnceInv'
<1>1. Ordered(queue)' /\ \A n : CreatedIn(queue', n) <=> CreatedIn(queue, n)
  <2>1. Ordered(queue) /\ IsList(queue)
    BY OnceFacts DEF OnceInv, OrderOk
  <2>2. CASE queue' = queue
    BY <2>1, <2>2 DEF Ordered
  <2>3. CASE queue' # queue
    <3>1. PICK e : /\ queue' = Append(queue, e) /\ e.kind # "created"
                   /\ e.in \in SUBSET (1 .. used) /\ e.n \in e.in /\ e.p \in 0 .. used
      BY <2>3
    <3>2. OrderedUpTo(used, Append(queue, e))
      BY <2>1, <3>1, AppendOrdered DEF Ordered
    <3>3. \A n : CreatedIn(Append(queue, e), n) <=> CreatedIn(queue, n)
      BY <2>1, <3>1, AppendEvents
    <3> QED  BY <3>1, <3>2, <3>3 DEF Ordered
  <2> QED  BY <2>2, <2>3
<1>2. \A n : Awaited(n)' <=> Awaited(n)
  BY <1>1 DEF Awaited
<1>3. \A n, o : Owns(n, o)' <=> Owns(n, o)
  BY DEF Owns
<1>4. OrderOk' /\ ApartOk' /\ SlotsIn'
  BY <1>1 DEF OnceInv, OrderOk, ApartOk, SlotsIn, Ordered
<1>5. AgreeOk' /\ SameOk' /\ OneOk' /\ TodoOk'
  BY DEF OnceInv, AgreeOk, SameOk, OneOk, TodoOk, Agrees
<1>6. ToldOk'
  BY <1>2 DEF OnceInv, ToldOk
<1>7. OwnOk'
  BY <1>3 DEF OnceInv, OwnOk
<1>8. MovedOk' /\ StatesOk'
  BY <1>3 DEF OnceInv, MovedOk, StatesOk, Excused, Told
<1>9. CoveredOk'
  BY <1>2 DEF OnceInv, CoveredOk, Excused, Told
<1> QED  BY <1>4, <1>5, <1>6, <1>7, <1>8, <1>9 DEF OnceInv

\* A node comes that was never there.
LEMMA GrowsOnce ==
  ASSUME EchoInv, OnceInv,
         UNCHANGED <<map, moved, outbox, flush, walk, imported, minted, twice>>,
         used' = used + 1, DOMAIN tree' = DOMAIN tree \union {used + 1}, unheard \subseteq unheard',
         guard' = guard \/ guard = 0, guard' # 0 => guard' \in applied',
         \/ queue' = queue /\ (used + 1 \in unheard' \/ guard' = used + 1)
         \/ \E e : /\ queue' = Append(queue, e) /\ e.kind = "created"
                   /\ e.in = {used + 1} /\ e.n = used + 1 /\ e.p \in 0 .. used
  PROVE  OnceInv'
<1>1. PICK u : u = used + 1
  OBVIOUS
<1>2. /\ used \in Nat /\ u \notin 1 .. used /\ u \in 1 .. u
      /\ \A n : (n \in 1 .. used => n \in 1 .. u) /\ (n \in 0 .. used => n \in 0 .. u)
  BY <1>1, OnceFacts
<1>3. /\ Ordered(queue)'
      /\ \A n : CreatedIn(queue', n) => CreatedIn(queue, n) \/ n = u
      /\ \A n : CreatedIn(queue, n) => CreatedIn(queue', n)
      /\ u \in unheard' \/ guard' = u \/ CreatedIn(queue', u)
  <2>1. OrderedUpTo(u, queue) /\ IsList(queue) /\ ~Touches(queue, u)
    BY <1>1, <1>2, OnceFacts, OrderedGrows DEF OnceInv, OrderOk, Ordered
  <2>2. CASE queue' = queue /\ (used + 1 \in unheard' \/ guard' = used + 1)
    BY <1>1, <2>1, <2>2 DEF Ordered
  <2>3. ASSUME NEW e, queue' = Append(queue, e), e.kind = "created",
               e.in = {used + 1}, e.n = used + 1, e.p \in 0 .. used
        PROVE  /\ Ordered(queue)'
               /\ \A n : CreatedIn(queue', n) => CreatedIn(queue, n) \/ n = u
               /\ \A n : CreatedIn(queue, n) => CreatedIn(queue', n)
               /\ CreatedIn(queue', u)
    <3>1. e.in \in SUBSET (1 .. u) /\ e.n \in e.in /\ e.p \in 0 .. u /\ e.n = u
      BY <1>1, <1>2, <2>3
    <3>2. OrderedUpTo(u, Append(queue, e))
      BY <2>1, <3>1, AppendOrdered
    <3>3. \A n : CreatedIn(Append(queue, e), n) <=> CreatedIn(queue, n) \/ (e.kind = "created" /\ e.n = n)
      BY <2>1, AppendEvents
    <3> QED  BY <1>1, <2>3, <3>1, <3>2, <3>3 DEF Ordered
  <2> QED  BY <2>2, <2>3
<1>4. /\ \A n : (Awaited(n)' => Awaited(n) \/ n = u) /\ (Awaited(n) => Awaited(n)')
      /\ u \in unheard' \/ guard' = u \/ Awaited(u)'
  BY <1>3 DEF Awaited
<1>5. \A n, o : Owns(n, o)' <=> Owns(n, o)
  BY DEF Owns
<1>6. /\ \A a : ~CreateOp(outbox, u, a) /\ ~Owns(u, a)
      /\ \A i \in Slots : ~Touches(flush[i].events, u) /\ \A a : ~CreateOp(flush[i].ops, u, a)
  BY <1>2, OnceFacts DEF OnceInv, OwnOk
<1>7. OrderOk' /\ ApartOk' /\ SlotsIn'
  <2>1. \A i \in Slots : Ordered(flush[i].events)'
    BY <1>1, <1>2, OrderedGrows DEF OnceInv, OrderOk, Ordered
  <2> QED  BY <1>3, <1>6, <2>1 DEF OnceInv, OrderOk, ApartOk, SlotsIn
<1>8. SameOk' /\ OneOk' /\ TodoOk'
  BY DEF OnceInv, SameOk, OneOk, TodoOk
<1>9. AgreeOk'
  <2>1. \A i \in Slots : \A n, a : CreateOp(flush[i].ops, n, a) /\ n \in DOMAIN tree' => n \in DOMAIN tree
    BY <1>1, <1>6
  <2>2. \A f, n, a : Agrees(f, n, a)' <=> Agrees(f, n, a)
    BY DEF Agrees
  <2>3. flush' = flush /\ twice' = twice
    OBVIOUS
  <2>4. ASSUME NEW i \in Slots, NEW n, NEW a, flush[i].at \in Writing, n \in DOMAIN tree', n \notin twice,
               CreateOp(flush[i].ops, n, a)
        PROVE  Agrees(flush[i], n, a)
    BY <2>1, <2>4 DEF OnceInv, AgreeOk
  <2> QED  BY <2>3, <2>4 DEF AgreeOk, Agrees
<1>10. ToldOk'
  BY <1>1, <1>4, <1>6 DEF OnceInv, ToldOk
<1>11. OwnOk'
  BY <1>1, <1>2, <1>5 DEF OnceInv, OwnOk
<1>12. MovedOk' /\ StatesOk'
  BY <1>1, <1>5, <1>6 DEF OnceInv, MovedOk, StatesOk, Excused, Told
<1>13. CoveredOk'
  <2>1. \A n \in DOMAIN tree : n # 0
    BY OnceFacts
  <2>2. \A n \in DOMAIN tree : n = guard => n = guard'
    BY <2>1
  <2>3. \A n : n \in DOMAIN tree' => n \in DOMAIN tree \/ n = u
    BY <1>1
  <2>4. \A o : Told(o)' <=> Told(o)
    BY DEF Told
  <2>5. \A n : (Excused(n) => Excused(n)') /\ (u \in unheard' => Excused(u)')
    BY DEF Excused
  <2>6. CASE Excused(u)' \/ u = guard' \/ Awaited(u)'
    <3>1. ASSUME NEW n \in DOMAIN tree
          PROVE  \/ Excused(n)' \/ n = guard' \/ Awaited(n)'
                 \/ n \in DOMAIN map /\ (map[n] < 0 \/ Told(map[n]))
                 \/ \E i \in Slots : flush[i].at \in Writing /\ \E a : CreateOp(flush[i].ops, n, a)
                 \/ ~imported /\ (walk.at = "walk" => n \in walk.todo)
      BY <1>4, <2>2, <2>5 DEF OnceInv, CoveredOk
    <3>2. UNCHANGED <<map, flush, walk, imported>>
      OBVIOUS
    <3>3. \A n : (n \in DOMAIN map /\ Told(map[n])) => Told(map[n])'
      BY DEF Told
    <3>4. ASSUME NEW n \in DOMAIN tree
          PROVE  \/ Excused(n)' \/ n = guard' \/ Awaited(n)'
                 \/ n \in DOMAIN map' /\ (map'[n] < 0 \/ Told(map[n])')
                 \/ \E i \in Slots : flush'[i].at \in Writing /\ \E a : CreateOp(flush'[i].ops, n, a)
                 \/ ~imported' /\ (walk'.at = "walk" => n \in walk'.todo)
      BY <3>1, <3>2, <3>3
    <3> QED  BY <2>3, <2>6, <3>4, Zenon DEF CoveredOk
  <2> QED  BY <1>4, <2>5, <2>6
<1> QED  BY <1>7, <1>8, <1>9, <1>10, <1>11, <1>12, <1>13 DEF OnceInv

LEMMA UserOnce ==
  ASSUME EchoInv, OnceInv, User
  PROVE  OnceInv'
<1>1. UNCHANGED <<map, moved, outbox, flush, walk, imported, guard, minted, applied, twice>>
  BY DEF User
<1>2. used \in Nat /\ DOMAIN tree \in SUBSET (1 .. used) /\ (\A n \in 1 .. used : n \in 0 .. used) /\ 0 \in 0 .. used
  BY OnceFacts
<1>3. ASSUME NEW e, Fires(e)
      PROVE  /\ unheard \subseteq unheard'
             /\ (queue' = queue /\ e.in \subseteq unheard') \/ queue' = Append(queue, e)
  BY <1>3 DEF Fires
<1>4. CASE \E p \in DOMAIN tree \union {0} :
             /\ used' = used + 1 /\ tree' = Over([n \in {used'} |-> p], tree)
             /\ Fires([kind |-> "created", n |-> used', p |-> p, in |-> {used'}])
  <2>1. PICK p \in DOMAIN tree \union {0} :
          /\ used' = used + 1 /\ tree' = Over([n \in {used'} |-> p], tree)
          /\ Fires([kind |-> "created", n |-> used', p |-> p, in |-> {used'}])
    BY <1>4
  <2>2. PICK u, t : u = used + 1 /\ t = tree
    OBVIOUS
  <2>3. DOMAIN tree' = DOMAIN tree \union {used + 1}
    <3>1. tree' = Over([n \in {u} |-> p], t)
      BY <2>1, <2>2
    <3>2. DOMAIN Over([n \in {u} |-> p], t) = DOMAIN t \union {u}
      BY DEF Over
    <3> QED  BY <2>2, <3>1, <3>2
  <2>4. PICK e : e = [kind |-> "created", n |-> u, p |-> p, in |-> {u}]
    OBVIOUS
  <2>5. e.kind = "created" /\ e.in = {used + 1} /\ e.n = used + 1 /\ e.p \in 0 .. used
    BY <1>2, <2>2, <2>4
  <2>6. Fires(e)
    BY <2>1, <2>2, <2>4
  <2>7. guard' # 0 => guard' \in applied'
    BY <1>1 DEF OnceInv, OwnOk
  <2>8. /\ unheard \subseteq unheard'
        /\ \/ queue' = queue /\ (used + 1 \in unheard' \/ guard' = used + 1)
           \/ \E x : /\ queue' = Append(queue, x) /\ x.kind = "created"
                     /\ x.in = {used + 1} /\ x.n = used + 1 /\ x.p \in 0 .. used
    BY <1>3, <2>5, <2>6
  <2> QED  BY <1>1, <2>1, <2>3, <2>7, <2>8, GrowsOnce
<1>5. ASSUME used' = used, DOMAIN tree' \subseteq DOMAIN tree, NEW e, Fires(e), e.kind # "created",
             e.in \in SUBSET (1 .. used), e.n \in e.in, e.p \in 0 .. used
      PROVE  OnceInv'
  <2>1. /\ unheard \subseteq unheard'
        /\ queue' = queue \/ queue' = Append(queue, e)
    BY <1>3, <1>5
  <2> QED  BY <1>1, <1>5, <2>1, ShrinksOnce
<1>6. CASE \E n \in DOMAIN tree :
             /\ used' = used /\ tree' = Without(tree, Subtree(n))
             /\ Fires([kind |-> "removed", n |-> n, p |-> 0, in |-> Subtree(n)])
  <2>1. PICK n \in DOMAIN tree :
          /\ used' = used /\ tree' = Without(tree, Subtree(n))
          /\ Fires([kind |-> "removed", n |-> n, p |-> 0, in |-> Subtree(n)])
    BY <1>6
  <2>2. PICK S : S = Subtree(n)
    OBVIOUS
  <2>3. S \in SUBSET (DOMAIN tree) /\ DOMAIN tree' = DOMAIN tree \ S /\ n \in S
    BY <2>1, <2>2 DEF Subtree, Without
  <2>4. PICK e : e = [kind |-> "removed", n |-> n, p |-> 0, in |-> S]
    OBVIOUS
  <2>5. e.kind = "removed" /\ e.in = S /\ e.n = n /\ e.p = 0 /\ Fires(e)
    BY <2>1, <2>2, <2>4
  <2> QED  BY <1>2, <1>5, <2>1, <2>3, <2>5
<1>7. ASSUME NEW n \in DOMAIN tree, NEW p \in DOMAIN tree \union {0}, NEW kind, kind # "created",
             used' = used, DOMAIN tree' = DOMAIN tree, Fires([kind |-> kind, n |-> n, p |-> p, in |-> {n}])
      PROVE  OnceInv'
  <2>1. PICK e : e = [kind |-> kind, n |-> n, p |-> p, in |-> {n}]
    OBVIOUS
  <2>2. e.kind = kind /\ e.in = {n} /\ e.n = n /\ e.p = p /\ Fires(e)
    BY <1>7, <2>1
  <2> QED  BY <1>2, <1>5, <1>7, <2>2
<1>8. CASE \E n \in DOMAIN tree : \E p \in DOMAIN tree \union {0} :
             /\ used' = used /\ tree' = [tree EXCEPT ![n] = p]
             /\ Fires([kind |-> "moved", n |-> n, p |-> p, in |-> {n}])
  BY <1>7, <1>8
<1>9. CASE \E n \in DOMAIN tree :
             /\ used' = used /\ tree' = tree
             /\ Fires([kind |-> "changed", n |-> n, p |-> 0, in |-> {n}])
  BY <1>7, <1>9
<1> QED  BY <1>4, <1>6, <1>8, <1>9 DEF User

LEMMA ApplyCreateOnce ==
  ASSUME EchoInv, OnceInv, ApplyCreate
  PROVE  OnceInv'
<1>1. PICK p : /\ used' = used + 1 /\ guard' = used + 1 /\ applied' = applied \union {used + 1}
               /\ tree' = Over([n \in {used + 1} |-> p], tree) /\ guard = 0
               /\ UNCHANGED <<map, moved, outbox, flush, walk, imported, minted, unheard, twice>>
  BY DEF ApplyCreate
<1>2. queue' = queue
  <2>1. used \in Nat
    BY OnceFacts
  <2>2. Suppressed(guard')
    BY <1>1, <2>1 DEF Suppressed
  <2> QED  BY <2>2 DEF ApplyCreate
<1>3. DOMAIN tree' = DOMAIN tree \union {used + 1}
  <2>1. PICK u, t : u = used + 1 /\ t = tree
    OBVIOUS
  <2>2. tree' = Over([n \in {u} |-> p], t)
    BY <1>1, <2>1
  <2>3. DOMAIN Over([n \in {u} |-> p], t) = DOMAIN t \union {u}
    BY DEF Over
  <2> QED  BY <2>1, <2>2, <2>3
<1>4. guard' # 0 => guard' \in applied'
  BY <1>1
<1>5. guard' = guard \/ guard = 0
  BY <1>1
<1>6. unheard \subseteq unheard' /\ queue' = queue /\ guard' = used + 1
  BY <1>1, <1>2
<1> QED  BY <1>1, <1>3, <1>4, <1>5, <1>6, GrowsOnce

LEMMA ApplyLinkOnce ==
  ASSUME EchoInv, OnceInv, ApplyLink
  PROVE  OnceInv'
<1>1. /\ moved' = moved \union {-guard} /\ guard' = 0 /\ guard # 0
      /\ UNCHANGED <<tree, outbox, queue, flush, walk, imported, minted, used, applied, unheard, twice>>
  BY DEF ApplyLink
<1>2. PICK g, o : g = guard /\ o = -guard
  OBVIOUS
<1>3. DOMAIN map' = DOMAIN map \union {g} /\ map'[g] = o /\ \A n \in DOMAIN map : n # g => map'[n] = map[n]
  <2>1. PICK m : m = map
    OBVIOUS
  <2>2. map' = Over([n \in {g} |-> o], m)
    BY <1>2, <2>1 DEF ApplyLink
  <2>3. /\ DOMAIN Over([n \in {g} |-> o], m) = DOMAIN m \union {g}
        /\ Over([n \in {g} |-> o], m)[g] = o
        /\ \A y \in DOMAIN m : y # g => Over([n \in {g} |-> o], m)[y] = m[y]
    BY DEF Over
  <2> QED  BY <2>1, <2>2, <2>3, Zenon
<1>4. /\ g \in applied /\ g \in 1 .. used /\ o \in Int /\ o < 0 /\ o # 0 /\ g = -o
  <2>1. guard \in 0 .. used /\ used \in Nat
    BY OnceFacts
  <2> QED  BY <1>1, <1>2, <2>1 DEF OnceInv, OwnOk
<1>5. /\ \A i \in Slots : \A a : ~CreateOp(flush[i].ops, g, a)
      /\ \A a : CreateOp(outbox, g, a) => g \in twice
  BY <1>4, OnceFacts
<1>6. \A n, x : Owns(n, x)' => Owns(n, x) \/ (n = g /\ x = o)
  BY <1>1, <1>3 DEF Owns
<1>7. \A n : Awaited(n)' <=> Awaited(n)
  BY <1>1 DEF Awaited
<1>8. OrderOk' /\ ApartOk' /\ SlotsIn' /\ SameOk' /\ OneOk' /\ TodoOk' /\ StatesOk'
  BY <1>1 DEF OnceInv, OrderOk, ApartOk, SlotsIn, SameOk, OneOk, TodoOk, StatesOk, Ordered, Told
<1>9. AgreeOk'
  BY <1>1, <1>3, <1>5 DEF OnceInv, AgreeOk, Agrees
<1>10. ToldOk'
  BY <1>1, <1>3, <1>5, <1>7 DEF OnceInv, ToldOk
<1>11. OwnOk'
  <2>1. minted \in Nat /\ o <= minted
    BY <1>4 DEF OnceInv, OwnOk
  <2>2. \A n : Owns(n, o) => n = g
    BY <1>4 DEF OnceInv, OwnOk
  <2> QED  BY <1>1, <1>2, <1>4, <1>6, <2>1, <2>2 DEF OnceInv, OwnOk
<1>12. MovedOk'
  BY <1>1, <1>2, <1>4, <1>6 DEF OnceInv, MovedOk, Excused, Told
<1>13. CoveredOk'
  <2>1. \A x : Told(x)' <=> Told(x)
    BY <1>1 DEF Told
  <2>2. \A n : Excused(n)' <=> Excused(n)
    BY <1>1 DEF Excused
  <2> QED  BY <1>1, <1>2, <1>3, <1>4, <1>7, <2>1, <2>2 DEF OnceInv, CoveredOk
<1> QED  BY <1>8, <1>9, <1>10, <1>11, <1>12, <1>13 DEF OnceInv

LEMMA TakesOnce ==
  ASSUME EchoInv, OnceInv, NEW i \in Slots, TakesQueue(i),
         UNCHANGED <<tree, map, moved, outbox, imported, guard, minted, used, applied, unheard>>,
         walk' = walk \/ (walk'.at = "drained" /\ walk.at = "idle")
  PROVE  OnceInv'
<1>1. PICK f : f = [Free EXCEPT !.at = "stage", !.events = queue] /\ flush' = [flush EXCEPT ![i] = f]
  BY DEF TakesQueue
<1>2. f.at = "stage" /\ f.events = queue /\ f.ops = << >> /\ f.dels = {} /\ DOMAIN f.news = {}
  BY <1>1 DEF Free, None
<1>3. flush[i].at = "free" /\ queue' = << >> /\ twice \subseteq twice'
  BY DEF TakesQueue
<1>4. flush'[i] = f /\ \A j \in Slots : j # i => flush'[j] = flush[j]
  BY <1>1, OnceFacts
<1>5. \A j \in Slots : \A n : Touches(queue, n) /\ Touches(flush[j].events, n) => n \in twice'
  <2>1. ASSUME NEW j \in Slots, NEW n, Touches(queue, n), Touches(flush[j].events, n) PROVE n \in twice'
    <3>1. PICK q, s : q = queue /\ s = flush[j].events /\ IsList(q) /\ IsList(s)
      BY OnceFacts
    <3>2. n \in Nodes(q) /\ n \in Nodes(s)
      BY <2>1, <3>1, TouchesIs
    <3>3. twice' = twice \union (Nodes(q) \cap UNION {Nodes(flush[x].events) : x \in Slots})
      BY <3>1 DEF TakesQueue
    <3> QED  BY <3>1, <3>2, <3>3
  <2> QED  BY <2>1
<1>6. \A n : Awaited(n)' <=> Awaited(n)
  <2>1. \A n : ~CreatedIn(queue', n)
    BY <1>3, NothingIn
  <2> QED  BY <1>2, <1>3, <1>4, <2>1 DEF Awaited
<1>7. \A n, o : Owns(n, o)' => Owns(n, o)
  <2>1. \A n, o : ~InOps(f.ops, n, o)
    BY <1>2, NothingIn
  <2> QED  BY <1>2, <1>4, <2>1 DEF Owns
<1>8. \A n, a : ~CreateOp(f.ops, n, a)
  BY <1>2, NothingIn
<1>9. OrderOk'
  <2>1. \A j \in Slots : Ordered(flush[j].events)'
    BY <1>2, <1>4 DEF OnceInv, OrderOk, Ordered
  <2>2. Ordered(queue)' /\ \A n : ~CreatedIn(queue', n)
    BY <1>3, NothingIn DEF Ordered
  <2> QED  BY <2>1, <2>2 DEF OrderOk
<1>10. ApartOk'
  BY <1>2, <1>3, <1>4, <1>5 DEF OnceInv, ApartOk
<1>11. SlotsIn'
  <2>1. SlotIn(f)
    BY <1>2, <1>8 DEF SlotIn
  <2> QED  BY <1>4, <2>1 DEF OnceInv, SlotsIn
<1>12. AgreeOk' /\ SameOk'
  <2>1. AgreeOk'
    BY <1>3, <1>4, <1>8 DEF OnceInv, AgreeOk, Agrees
  <2>2. SameOk'
    BY <1>3, <1>4, <1>8 DEF OnceInv, SameOk
  <2> QED  BY <2>1, <2>2
<1>13. OneOk' /\ TodoOk'
  BY <1>3 DEF OnceInv, OneOk, TodoOk
<1>14. ToldOk'
  BY <1>3, <1>4, <1>6 DEF OnceInv, ToldOk
<1>15. OwnOk' /\ MovedOk'
  BY <1>3, <1>7 DEF OnceInv, OwnOk, MovedOk, Excused, Told
<1>16. StatesOk'
  BY <1>2, <1>4 DEF OnceInv, StatesOk, Told
<1>17. CoveredOk'
  <2>1. \A x : Told(x)' <=> Told(x)
    BY DEF Told
  <2>2. \A n : Excused(n) => Excused(n)'
    BY <1>3 DEF Excused
  <2>3. \A n : (\E j \in Slots : flush[j].at \in Writing /\ \E a : CreateOp(flush[j].ops, n, a)) =>
               \E j \in Slots : flush'[j].at \in Writing /\ \E a : CreateOp(flush'[j].ops, n, a)
    BY <1>3, <1>4 DEF Writing
  <2>4. \A n : (walk.at = "walk" => n \in walk.todo) => (walk'.at = "walk" => n \in walk'.todo)
    OBVIOUS
  <2> QED  BY <1>6, <2>1, <2>2, <2>3, <2>4 DEF OnceInv, CoveredOk
<1> QED  BY <1>9, <1>10, <1>11, <1>12, <1>13, <1>14, <1>15, <1>16, <1>17 DEF OnceInv

LEMMA DrainOnce ==
  ASSUME EchoInv, OnceInv, FlushTimer \/ WalkDrain
  PROVE  OnceInv'
<1>1. CASE FlushTimer
  <2>1. PICK i \in Slots : TakesQueue(i)
    BY <1>1 DEF FlushTimer
  <2>2. UNCHANGED <<tree, map, moved, outbox, imported, guard, minted, used, applied, unheard>> /\ walk' = walk
    BY <1>1 DEF FlushTimer
  <2>3. walk' = walk \/ (walk'.at = "drained" /\ walk.at = "idle")
    BY <2>2
  <2> QED  BY <2>1, <2>2, <2>3, TakesOnce
<1>2. CASE WalkDrain
  <2>1. UNCHANGED <<tree, map, moved, outbox, imported, guard, minted, used, applied, unheard>>
        /\ walk.at = "idle"
    BY <1>2 DEF WalkDrain
  <2>2. walk'.at = "drained"
    <3>1. \E i : Drained(i)
      BY <1>2 DEF WalkDrain
    <3> QED  BY <3>1 DEF Drained, Idle
  <2>3. CASE \E i \in Slots : TakesQueue(i)
    BY <2>1, <2>2, <2>3, TakesOnce
  <2>4. CASE UNCHANGED <<queue, flush, twice>>
    <3>1. \A n : Awaited(n)' <=> Awaited(n)
      BY <2>4 DEF Awaited
    <3>2. \A n, o : Owns(n, o)' <=> Owns(n, o)
      BY <2>1, <2>4 DEF Owns
    <3>3. OrderOk' /\ ApartOk' /\ SlotsIn' /\ AgreeOk' /\ SameOk' /\ OneOk' /\ TodoOk' /\ StatesOk'
      BY <2>1, <2>2, <2>4
      DEF OnceInv, OrderOk, ApartOk, SlotsIn, AgreeOk, SameOk, OneOk, TodoOk, StatesOk, Agrees, Ordered, Told
    <3>4. ToldOk'
      BY <2>1, <2>4, <3>1 DEF OnceInv, ToldOk
    <3>5. OwnOk' /\ MovedOk'
      BY <2>1, <2>4, <3>2 DEF OnceInv, OwnOk, MovedOk, Excused, Told
    <3>6. CoveredOk'
      BY <2>1, <2>2, <2>4, <3>1 DEF OnceInv, CoveredOk, Excused, Told
    <3> QED  BY <3>3, <3>4, <3>5, <3>6 DEF OnceInv
  <2> QED  BY <1>2, <2>3, <2>4 DEF WalkDrain
<1> QED  BY <1>1, <1>2

LEMMA StageOnce ==
  ASSUME EchoInv, OnceInv, NEW i \in Slots, Stage(i)
  PROVE  OnceInv'
<1>1. PICK events : /\ events = flush[i].events /\ IsList(events) /\ Ordered(events)
                    /\ \A k \in 1 .. Len(events) : EventOk(events[k])
  <2>1. IsList(flush[i].events) /\ Ordered(flush[i].events)
    BY OnceFacts DEF OnceInv, OrderOk
  <2>2. \A k \in 1 .. Len(flush[i].events) : EventOk(flush[i].events[k])
    BY DEF EchoInv, FlushesOk, SlotOk, EventsOk
  <2> QED  BY <2>1, <2>2
<1>2. PICK near, done, f :
        /\ done = Staged(events, near) /\ minted' = done.next
        /\ f = IF done.ops = << >> THEN Free
               ELSE [at |-> IF done.news # None THEN "maps" ELSE AfterMaps(done.dels),
                     events |-> events, news |-> done.news, dels |-> done.dels, ops |-> done.ops]
        /\ flush' = [flush EXCEPT ![i] = f]
  <2>1. PICK near :
          /\ minted' = Staged(flush[i].events, near).next
          /\ flush' = [flush EXCEPT ![i] =
               IF Staged(flush[i].events, near).ops = << >> THEN Free
               ELSE [at |-> IF Staged(flush[i].events, near).news # None THEN "maps"
                            ELSE AfterMaps(Staged(flush[i].events, near).dels),
                     events |-> @.events, news |-> Staged(flush[i].events, near).news,
                     dels |-> Staged(flush[i].events, near).dels, ops |-> Staged(flush[i].events, near).ops]]
    BY DEF Stage
  <2>2. PICK done : done = Staged(events, near)
    OBVIOUS
  <2>3. Staged(flush[i].events, near) = done
    BY <1>1, <2>2
  <2>4. flush' = [flush EXCEPT ![i] =
            IF done.ops = << >> THEN Free
            ELSE [at |-> IF done.news # None THEN "maps" ELSE AfterMaps(done.dels),
                  events |-> events, news |-> done.news, dels |-> done.dels, ops |-> done.ops]]
    BY <1>1, <2>1, <2>3
  <2>5. minted' = done.next
    BY <2>1, <2>3
  <2> QED  BY <2>2, <2>4, <2>5
<1>3. AccIs(done, events, Len(events)) /\ Complete(done, events, Len(events)) /\ AccOk(done)
  <2>1. minted \in Nat /\ NodesOk
    BY DEF EchoInv, OnceInv, OwnOk
  <2>2. \A n \in DOMAIN map : n \in 1 .. used /\ map[n] \in Int /\ map[n] # 0 /\ map[n] <= minted
    BY DEF OnceInv, OwnOk, Owns
  <2>3. \A n, m \in DOMAIN map : map[n] = map[m] => n = m
    BY DEF OnceInv, OwnOk, Owns
  <2>4. EventsOk(events)
    BY <1>1 DEF EchoInv, FlushesOk, SlotOk
  <2> QED  BY <1>1, <1>2, <2>1, <2>2, <2>3, <2>4, StagedIs, StagedOk
<1>4. /\ UNCHANGED <<tree, map, moved, outbox, queue, walk, imported, guard, used, applied, twice>>
      /\ flush[i].at = "stage" /\ unheard \subseteq unheard'
  BY DEF Stage
<1>5. \A k \in 1 .. Len(events) : events[k].kind = "created" /\ ~Exists(events[k].p) => events[k].n \in unheard'
  <2>1. Range(events) = {events[k] : k \in 1 .. Len(events)}
    BY <1>1, ListFacts
  <2>2. unheard' = unheard \union
          {e.n : e \in {x \in Range(events) : x.kind = "created" /\ ~Exists(x.p)}}
    BY <1>1 DEF Stage
  <2> QED  BY <2>1, <2>2
<1>6. flush'[i] = f /\ \A j \in Slots : j # i => flush'[j] = flush[j]
  BY <1>2, OnceFacts
<1>7. /\ f.at \in {"free"} \union Writing /\ (f.at = "free" => f.ops = << >>) /\ f.ops = done.ops
      /\ f.events \in {<< >>, events} /\ (f.at \in Writing => f.events = events)
      /\ \A n \in f.dels : f.events = events /\ n \in done.dels
      /\ \A n \in DOMAIN f.news : n \in DOMAIN done.news /\ f.news[n] = done.news[n]
      /\ f.at \in Writing => \A n \in DOMAIN done.news : f.at = "maps" /\ n \in DOMAIN f.news
      /\ done.ops # << >> => f.at \in Writing
  <2>1. CASE done.ops = << >>
    <3>1. /\ f.at = "free" /\ f.events = << >> /\ f.ops = << >> /\ f.dels = {} /\ DOMAIN f.news = {}
      BY <1>2, <2>1 DEF Free, None
    <3> QED  BY <2>1, <3>1 DEF Writing
  <2>2. CASE done.ops # << >>
    <3>1. /\ f.at = (IF done.news # None THEN "maps" ELSE AfterMaps(done.dels))
          /\ f.events = events /\ f.ops = done.ops /\ f.dels = done.dels /\ f.news = done.news
      BY <1>2, <2>2
    <3>2. f.at \in Writing /\ (f.at # "maps" => DOMAIN done.news = {})
      BY <3>1 DEF Writing, AfterMaps, None
    <3> QED  BY <3>1, <3>2 DEF Writing
  <2> QED  BY <2>1, <2>2
<1>8. /\ \A n, a : CreateOp(f.ops, n, a) => f.at \in Writing /\ CreatedIn(events, n)
      /\ \A n : CreatedIn(events, n) => Touches(events, n)
      /\ \A n : Touches(f.events, n) => Touches(events, n)
      /\ \A n \in done.dels : Touches(events, n)
  <2>1. \A n, a : CreateOp(f.ops, n, a) => CreatedIn(events, n)
    BY <1>3, <1>7 DEF AccIs, Creating, CreatedIn
  <2>2. \A n, a : CreateOp(f.ops, n, a) => done.ops # << >>
    BY <1>7, NothingIn
  <2>3. \A n \in done.dels : Touches(events, n)
    BY <1>3 DEF AccIs, Creating, Touches
  <2>4. \A n : CreatedIn(events, n) => Touches(events, n)
    BY <1>1, OnceFacts
  <2>5. \A n : Touches(f.events, n) => Touches(events, n)
    BY <1>7, NothingIn
  <2> QED  BY <1>7, <2>1, <2>2, <2>3, <2>4, <2>5
<1>9. \A n : Awaited(n)' => Awaited(n)
  BY <1>4, <1>6, <1>7 DEF Awaited, Writing
<1>10. /\ \A n : CreatedIn(events, n) => Awaited(n)
       /\ \A n : Awaited(n) => Awaited(n)' \/ CreatedIn(events, n)
  BY <1>1, <1>4, <1>6 DEF Awaited
<1>11. OrderOk'
  <2>1. \A u : OrderedUpTo(u, << >>)
    BY NothingIn
  <2>2. OrderedUpTo(used, f.events)
    BY <1>1, <1>7, <2>1 DEF Ordered
  <2>3. \A j \in Slots : Ordered(flush[j].events)'
    BY <1>4, <1>6, <2>2 DEF OnceInv, OrderOk, Ordered
  <2>4. \A j \in Slots : \A n : CreatedIn(queue', n) => ~Touches(flush'[j].events, n)
    BY <1>1, <1>4, <1>6, <1>8 DEF OnceInv, OrderOk
  <2> QED  BY <1>4, <2>3, <2>4 DEF OnceInv, OrderOk, Ordered
<1>12. ApartOk'
  BY <1>1, <1>4, <1>6, <1>8 DEF OnceInv, ApartOk
<1>13. SlotsIn'
  <2>1. SlotIn(f)
    BY <1>7, <1>8 DEF SlotIn, Writing
  <2> QED  BY <1>6, <2>1 DEF OnceInv, SlotsIn
<1>14. AgreeOk'
  <2>1. ASSUME NEW n \in DOMAIN tree PROVE Intact(events, Len(events), n)
    BY <1>1 DEF Intact, EventOk, Gone
  <2>2. ASSUME NEW n \in DOMAIN tree, NEW a, CreateOp(f.ops, n, a)
        PROVE  Agrees(f, n, a)
    <3>1. /\ n \in DOMAIN map => n \in DOMAIN done.cache /\ done.cache[n] = map[n] /\ n \notin DOMAIN done.news
          /\ n \notin DOMAIN map => /\ n \in DOMAIN done.cache <=> n \in DOMAIN done.news
                                    /\ n \in DOMAIN done.cache => done.cache[n] = done.news[n]
          /\ n \in DOMAIN done.cache /\ done.cache[n] = a
      BY <1>3, <1>7, <2>1, <2>2 DEF AccIs, Agreed
    <3>2. f.at \in Writing
      BY <1>8, <2>2
    <3> QED  BY <1>7, <3>1, <3>2 DEF Agrees
  <2>3. ASSUME NEW j \in Slots, NEW n, NEW a, flush'[j].at \in Writing, n \in DOMAIN tree, n \notin twice,
               CreateOp(flush'[j].ops, n, a)
        PROVE  Agrees(flush'[j], n, a)
    <3>1. CASE j = i
      BY <1>6, <2>2, <2>3, <3>1
    <3>2. CASE j # i
      BY <1>6, <2>3, <3>2 DEF OnceInv, AgreeOk
    <3> QED  BY <3>1, <3>2
  <2> QED  BY <1>4, <2>3 DEF AgreeOk, Agrees
<1>15. SameOk'
  <2>1. ASSUME NEW n, NEW a, NEW b, n \notin twice, CreateOp(f.ops, n, a),
               CreateOp(outbox, n, b) \/ CreateOp(f.ops, n, b)
        PROVE  a = b
    <3>1. CASE CreateOp(f.ops, n, b)
      BY <1>3, <1>7, <2>1, <3>1 DEF AccIs, Creating
    <3>2. CASE CreateOp(outbox, n, b)
      <4>1. n \in DOMAIN map /\ map[n] = b
        BY <1>8, <1>10, <2>1, <3>2 DEF OnceInv, ToldOk
      <4> QED  BY <1>3, <1>7, <2>1, <4>1 DEF AccIs, Creating
    <3> QED  BY <2>1, <3>1, <3>2
  <2> QED  BY <1>4, <1>6, <2>1 DEF OnceInv, SameOk
<1>16. OneOk' /\ TodoOk'
  BY <1>4 DEF OnceInv, OneOk, TodoOk
<1>17. ToldOk'
  <2>1. \A n, a : (\E j \in Slots : flush[j].at = "states" /\ CreateOp(flush[j].ops, n, a)) =>
                  \E j \in Slots : flush'[j].at = "states" /\ CreateOp(flush'[j].ops, n, a)
    BY <1>4, <1>6
  <2> QED  BY <1>4, <1>9, <2>1 DEF OnceInv, ToldOk
<1>18. /\ \A n, o : Owns(n, o)' => Owns(n, o) \/ AccOwns(done, n, o)
       /\ \A n, o : AccOwns(done, n, o) =>
            /\ n \in 1 .. used /\ o \in Int /\ o # 0 /\ o <= minted'
            /\ o <= minted => Owns(n, o)
       /\ \A n, m, o : AccOwns(done, n, o) /\ AccOwns(done, m, o) => n = m
       /\ minted' \in Nat /\ minted <= minted' /\ minted \in Nat
  <2>1. \A n, o : Owns(n, o)' => Owns(n, o) \/ AccOwns(done, n, o)
    <3>1. \A n, o : n \in DOMAIN f.news /\ f.news[n] = o => AccOwns(done, n, o)
      BY <1>7 DEF AccOwns
    <3>2. \A n, o : InOps(f.ops, n, o) => AccOwns(done, n, o)
      BY <1>7 DEF AccOwns
    <3> QED  BY <1>4, <1>6, <3>1, <3>2 DEF Owns
  <2>2. Numbered(done)
    BY <1>3 DEF AccIs
  <2> QED  BY <1>2, <2>1, <2>2 DEF Numbered, OnceInv, OwnOk, Owns
<1>19. OwnOk'
  <2>1. \A n, o : Owns(n, o) => n \in 1 .. used /\ o \in Int /\ o # 0 /\ o <= minted /\ (o < 0 => n = -o)
    BY DEF OnceInv, OwnOk
  <2>2. \A n, m, o : Owns(n, o) /\ Owns(m, o) => n = m
    BY DEF OnceInv, OwnOk
  <2>3. ASSUME NEW n, NEW o, AccOwns(done, n, o), o < 0 PROVE Owns(n, o)
    BY <1>18, <2>3
  <2>4. ASSUME NEW n, NEW o, Owns(n, o)'
        PROVE  n \in 1 .. used /\ o \in Int /\ o # 0 /\ o <= minted' /\ (o < 0 => n = -o)
    <3>1. CASE Owns(n, o)
      BY <1>18, <2>1, <3>1
    <3>2. CASE AccOwns(done, n, o)
      BY <1>18, <2>1, <2>3, <3>2
    <3> QED  BY <1>18, <2>4, <3>1, <3>2
  <2>5. ASSUME NEW n, NEW m, NEW o, Owns(n, o)', Owns(m, o)' PROVE n = m
    <3>1. \A x, y : Owns(x, o) /\ AccOwns(done, y, o) => x = y
      BY <1>18, <2>1, <2>2
    <3> QED  BY <1>18, <2>2, <2>5, <3>1
  <2>6. \A o \in moved : o \in Int /\ o <= minted'
    BY <1>18 DEF OnceInv, OwnOk
  <2>7. guard' # 0 => guard' \in applied'
    BY <1>4 DEF OnceInv, OwnOk
  <2> QED  BY <1>4, <1>18, <2>4, <2>5, <2>6, <2>7 DEF OwnOk
<1>20. MovedOk'
  <2>1. \A n, o : o \in moved /\ Owns(n, o)' => Owns(n, o)
    BY <1>18 DEF OnceInv, OwnOk
  <2>2. \A o : Told(o)' <=> Told(o)
    BY <1>4 DEF Told
  <2>3. \A n : Excused(n) => Excused(n)'
    BY <1>4 DEF Excused
  <2> QED  BY <1>4, <2>1, <2>2, <2>3 DEF OnceInv, MovedOk
<1>21. StatesOk'
  BY <1>4, <1>6, <1>7 DEF OnceInv, StatesOk, Told, Writing
<1>22. CoveredOk'
  <2>1. \A o : Told(o)' <=> Told(o)
    BY <1>4 DEF Told
  <2>2. \A n : (Excused(n) => Excused(n)') /\ (n \in unheard' => Excused(n)')
    BY <1>4 DEF Excused
  <2>3. \A n : CreatedIn(events, n) =>
          n \in unheard' \/ \E j \in Slots : flush'[j].at \in Writing /\ \E a : CreateOp(flush'[j].ops, n, a)
    <3>1. ASSUME NEW k \in 1 .. Len(events), events[k].kind = "created"
          PROVE  events[k].n \in unheard' \/ \E a : CreateOp(done.ops, events[k].n, a)
      BY <1>3, <1>5, <3>1 DEF Complete
    <3>2. \A n : CreatedIn(events, n) => n \in unheard' \/ \E a : CreateOp(f.ops, n, a)
      BY <1>7, <3>1 DEF CreatedIn
    <3> QED  BY <1>6, <1>8, <3>2
  <2>4. \A n : (\E j \in Slots : flush[j].at \in Writing /\ \E a : CreateOp(flush[j].ops, n, a)) =>
               \E j \in Slots : flush'[j].at \in Writing /\ \E a : CreateOp(flush'[j].ops, n, a)
    BY <1>4, <1>6 DEF Writing
  <2> QED  BY <1>4, <1>10, <2>1, <2>2, <2>3, <2>4 DEF OnceInv, CoveredOk
<1> QED  BY <1>11, <1>12, <1>13, <1>14, <1>15, <1>16, <1>17, <1>19, <1>20, <1>21, <1>22 DEF OnceInv

\* A slot whose flush moves on, with what it has staged.
LEMMA SlotGoes ==
  ASSUME EchoInv, OnceInv, NEW i \in Slots, NEW at, flush' = [flush EXCEPT ![i].at = at]
  PROVE  /\ \A j \in Slots : j # i => flush'[j] = flush[j]
         /\ flush'[i].at = at /\ flush'[i].events = flush[i].events /\ flush'[i].news = flush[i].news
         /\ flush'[i].dels = flush[i].dels /\ flush'[i].ops = flush[i].ops
<1>1. /\ DOMAIN flush = Slots
      /\ DOMAIN flush[i] = {"at", "events", "news", "dels", "ops"}
  BY OnceFacts
<1>2. PICK f, g : f = flush[i] /\ g = [f EXCEPT !.at = at]
  OBVIOUS
<1>3. /\ g.at = at /\ g.events = f.events /\ g.news = f.news /\ g.dels = f.dels /\ g.ops = f.ops
  BY <1>1, <1>2
<1>4. flush'[i] = g /\ \A j \in Slots : j # i => flush'[j] = flush[j]
  BY <1>1, <1>2
<1> QED  BY <1>2, <1>3, <1>4

\* No event about a node of a staged flush is awaited, unless two flushes overlap.
LEMMA NotAwaited ==
  ASSUME EchoInv, OnceInv, NEW i \in Slots, flush[i].at # "stage", NEW n, n \notin twice,
         Touches(flush[i].events, n)
  PROVE  ~Awaited(n)
<1>1. ~CreatedIn(queue, n)
  BY DEF OnceInv, OrderOk
<1>2. ASSUME NEW j \in Slots, flush[j].at = "stage", CreatedIn(flush[j].events, n) PROVE FALSE
  <2>1. Touches(flush[j].events, n) /\ i # j
    BY <1>2, OnceFacts
  <2> QED  BY <2>1 DEF OnceInv, ApartOk
<1> QED  BY <1>1, <1>2 DEF Awaited

LEMMA PutOnce ==
  ASSUME EchoInv, OnceInv, NEW i \in Slots, PutMappings(i)
  PROVE  OnceInv'
<1>1. PICK news, dels : news = flush[i].news /\ dels = flush[i].dels
  OBVIOUS
<1>2. /\ UNCHANGED <<tree, moved, outbox, queue, walk, imported, guard, minted, used, applied, unheard>>
      /\ flush[i].at = "maps" /\ twice \subseteq twice'
      /\ flush' = [flush EXCEPT ![i].at = AfterMaps(dels)]
      /\ \A n \in DOMAIN news : n \in DOMAIN map => n \in twice' \/ map[n] = news[n]
  BY <1>1 DEF PutMappings
<1>3. PICK at : at = AfterMaps(dels) /\ at \in {"dels", "ops"}
  BY DEF AfterMaps
<1>4. /\ \A j \in Slots : j # i => flush'[j] = flush[j]
      /\ flush'[i].at = at /\ flush'[i].events = flush[i].events /\ flush'[i].news = flush[i].news
      /\ flush'[i].dels = flush[i].dels /\ flush'[i].ops = flush[i].ops
  BY <1>2, <1>3, SlotGoes
<1>5. /\ DOMAIN map' = DOMAIN map \union DOMAIN news
      /\ \A n \in DOMAIN news : map'[n] = news[n]
      /\ \A n \in DOMAIN map : n \notin DOMAIN news => map'[n] = map[n]
  BY <1>1 DEF PutMappings, Over
<1>6. \A n \in DOMAIN map : n \notin twice' => n \in DOMAIN map' /\ map'[n] = map[n]
  BY <1>2, <1>5
<1>7. \A j \in Slots : flush'[j].events = flush[j].events /\ flush'[j].ops = flush[j].ops
                       /\ flush'[j].news = flush[j].news /\ (flush'[j].at \in Writing <=> flush[j].at \in Writing)
                       /\ (flush'[j].at = "stage" <=> flush[j].at = "stage")
                       /\ (flush'[j].at = "states" <=> flush[j].at = "states")
  BY <1>2, <1>3, <1>4 DEF Writing
<1>8. \A n, o : Owns(n, o)' => Owns(n, o)
  BY <1>1, <1>5, <1>7 DEF Owns
<1>9. \A n : Awaited(n)' <=> Awaited(n)
  BY <1>2, <1>7 DEF Awaited
<1>10. OrderOk' /\ ApartOk'
  BY <1>2, <1>7 DEF OnceInv, OrderOk, ApartOk, Ordered
<1>11. SlotsIn'
  <2>1. SlotIn(flush'[i])
    BY <1>2, <1>3, <1>4 DEF OnceInv, SlotsIn, SlotIn, Writing
  <2> QED  BY <1>4, <2>1 DEF OnceInv, SlotsIn
<1>12. AgreeOk'
  <2>1. ASSUME NEW j \in Slots, NEW n, NEW a, flush[j].at \in Writing, n \in DOMAIN tree, n \notin twice',
               CreateOp(flush[j].ops, n, a)
        PROVE  Agrees(flush[j], n, a)
    BY <1>2, <2>1 DEF OnceInv, AgreeOk
  <2>2. ASSUME NEW n, NEW a, Agrees(flush[i], n, a), n \notin twice' PROVE n \in DOMAIN map' /\ map'[n] = a
    BY <1>1, <1>2, <1>5, <1>6, <2>2 DEF Agrees
  <2>3. ASSUME NEW j \in Slots, NEW n, NEW a, Agrees(flush[j], n, a), n \notin twice' PROVE Agrees(flush[j], n, a)'
    <3>1. CASE j = i
      BY <1>3, <1>4, <2>2, <2>3, <3>1 DEF Agrees
    <3>2. CASE j # i
      BY <1>4, <1>6, <2>3, <3>2 DEF Agrees
    <3> QED  BY <3>1, <3>2
  <2> QED  BY <1>2, <1>7, <2>1, <2>3 DEF AgreeOk
<1>13. SameOk'
  BY <1>2, <1>7 DEF OnceInv, SameOk
<1>14. OneOk' /\ TodoOk'
  BY <1>2 DEF OnceInv, OneOk, TodoOk
<1>15. ToldOk'
  BY <1>2, <1>6, <1>7, <1>9 DEF OnceInv, ToldOk
<1>16. OwnOk' /\ MovedOk'
  BY <1>2, <1>8 DEF OnceInv, OwnOk, MovedOk, Excused, Told
<1>17. StatesOk'
  BY <1>2, <1>7 DEF OnceInv, StatesOk, Told
<1>18. CoveredOk'
  <2>1. \A o : Told(o)' <=> Told(o)
    BY <1>2 DEF Told
  <2>2. \A n : (Excused(n) => Excused(n)') /\ (n \in twice' => Excused(n)')
    BY <1>2 DEF Excused
  <2> QED  BY <1>2, <1>6, <1>7, <1>9, <2>1, <2>2 DEF OnceInv, CoveredOk
<1> QED  BY <1>10, <1>11, <1>12, <1>13, <1>14, <1>15, <1>16, <1>17, <1>18 DEF OnceInv

LEMMA DeleteOnce ==
  ASSUME EchoInv, OnceInv, NEW i \in Slots, DeleteMappings(i)
  PROVE  OnceInv'
<1>1. PICK dels : dels = flush[i].dels
  OBVIOUS
<1>2. /\ UNCHANGED <<tree, moved, outbox, queue, walk, imported, guard, minted, used, applied, unheard, twice>>
      /\ flush[i].at = "dels" /\ flush' = [flush EXCEPT ![i].at = "ops"]
  BY <1>1 DEF DeleteMappings
<1>3. /\ \A j \in Slots : j # i => flush'[j] = flush[j]
      /\ flush'[i].at = "ops" /\ flush'[i].events = flush[i].events /\ flush'[i].news = flush[i].news
      /\ flush'[i].dels = flush[i].dels /\ flush'[i].ops = flush[i].ops
  BY <1>2, SlotGoes
<1>4. /\ DOMAIN map' = DOMAIN map \ dels
      /\ \A n \in DOMAIN map' : map'[n] = map[n]
  BY <1>1 DEF DeleteMappings, Without
<1>5. /\ dels \cap DOMAIN tree = {}
      /\ \A n \in dels : Touches(flush[i].events, n)
  BY <1>1, OnceFacts DEF OnceInv, SlotsIn, SlotIn
<1>6. \A j \in Slots : flush'[j].events = flush[j].events /\ flush'[j].ops = flush[j].ops
                       /\ flush'[j].news = flush[j].news /\ (flush'[j].at \in Writing <=> flush[j].at \in Writing)
                       /\ (flush'[j].at = "stage" <=> flush[j].at = "stage")
                       /\ (flush'[j].at = "states" <=> flush[j].at = "states")
                       /\ (flush'[j].at = "maps" <=> flush[j].at = "maps")
  BY <1>2, <1>3 DEF Writing
<1>7. \A n, o : Owns(n, o)' => Owns(n, o)
  BY <1>4, <1>6 DEF Owns
<1>8. \A n : Awaited(n)' <=> Awaited(n)
  BY <1>2, <1>6 DEF Awaited
<1>9. \A n : n \in dels /\ n \notin twice => ~Awaited(n)
  BY <1>2, <1>5, NotAwaited
<1>10. OrderOk' /\ ApartOk'
  BY <1>2, <1>6 DEF OnceInv, OrderOk, ApartOk, Ordered
<1>11. SlotsIn'
  <2>1. SlotIn(flush'[i])
    BY <1>2, <1>3 DEF OnceInv, SlotsIn, SlotIn, Writing
  <2> QED  BY <1>3, <2>1 DEF OnceInv, SlotsIn
<1>12. AgreeOk'
  BY <1>2, <1>4, <1>5, <1>6 DEF OnceInv, AgreeOk, Agrees
<1>13. SameOk'
  BY <1>2, <1>6 DEF OnceInv, SameOk
<1>14. OneOk' /\ TodoOk'
  BY <1>2 DEF OnceInv, OneOk, TodoOk
<1>15. ToldOk'
  BY <1>2, <1>4, <1>5, <1>6, <1>8, <1>9 DEF OnceInv, ToldOk
<1>16. OwnOk' /\ MovedOk'
  BY <1>2, <1>7 DEF OnceInv, OwnOk, MovedOk, Excused, Told
<1>17. StatesOk'
  BY <1>2, <1>6 DEF OnceInv, StatesOk, Told
<1>18. CoveredOk'
  <2>1. \A o : Told(o)' <=> Told(o)
    BY <1>2 DEF Told
  <2>2. \A n : Excused(n) => Excused(n)'
    BY <1>2 DEF Excused
  <2> QED  BY <1>2, <1>4, <1>5, <1>6, <1>8, <2>1, <2>2 DEF OnceInv, CoveredOk
<1> QED  BY <1>10, <1>11, <1>12, <1>13, <1>14, <1>15, <1>16, <1>17, <1>18 DEF OnceInv

LEMMA ToldIs ==
  ASSUME NEW s, IsList(s), NEW o
  PROVE  (\E c \in Range(s) : c.kind = "create" /\ c.obj = o) <=> \E n : CreateOp(s, n, o)
<1>1. Range(s) = {s[k] : k \in 1 .. Len(s)}
  BY ListFacts
<1> QED  BY <1>1 DEF CreateOp

LEMMA OperationsOnce ==
  ASSUME EchoInv, OnceInv, NEW i \in Slots, CreateOperations(i)
  PROVE  OnceInv'
<1>1. /\ UNCHANGED <<tree, map, moved, queue, walk, imported, guard, minted, used, applied, twice>>
      /\ flush[i].at = "ops" /\ flush' = [flush EXCEPT ![i].at = "states"]
      /\ unheard \subseteq unheard'
  BY DEF CreateOperations
<1>2. PICK s, t, r : s = outbox /\ t = flush[i].ops /\ r = outbox'
  OBVIOUS
<1>3. /\ IsList(r) /\ IsList(t) /\ Len(s) \in Nat /\ Len(t) \in Nat /\ Len(r) = Len(s) + Len(t)
      /\ \A n, a : CreateOp(r, n, a) <=> CreateOp(s, n, a) \/ CreateOp(t, n, a)
      /\ \A k \in 1 .. Len(s) : r[k] = s[k]
      /\ \A n, a : CreateOp(t, n, a) => \E k \in Len(s) + 1 .. Len(r) : r[k].node = n
  <2>1. IsList(s) /\ IsList(t)
    BY <1>2, OnceFacts
  <2>2. r = s \o t
    BY <1>2 DEF CreateOperations
  <2>3. /\ IsList(s \o t) /\ Len(s) \in Nat /\ Len(t) \in Nat /\ Len(s \o t) = Len(s) + Len(t)
        /\ \A n, a : CreateOp(s \o t, n, a) <=> CreateOp(s, n, a) \/ CreateOp(t, n, a)
        /\ \A k \in 1 .. Len(s) : (s \o t)[k] = s[k]
        /\ \A n, a : CreateOp(t, n, a) => \E k \in Len(s) + 1 .. Len(s \o t) : (s \o t)[k].node = n
    BY <2>1, ConcatOps
  <2> QED  BY <2>1, <2>2, <2>3, Zenon
<1>4. /\ \A j \in Slots : j # i => flush'[j] = flush[j]
      /\ flush'[i].at = "states" /\ flush'[i].events = flush[i].events /\ flush'[i].news = flush[i].news
      /\ flush'[i].dels = flush[i].dels /\ flush'[i].ops = t
  BY <1>1, <1>2, SlotGoes
<1>5. /\ \A j \in Slots : flush'[j].events = flush[j].events /\ flush'[j].ops = flush[j].ops
                          /\ flush'[j].news = flush[j].news
                          /\ (flush'[j].at \in Writing => flush[j].at \in Writing /\ flush'[j] = flush[j])
                          /\ (flush'[j].at = "stage" <=> flush[j].at = "stage")
                          /\ (flush[j].at = "states" => flush'[j].at = "states")
  BY <1>1, <1>2, <1>4 DEF Writing
<1>6. \A n, o : Owns(n, o)' <=> Owns(n, o)
  BY <1>1, <1>5 DEF Owns
<1>7. \A n : Awaited(n)' <=> Awaited(n)
  BY <1>1, <1>5 DEF Awaited
<1>8. \A n, a : CreateOp(t, n, a) => Touches(flush[i].events, n)
  BY <1>2, OnceFacts
<1>9. flush[i].at \in Writing
  BY <1>1 DEF Writing
<1>10. \A n, a : CreateOp(t, n, a) /\ n \in DOMAIN tree /\ n \notin twice => n \in DOMAIN map /\ map[n] = a
  BY <1>1, <1>2, <1>9 DEF OnceInv, AgreeOk, Agrees
<1>11. OrderOk' /\ ApartOk'
  BY <1>1, <1>5 DEF OnceInv, OrderOk, ApartOk, Ordered
<1>12. SlotsIn'
  <2>1. SlotIn(flush'[i])
    BY <1>1, <1>2, <1>4 DEF OnceInv, SlotsIn, SlotIn, Writing
  <2> QED  BY <1>4, <2>1 DEF OnceInv, SlotsIn
<1>13. AgreeOk'
  <2>1. ASSUME NEW j \in Slots, NEW n, NEW a, flush'[j].at \in Writing, n \in DOMAIN tree, n \notin twice,
               CreateOp(flush'[j].ops, n, a)
        PROVE  Agrees(flush'[j], n, a)
    <3>1. flush[j].at \in Writing /\ flush'[j] = flush[j]
      BY <1>5, <2>1
    <3> QED  BY <2>1, <3>1 DEF OnceInv, AgreeOk
  <2> QED  BY <1>1, <2>1 DEF AgreeOk, Agrees
<1>14. SameOk'
  <2>1. ASSUME NEW j \in Slots, j # i, NEW n, n \notin twice, NEW a, NEW b, CreateOp(flush[j].ops, n, a)
        PROVE  ~CreateOp(t, n, b)
    <3>1. Touches(flush[j].events, n)
      BY <2>1, OnceFacts
    <3> QED  BY <1>8, <2>1, <3>1 DEF OnceInv, ApartOk
  <2>2. ASSUME NEW j \in Slots, NEW n, NEW a, NEW b, flush'[j].at \in Writing, n \notin twice,
               CreateOp(flush[j].ops, n, a), CreateOp(r, n, b) \/ CreateOp(flush[j].ops, n, b)
        PROVE  a = b
    <3>1. j # i
      BY <1>4, <2>2 DEF Writing
    <3>2. CreateOp(s, n, b) \/ CreateOp(flush[j].ops, n, b)
      BY <1>3, <2>1, <2>2, <3>1
    <3> QED  BY <1>2, <1>5, <2>2, <3>2 DEF OnceInv, SameOk
  <2> QED  BY <1>1, <1>2, <1>5, <2>2 DEF SameOk
<1>15. OneOk'
  <2>1. \A n, a, b : n \notin twice /\ CreateOp(s, n, a) /\ CreateOp(s, n, b) => a = b
    BY <1>2 DEF OnceInv, OneOk
  <2>2. \A n, a, b : n \notin twice /\ CreateOp(t, n, a) /\ (CreateOp(s, n, b) \/ CreateOp(t, n, b)) => a = b
    BY <1>2, <1>9 DEF OnceInv, SameOk
  <2>3. \A n, a, b : n \notin twice /\ CreateOp(r, n, a) /\ CreateOp(r, n, b) => a = b
    BY <1>3, <2>1, <2>2
  <2> QED  BY <1>1, <1>2, <2>3 DEF OneOk
<1>16. ToldOk'
  <2>1. ASSUME NEW n, NEW a, n \notin twice, CreateOp(s, n, a), n \in DOMAIN tree \/ Awaited(n)
        PROVE  /\ n \in DOMAIN map /\ map[n] = a
               /\ a \in moved \/ \E j \in Slots : flush'[j].at = "states" /\ CreateOp(flush'[j].ops, n, a)
    <3>1. /\ n \in DOMAIN map /\ map[n] = a
          /\ a \in moved \/ \E j \in Slots : flush[j].at = "states" /\ CreateOp(flush[j].ops, n, a)
      BY <1>2, <2>1 DEF OnceInv, ToldOk
    <3> QED  BY <1>5, <3>1
  <2>2. ASSUME NEW n, NEW a, n \notin twice, CreateOp(t, n, a), n \in DOMAIN tree \/ Awaited(n)
        PROVE  /\ n \in DOMAIN map /\ map[n] = a
               /\ \E j \in Slots : flush'[j].at = "states" /\ CreateOp(flush'[j].ops, n, a)
    <3>1. ~Awaited(n)
      BY <1>1, <1>8, <2>2, NotAwaited
    <3> QED  BY <1>4, <1>10, <2>2, <3>1
  <2> QED  BY <1>1, <1>2, <1>3, <1>7, <2>1, <2>2 DEF ToldOk
<1>17. TodoOk'
  <2> SUFFICES ASSUME walk.at = "walk"
               PROVE  /\ walk.seen \in 0 .. Len(r)
                      /\ \A n, a : n \in walk.todo /\ n \notin twice /\ CreateOp(r, n, a) =>
                           n \in walk.busy \/ \E k \in walk.seen + 1 .. Len(r) : r[k].node = n
    BY <1>1, <1>2 DEF TodoOk
  <2>1. /\ walk.seen \in 0 .. Len(s)
        /\ \A n, a : n \in walk.todo /\ n \notin twice /\ CreateOp(s, n, a) =>
             n \in walk.busy \/ \E k \in walk.seen + 1 .. Len(s) : s[k].node = n
    BY <1>2 DEF OnceInv, TodoOk
  <2>2. /\ walk.seen \in 0 .. Len(r)
        /\ \A k \in walk.seen + 1 .. Len(s) : k \in walk.seen + 1 .. Len(r) /\ k \in 1 .. Len(s)
        /\ \A k \in Len(s) + 1 .. Len(r) : k \in walk.seen + 1 .. Len(r)
    BY <1>3, <2>1
  <2>3. ASSUME NEW n, NEW a, n \in walk.todo, n \notin twice, CreateOp(r, n, a), n \notin walk.busy
        PROVE  \E k \in walk.seen + 1 .. Len(r) : r[k].node = n
    <3>1. CASE CreateOp(s, n, a)
      <4>1. PICK k \in walk.seen + 1 .. Len(s) : s[k].node = n
        BY <2>1, <2>3, <3>1
      <4> QED  BY <1>3, <2>2, <4>1
    <3>2. CASE CreateOp(t, n, a)
      BY <1>3, <2>2, <3>2
    <3> QED  BY <1>3, <2>3, <3>1, <3>2
  <2> QED  BY <2>2, <2>3
<1>18. /\ \A o : Told(o) => Told(o)'
       /\ \A n, a : CreateOp(t, n, a) => Told(a)'
  BY <1>2, <1>3 DEF Told
<1>19. \A n : Excused(n) => Excused(n)'
  BY <1>1 DEF Excused
<1>20. OwnOk'
  BY <1>1, <1>6 DEF OnceInv, OwnOk
<1>21. MovedOk'
  BY <1>1, <1>6, <1>18, <1>19 DEF OnceInv, MovedOk
<1>22. StatesOk'
  <2>1. ASSUME NEW k \in 1 .. Len(t), t[k].kind \in {"create", "move"}
        PROVE  t[k].obj < 0 \/ Told(t[k].obj)' \/ t[k].node \in unheard'
    <3>1. CASE t[k].kind = "create"
      BY <1>18, <3>1 DEF CreateOp
    <3>2. CASE t[k].kind = "move" /\ ~Told(t[k].obj)' /\ ~(t[k].obj < 0)
      <4>1. Owns(t[k].node, t[k].obj)
        BY <1>2 DEF Owns, InOps
      <4>2. t[k].obj \in Int /\ t[k].obj # 0
        BY <4>1 DEF OnceInv, OwnOk
      <4>3. t[k].obj > 0
        BY <3>2, <4>2
      <4>4. ~\E c \in Range(r) : c.kind = "create" /\ c.obj = t[k].obj
        BY <1>2, <1>3, <3>2, ToldIs DEF Told
      <4>5. t[k] \in Range(t)
        BY <1>3, ListFacts
      <4>6. unheard' = unheard \union {op.node : op \in {o \in Range(t) :
              o.kind = "move" /\ o.obj > 0 /\ ~\E c \in Range(r) : c.kind = "create" /\ c.obj = o.obj}}
        BY <1>2 DEF CreateOperations
      <4> QED  BY <3>2, <4>3, <4>4, <4>5, <4>6
    <3> QED  BY <2>1, <3>1, <3>2
  <2>2. ASSUME NEW j \in Slots, j # i, NEW k \in 1 .. Len(flush[j].ops), flush[j].at = "states",
               flush[j].ops[k].kind \in {"create", "move"}
        PROVE  flush[j].ops[k].obj < 0 \/ Told(flush[j].ops[k].obj)' \/ flush[j].ops[k].node \in unheard'
    <3>1. flush[j].ops[k].obj < 0 \/ Told(flush[j].ops[k].obj) \/ flush[j].ops[k].node \in unheard
      BY <2>2 DEF OnceInv, StatesOk
    <3>2. PICK o : o = flush[j].ops[k].obj
      OBVIOUS
    <3>3. Told(o) => \E n : CreateOp(outbox', n, o)
      BY <1>18 DEF Told
    <3> QED  BY <1>1, <1>4, <2>2, <3>1, <3>2, <3>3 DEF Told
  <2> QED  BY <1>4, <2>1, <2>2 DEF StatesOk, Told
<1>23. CoveredOk'
  <2>1. ASSUME NEW n \in DOMAIN tree, NEW a, CreateOp(t, n, a)
        PROVE  Excused(n)' \/ (n \in DOMAIN map /\ Told(map[n])')
    <3>1. CASE n \in twice
      BY <1>19, <3>1 DEF Excused
    <3>2. CASE n \notin twice
      <4>1. n \in DOMAIN map /\ map[n] = a
        BY <1>10, <2>1, <3>2
      <4>2. \E m : CreateOp(outbox', m, a)
        BY <1>18, <2>1 DEF Told
      <4> QED  BY <1>1, <4>1, <4>2 DEF Told
    <3> QED  BY <3>1, <3>2
  <2>2. \A n \in DOMAIN map : Told(map[n]) => Told(map[n])'
    <3>1. ASSUME NEW n \in DOMAIN map, Told(map[n]) PROVE Told(map[n])'
      <4>1. PICK o : o = map[n]
        OBVIOUS
      <4>2. \E m : CreateOp(outbox', m, o)
        BY <1>18, <3>1, <4>1 DEF Told
      <4> QED  BY <1>1, <4>1, <4>2 DEF Told
    <3> QED  BY <3>1
  <2>3. \A n : (\E j \in Slots : flush[j].at \in Writing /\ \E a : CreateOp(flush[j].ops, n, a)) =>
               \/ \E a : CreateOp(t, n, a)
               \/ \E j \in Slots : flush'[j].at \in Writing /\ \E a : CreateOp(flush'[j].ops, n, a)
    BY <1>2, <1>4
  <2> QED  BY <1>1, <1>7, <1>19, <2>1, <2>2, <2>3 DEF OnceInv, CoveredOk
<1> QED  BY <1>11, <1>12, <1>13, <1>14, <1>15, <1>16, <1>17, <1>20, <1>21, <1>22, <1>23 DEF OnceInv

LEMMA RecordOnce ==
  ASSUME EchoInv, OnceInv, NEW i \in Slots, RecordStates(i)
  PROVE  OnceInv'
<1>1. /\ UNCHANGED <<tree, map, outbox, queue, walk, imported, guard, minted, used, applied, unheard, twice>>
      /\ flush[i].at = "states" /\ flush' = [flush EXCEPT ![i] = Free]
  BY DEF RecordStates
<1>2. PICK f, t : f = Free /\ t = flush[i].ops
  OBVIOUS
<1>3. f.at = "free" /\ f.events = << >> /\ f.ops = << >> /\ f.dels = {} /\ DOMAIN f.news = {}
  BY <1>2 DEF Free, None
<1>4. flush'[i] = f /\ \A j \in Slots : j # i => flush'[j] = flush[j]
  BY <1>1, <1>2, OnceFacts
<1>5. /\ \A n : ~Touches(f.events, n) /\ ~CreatedIn(f.events, n)
      /\ \A n, a : ~CreateOp(f.ops, n, a) /\ ~InOps(f.ops, n, a)
      /\ OrderedUpTo(used, f.events)
  BY <1>3, NothingIn
<1>6. /\ moved \subseteq moved'
      /\ \A o \in moved' : o \in moved \/ \E k \in 1 .. Len(t) : t[k].kind \in {"create", "move"} /\ t[k].obj = o
      /\ \A n, a : CreateOp(t, n, a) => a \in moved'
  <2>1. Range(t) = {t[k] : k \in 1 .. Len(t)}
    BY <1>2, OnceFacts, ListFacts
  <2>2. moved' = moved \union {op.obj : op \in {o \in Range(t) : o.kind \in {"create", "move"}}}
    BY <1>2 DEF RecordStates
  <2> QED  BY <2>1, <2>2 DEF CreateOp
<1>7. \A n, o : Owns(n, o)' => Owns(n, o)
  BY <1>1, <1>3, <1>4, <1>5 DEF Owns
<1>8. \A n : Awaited(n)' <=> Awaited(n)
  BY <1>1, <1>3, <1>4 DEF Awaited
<1>9. \A k \in 1 .. Len(t) : Owns(t[k].node, t[k].obj)
  BY <1>2 DEF Owns, InOps
<1>10. OrderOk' /\ ApartOk'
  BY <1>1, <1>4, <1>5 DEF OnceInv, OrderOk, ApartOk, Ordered
<1>11. SlotsIn'
  <2>1. SlotIn(f)
    BY <1>3, <1>5 DEF SlotIn
  <2> QED  BY <1>4, <2>1 DEF OnceInv, SlotsIn
<1>12. AgreeOk' /\ SameOk'
  BY <1>1, <1>4, <1>5 DEF OnceInv, AgreeOk, SameOk, Agrees
<1>13. OneOk' /\ TodoOk'
  BY <1>1 DEF OnceInv, OneOk, TodoOk
<1>14. ToldOk'
  <2>1. \A n, a : (\E j \in Slots : flush[j].at = "states" /\ CreateOp(flush[j].ops, n, a)) =>
           \/ a \in moved'
           \/ \E j \in Slots : flush'[j].at = "states" /\ CreateOp(flush'[j].ops, n, a)
    BY <1>2, <1>4, <1>6
  <2> QED  BY <1>1, <1>6, <1>8, <2>1 DEF OnceInv, ToldOk
<1>15. OwnOk'
  <2>1. ASSUME NEW o \in moved' PROVE o \in Int /\ o <= minted
    <3>1. CASE o \in moved
      BY <3>1 DEF OnceInv, OwnOk
    <3>2. CASE \E n : Owns(n, o)
      BY <3>2 DEF OnceInv, OwnOk
    <3> QED  BY <1>6, <1>9, <3>1, <3>2
  <2> QED  BY <1>1, <1>7, <2>1 DEF OnceInv, OwnOk
<1>16. MovedOk'
  <2>1. ASSUME NEW n \in DOMAIN tree, NEW o \in moved', Owns(n, o)
        PROVE  o < 0 \/ Told(o) \/ Excused(n)
    <3>1. CASE o \in moved
      BY <2>1, <3>1 DEF OnceInv, MovedOk
    <3>2. CASE \E k \in 1 .. Len(t) : t[k].kind \in {"create", "move"} /\ t[k].obj = o
      <4>1. PICK k \in 1 .. Len(t) : t[k].kind \in {"create", "move"} /\ t[k].obj = o
        BY <3>2
      <4>2. t[k].node = n
        BY <1>9, <2>1, <4>1 DEF OnceInv, OwnOk
      <4>3. t[k].obj < 0 \/ Told(t[k].obj) \/ t[k].node \in unheard
        BY <1>1, <1>2, <4>1 DEF OnceInv, StatesOk
      <4> QED  BY <4>1, <4>2, <4>3 DEF Excused
    <3> QED  BY <1>6, <3>1, <3>2
  <2>2. \A o : Told(o)' <=> Told(o)
    BY <1>1 DEF Told
  <2>3. \A n : Excused(n)' <=> Excused(n)
    BY <1>1 DEF Excused
  <2> QED  BY <1>1, <1>7, <2>1, <2>2, <2>3 DEF MovedOk
<1>17. StatesOk'
  BY <1>1, <1>3, <1>4 DEF OnceInv, StatesOk, Told
<1>18. CoveredOk'
  <2>1. \A o : Told(o)' <=> Told(o)
    BY <1>1 DEF Told
  <2>2. \A n : Excused(n)' <=> Excused(n)
    BY <1>1 DEF Excused
  <2>3. \A n : (\E j \in Slots : flush[j].at \in Writing /\ \E a : CreateOp(flush[j].ops, n, a)) =>
               \E j \in Slots : flush'[j].at \in Writing /\ \E a : CreateOp(flush'[j].ops, n, a)
    BY <1>1, <1>4 DEF Writing
  <2> QED  BY <1>1, <1>8, <2>1, <2>2, <2>3 DEF OnceInv, CoveredOk
<1> QED  BY <1>10, <1>11, <1>12, <1>13, <1>14, <1>15, <1>16, <1>17, <1>18 DEF OnceInv

LEMMA WalkReadOnce ==
  ASSUME EchoInv, OnceInv, WalkRead
  PROVE  OnceInv'
<1>1. /\ UNCHANGED <<tree, map, moved, outbox, queue, flush, imported, guard, minted, used, applied, unheard, twice>>
      /\ walk.at = "drained"
  BY DEF WalkRead
<1>2. /\ walk'.at = "walk" /\ walk'.seen = Len(outbox)
      /\ walk'.todo = DOMAIN tree \ AlreadyMapped
      /\ walk'.busy = {guard} \union UNION {Nodes(flush[i].events) : i \in Slots}
  BY DEF WalkRead
<1>3. \A i \in Slots : \A n : Touches(flush[i].events, n) => n \in walk'.busy
  <2>1. ASSUME NEW i \in Slots, NEW n, Touches(flush[i].events, n) PROVE n \in walk'.busy
    <3>1. n \in Nodes(flush[i].events)
      BY <2>1, OnceFacts, TouchesIs
    <3> QED  BY <1>2, <3>1
  <2> QED  BY <2>1
<1>4. \A n : Awaited(n)' <=> Awaited(n)
  BY <1>1 DEF Awaited
<1>5. \A n, o : Owns(n, o)' <=> Owns(n, o)
  BY <1>1 DEF Owns
<1>6. OrderOk' /\ ApartOk' /\ SlotsIn' /\ AgreeOk' /\ SameOk' /\ OneOk' /\ StatesOk'
  BY <1>1 DEF OnceInv, OrderOk, ApartOk, SlotsIn, AgreeOk, SameOk, OneOk, StatesOk, Agrees, Ordered, Told
<1>7. ToldOk'
  BY <1>1, <1>4 DEF OnceInv, ToldOk
<1>8. OwnOk' /\ MovedOk'
  BY <1>1, <1>5 DEF OnceInv, OwnOk, MovedOk, Excused, Told
<1>9. TodoOk'
  <2>1. Len(outbox) \in 0 .. Len(outbox)
    BY OnceFacts, ListFacts
  <2>2. ASSUME NEW n, NEW a, n \in walk'.todo, n \notin twice, CreateOp(outbox, n, a)
        PROVE  n \in walk'.busy
    <3>1. /\ n \in DOMAIN map /\ map[n] = a /\ n \notin AlreadyMapped
          /\ a \in moved \/ \E i \in Slots : flush[i].at = "states" /\ CreateOp(flush[i].ops, n, a)
      BY <1>2, <2>2 DEF OnceInv, ToldOk
    <3>2. a \notin moved
      BY <3>1 DEF AlreadyMapped, MappedChromiumIds
    <3>3. PICK i \in Slots : CreateOp(flush[i].ops, n, a)
      BY <3>1, <3>2
    <3>4. Touches(flush[i].events, n)
      BY <3>3, OnceFacts
    <3> QED  BY <1>3, <3>4
  <2> QED  BY <1>1, <1>2, <2>1, <2>2 DEF TodoOk
<1>10. CoveredOk'
  <2>1. \A o : Told(o)' <=> Told(o)
    BY <1>1 DEF Told
  <2>2. \A n : Excused(n)' <=> Excused(n)
    BY <1>1 DEF Excused
  <2>3. ASSUME NEW n \in DOMAIN tree, n \notin walk'.todo
        PROVE  Excused(n) \/ (n \in DOMAIN map /\ (map[n] < 0 \/ Told(map[n])))
    <3>1. n \in DOMAIN map /\ map[n] \in moved
      BY <1>2, <2>3 DEF AlreadyMapped, MappedChromiumIds
    <3>2. Owns(n, map[n])
      BY <3>1 DEF Owns
    <3> QED  BY <3>1, <3>2 DEF OnceInv, MovedOk
  <2> QED  BY <1>1, <1>4, <2>1, <2>2, <2>3 DEF OnceInv, CoveredOk
<1> QED  BY <1>6, <1>7, <1>8, <1>9, <1>10 DEF OnceInv

LEMMA WalkCommitOnce ==
  ASSUME EchoInv, OnceInv, OwedInv, WalkCommit
  PROVE  OnceInv'
<1>1. /\ UNCHANGED <<tree, queue, flush, imported, guard, used, applied, unheard>>
      /\ walk.at = "walk" /\ minted' = minted + 1
  BY DEF WalkCommit
<1>2. PICK n, obj, op :
        /\ n \in walk.todo /\ obj = minted + 1 /\ op.kind = "create" /\ op.node = n /\ op.obj = obj
        /\ map' = Over([x \in {n} |-> obj], map) /\ moved' = moved \union {obj}
        /\ outbox' = Append(outbox, op)
        /\ walk' = [walk EXCEPT !.todo = @ \ {n}, !.ids = Over([x \in {n} |-> obj], @)]
        /\ twice' = IF Overtaken(n) THEN twice \union {n} ELSE twice
  <2>1. PICK n \in walk.todo :
          /\ CommitBookmarkBackfillBatch(n, minted + 1,
               IF walk.place[n] = 0 THEN 0 ELSE walk.ids[walk.place[n]])
          /\ walk' = [walk EXCEPT !.todo = @ \ {n}, !.ids = Over([x \in {n} |-> minted + 1], @)]
          /\ twice' = IF Overtaken(n) THEN twice \union {n} ELSE twice
    BY DEF WalkCommit
  <2>2. PICK obj, p : obj = minted + 1 /\ p = IF walk.place[n] = 0 THEN 0 ELSE walk.ids[walk.place[n]]
    OBVIOUS
  <2>3. PICK op : op = [kind |-> "create", node |-> n, obj |-> obj, parent |-> p]
    OBVIOUS
  <2>4. op.kind = "create" /\ op.node = n /\ op.obj = obj
    BY <2>3
  <2>5. CommitBookmarkBackfillBatch(n, obj, p)
    BY <2>1, <2>2
  <2>6. map' = Over([x \in {n} |-> obj], map) /\ moved' = moved \union {obj} /\ outbox' = Append(outbox, op)
    BY <2>3, <2>5 DEF CommitBookmarkBackfillBatch
  <2>7. walk' = [walk EXCEPT !.todo = @ \ {n}, !.ids = Over([x \in {n} |-> obj], @)]
    BY <2>1, <2>2
  <2> QED  BY <2>1, <2>2, <2>4, <2>6, <2>7
<1>3. /\ walk'.at = "walk" /\ walk'.todo = walk.todo \ {n} /\ walk'.busy = walk.busy /\ walk'.seen = walk.seen
      /\ n \in 1 .. used
  <2>1. DOMAIN walk = DOMAIN Idle /\ walk.todo \in SUBSET (1 .. used)
    BY <1>1 DEF EchoInv, WalkOk
  <2> QED  BY <1>1, <1>2, <2>1 DEF Idle
<1>4. /\ DOMAIN map' = DOMAIN map \union {n} /\ map'[n] = obj
      /\ \A x \in DOMAIN map : x # n => map'[x] = map[x]
  BY <1>2 DEF Over
<1>5. PICK s, r : s = outbox /\ r = outbox' /\ IsList(s)
  BY OnceFacts
<1>6. /\ IsList(r) /\ Len(s) \in Nat /\ Len(r) = Len(s) + 1
      /\ \A k \in 1 .. Len(s) : r[k] = s[k]
      /\ \A x, a : CreateOp(r, x, a) <=> CreateOp(s, x, a) \/ (x = n /\ a = obj)
  <2>1. r = Append(s, op)
    BY <1>2, <1>5
  <2>2. /\ IsList(Append(s, op)) /\ Len(s) \in Nat /\ Len(Append(s, op)) = Len(s) + 1
        /\ \A k \in 1 .. Len(s) : Append(s, op)[k] = s[k]
    BY <1>5, AppendList
  <2>3. \A x, a : CreateOp(Append(s, op), x, a) <=>
          CreateOp(s, x, a) \/ (op.kind = "create" /\ op.node = x /\ op.obj = a)
    BY <1>5, AppendOps
  <2>4. \A x, a : CreateOp(r, x, a) <=> CreateOp(s, x, a) \/ (x = n /\ a = obj)
    BY <1>2, <2>1, <2>3
  <2> QED  BY <2>1, <2>2, <2>4
<1>7. twice \subseteq twice'
  BY <1>2
<1>8. n \notin twice' =>
        /\ n \in DOMAIN tree /\ \A a : ~CreateOp(s, n, a)
        /\ \A i \in Slots : ~Touches(flush[i].events, n) /\ \A a : ~CreateOp(flush[i].ops, n, a)
  <2> SUFFICES ASSUME n \notin twice'
               PROVE  /\ n \in DOMAIN tree /\ \A a : ~CreateOp(s, n, a)
                      /\ \A i \in Slots : ~Touches(flush[i].events, n) /\ \A a : ~CreateOp(flush[i].ops, n, a)
    OBVIOUS
  <2>1. ~Overtaken(n) /\ n \notin twice
    BY <1>2
  <2>2. /\ n \in DOMAIN tree
        /\ \A i \in Slots : n \notin Nodes(flush[i].events)
        /\ n \notin walk.owed => /\ n \notin walk.busy
                                 /\ ~\E k \in walk.seen + 1 .. Len(s) : s[k].node = n
    BY <1>5, <2>1 DEF Overtaken
  <2>3. \A i \in Slots : ~Touches(flush[i].events, n)
    BY <2>2, OnceFacts, TouchesIs
  <2>4. \A a : ~CreateOp(s, n, a)
    <3>1. CASE n \in walk.owed
      BY <1>1, <1>2, <1>5, <2>1, <3>1 DEF OwedInv
    <3>2. CASE n \notin walk.owed
      BY <1>1, <1>2, <1>5, <2>1, <2>2, <3>2 DEF OnceInv, TodoOk
    <3> QED  BY <3>1, <3>2
  <2> QED  BY <2>2, <2>3, <2>4, OnceFacts
<1>9. \A x, o : Owns(x, o)' => Owns(x, o) \/ (x = n /\ o = obj)
  BY <1>1, <1>4 DEF Owns
<1>10. \A x : Awaited(x)' <=> Awaited(x)
  BY <1>1 DEF Awaited
<1>11. OrderOk' /\ ApartOk' /\ SlotsIn'
  BY <1>1, <1>7 DEF OnceInv, OrderOk, ApartOk, SlotsIn, Ordered
<1>12. AgreeOk'
  <2>1. ASSUME NEW i \in Slots, NEW x, NEW a, flush[i].at \in Writing, x \in DOMAIN tree, x \notin twice',
               CreateOp(flush[i].ops, x, a)
        PROVE  Agrees(flush[i], x, a) /\ x # n
    BY <1>7, <1>8, <2>1 DEF OnceInv, AgreeOk
  <2>2. \A f, x, a : Agrees(f, x, a) /\ x # n => Agrees(f, x, a)'
    BY <1>4 DEF Agrees
  <2>3. ASSUME NEW i \in Slots, NEW x, NEW a, flush[i].at \in Writing, x \in DOMAIN tree, x \notin twice',
               CreateOp(flush[i].ops, x, a)
        PROVE  Agrees(flush[i], x, a)'
    <3>1. PICK f : f = flush[i]
      OBVIOUS
    <3>2. Agrees(f, x, a)'
      BY <2>1, <2>2, <2>3, <3>1
    <3> QED  BY <1>1, <3>1, <3>2 DEF Agrees
  <2> QED  BY <1>1, <2>3 DEF AgreeOk
<1>13. SameOk'
  <2>1. ASSUME NEW i \in Slots, NEW x, NEW a, NEW b, flush[i].at \in Writing, x \notin twice',
               CreateOp(flush[i].ops, x, a), CreateOp(r, x, b) \/ CreateOp(flush[i].ops, x, b)
        PROVE  a = b
    <3>1. x # n /\ x \notin twice
      BY <1>7, <1>8, <2>1
    <3> QED  BY <1>5, <1>6, <2>1, <3>1 DEF OnceInv, SameOk
  <2> QED  BY <1>1, <1>5, <2>1 DEF SameOk
<1>14. OneOk'
  <2>1. \A x, a, b : x \notin twice' /\ CreateOp(s, x, a) /\ CreateOp(s, x, b) => a = b
    BY <1>5, <1>7 DEF OnceInv, OneOk
  <2>2. \A x, a, b : x \notin twice' /\ CreateOp(r, x, a) /\ CreateOp(r, x, b) => a = b
    BY <1>6, <1>8, <2>1
  <2> QED  BY <1>5, <2>2 DEF OneOk
<1>15. ToldOk'
  <2>1. ASSUME NEW x, NEW a, x \notin twice', CreateOp(r, x, a), x \in DOMAIN tree \/ Awaited(x)
        PROVE  /\ x \in DOMAIN map' /\ map'[x] = a
               /\ a \in moved' \/ \E i \in Slots : flush[i].at = "states" /\ CreateOp(flush[i].ops, x, a)
    <3>1. CASE x = n
      BY <1>2, <1>4, <1>6, <1>8, <2>1, <3>1
    <3>2. CASE x # n
      <4>1. /\ x \in DOMAIN map /\ map[x] = a
            /\ a \in moved \/ \E i \in Slots : flush[i].at = "states" /\ CreateOp(flush[i].ops, x, a)
        BY <1>5, <1>6, <1>7, <2>1, <3>2 DEF OnceInv, ToldOk
      <4> QED  BY <1>2, <1>4, <3>2, <4>1
    <3> QED  BY <3>1, <3>2
  <2> QED  BY <1>1, <1>5, <1>10, <2>1 DEF ToldOk
<1>16. TodoOk'
  <2>1. /\ walk.seen \in 0 .. Len(s)
        /\ \A x, a : x \in walk.todo /\ x \notin twice /\ CreateOp(s, x, a) =>
             x \in walk.busy \/ \E k \in walk.seen + 1 .. Len(s) : s[k].node = x
    BY <1>1, <1>5 DEF OnceInv, TodoOk
  <2>2. /\ walk.seen \in 0 .. Len(r)
        /\ \A k \in walk.seen + 1 .. Len(s) : k \in walk.seen + 1 .. Len(r) /\ k \in 1 .. Len(s)
    BY <1>6, <2>1
  <2>3. ASSUME NEW x, NEW a, x \in walk'.todo, x \notin twice', CreateOp(r, x, a), x \notin walk.busy
        PROVE  \E k \in walk.seen + 1 .. Len(r) : r[k].node = x
    <3>1. x # n /\ x \in walk.todo /\ x \notin twice /\ CreateOp(s, x, a)
      BY <1>3, <1>6, <1>7, <2>3
    <3>2. PICK k \in walk.seen + 1 .. Len(s) : s[k].node = x
      BY <2>1, <2>3, <3>1
    <3> QED  BY <1>6, <2>2, <3>2
  <2> QED  BY <1>3, <1>5, <2>2, <2>3 DEF TodoOk
<1>17. /\ minted \in Nat /\ obj \in Nat /\ minted < obj /\ obj = minted' /\ ~(obj < 0) /\ obj # 0
       /\ \A x, o : Owns(x, o) => o # obj /\ o <= minted'
       /\ \A o \in moved : o <= minted'
  BY <1>1, <1>2 DEF OnceInv, OwnOk
<1>18. OwnOk'
  <2>1. ASSUME NEW x, NEW o, Owns(x, o)'
        PROVE  x \in 1 .. used /\ o \in Int /\ o # 0 /\ o <= minted' /\ (o < 0 => x = -o)
    <3>1. CASE Owns(x, o)
      <4>1. x \in 1 .. used /\ o \in Int /\ o # 0 /\ (o < 0 => x = -o)
        BY <3>1 DEF OnceInv, OwnOk
      <4> QED  BY <1>17, <3>1, <4>1
    <3>2. CASE x = n /\ o = obj
      <4>1. obj \in Int /\ obj <= minted' /\ ~(obj < 0) /\ obj # 0
        BY <1>17
      <4> QED  BY <1>3, <3>2, <4>1
    <3> QED  BY <1>9, <2>1, <3>1, <3>2
  <2>2. ASSUME NEW x, NEW y, NEW o, Owns(x, o)', Owns(y, o)' PROVE x = y
    <3>1. \A z, w : Owns(z, o) /\ Owns(w, o) => z = w
      BY DEF OnceInv, OwnOk
    <3> QED  BY <1>9, <1>17, <2>2, <3>1
  <2>3. \A o \in moved' : o \in Int /\ o <= minted'
    BY <1>2, <1>17 DEF OnceInv, OwnOk
  <2>4. minted' \in Nat /\ (guard' # 0 => guard' \in applied')
    BY <1>1, <1>17 DEF OnceInv, OwnOk
  <2> QED  BY <1>1, <2>1, <2>2, <2>3, <2>4 DEF OwnOk
<1>19. /\ \A o : Told(o) => Told(o)'
       /\ Told(obj)'
  BY <1>5, <1>6 DEF Told
<1>20. \A x : Excused(x) => Excused(x)'
  BY <1>1, <1>7 DEF Excused
<1>21. MovedOk'
  <2>1. \A x, o : Owns(x, o) => o # obj
    BY <1>17
  <2> QED  BY <1>1, <1>2, <1>9, <1>19, <1>20, <2>1 DEF OnceInv, MovedOk
<1>22. StatesOk'
  <2>1. ASSUME NEW i \in Slots, NEW k \in 1 .. Len(flush[i].ops), flush[i].at = "states",
               flush[i].ops[k].kind \in {"create", "move"}
        PROVE  flush[i].ops[k].obj < 0 \/ Told(flush[i].ops[k].obj)' \/ flush[i].ops[k].node \in unheard
    <3>1. flush[i].ops[k].obj < 0 \/ Told(flush[i].ops[k].obj) \/ flush[i].ops[k].node \in unheard
      BY <2>1 DEF OnceInv, StatesOk
    <3>2. PICK o : o = flush[i].ops[k].obj
      OBVIOUS
    <3>3. Told(o) => \E x : CreateOp(outbox', x, o)
      BY <1>19 DEF Told
    <3> QED  BY <1>1, <3>1, <3>2, <3>3 DEF Told
  <2> QED  BY <1>1, <2>1 DEF StatesOk, Told
<1>23. CoveredOk'
  <2>1. ASSUME NEW x \in DOMAIN map, x # n, map[x] < 0 \/ Told(map[x])
        PROVE  x \in DOMAIN map' /\ (map'[x] < 0 \/ Told(map[x])')
    <3>1. PICK o : o = map[x]
      OBVIOUS
    <3>2. Told(o) => \E y : CreateOp(outbox', y, o)
      BY <1>19 DEF Told
    <3>3. map'[x] = o /\ x \in DOMAIN map'
      BY <1>4, <2>1, <3>1
    <3> QED  BY <2>1, <3>1, <3>2, <3>3 DEF Told
  <2>2. Told(map[n])'
    BY <1>4, <1>19 DEF Told
  <2>3. \A x : x # n /\ (walk.at = "walk" => x \in walk.todo) => x \in walk'.todo
    BY <1>1, <1>3
  <2> QED  BY <1>1, <1>4, <1>10, <1>20, <2>1, <2>2, <2>3 DEF OnceInv, CoveredOk
<1> QED  BY <1>11, <1>12, <1>13, <1>14, <1>15, <1>16, <1>18, <1>21, <1>22, <1>23 DEF OnceInv

LEMMA WalkEndOnce ==
  ASSUME EchoInv, OnceInv, WalkEnd
  PROVE  OnceInv'
<1>1. /\ UNCHANGED <<tree, map, moved, outbox, queue, flush, guard, minted, used, applied, unheard, twice>>
      /\ walk.at = "walk" /\ walk.todo = {}
  BY DEF WalkEnd
<1>2. walk'.at = "idle"
  BY DEF WalkEnd, Idle
<1>3. \A n : Awaited(n)' <=> Awaited(n)
  BY <1>1 DEF Awaited
<1>4. \A n, o : Owns(n, o)' <=> Owns(n, o)
  BY <1>1 DEF Owns
<1>5. OrderOk' /\ ApartOk' /\ SlotsIn' /\ AgreeOk' /\ SameOk' /\ OneOk' /\ TodoOk' /\ StatesOk'
  BY <1>1, <1>2
  DEF OnceInv, OrderOk, ApartOk, SlotsIn, AgreeOk, SameOk, OneOk, TodoOk, StatesOk, Agrees, Ordered, Told
<1>6. ToldOk'
  BY <1>1, <1>3 DEF OnceInv, ToldOk
<1>7. OwnOk' /\ MovedOk'
  BY <1>1, <1>4 DEF OnceInv, OwnOk, MovedOk, Excused, Told
<1>8. CoveredOk'
  BY <1>1, <1>3 DEF OnceInv, CoveredOk, Excused, Told
<1> QED  BY <1>5, <1>6, <1>7, <1>8 DEF OnceInv

LEMMA CrashOnce ==
  ASSUME EchoInv, OnceInv, Crash
  PROVE  OnceInv'
<1>1. /\ UNCHANGED <<tree, map, moved, outbox, imported, minted, used, applied>>
      /\ queue' = << >> /\ flush' = [i \in Slots |-> Free] /\ guard' = 0
      /\ twice \subseteq twice' /\ unheard \subseteq unheard'
      /\ guard # 0 /\ imported => guard \in unheard'
  BY DEF Crash
<1>2. PICK f : f = Free /\ \A i \in Slots : flush'[i] = f
  BY <1>1
<1>3. f.at = "free" /\ f.events = << >> /\ f.ops = << >> /\ f.dels = {} /\ DOMAIN f.news = {}
  BY <1>2 DEF Free, None
<1>4. /\ \A n : ~Touches(f.events, n) /\ ~CreatedIn(f.events, n) /\ ~CreatedIn(queue', n)
      /\ \A n, a : ~CreateOp(f.ops, n, a) /\ ~InOps(f.ops, n, a)
      /\ OrderedUpTo(used, f.events) /\ OrderedUpTo(used, queue')
  BY <1>1, <1>3, NothingIn
<1>5. walk'.at = "idle"
  BY DEF Crash, Idle
<1>6. /\ \A i \in Slots : \A n : Touches(flush[i].events, n) =>
           /\ flush[i].at # "free" /\ imported => n \in unheard'
           /\ flush[i].at = "states" => n \in twice'
      /\ \A n : Touches(queue, n) /\ imported => n \in unheard'
  <2>1. ASSUME NEW i \in Slots, NEW n, Touches(flush[i].events, n)
        PROVE  /\ flush[i].at # "free" /\ imported => n \in unheard'
               /\ flush[i].at = "states" => n \in twice'
    <3>1. n \in Nodes(flush[i].events)
      BY <2>1, OnceFacts, TouchesIs
    <3>2. flush[i].at # "free" /\ imported => n \in unheard'
      BY <3>1 DEF Crash
    <3>3. flush[i].at = "states" => n \in twice'
      BY <3>1 DEF Crash
    <3> QED  BY <3>2, <3>3
  <2>2. ASSUME NEW n, Touches(queue, n), imported PROVE n \in unheard'
    <3>1. n \in Nodes(queue)
      BY <2>2, OnceFacts, TouchesIs
    <3> QED  BY <2>2, <3>1 DEF Crash
  <2> QED  BY <2>1, <2>2
<1>7. \A n : ~Awaited(n)'
  BY <1>2, <1>4 DEF Awaited
<1>8. \A n, o : Owns(n, o)' => Owns(n, o)
  BY <1>1, <1>2, <1>3, <1>4 DEF Owns
<1>9. OrderOk' /\ ApartOk'
  BY <1>1, <1>2, <1>4 DEF OrderOk, ApartOk, Ordered
<1>10. SlotsIn'
  <2>1. SlotIn(f)
    BY <1>3, <1>4 DEF SlotIn
  <2> QED  BY <1>2, <2>1 DEF SlotsIn
<1>11. AgreeOk' /\ SameOk'
  BY <1>2, <1>4 DEF AgreeOk, SameOk
<1>12. OneOk' /\ TodoOk'
  BY <1>1, <1>5 DEF OnceInv, OneOk, TodoOk
<1>13. ToldOk'
  <2>1. ASSUME NEW n, NEW a, n \notin twice', CreateOp(outbox, n, a), n \in DOMAIN tree
        PROVE  n \in DOMAIN map /\ map[n] = a /\ a \in moved
    <3>1. /\ n \in DOMAIN map /\ map[n] = a
          /\ a \in moved \/ \E i \in Slots : flush[i].at = "states" /\ CreateOp(flush[i].ops, n, a)
      BY <1>1, <2>1 DEF OnceInv, ToldOk
    <3>2. ASSUME NEW i \in Slots, flush[i].at = "states", CreateOp(flush[i].ops, n, a) PROVE FALSE
      <4>1. Touches(flush[i].events, n)
        BY <3>2, OnceFacts
      <4> QED  BY <1>6, <2>1, <3>2, <4>1
    <3> QED  BY <3>1, <3>2
  <2> QED  BY <1>1, <1>7, <2>1 DEF ToldOk
<1>14. OwnOk' /\ MovedOk'
  BY <1>1, <1>8 DEF OnceInv, OwnOk, MovedOk, Excused, Told
<1>15. StatesOk'
  BY <1>2, <1>3 DEF StatesOk
<1>16. CoveredOk'
  <2>1. \A n : (Excused(n) => Excused(n)') /\ (n \in unheard' => Excused(n)')
    BY <1>1 DEF Excused
  <2>2. \A o : Told(o)' <=> Told(o)
    BY <1>1 DEF Told
  <2>3. ASSUME NEW n \in DOMAIN tree, imported, Awaited(n) PROVE n \in unheard'
    <3>1. CASE CreatedIn(queue, n)
      BY <1>6, <2>3, <3>1, OnceFacts
    <3>2. ASSUME NEW i \in Slots, flush[i].at = "stage", CreatedIn(flush[i].events, n) PROVE n \in unheard'
      <4>1. Touches(flush[i].events, n) /\ flush[i].at # "free"
        BY <3>2, OnceFacts
      <4> QED  BY <1>6, <2>3, <4>1
    <3> QED  BY <2>3, <3>1, <3>2 DEF Awaited
  <2>4. ASSUME NEW n \in DOMAIN tree, imported, NEW i \in Slots, flush[i].at \in Writing,
               NEW a, CreateOp(flush[i].ops, n, a)
        PROVE  n \in unheard'
    <3>1. Touches(flush[i].events, n) /\ flush[i].at # "free"
      BY <2>4, OnceFacts DEF Writing
    <3> QED  BY <1>6, <2>4, <3>1
  <2>5. ASSUME NEW n \in DOMAIN tree, imported, n = guard PROVE n \in unheard'
    <3>1. n # 0
      BY OnceFacts
    <3> QED  BY <1>1, <2>5, <3>1
  <2>6. ASSUME NEW n \in DOMAIN tree, imported
        PROVE  n \in unheard' \/ Excused(n) \/ (n \in DOMAIN map /\ (map[n] < 0 \/ Told(map[n])))
    BY <2>3, <2>4, <2>5, <2>6 DEF OnceInv, CoveredOk
  <2> QED  BY <1>1, <1>5, <2>1, <2>2, <2>6 DEF CoveredOk
<1> QED  BY <1>9, <1>10, <1>11, <1>12, <1>13, <1>14, <1>15, <1>16 DEF OnceInv

LEMMA InitOnce ==
  ASSUME Init
  PROVE  OnceInv
<1>1. /\ DOMAIN map = {} /\ moved = {} /\ outbox = << >> /\ queue = << >> /\ walk.at = "idle"
      /\ ~imported /\ guard = 0 /\ minted = 0
  BY DEF Init, None, Idle
<1>2. PICK f : f = Free /\ \A i \in Slots : flush[i] = f
  BY DEF Init
<1>3. f.at = "free" /\ f.events = << >> /\ f.ops = << >> /\ f.dels = {} /\ DOMAIN f.news = {}
  BY <1>2 DEF Free, None
<1>4. /\ \A n : ~Touches(f.events, n) /\ ~CreatedIn(queue, n)
      /\ \A n, a : ~CreateOp(f.ops, n, a) /\ ~InOps(f.ops, n, a) /\ ~CreateOp(outbox, n, a)
      /\ OrderedUpTo(used, f.events) /\ OrderedUpTo(used, queue)
  BY <1>1, <1>3, NothingIn
<1>5. \A n, o : ~Owns(n, o)
  BY <1>1, <1>2, <1>3, <1>4 DEF Owns
<1>6. OrderOk /\ ApartOk
  BY <1>2, <1>4 DEF OrderOk, ApartOk, Ordered
<1>7. SlotsIn
  <2>1. SlotIn(f)
    BY <1>3, <1>4 DEF SlotIn
  <2> QED  BY <1>2, <2>1 DEF SlotsIn
<1>8. AgreeOk /\ SameOk /\ OneOk /\ ToldOk /\ TodoOk
  BY <1>1, <1>2, <1>4 DEF AgreeOk, SameOk, OneOk, ToldOk, TodoOk
<1>9. OwnOk /\ MovedOk
  BY <1>1, <1>5 DEF OwnOk, MovedOk
<1>10. StatesOk
  BY <1>2, <1>3 DEF StatesOk
<1>11. CoveredOk
  BY <1>1 DEF CoveredOk
<1> QED  BY <1>6, <1>7, <1>8, <1>9, <1>10, <1>11 DEF OnceInv

LEMMA StepOnce ==
  ASSUME EchoInv, OnceInv, OwedInv, [Next]_vars
  PROVE  OnceInv'
<1>1. CASE UNCHANGED vars
  <2>1. UNCHANGED <<tree, map, moved, outbox, queue, flush, walk, imported, guard, minted, used, applied, unheard, twice>>
    BY <1>1 DEF vars
  <2>2. DOMAIN tree' \subseteq DOMAIN tree /\ unheard \subseteq unheard' /\ queue' = queue
    BY <2>1
  <2> QED  BY <2>1, <2>2, ShrinksOnce
<1>2. ASSUME NEW i \in Slots,
             Stage(i) \/ PutMappings(i) \/ DeleteMappings(i) \/ CreateOperations(i) \/ RecordStates(i)
      PROVE  OnceInv'
  BY <1>2, StageOnce, PutOnce, DeleteOnce, OperationsOnce, RecordOnce
<1>3. CASE User \/ ApplyCreate \/ ApplyLink \/ FlushTimer \/ Crash
  BY <1>3, UserOnce, ApplyCreateOnce, ApplyLinkOnce, DrainOnce, CrashOnce
<1>4. CASE WalkDrain \/ WalkRead \/ WalkCommit \/ WalkEnd
  BY <1>4, DrainOnce, WalkReadOnce, WalkCommitOnce, WalkEndOnce
<1> QED  BY <1>1, <1>2, <1>3, <1>4 DEF Next

--------------------------------------------------------------------------------
(***************************************************************************)
(* What the drain of the import is for.  A step of the capture takes an    *)
(* event from the queue to a flush and announces what the flush had.       *)
(***************************************************************************)
LEMMA KeepsOwed ==
  ASSUME EchoInv, OwedInv, walk' = walk, twice \subseteq twice',
         \A n \in 1 .. used : CreatedIn(queue', n) => CreatedIn(queue, n),
         \A i \in Slots : SlotOwed(flush'[i]),
         \A i \in Slots : \A n \in 1 .. used :
           CreatedIn(flush'[i].events, n) => CreatedIn(flush[i].events, n) \/ CreatedIn(queue, n),
         \A n, a : CreateOp(outbox', n, a) =>
           CreateOp(outbox, n, a) \/ \E i \in Slots : CreatedIn(flush[i].events, n)
  PROVE  OwedInv'
<1>1. \A n \in walk.owed : n \in 1 .. used
  BY DEF EchoInv, WalkOk
<1>2. \A i \in Slots : SlotOwed(flush[i])'
  BY DEF SlotOwed
<1>3. walk.at # "idle" => \A n \in walk.owed : ~CreatedIn(queue', n)
  BY <1>1 DEF OwedInv
<1>4. walk.at = "drained" =>
        \A n \in walk.owed : \A i \in Slots : i # walk.slot => ~CreatedIn(flush'[i].events, n)
  BY <1>1 DEF OwedInv
<1>5. ASSUME walk.at = "walk", NEW n \in walk.owed \cap walk.todo, n \notin twice'
      PROVE  (\A i \in Slots : ~CreatedIn(flush'[i].events, n)) /\ \A a : ~CreateOp(outbox', n, a)
  <2>1. /\ n \in 1 .. used /\ ~CreatedIn(queue, n)
        /\ (\A i \in Slots : ~CreatedIn(flush[i].events, n)) /\ \A a : ~CreateOp(outbox, n, a)
    BY <1>1, <1>5 DEF OwedInv
  <2> QED  BY <2>1
<1> QED  BY <1>2, <1>3, <1>4, <1>5 DEF OwedInv

LEMMA UserOwed ==
  ASSUME EchoInv, OnceInv, OwedInv, User \/ ApplyCreate \/ ApplyLink
  PROVE  OwedInv'
<1>1. UNCHANGED <<outbox, flush, walk, twice>>
  BY DEF User, ApplyCreate, ApplyLink
<1>2. used \in Nat /\ used + 1 \notin 1 .. used /\ IsList(queue)
  BY OnceFacts
<1>3. ASSUME NEW e, queue' = Append(queue, e), e.kind = "created" => e.n = used + 1
      PROVE  \A n \in 1 .. used : CreatedIn(queue', n) => CreatedIn(queue, n)
  BY <1>2, <1>3, AppendEvents
<1>4. \A n \in 1 .. used : CreatedIn(queue', n) => CreatedIn(queue, n)
  <2>1. CASE queue' = queue
    BY <2>1
  <2>2. CASE queue' # queue
    <3>1. \E e : queue' = Append(queue, e) /\ (e.kind = "created" => e.n = used + 1)
      <4>1. ASSUME NEW p, NEW n, NEW S, NEW kind, kind = "created" => n = used + 1,
                   Fires([kind |-> kind, n |-> n, p |-> p, in |-> S])
            PROVE  \E e : queue' = Append(queue, e) /\ (e.kind = "created" => e.n = used + 1)
        <5>1. PICK e : e = [kind |-> kind, n |-> n, p |-> p, in |-> S]
          OBVIOUS
        <5>2. Fires(e) /\ (e.kind = "created" => e.n = used + 1)
          BY <4>1, <5>1
        <5> QED  BY <2>2, <5>2 DEF Fires
      <4>2. CASE ApplyCreate \/ ApplyLink
        <5>1. ApplyCreate => Suppressed(guard')
          BY <1>2 DEF ApplyCreate, Suppressed
        <5> QED  BY <2>2, <4>2, <5>1 DEF ApplyCreate, ApplyLink
      <4>3. CASE User
        <5>1. CASE \E p \in DOMAIN tree \union {0} :
                     /\ used' = used + 1
                     /\ Fires([kind |-> "created", n |-> used', p |-> p, in |-> {used'}])
          <6>1. PICK p : /\ used' = used + 1
                         /\ Fires([kind |-> "created", n |-> used', p |-> p, in |-> {used'}])
            BY <5>1
          <6>2. PICK n, S, kind : n = used' /\ S = {used'} /\ kind = "created"
            OBVIOUS
          <6>3. Fires([kind |-> kind, n |-> n, p |-> p, in |-> S])
            BY <6>1, <6>2
          <6> QED  BY <4>1, <6>1, <6>2, <6>3
        <5>2. CASE \E n \in DOMAIN tree :
                     Fires([kind |-> "removed", n |-> n, p |-> 0, in |-> Subtree(n)])
          <6>1. PICK n : Fires([kind |-> "removed", n |-> n, p |-> 0, in |-> Subtree(n)])
            BY <5>2
          <6>2. PICK p, S, kind : p = 0 /\ S = Subtree(n) /\ kind = "removed"
            OBVIOUS
          <6>3. Fires([kind |-> kind, n |-> n, p |-> p, in |-> S])
            BY <6>1, <6>2
          <6> QED  BY <4>1, <6>2, <6>3
        <5>3. CASE \E n, p : n \in DOMAIN tree /\ Fires([kind |-> "moved", n |-> n, p |-> p, in |-> {n}])
          <6>1. PICK n, p : Fires([kind |-> "moved", n |-> n, p |-> p, in |-> {n}])
            BY <5>3
          <6>2. PICK S, kind : S = {n} /\ kind = "moved"
            OBVIOUS
          <6>3. Fires([kind |-> kind, n |-> n, p |-> p, in |-> S])
            BY <6>1, <6>2
          <6> QED  BY <4>1, <6>2, <6>3
        <5>4. CASE \E n \in DOMAIN tree : Fires([kind |-> "changed", n |-> n, p |-> 0, in |-> {n}])
          <6>1. PICK n : Fires([kind |-> "changed", n |-> n, p |-> 0, in |-> {n}])
            BY <5>4
          <6>2. PICK p, S, kind : p = 0 /\ S = {n} /\ kind = "changed"
            OBVIOUS
          <6>3. Fires([kind |-> kind, n |-> n, p |-> p, in |-> S])
            BY <6>1, <6>2
          <6> QED  BY <4>1, <6>2, <6>3
        <5> QED  BY <4>3, <5>1, <5>2, <5>3, <5>4 DEF User
      <4> QED  BY <4>2, <4>3
    <3> QED  BY <1>3, <3>1
  <2> QED  BY <2>1, <2>2
<1>5. \A i \in Slots : SlotOwed(flush'[i])
  BY <1>1 DEF OwedInv
<1> QED  BY <1>1, <1>4, <1>5, KeepsOwed

LEMMA TakesOwed ==
  ASSUME EchoInv, OnceInv, OwedInv, NEW i \in Slots, TakesQueue(i)
  PROVE  /\ \A j \in Slots : SlotOwed(flush'[j])
         /\ flush'[i].events = queue /\ \A j \in Slots : j # i => flush'[j] = flush[j]
         /\ \A n : ~CreatedIn(queue', n)
         /\ twice \subseteq twice'
<1>1. PICK f : f = [Free EXCEPT !.at = "stage", !.events = queue] /\ flush' = [flush EXCEPT ![i] = f]
  BY DEF TakesQueue
<1>2. f.at = "stage" /\ f.events = queue /\ f.ops = << >>
  BY <1>1 DEF Free
<1>3. flush'[i] = f /\ \A j \in Slots : j # i => flush'[j] = flush[j]
  BY <1>1, OnceFacts
<1>4. SlotOwed(f)
  BY <1>2, NothingIn DEF SlotOwed
<1>5. twice \subseteq twice' /\ queue' = << >>
  BY DEF TakesQueue
<1> QED  BY <1>2, <1>3, <1>4, <1>5, NothingIn DEF OwedInv

LEMMA DrainOwed ==
  ASSUME EchoInv, OnceInv, OwedInv, FlushTimer \/ WalkDrain
  PROVE  OwedInv'
<1>1. CASE FlushTimer
  <2>1. PICK i \in Slots : TakesQueue(i)
    BY <1>1 DEF FlushTimer
  <2>2. UNCHANGED <<outbox, walk>>
    BY <1>1 DEF FlushTimer
  <2> QED  BY <2>1, <2>2, TakesOwed, KeepsOwed
<1>2. CASE WalkDrain
  <2>1. ASSUME NEW i, Drained(i) PROVE walk'.at = "drained" /\ walk'.slot = i /\ walk'.owed = Queued
    BY <2>1 DEF Drained, Idle
  <2>2. \A n : n \in Queued => CreatedIn(queue, n)
    <3>1. Range(queue) = {queue[k] : k \in 1 .. Len(queue)}
      BY OnceFacts, ListFacts
    <3> QED  BY <3>1 DEF Queued, CreatedIn
  <2>3. CASE queue = << >> /\ Drained(0) /\ UNCHANGED <<queue, flush, twice>>
    <3>1. \A n : n \notin Queued
      BY <2>2, <2>3, NothingIn
    <3> QED  BY <2>1, <2>3, <3>1 DEF OwedInv, SlotOwed
  <2>4. ASSUME NEW i \in Slots, TakesQueue(i), Drained(i) PROVE OwedInv'
    <3>1. /\ \A j \in Slots : SlotOwed(flush'[j])
          /\ \A j \in Slots : j # i => flush'[j] = flush[j]
          /\ \A n : ~CreatedIn(queue', n)
      BY <2>4, TakesOwed
    <3>2. \A n \in Queued : \A j \in Slots : ~CreatedIn(flush[j].events, n)
      BY <2>2, OnceFacts DEF OnceInv, OrderOk
    <3>3. \A j \in Slots : SlotOwed(flush[j])'
      BY <3>1 DEF SlotOwed
    <3> QED  BY <2>1, <2>4, <3>1, <3>2, <3>3 DEF OwedInv
  <2> QED  BY <1>2, <2>3, <2>4 DEF WalkDrain
<1> QED  BY <1>1, <1>2

LEMMA StageOwed ==
  ASSUME EchoInv, OnceInv, OwedInv, NEW i \in Slots, Stage(i)
  PROVE  OwedInv'
<1>1. PICK events : events = flush[i].events /\ IsList(events) /\ Ordered(events)
  BY OnceFacts DEF OnceInv, OrderOk
<1>2. PICK done, near, f :
        /\ done = Staged(events, near)
        /\ f = IF done.ops = << >> THEN Free
               ELSE [at |-> IF done.news # None THEN "maps" ELSE AfterMaps(done.dels),
                     events |-> events, news |-> done.news, dels |-> done.dels, ops |-> done.ops]
        /\ flush' = [flush EXCEPT ![i] = f]
  <2>1. PICK near :
          flush' = [flush EXCEPT ![i] =
               IF Staged(flush[i].events, near).ops = << >> THEN Free
               ELSE [at |-> IF Staged(flush[i].events, near).news # None THEN "maps"
                            ELSE AfterMaps(Staged(flush[i].events, near).dels),
                     events |-> @.events, news |-> Staged(flush[i].events, near).news,
                     dels |-> Staged(flush[i].events, near).dels, ops |-> Staged(flush[i].events, near).ops]]
    BY DEF Stage
  <2>2. PICK done : done = Staged(events, near)
    OBVIOUS
  <2>3. flush' = [flush EXCEPT ![i] =
            IF done.ops = << >> THEN Free
            ELSE [at |-> IF done.news # None THEN "maps" ELSE AfterMaps(done.dels),
                  events |-> events, news |-> done.news, dels |-> done.dels, ops |-> done.ops]]
    BY <1>1, <2>1, <2>2
  <2> QED  BY <2>2, <2>3
<1>3. \A n, a : CreateOp(done.ops, n, a) => CreatedIn(events, n)
  <2>1. minted \in Nat /\ NodesOk
    BY DEF EchoInv, OnceInv, OwnOk
  <2>2. \A n \in DOMAIN map : n \in 1 .. used /\ map[n] \in Int /\ map[n] # 0 /\ map[n] <= minted
    BY DEF OnceInv, OwnOk, Owns
  <2>3. \A n, m \in DOMAIN map : map[n] = map[m] => n = m
    BY DEF OnceInv, OwnOk, Owns
  <2>4. AccIs(done, events, Len(events))
    BY <1>1, <1>2, <2>1, <2>2, <2>3, StagedIs
  <2> QED  BY <2>4 DEF AccIs, Creating, CreatedIn
<1>4. flush'[i] = f /\ \A j \in Slots : j # i => flush'[j] = flush[j]
  BY <1>2, OnceFacts
<1>5. SlotOwed(f) /\ f.events \in {<< >>, events}
  <2>1. CASE done.ops = << >>
    <3>1. f.at = "free" /\ f.events = << >> /\ f.ops = << >>
      BY <1>2, <2>1 DEF Free
    <3> QED  BY <3>1, NothingIn DEF SlotOwed
  <2>2. CASE done.ops # << >>
    <3>1. f.at # "free" /\ f.events = events /\ f.ops = done.ops
      BY <1>2, <2>2 DEF AfterMaps
    <3> QED  BY <1>3, <3>1 DEF SlotOwed
  <2> QED  BY <2>1, <2>2
<1>6. UNCHANGED <<outbox, queue, walk, twice>>
  BY DEF Stage
<1>7. \A n : CreatedIn(f.events, n) => CreatedIn(flush[i].events, n)
  BY <1>1, <1>5, NothingIn
<1>8. \A j \in Slots : SlotOwed(flush'[j])
  BY <1>4, <1>5 DEF OwedInv
<1> QED  BY <1>4, <1>6, <1>7, <1>8, KeepsOwed

LEMMA FlushOwed ==
  ASSUME EchoInv, OnceInv, OwedInv, NEW i \in Slots,
         PutMappings(i) \/ DeleteMappings(i) \/ CreateOperations(i) \/ RecordStates(i)
  PROVE  OwedInv'
<1>1. walk' = walk /\ queue' = queue /\ twice \subseteq twice'
  BY DEF PutMappings, DeleteMappings, CreateOperations, RecordStates
<1>2. \A j \in Slots : SlotOwed(flush'[j]) /\ \A n : CreatedIn(flush'[j].events, n) => CreatedIn(flush[j].events, n)
  <2>1. CASE RecordStates(i)
    <3>1. PICK f : f = Free
      OBVIOUS
    <3>2. f.events = << >> /\ f.ops = << >>
      BY <3>1 DEF Free
    <3>3. flush'[i] = f /\ \A j \in Slots : j # i => flush'[j] = flush[j]
      BY <2>1, <3>1, OnceFacts DEF RecordStates
    <3>4. SlotOwed(f) /\ \A n : ~CreatedIn(f.events, n)
      BY <3>2, NothingIn DEF SlotOwed
    <3> QED  BY <3>3, <3>4 DEF OwedInv
  <2>2. CASE ~RecordStates(i)
    <3>1. PICK at : flush' = [flush EXCEPT ![i].at = at] /\ at # "free"
      <4>1. CASE PutMappings(i)
        <5>1. PICK at : at = AfterMaps(flush[i].dels) /\ at # "free"
          BY DEF AfterMaps
        <5> QED  BY <4>1, <5>1 DEF PutMappings
      <4>2. CASE DeleteMappings(i)
        <5>1. PICK at : at = "ops" /\ at # "free"
          OBVIOUS
        <5> QED  BY <4>2, <5>1 DEF DeleteMappings
      <4>3. CASE CreateOperations(i)
        <5>1. PICK at : at = "states" /\ at # "free"
          OBVIOUS
        <5> QED  BY <4>3, <5>1 DEF CreateOperations
      <4> QED  BY <2>2, <4>1, <4>2, <4>3
    <3>2. /\ \A j \in Slots : j # i => flush'[j] = flush[j]
          /\ flush'[i].at = at /\ flush'[i].events = flush[i].events /\ flush'[i].ops = flush[i].ops
      BY <3>1, SlotGoes
    <3> QED  BY <3>1, <3>2 DEF OwedInv, SlotOwed
  <2> QED  BY <2>1, <2>2
<1>3. \A n, a : CreateOp(outbox', n, a) =>
        CreateOp(outbox, n, a) \/ \E j \in Slots : CreatedIn(flush[j].events, n)
  <2>1. CASE CreateOperations(i)
    <3>1. PICK s, t : s = outbox /\ t = flush[i].ops /\ IsList(s) /\ IsList(t)
      BY OnceFacts
    <3>2. outbox' = s \o t
      BY <2>1, <3>1 DEF CreateOperations
    <3>3. \A n, a : CreateOp(s \o t, n, a) <=> CreateOp(s, n, a) \/ CreateOp(t, n, a)
      BY <3>1, ConcatOps
    <3>4. \A n, a : CreateOp(t, n, a) => CreatedIn(flush[i].events, n)
      BY <3>1 DEF OwedInv, SlotOwed
    <3> QED  BY <3>1, <3>2, <3>3, <3>4
  <2>2. CASE ~CreateOperations(i)
    <3>1. outbox' = outbox
      BY <2>2 DEF PutMappings, DeleteMappings, RecordStates
    <3> QED  BY <3>1
  <2> QED  BY <2>1, <2>2
<1> QED  BY <1>1, <1>2, <1>3, KeepsOwed

LEMMA WalkReadOwed ==
  ASSUME EchoInv, OnceInv, OwedInv, WalkRead
  PROVE  OwedInv'
<1>1. /\ UNCHANGED <<map, moved, tree, outbox, queue, flush, twice>>
      /\ walk.at = "drained" /\ (walk.slot # 0 => flush[walk.slot].at = "free")
  BY DEF WalkRead
<1>2. walk'.at = "walk" /\ walk'.owed = walk.owed /\ walk'.todo = DOMAIN tree \ AlreadyMapped
  BY DEF WalkRead
<1>3. \A i \in Slots : SlotOwed(flush[i])'
  BY <1>1 DEF OwedInv, SlotOwed
<1>4. \A n \in walk.owed : \A i \in Slots : ~CreatedIn(flush[i].events, n)
  <2>1. ASSUME NEW n \in walk.owed, NEW i \in Slots PROVE ~CreatedIn(flush[i].events, n)
    <3>1. CASE i # walk.slot
      BY <1>1, <3>1 DEF OwedInv
    <3>2. CASE i = walk.slot
      <4>1. i # 0
        BY DEF Slots
      <4>2. flush[i].events = << >>
        BY <1>1, <3>2, <4>1 DEF OwedInv, SlotOwed
      <4> QED  BY <4>2, NothingIn
    <3> QED  BY <3>1, <3>2
  <2> QED  BY <2>1
<1>5. ASSUME NEW n \in walk.owed, n \in walk'.todo, n \notin twice, NEW a, CreateOp(outbox, n, a)
      PROVE  FALSE
  <2>1. /\ n \in DOMAIN map /\ map[n] = a /\ n \notin AlreadyMapped
        /\ a \in moved \/ \E i \in Slots : flush[i].at = "states" /\ CreateOp(flush[i].ops, n, a)
    BY <1>2, <1>5 DEF OnceInv, ToldOk
  <2>2. a \notin moved
    BY <2>1 DEF AlreadyMapped, MappedChromiumIds
  <2>3. PICK i \in Slots : CreateOp(flush[i].ops, n, a)
    BY <2>1, <2>2
  <2>4. CreatedIn(flush[i].events, n)
    BY <2>3 DEF OwedInv, SlotOwed
  <2> QED  BY <1>4, <2>4
<1>6. \A n \in walk.owed : ~CreatedIn(queue, n)
  BY <1>1 DEF OwedInv
<1> QED  BY <1>1, <1>2, <1>3, <1>4, <1>5, <1>6 DEF OwedInv

LEMMA WalkCommitOwed ==
  ASSUME EchoInv, OnceInv, OwedInv, WalkCommit
  PROVE  OwedInv'
<1>1. UNCHANGED <<queue, flush>> /\ walk.at = "walk" /\ twice \subseteq twice'
  BY DEF WalkCommit
<1>2. PICK n, op, ids : /\ walk' = [walk EXCEPT !.todo = @ \ {n}, !.ids = ids]
                        /\ outbox' = Append(outbox, op) /\ op.node = n
  <2>1. PICK n \in walk.todo :
          /\ CommitBookmarkBackfillBatch(n, minted + 1,
               IF walk.place[n] = 0 THEN 0 ELSE walk.ids[walk.place[n]])
          /\ walk' = [walk EXCEPT !.todo = @ \ {n}, !.ids = Over([x \in {n} |-> minted + 1], @)]
    BY DEF WalkCommit
  <2>2. PICK obj : obj = minted + 1
    OBVIOUS
  <2>3. PICK p : p = IF walk.place[n] = 0 THEN 0 ELSE walk.ids[walk.place[n]]
    OBVIOUS
  <2>4. PICK ids : ids = Over([x \in {n} |-> minted + 1], walk.ids)
    OBVIOUS
  <2>5. PICK op : op = [kind |-> "create", node |-> n, obj |-> obj, parent |-> p]
    OBVIOUS
  <2>6. CommitBookmarkBackfillBatch(n, obj, p)
    BY <2>1, <2>2, <2>3
  <2>7. outbox' = Append(outbox, op) /\ op.node = n
    BY <2>5, <2>6 DEF CommitBookmarkBackfillBatch
  <2>8. walk' = [walk EXCEPT !.todo = @ \ {n}, !.ids = ids]
    BY <2>1, <2>4
  <2> QED  BY <2>7, <2>8
<1>3. walk'.at = "walk" /\ walk'.todo = walk.todo \ {n} /\ walk'.owed = walk.owed
  <2>1. DOMAIN walk = DOMAIN Idle
    BY DEF EchoInv, WalkOk
  <2> QED  BY <1>1, <1>2, <2>1 DEF Idle
<1>4. \A x, a : CreateOp(outbox', x, a) => CreateOp(outbox, x, a) \/ x = n
  BY <1>2, OnceFacts, AppendOps
<1>5. \A i \in Slots : SlotOwed(flush[i])'
  BY <1>1 DEF OwedInv, SlotOwed
<1>6. ASSUME NEW x \in walk'.owed \cap walk'.todo, x \notin twice'
      PROVE  (\A i \in Slots : ~CreatedIn(flush[i].events, x)) /\ \A a : ~CreateOp(outbox', x, a)
  <2>1. x \in walk.owed \cap walk.todo /\ x # n /\ x \notin twice
    BY <1>1, <1>3, <1>6
  <2>2. (\A i \in Slots : ~CreatedIn(flush[i].events, x)) /\ \A a : ~CreateOp(outbox, x, a)
    BY <1>1, <2>1 DEF OwedInv
  <2> QED  BY <1>4, <2>1, <2>2
<1> QED  BY <1>1, <1>3, <1>5, <1>6 DEF OwedInv

LEMMA InitOwed ==
  ASSUME Init
  PROVE  OwedInv
<1>1. walk.at = "idle"
  BY DEF Init, Idle
<1>2. PICK f : f = Free /\ \A i \in Slots : flush[i] = f
  BY DEF Init
<1>3. f.events = << >> /\ f.ops = << >>
  BY <1>2 DEF Free
<1>4. SlotOwed(f)
  BY <1>3, NothingIn DEF SlotOwed
<1> QED  BY <1>1, <1>2, <1>4 DEF OwedInv

LEMMA IdleOwed ==
  ASSUME EchoInv, OnceInv, OwedInv, WalkEnd \/ Crash
  PROVE  OwedInv'
<1>1. walk'.at = "idle"
  BY DEF WalkEnd, Crash, Idle
<1>2. \A i \in Slots : SlotOwed(flush'[i])
  <2>1. CASE WalkEnd
    BY <2>1 DEF WalkEnd, OwedInv
  <2>2. CASE Crash
    <3>1. PICK f : f = Free /\ \A i \in Slots : flush'[i] = f
      BY <2>2 DEF Crash
    <3>2. f.events = << >> /\ f.ops = << >>
      BY <3>1 DEF Free
    <3>3. SlotOwed(f)
      BY <3>2, NothingIn DEF SlotOwed
    <3> QED  BY <3>1, <3>3
  <2> QED  BY <2>1, <2>2
<1>3. \A i \in Slots : SlotOwed(flush[i])'
  BY <1>2 DEF SlotOwed
<1> QED  BY <1>1, <1>3 DEF OwedInv

LEMMA StepOwed ==
  ASSUME EchoInv, OnceInv, OwedInv, [Next]_vars
  PROVE  OwedInv'
<1>1. CASE UNCHANGED vars
  <2>1. UNCHANGED <<outbox, queue, flush, walk, twice>>
    BY <1>1 DEF vars
  <2>2. \A i \in Slots : SlotOwed(flush'[i])
    BY <2>1 DEF OwedInv
  <2> QED  BY <2>1, <2>2, KeepsOwed
<1>2. ASSUME NEW i \in Slots,
             Stage(i) \/ PutMappings(i) \/ DeleteMappings(i) \/ CreateOperations(i) \/ RecordStates(i)
      PROVE  OwedInv'
  BY <1>2, StageOwed, FlushOwed
<1>3. CASE User \/ ApplyCreate \/ ApplyLink \/ FlushTimer \/ Crash
  BY <1>3, UserOwed, DrainOwed, IdleOwed
<1>4. CASE WalkDrain \/ WalkRead \/ WalkCommit \/ WalkEnd
  BY <1>4, DrainOwed, WalkReadOwed, WalkCommitOwed, IdleOwed
<1> QED  BY <1>1, <1>2, <1>3, <1>4 DEF Next

(***************************************************************************)
(* When the import has completed, every bookmark of the browser belongs to *)
(* an object the account was told of, and no bookmark was ever told of     *)
(* under two ids, wherever restarts interrupted the flushes and the import *)
(* (mappings before operations, a chunk of the import in one transaction,  *)
(* a mapping without a "move" record walked again).                        *)
(***************************************************************************)
THEOREM AnnouncedExactlyOnceHolds == Spec => []AnnouncedExactlyOnce
<1>1. Init => EchoInv /\ OnceInv /\ OwedInv
  BY InitInv, InitOnce, InitOwed
<1>2. EchoInv /\ OnceInv /\ OwedInv /\ [Next]_vars => EchoInv' /\ OnceInv' /\ OwedInv'
  BY StepInv, StepOnce, StepOwed
<1>3. EchoInv /\ OnceInv => AnnouncedExactlyOnce
  <2> SUFFICES ASSUME EchoInv, OnceInv PROVE EveryNodeAnnounced /\ AnnouncedOnce
    BY DEF AnnouncedExactlyOnce
  <2>1. PICK s : s = outbox /\ IsList(s)
    BY OnceFacts
  <2>2. Range(s) = {s[k] : k \in 1 .. Len(s)}
    BY <2>1, ListFacts
  <2>3. EveryNodeAnnounced
    <3> SUFFICES ASSUME imported, AtRest, NEW n \in DOMAIN tree \ (unheard \union twice)
                 PROVE  n \in DOMAIN map /\ (map[n] < 0 \/ map[n] \in Announced)
      BY DEF EveryNodeAnnounced
    <3>1. n # guard
      BY OnceFacts DEF AtRest
    <3>2. ~Awaited(n) /\ \A i \in Slots : flush[i].at \notin Writing
      BY NothingIn DEF Awaited, AtRest, Writing
    <3>3. n \in DOMAIN map /\ (map[n] < 0 \/ Told(map[n]))
      BY <3>1, <3>2 DEF OnceInv, CoveredOk, Excused
    <3>4. ASSUME NEW o, Told(o) PROVE o \in Announced
      BY <2>1, <2>2, <3>4 DEF Told, CreateOp, Announced
    <3> QED  BY <3>3, <3>4
  <2>4. ASSUME NEW n \in 1 .. used \ twice
        PROVE  Cardinality({op.obj : op \in {o \in Range(s) : o.kind = "create" /\ o.node = n}}) <= 1
    <3>1. PICK T : T = {op.obj : op \in {o \in Range(s) : o.kind = "create" /\ o.node = n}}
      OBVIOUS
    <3>2. \A a \in T : CreateOp(s, n, a)
      BY <2>2, <3>1 DEF CreateOp
    <3>3. \A a, b \in T : a = b
      BY <2>1, <2>4, <3>2 DEF OnceInv, OneOk
    <3>4. CASE T = {}
      <4>1. Cardinality(T) = 0
        BY <3>4, FS_EmptySet
      <4> QED  BY <3>1, <4>1
    <3>5. CASE T # {}
      <4>1. PICK a : T = {a}
        BY <3>3, <3>5
      <4>2. Cardinality(T) = 1
        BY <4>1, FS_Singleton
      <4> QED  BY <3>1, <4>2
    <3> QED  BY <3>4, <3>5
  <2>5. AnnouncedOnce
    BY <2>1, <2>4 DEF AnnouncedOnce
  <2> QED  BY <2>3, <2>5
<1> QED  BY <1>1, <1>2, <1>3, PTL DEF Spec

================================================================================
