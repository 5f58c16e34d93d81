------------------------------- MODULE TabProofs -------------------------------
(***************************************************************************)
(* Proofs about TabRestore, for any number of tabs, flushes of any length  *)
(* and batches of any length.                                              *)
(*                                                                         *)
(* Shape says what the pieces of state are.  GroupInv is about the local   *)
(* groups made for the remote one, OpenInv about tabs opened for remote    *)
(* ones, AnnounceInv about the order of creations and updates.             *)
(***************************************************************************)
EXTENDS TabRestore, SequenceTheorems, FiniteSetTheorems, WellFoundedInduction, TLAPS

TabKinds    == {"created", "updated", "activated", "removed"}
EventKinds  == TabKinds \union {"groupUpdated", "groupRemoved"}
EventFields == {"kind", "tab", "page", "grp"}
TaskFields  == {"by", "at", "obj", "val", "tab", "grp", "called"}
AccFields   == {"tabMap", "grpMap", "next", "acts", "ops", "seen"}
OpFields    == {"kind", "obj", "tab", "val"}

IsList(s) == \E S : s \in Seq(S)

\* es has an event of this kind about tab t.
Has(es, kind, t) == \E k \in 1 .. Len(es) : es[k].kind = kind /\ es[k].tab = t
\* es has an event about t.
About(es, t) == \E k \in 1 .. Len(es) : es[k].tab = t

(***************************************************************************)
(* An event of a tab is about one of the n opened so far, a "created" one  *)
(* not about one of F, opened for a remote one.  A group whose removal is  *)
(* heard is not in L, the groups that exist: the number of a group made    *)
(* for the remote one, of which there were m, is not used again.           *)
(***************************************************************************)
EventIn(e, n, F, m, L) ==
  /\ DOMAIN e = EventFields /\ e.kind \in EventKinds
  /\ e.kind \in TabKinds => e.tab \in 1 .. n
  /\ e.kind \notin TabKinds => e.tab = 0
  /\ e.kind = "created" => e.tab \notin F
  /\ e.kind = "groupUpdated" => e.grp # 0
  /\ e.kind = "groupRemoved" => e.grp = 1 \/ (e.grp \in 2 .. 1 + m /\ e.grp \notin L)

EventsIn(es, n, F, m, L) == IsList(es) /\ \A k \in 1 .. Len(es) : EventIn(es[k], n, F, m, L)

EventsOk(es) == EventsIn(es, opened, DOMAIN forObj, grouped, DOMAIN label)

TabsOk ==
  /\ opened \in Nat /\ minted \in Nat /\ grouped \in Nat
  /\ DOMAIN tabs \in SUBSET (1 .. opened) /\ DOMAIN forObj \in SUBSET (1 .. opened)
  /\ DOMAIN tabMap \in SUBSET (1 .. opened) /\ DOMAIN titles \in SUBSET (1 .. opened)
  /\ timers \in SUBSET DOMAIN titles /\ loading \in SUBSET (1 .. opened)
  /\ opening \in SUBSET DOMAIN forObj
  /\ \A t \in DOMAIN tabs : DOMAIN tabs[t] = {"page", "grp"}

FlushesOk ==
  /\ DOMAIN flush = Slots
  /\ \A i \in Slots : /\ DOMAIN flush[i] = {"at", "events", "ops"}
                      /\ EventsOk(flush[i].events)
                      /\ flush[i].at = "free" => flush[i].events = << >>

TasksOk ==
  /\ DOMAIN tasks \in SUBSET (Nat \ {0})
  /\ \A k \in DOMAIN tasks :
       DOMAIN tasks[k] = TaskFields /\ tasks[k].obj \in Theirs \union {TheirGroup}

Shape == TabsOk /\ EventsOk(queue) /\ FlushesOk /\ TasksOk
--------------------------------------------------------------------------------
\* The local groups mapped to the remote one.
Mapped == {g \in DOMAIN grpMap : grpMap[g] = TheirGroup}

MembersOk == \A t \in DOMAIN tabs : tabs[t].grp = 0 \/ tabs[t].grp \in DOMAIN label

GroupsOk ==
  /\ DOMAIN label \in SUBSET (1 .. 1 + grouped) /\ made \in SUBSET (2 .. 1 + grouped)
  /\ Mapped \in SUBSET (2 .. 1 + grouped)
  /\ \A g, h \in Mapped : g = h

Holding == {"join", "linkGroup"}

LockOk ==
  /\ lock # 0 => lock \in DOMAIN tasks /\ tasks[lock].at \in Holding
  /\ \A k \in DOMAIN tasks : tasks[k].at \in Holding => k = lock

\* What a holder of the lock at pc has read, the group h or none, is still so as
\* far as the group exists: M are the mapped groups, n were made, L exist.
HeldIn(pc, h, M, n, L) ==
  /\ pc = "join" /\ h = 0 => M = {}
  /\ pc = "linkGroup" \/ h # 0 => h \in 2 .. 1 + n /\ M \subseteq {h}
  /\ pc = "join" /\ h \in L => h \in M

HolderOk ==
  \A k \in DOMAIN tasks : tasks[k].at \in Holding =>
    HeldIn(tasks[k].at, tasks[k].grp, Mapped, grouped, DOMAIN label)

\* A group that was made or joined is mapped, or about to be.
MadeOk ==
  \A g \in made \cap DOMAIN label :
    g \in Mapped \/ \E k \in DOMAIN tasks : tasks[k].at = "linkGroup" /\ tasks[k].grp = g

GroupInv == MembersOk /\ GroupsOk /\ LockOk /\ HolderOk /\ MadeOk
--------------------------------------------------------------------------------
\* Tabs opened for remote ones, but for the exceptions of NotTakenForNew.
Kept == DOMAIN forObj \ (unheard \union raced \union freed)

\* A call that has opened a tab and not yet linked it.
LinkingOk ==
  /\ \A k \in DOMAIN tasks : tasks[k].at = "link" =>
       tasks[k].tab \in opening /\ forObj[tasks[k].tab] = tasks[k].obj
  /\ \A j, k \in DOMAIN tasks :
       tasks[j].at = "link" /\ tasks[k].at = "link" /\ tasks[j].tab = tasks[k].tab => j = k
  /\ opening \cap DOMAIN tabMap = {}

\* A tab without mapping was closed and that was staged: no update of it is left.
UnmappedOk ==
  \A t \in Kept \ (opening \union DOMAIN tabMap) :
    /\ t \notin DOMAIN tabs /\ t \notin DOMAIN titles /\ ~Has(queue, "updated", t)
    /\ \A i \in Slots : flush[i].at = "settings" => ~Has(flush[i].events, "updated", t)

\* No update of a tab that is not in R comes after its removal.
OrderedBut(es, R) ==
  \A p, q \in 1 .. Len(es) :
    p < q /\ es[p].kind = "removed" /\ es[q].kind = "updated" /\ es[p].tab = es[q].tab => es[p].tab \in R

Ordered(es) == OrderedBut(es, raced)

ClosedOk ==
  /\ Ordered(queue) /\ \A i \in Slots : Ordered(flush[i].events)
  /\ \A t \in 1 .. opened :
       /\ Has(queue, "removed", t) => t \notin DOMAIN tabs /\ t \notin timers
       /\ \A i \in Slots : Has(flush[i].events, "removed", t) =>
            t \notin DOMAIN tabs /\ t \notin timers /\ (Has(queue, "updated", t) => t \in raced)

\* Two flushes work on one tab only if it is counted as raced.
ApartOk ==
  \A i, j \in Slots : i # j =>
    \A t \in 0 .. opened : About(flush[i].events, t) /\ About(flush[j].events, t) => t \in raced

OpenInv == LinkingOk /\ UnmappedOk /\ ClosedOk /\ ApartOk /\ NotTakenForNew
--------------------------------------------------------------------------------
HasOp(ops, kind, o) == \E k \in 1 .. Len(ops) : ops[k].kind = kind /\ ops[k].obj = o

OpIn(op, n) == DOMAIN op = OpFields /\ op.obj \in Int /\ op.obj <= n /\ op.tab \in Nat

OpsIn(ops, n) == IsList(ops) /\ \A k \in 1 .. Len(ops) : OpIn(ops[k], n)

OpsOk == \A i \in Slots : OpsIn(flush[i].ops, minted)

\* The objects of tabs and those of groups are different ones.
IdsOk ==
  /\ \A t \in DOMAIN tabMap : tabMap[t] \in Int /\ tabMap[t] <= minted
  /\ \A g \in DOMAIN grpMap : grpMap[g] \in Int /\ grpMap[g] <= minted
  /\ \A o \in DOMAIN state : o \in Int /\ o <= minted
  /\ \A g \in DOMAIN grpMap : grpMap[g] > 0 =>
       /\ \A t \in DOMAIN tabMap : tabMap[t] # grpMap[g]
       /\ \A i \in Slots : \A k \in 1 .. Len(flush[i].ops) :
            flush[i].ops[k].tab # 0 => flush[i].ops[k].obj # grpMap[g]

\* A tab's object was announced, or a flush is about to.
AnnouncedOk ==
  \A t \in DOMAIN tabMap \ raced : tabMap[t] > 0 =>
    \/ tabMap[t] \in DOMAIN sent.created
    \/ \E i \in Slots : /\ flush[i].at = "ops" /\ HasOp(flush[i].ops, "create", tabMap[t])
                        /\ About(flush[i].events, t)

\* What a flush updates was announced, or it announces it too.
UpdatesOk ==
  \A i \in Slots : \A k \in 1 .. Len(flush[i].ops) :
    LET op == flush[i].ops[k]
    IN  /\ flush[i].at = "ops" /\ op.kind = "update" /\ op.obj > 0 =>
             \/ op.tab \in raced \/ op.obj \in DOMAIN sent.created
             \/ HasOp(flush[i].ops, "create", op.obj)
        /\ flush[i].at = "states" /\ op.kind \in {"create", "update"} /\ op.obj > 0 =>
             op.tab \in raced \/ op.obj \in DOMAIN sent.created

\* A group with a recorded state was announced.
StatesOk ==
  0 \notin raced => \A g \in DOMAIN grpMap :
    grpMap[g] > 0 /\ grpMap[g] \in DOMAIN state => grpMap[g] \in DOMAIN sent.created

AnnounceInv ==
  /\ OpsOk /\ IdsOk /\ crashes \in Nat
  /\ crashes = 0 => AnnouncedOk /\ UpdatesOk /\ StatesOk /\ sent.early \subseteq raced
--------------------------------------------------------------------------------
(***************************************************************************)
(* Facts about data.                                                       *)
(***************************************************************************)
\* A nonempty set of naturals has a least element.
LEMMA FirstNumber ==
  ASSUME NEW T \in SUBSET Nat, T # {}
  PROVE  \E x \in T : \A y \in T : x <= y
<1>1. IsWellFoundedOn(OpToRel(<, Nat), Nat)
  BY NatLessThanWellFounded
<1>2. PICK x \in T : \A y \in T : <<y, x>> \notin OpToRel(<, Nat)
  BY <1>1, WFMin
<1>3. \A y \in T : x <= y
  <2>1. TAKE y \in T
  <2>2. <<y, x>> \notin OpToRel(<, Nat)
    BY <1>2
  <2>3. ~(y < x)
    BY <2>2 DEF OpToRel
  <2> QED  BY <2>3
<1> QED  BY <1>3

LEMMA ListFacts ==
  ASSUME NEW s, IsList(s)
  PROVE  /\ Len(s) \in Nat /\ DOMAIN s = 1 .. Len(s)
         /\ Range(s) = {s[k] : k \in 1 .. Len(s)}
<1>1. PICK S : s \in Seq(S)
  BY DEF IsList
<1> QED  BY <1>1 DEF Range

LEMMA AppendList ==
  ASSUME NEW s, IsList(s), NEW x
  PROVE  /\ IsList(Append(s, x)) /\ Len(s) \in Nat /\ Len(Append(s, x)) = Len(s) + 1
         /\ \A k \in 1 .. Len(s) : Append(s, x)[k] = s[k]
         /\ Append(s, x)[Len(s) + 1] = x
<1>1. PICK S : s \in Seq(S)
  BY DEF IsList
<1>2. s \in Seq(S \union {x})
  BY <1>1
<1>3. PICK T : T = S \union {x}
  OBVIOUS
<1>4. s \in Seq(T) /\ x \in T
  BY <1>2, <1>3
<1>5. /\ Append(s, x) \in Seq(T) /\ Len(s) \in Nat /\ Len(Append(s, x)) = Len(s) + 1
      /\ \A k \in 1 .. Len(s) : Append(s, x)[k] = s[k]
      /\ Append(s, x)[Len(s) + 1] = x
  BY <1>4, AppendProperties
<1> QED  BY <1>5 DEF IsList

LEMMA ConcatList ==
  ASSUME NEW s, NEW t, IsList(s), IsList(t)
  PROVE  /\ IsList(s \o t) /\ Len(s \o t) = Len(s) + Len(t) /\ Len(s) \in Nat /\ Len(t) \in Nat
         /\ \A i \in 1 .. Len(s) : (s \o t)[i] = s[i]
         /\ \A i \in Len(s) + 1 .. Len(s) + Len(t) : i - Len(s) \in 1 .. Len(t) /\ (s \o t)[i] = t[i - Len(s)]
         /\ \A i \in 1 .. Len(t) : (s \o t)[Len(s) + i] = t[i]
<1>1. PICK S, T : s \in Seq(S) /\ t \in Seq(T)
  BY DEF IsList
<1>2. PICK U : U = S \union T
  OBVIOUS
<1>3. s \in Seq(U) /\ t \in Seq(U)
  BY <1>1, <1>2
<1>4. /\ s \o t \in Seq(U) /\ Len(s \o t) = Len(s) + Len(t) /\ Len(s) \in Nat /\ Len(t) \in Nat
      /\ \A i \in 1 .. Len(s) + Len(t) : (s \o t)[i] = IF i <= Len(s) THEN s[i] ELSE t[i - Len(s)]
  BY <1>3, ConcatProperties
<1>5. \A i \in 1 .. Len(s) : (s \o t)[i] = s[i]
  BY <1>4
<1>6. \A i \in Len(s) + 1 .. Len(s) + Len(t) : i - Len(s) \in 1 .. Len(t) /\ (s \o t)[i] = t[i - Len(s)]
  BY <1>4
<1>7. \A i \in 1 .. Len(t) : (s \o t)[Len(s) + i] = t[i]
  BY <1>4
<1> QED  BY <1>4, <1>5, <1>6, <1>7 DEF IsList

LEMMA SetToSeqFacts ==
  ASSUME NEW S, IsFiniteSet(S)
  PROVE  /\ Len(SetToSeq(S)) = Cardinality(S) /\ DOMAIN SetToSeq(S) = 1 .. Cardinality(S)
         /\ Range(SetToSeq(S)) = S
<1>1. PICK c \in Nat : c = Cardinality(S) /\ Bijection(1 .. c, S) # {}
  BY FS_CardinalityType DEF ExistsBijection
<1>2. \E f \in [1 .. c -> S] : IsInjective(f)
  BY <1>1 DEF Bijection, Injection
<1>3. PICK f : f = SetToSeq(S)
  OBVIOUS
<1>4. f \in [1 .. c -> S] /\ IsInjective(f)
  BY <1>1, <1>2, <1>3 DEF SetToSeq
<1>5. f \in Injection(1 .. c, S)
  BY <1>4 DEF Injection
<1>6. Cardinality(1 .. c) = c
  BY FS_Interval
<1>7. f \in Surjection(1 .. c, S)
  BY <1>1, <1>5, <1>6, FS_Injection
<1>8. Range(f) = S
  BY <1>4, <1>7 DEF Surjection, Range
<1>9. f \in Seq(S) /\ Len(f) = c
  BY <1>4
<1> QED  BY <1>1, <1>3, <1>4, <1>8, <1>9

(***************************************************************************)
(* A fold goes through one accumulator per element.  First, the function   *)
(* that FoldLeft is defined with exists: by the least number of elements   *)
(* for which it does not.  StepOf stands for the three operators that are  *)
(* folded.                                                                 *)
(***************************************************************************)
StepOf(near, acc, x) ==
  IF near.op = "stage" THEN StageEvent(acc, x)
  ELSE IF near.op = "resolve" THEN ResolveItem(acc, x)
  ELSE IF x \in near.set THEN Append(acc, near.seq[x]) ELSE acc

FoldOf(near, base, events, m, g) ==
  g = [T \in SUBSET (1 .. m) |->
         IF T = {} THEN base ELSE StepOf(near, g[T \ {Max(T)}], events[Max(T)])]

LEMMA FoldExists ==
  ASSUME NEW near, NEW base, NEW events, NEW m \in Nat
  PROVE  \E g : FoldOf(near, base, events, m, g)
<1> DEFINE Bad == {k \in Nat : ~\E g : FoldOf(near, base, events, k, g)}
<1>1. Bad = {}
  <2> SUFFICES ASSUME Bad # {} PROVE FALSE
    OBVIOUS
  <2>1. PICK k \in Bad : \A j \in Bad : k <= j
    <3>1. Bad \in SUBSET Nat
      OBVIOUS
    <3> HIDE DEF Bad
    <3> QED  BY <3>1, FirstNumber
  <2>2. k \in Nat /\ ~\E g : FoldOf(near, base, events, k, g)
    OBVIOUS
  <2>3. k # 0
    <3> SUFFICES ASSUME k = 0 PROVE FALSE
      OBVIOUS
    <3>1. SUBSET (1 .. k) = {{}}
      OBVIOUS
    <3> DEFINE g == [T \in {{}} |-> base]
    <3>2. FoldOf(near, base, events, k, g)
      BY <3>1 DEF FoldOf
    <3> QED  BY <2>2, <3>2
  <2>4. k - 1 \in Nat /\ k - 1 \notin Bad
    <3> HIDE DEF Bad
    <3> QED  BY <2>1, <2>2, <2>3
  <2>5. PICK g : FoldOf(near, base, events, k - 1, g)
    BY <2>4
  <2>6. 1 .. k = (1 .. k - 1) \union {k} /\ k \notin 1 .. k - 1
    BY <2>2, <2>3
  <2>7. \A T \in SUBSET (1 .. k - 1) :
          g[T] = IF T = {} THEN base ELSE StepOf(near, g[T \ {Max(T)}], events[Max(T)])
    BY <2>5 DEF FoldOf
  <2> DEFINE h == [T \in SUBSET (1 .. k) |-> IF k \in T THEN StepOf(near, g[T \ {k}], events[k]) ELSE g[T]]
  <2>8. \A T \in SUBSET (1 .. k - 1) : T \in SUBSET (1 .. k) /\ k \notin T /\ h[T] = g[T]
    BY <2>6
  <2>9. \A T \in SUBSET (1 .. k) : k \in T => Max(T) = k /\ T \ {k} \in SUBSET (1 .. k - 1)
    <3> SUFFICES ASSUME NEW T \in SUBSET (1 .. k), k \in T
                 PROVE  Max(T) = k /\ T \ {k} \in SUBSET (1 .. k - 1)
      OBVIOUS
    <3>1. \A y \in T : y \in Nat /\ k >= y
      BY <2>2
    <3>2. Max(T) \in T /\ \A y \in T : Max(T) >= y
      <4>1. \E x \in T : \A y \in T : x >= y
        BY <3>1
      <4> QED  BY <4>1 DEF Max
    <3>3. Max(T) = k
      <4>1. PICK x : x = Max(T)
        OBVIOUS
      <4>2. x \in T /\ x >= k
        BY <3>2, <4>1
      <4>3. x \in Nat /\ k >= x
        BY <3>1, <4>2
      <4> QED  BY <2>2, <4>1, <4>2, <4>3
    <3> QED  BY <2>6, <3>3
  <2>10. ASSUME NEW T \in SUBSET (1 .. k)
         PROVE  h[T] = IF T = {} THEN base ELSE StepOf(near, h[T \ {Max(T)}], events[Max(T)])
    <3>1. CASE k \in T
      <4>1. h[T] = StepOf(near, g[T \ {k}], events[k])
        BY <3>1
      <4>2. Max(T) = k /\ h[T \ {k}] = g[T \ {k}]
        BY <2>8, <2>9, <3>1
      <4> HIDE DEF h
      <4> QED  BY <3>1, <4>1, <4>2
    <3>2. CASE k \notin T
      <4>1. T \in SUBSET (1 .. k - 1) /\ T \ {Max(T)} \in SUBSET (1 .. k - 1)
        BY <2>6, <3>2
      <4>2. h[T] = g[T] /\ h[T \ {Max(T)}] = g[T \ {Max(T)}]
        BY <2>8, <4>1
      <4> HIDE DEF h
      <4> QED  BY <2>7, <4>1, <4>2
    <3> QED  BY <3>1, <3>2
  <2>11. DOMAIN h = SUBSET (1 .. k) /\ h = [T \in DOMAIN h |-> h[T]]
    OBVIOUS
  <2> HIDE DEF h
  <2>12. h = [T \in SUBSET (1 .. k) |->
                IF T = {} THEN base ELSE StepOf(near, h[T \ {Max(T)}], events[Max(T)])]
    BY <2>10, <2>11
  <2>13. FoldOf(near, base, events, k, h)
    BY <2>12 DEF FoldOf
  <2> QED  BY <2>2, <2>13
<1> QED  BY <1>1

LEMMA FoldChain ==
  \A near, base, events, g : \A m \in Nat : FoldOf(near, base, events, m, g) =>
    \E f : /\ f[0] = base
           /\ \A k \in 1 .. m : f[k] = StepOf(near, f[k - 1], events[k])
           /\ f[m] = g[1 .. m]
<1> TAKE near, base, events, g
<1> TAKE m \in Nat
<1> HAVE FoldOf(near, base, events, m, g)
<1>1. \A T \in SUBSET (1 .. m) :
        g[T] = IF T = {} THEN base ELSE StepOf(near, g[T \ {Max(T)}], events[Max(T)])
  BY DEF FoldOf
<1> DEFINE f == [k \in 0 .. m |-> g[1 .. k]]
<1>2. f[0] = base
  <2>1. 1 .. 0 = {} /\ 0 \in 0 .. m
    OBVIOUS
  <2> QED  BY <1>1, <2>1
<1>3. ASSUME NEW k \in 1 .. m PROVE f[k] = StepOf(near, f[k - 1], events[k])
  <2>1. /\ k \in 0 .. m /\ k - 1 \in 0 .. m /\ 1 .. k \in SUBSET (1 .. m) /\ 1 .. k # {}
        /\ (1 .. k) \ {k} = 1 .. k - 1
    <3>1. k \in Nat /\ 1 <= k /\ k <= m
      OBVIOUS
    <3>2. 1 .. k \in SUBSET (1 .. m) /\ k \in 1 .. k
      BY <3>1
    <3>3. \A j : j \in (1 .. k) \ {k} <=> j \in 1 .. k - 1
      BY <3>1
    <3> QED  BY <3>1, <3>2, <3>3
  <2>2. Max(1 .. k) = k
    <3>1. k \in 1 .. k /\ \A y \in 1 .. k : k >= y
      OBVIOUS
    <3>2. Max(1 .. k) \in 1 .. k /\ \A y \in 1 .. k : Max(1 .. k) >= y
      BY <3>1 DEF Max
    <3> QED  BY <3>1, <3>2
  <2>3. g[1 .. k] = StepOf(near, g[(1 .. k) \ {k}], events[k])
    BY <1>1, <2>1, <2>2
  <2> QED  BY <2>1, <2>3
<1>4. f[m] = g[1 .. m]
  OBVIOUS
<1> HIDE DEF f
<1> QED  BY <1>2, <1>3, <1>4

LEMMA StageSteps ==
  ASSUME NEW base, NEW events, NEW m \in Nat, DOMAIN events = 1 .. m
  PROVE  \E f : /\ f[0] = base
                /\ \A k \in 1 .. m : f[k] = StageEvent(f[k - 1], events[k])
                /\ f[m] = FoldLeft(StageEvent, base, events)
<1> DEFINE near == [op |-> "stage"]
           g == CHOOSE g : g = [T \in SUBSET (1 .. m) |->
                  IF T = {} THEN base ELSE StageEvent(g[T \ {Max(T)}], events[Max(T)])]
<1>1. \A acc, x : StepOf(near, acc, x) = StageEvent(acc, x)
  BY DEF StepOf
<1>2. PICK e : FoldOf(near, base, events, m, e)
  BY FoldExists
<1>3. e = [T \in SUBSET (1 .. m) |-> IF T = {} THEN base ELSE StageEvent(e[T \ {Max(T)}], events[Max(T)])]
  BY <1>1, <1>2 DEF FoldOf
<1>4. g = [T \in SUBSET (1 .. m) |-> IF T = {} THEN base ELSE StageEvent(g[T \ {Max(T)}], events[Max(T)])]
  BY <1>3
<1>5. FoldLeft(StageEvent, base, events) = g[1 .. m]
  BY DEF FoldLeft, MapThenFoldSet
<1> HIDE DEF g
<1>6. FoldOf(near, base, events, m, g)
  BY <1>1, <1>4 DEF FoldOf
<1> HIDE DEF near
<1>7. PICK f : /\ f[0] = base
               /\ \A k \in 1 .. m : f[k] = StepOf(near, f[k - 1], events[k])
               /\ f[m] = g[1 .. m]
  BY <1>6, FoldChain
<1> QED  BY <1>1, <1>5, <1>7

LEMMA ResolveSteps ==
  ASSUME NEW base, NEW batch, NEW m \in Nat, DOMAIN batch = 1 .. m
  PROVE  \E f : /\ f[0] = base
                /\ \A k \in 1 .. m : f[k] = ResolveItem(f[k - 1], batch[k])
                /\ f[m] = FoldLeft(ResolveItem, base, batch)
<1> DEFINE near == [op |-> "resolve"]
           g == CHOOSE g : g = [T \in SUBSET (1 .. m) |->
                  IF T = {} THEN base ELSE ResolveItem(g[T \ {Max(T)}], batch[Max(T)])]
<1>1. \A acc, x : StepOf(near, acc, x) = ResolveItem(acc, x)
  BY DEF StepOf
<1>2. PICK e : FoldOf(near, base, batch, m, e)
  BY FoldExists
<1>3. e = [T \in SUBSET (1 .. m) |-> IF T = {} THEN base ELSE ResolveItem(e[T \ {Max(T)}], batch[Max(T)])]
  BY <1>1, <1>2 DEF FoldOf
<1>4. g = [T \in SUBSET (1 .. m) |-> IF T = {} THEN base ELSE ResolveItem(g[T \ {Max(T)}], batch[Max(T)])]
  BY <1>3
<1>5. FoldLeft(ResolveItem, base, batch) = g[1 .. m]
  BY DEF FoldLeft, MapThenFoldSet
<1> HIDE DEF g
<1>6. FoldOf(near, base, batch, m, g)
  BY <1>1, <1>4 DEF FoldOf
<1> HIDE DEF near
<1>7. PICK f : /\ f[0] = base
               /\ \A k \in 1 .. m : f[k] = StepOf(near, f[k - 1], batch[k])
               /\ f[m] = g[1 .. m]
  BY <1>6, FoldChain
<1> QED  BY <1>1, <1>5, <1>7

LEMMA KeepSteps ==
  ASSUME NEW s, NEW S, NEW m \in Nat, DOMAIN s = 1 .. m
  PROVE  \E f : /\ f[0] = << >>
                /\ \A k \in 1 .. m : f[k] = IF k \in S THEN Append(f[k - 1], s[k]) ELSE f[k - 1]
                /\ f[m] = KeepAt(s, S)
<1> DEFINE near == [op |-> "keep", set |-> S, seq |-> s]
           places == [i \in 1 .. m |-> i]
           g == CHOOSE g : g = [T \in SUBSET (1 .. m) |->
                  IF T = {} THEN << >>
                  ELSE IF places[Max(T)] \in S THEN Append(g[T \ {Max(T)}], s[places[Max(T)]])
                       ELSE g[T \ {Max(T)}]]
<1>1. \A acc, x : StepOf(near, acc, x) = IF x \in S THEN Append(acc, s[x]) ELSE acc
  BY DEF StepOf
<1>2. PICK e : FoldOf(near, << >>, places, m, e)
  BY FoldExists
<1> HIDE DEF near
<1>3. e = [T \in SUBSET (1 .. m) |->
             IF T = {} THEN << >>
             ELSE IF places[Max(T)] \in S THEN Append(e[T \ {Max(T)}], s[places[Max(T)]])
                  ELSE e[T \ {Max(T)}]]
  <2> HIDE DEF places
  <2> QED  BY <1>1, <1>2 DEF FoldOf
<1>4. g = [T \in SUBSET (1 .. m) |->
             IF T = {} THEN << >>
             ELSE IF places[Max(T)] \in S THEN Append(g[T \ {Max(T)}], s[places[Max(T)]])
                  ELSE g[T \ {Max(T)}]]
  <2> HIDE DEF places
  <2> QED  BY <1>3
<1>5. KeepAt(s, S) = g[1 .. m]
  BY DEF KeepAt, FoldLeft, MapThenFoldSet
<1> HIDE DEF g
<1>6. FoldOf(near, << >>, places, m, g)
  <2> HIDE DEF places
  <2> QED  BY <1>1, <1>4 DEF FoldOf
<1>7. PICK f : /\ f[0] = << >>
               /\ \A k \in 1 .. m : f[k] = StepOf(near, f[k - 1], places[k])
               /\ f[m] = g[1 .. m]
  <2>1. PICK base : base = << >>
    OBVIOUS
  <2>2. PICK here : here = places
    OBVIOUS
  <2>3. FoldOf(near, base, here, m, g)
    BY <1>6, <2>1, <2>2
  <2> HIDE DEF places
  <2>4. PICK f : /\ f[0] = base
                 /\ \A k \in 1 .. m : f[k] = StepOf(near, f[k - 1], here[k])
                 /\ f[m] = g[1 .. m]
    BY <2>3, FoldChain
  <2> QED  BY <2>1, <2>2, <2>4
<1>8. \A k \in 1 .. m : f[k] = IF k \in S THEN Append(f[k - 1], s[k]) ELSE f[k - 1]
  BY <1>1, <1>7
<1> QED  BY <1>5, <1>7, <1>8

\* Induction up to m, for a set of numbers.
LEMMA Upward ==
  \A G : \A m \in Nat :
    0 \in G /\ (\A k \in 1 .. m : k - 1 \in G => k \in G) => \A k \in 0 .. m : k \in G
<1> TAKE G
<1> TAKE m \in Nat
<1> HAVE 0 \in G /\ (\A k \in 1 .. m : k - 1 \in G => k \in G)
<1> DEFINE Bad == {k \in 0 .. m : k \notin G}
<1> SUFFICES ASSUME Bad # {} PROVE FALSE
  OBVIOUS
<1>1. PICK k \in Bad : \A j \in Bad : k <= j
  <2>1. Bad \in SUBSET Nat
    OBVIOUS
  <2> HIDE DEF Bad
  <2> QED  BY <2>1, FirstNumber
<1>2. k \in 0 .. m /\ k \notin G
  OBVIOUS
<1>3. k \in 1 .. m /\ k - 1 \in 0 .. m /\ ~(k <= k - 1)
  BY <1>2
<1>4. k - 1 \in G
  BY <1>1, <1>3
<1> QED  BY <1>2, <1>3, <1>4

\* r is s at the places of S up to k.
KeptUpTo(r, s, S, k) ==
  /\ IsList(r)
  /\ \E h : /\ \A j \in 1 .. Len(r) : h[j] \in 1 .. k /\ h[j] \in S /\ r[j] = s[h[j]]
            /\ \A a, b \in 1 .. Len(r) : a < b => h[a] < h[b]
  /\ \A i \in 1 .. k : i \in S => \E j \in 1 .. Len(r) : r[j] = s[i]

LEMMA KeepOne ==
  ASSUME NEW s, NEW S, NEW k \in Nat \ {0}, NEW r, KeptUpTo(r, s, S, k - 1),
         NEW to, to = IF k \in S THEN Append(r, s[k]) ELSE r
  PROVE  KeptUpTo(to, s, S, k)
<1>1. PICK h : /\ \A j \in 1 .. Len(r) : h[j] \in 1 .. k - 1 /\ h[j] \in S /\ r[j] = s[h[j]]
               /\ \A a, b \in 1 .. Len(r) : a < b => h[a] < h[b]
  BY DEF KeptUpTo
<1>2. k \in Nat /\ \A i \in 1 .. k : i \in 1 .. k - 1 \/ i = k
  OBVIOUS
<1>3. \A i \in 1 .. k - 1 : i \in 1 .. k
  OBVIOUS
<1>4. CASE k \notin S
  <2>1. \A j \in 1 .. Len(r) : h[j] \in 1 .. k /\ h[j] \in S /\ r[j] = s[h[j]]
    BY <1>1, <1>3
  <2> QED  BY <1>1, <1>2, <1>4, <2>1 DEF KeptUpTo
<1>5. CASE k \in S
  <2>1. PICK q, n : q = Append(r, s[k]) /\ n = Len(r)
    OBVIOUS
  <2>2. /\ IsList(q) /\ n \in Nat /\ Len(q) = n + 1
        /\ \A j \in 1 .. n : q[j] = r[j]
        /\ q[n + 1] = s[k]
    BY <2>1, AppendList DEF KeptUpTo
  <2>3. \A j \in 1 .. Len(q) : j \in 1 .. n \/ j = n + 1
    BY <2>2
  <2>4. PICK g : g = [j \in 1 .. Len(q) |-> IF j \in 1 .. n THEN h[j] ELSE k]
    OBVIOUS
  <2>5. \A j \in 1 .. n : j \in 1 .. Len(q) /\ g[j] = h[j]
    BY <2>2, <2>4
  <2>6. n + 1 \in 1 .. Len(q) /\ n + 1 \notin 1 .. n /\ g[n + 1] = k
    BY <2>2, <2>4
  <2>7. \A j \in 1 .. Len(q) : g[j] \in 1 .. k /\ g[j] \in S /\ q[j] = s[g[j]]
    <3> TAKE j \in 1 .. Len(q)
    <3>1. CASE j \in 1 .. n
      BY <1>1, <1>3, <2>1, <2>2, <2>5, <3>1
    <3>2. CASE j = n + 1
      BY <1>2, <1>5, <2>2, <2>6, <3>2
    <3> QED  BY <2>3, <3>1, <3>2
  <2>8. \A a, b \in 1 .. Len(q) : a < b => g[a] < g[b]
    <3> SUFFICES ASSUME NEW a \in 1 .. Len(q), NEW b \in 1 .. Len(q), a < b PROVE g[a] < g[b]
      OBVIOUS
    <3>1. a \in 1 .. n
      BY <2>2
    <3>2. h[a] \in 1 .. k - 1
      BY <1>1, <2>1, <3>1
    <3>3. CASE b \in 1 .. n
      BY <1>1, <2>1, <2>5, <3>1, <3>3
    <3>4. CASE b = n + 1
      BY <1>2, <2>5, <2>6, <3>1, <3>2, <3>4
    <3> QED  BY <2>3, <3>3, <3>4
  <2>9. \A i \in 1 .. k : i \in S => \E j \in 1 .. Len(q) : q[j] = s[i]
    <3> SUFFICES ASSUME NEW i \in 1 .. k, i \in S PROVE \E j \in 1 .. Len(q) : q[j] = s[i]
      OBVIOUS
    <3>1. CASE i = k
      BY <2>2, <2>6, <3>1
    <3>2. CASE i \in 1 .. k - 1
      <4>1. PICK j \in 1 .. Len(r) : r[j] = s[i]
        BY <3>2 DEF KeptUpTo
      <4> QED  BY <2>1, <2>2, <2>5, <4>1
    <3> QED  BY <1>2, <3>1, <3>2
  <2>10. KeptUpTo(q, s, S, k)
    BY <2>2, <2>7, <2>8, <2>9 DEF KeptUpTo
  <2> QED  BY <1>5, <2>1, <2>10
<1> QED  BY <1>4, <1>5

LEMMA KeepAtFacts ==
  ASSUME NEW s, IsList(s), NEW S
  PROVE  KeptUpTo(KeepAt(s, S), s, S, Len(s))
<1>1. PICK m : m = Len(s) /\ m \in Nat /\ DOMAIN s = 1 .. m
  BY ListFacts
<1>2. PICK f : /\ f[0] = << >>
               /\ \A k \in 1 .. m : f[k] = IF k \in S THEN Append(f[k - 1], s[k]) ELSE f[k - 1]
               /\ f[m] = KeepAt(s, S)
  BY <1>1, KeepSteps
<1> DEFINE G == {k \in 0 .. m : KeptUpTo(f[k], s, S, k)}
<1>3. 0 \in G
  <2>1. << >> \in Seq({}) /\ Len(<< >>) = 0 /\ 1 .. 0 = {}
    OBVIOUS
  <2>2. KeptUpTo(<< >>, s, S, 0)
    BY <2>1 DEF KeptUpTo, IsList
  <2> QED  BY <1>1, <1>2, <2>2
<1>4. \A k \in 1 .. m : k - 1 \in G => k \in G
  <2> SUFFICES ASSUME NEW k \in 1 .. m, KeptUpTo(f[k - 1], s, S, k - 1) PROVE KeptUpTo(f[k], s, S, k)
    BY <1>1
  <2>1. k \in Nat \ {0} /\ f[k] = IF k \in S THEN Append(f[k - 1], s[k]) ELSE f[k - 1]
    BY <1>1, <1>2
  <2> HIDE DEF G
  <2> QED  BY <2>1, KeepOne
<1>5. m \in G
  <2>1. PICK H : H = G
    OBVIOUS
  <2>2. 0 \in H /\ \A k \in 1 .. m : k - 1 \in H => k \in H
    <3> HIDE DEF G
    <3> QED  BY <1>3, <1>4, <2>1
  <2> HIDE DEF G
  <2>3. \A k \in 0 .. m : k \in H
    BY <1>1, <2>2, Upward
  <2>4. m \in 0 .. m
    BY <1>1
  <2> QED  BY <2>1, <2>3, <2>4
<1> QED  BY <1>1, <1>2, <1>5

LEMMA EventsGrow ==
  ASSUME NEW es, NEW n \in Nat, NEW o \in Nat, n <= o, NEW F, NEW G, \A t \in G : t \in 1 .. n => t \in F,
         NEW m \in Nat, NEW p \in Nat, m <= p, NEW L, NEW M, \A g \in M : g \in 2 .. 1 + m => g \in L,
         EventsIn(es, n, F, m, L)
  PROVE  EventsIn(es, o, G, p, M)
<1> SUFFICES ASSUME NEW k \in 1 .. Len(es) PROVE EventIn(es[k], o, G, p, M)
  BY DEF EventsIn
<1>1. EventIn(es[k], n, F, m, L)
  BY DEF EventsIn
<1>2. \A t \in 1 .. n : t \in 1 .. o
  OBVIOUS
<1>3. \A g \in 2 .. 1 + m : g \in 2 .. 1 + p
  OBVIOUS
<1>4. "created" \in TabKinds
  BY DEF TabKinds
<1> QED  BY <1>1, <1>2, <1>3, <1>4 DEF EventIn

LEMMA EventsConcat ==
  ASSUME NEW s, NEW t, NEW n, NEW F, NEW m, NEW L, EventsIn(s, n, F, m, L), EventsIn(t, n, F, m, L)
  PROVE  EventsIn(s \o t, n, F, m, L)
<1>1. IsList(s) /\ IsList(t)
  BY DEF EventsIn
<1>2. PICK u : u = s \o t
  OBVIOUS
<1>3. /\ IsList(u) /\ Len(u) = Len(s) + Len(t) /\ Len(s) \in Nat /\ Len(t) \in Nat
      /\ \A i \in 1 .. Len(s) : u[i] = s[i]
      /\ \A i \in Len(s) + 1 .. Len(s) + Len(t) : i - Len(s) \in 1 .. Len(t) /\ u[i] = t[i - Len(s)]
  BY <1>1, <1>2, ConcatList
<1>4. \A k \in 1 .. Len(u) : k \in 1 .. Len(s) \/ k \in Len(s) + 1 .. Len(s) + Len(t)
  BY <1>3
<1>5. \A k \in 1 .. Len(u) : EventIn(u[k], n, F, m, L)
  BY <1>3, <1>4 DEF EventsIn
<1> QED  BY <1>2, <1>3, <1>5 DEF EventsIn

LEMMA NoEvents ==
  IsList(<< >>) /\ Len(<< >>) = 0 /\ \A n, F, m, L : EventsIn(<< >>, n, F, m, L)
<1>1. << >> \in Seq({}) /\ Len(<< >>) = 0 /\ 1 .. 0 = {}
  OBVIOUS
<1> QED  BY <1>1 DEF IsList, EventsIn

LEMMA OneList ==
  \A x : IsList(<<x>>) /\ Len(<<x>>) = 1 /\ \A k \in 1 .. Len(<<x>>) : <<x>>[k] = x
<1> TAKE x
<1>1. <<x>> \in Seq({x}) /\ Len(<<x>>) = 1 /\ <<x>>[1] = x /\ \A k \in 1 .. 1 : k = 1
  OBVIOUS
<1> QED  BY <1>1 DEF IsList

LEMMA EventsKept ==
  ASSUME NEW es, NEW S, NEW n, NEW F, NEW m, NEW L, EventsIn(es, n, F, m, L)
  PROVE  EventsIn(KeepAt(es, S), n, F, m, L)
<1>1. PICK r : r = KeepAt(es, S)
  OBVIOUS
<1>2. IsList(es)
  BY DEF EventsIn
<1>3. KeptUpTo(KeepAt(es, S), es, S, Len(es))
  BY <1>2, KeepAtFacts
<1>4. KeptUpTo(r, es, S, Len(es))
  BY <1>1, <1>3
<1> QED  BY <1>1, <1>4 DEF KeptUpTo, EventsIn

LEMMA HasConcat ==
  ASSUME NEW s, NEW t, IsList(s), IsList(t), NEW kind, NEW x
  PROVE  /\ Has(s \o t, kind, x) <=> Has(s, kind, x) \/ Has(t, kind, x)
         /\ About(s \o t, x) <=> About(s, x) \/ About(t, x)
<1>1. PICK u : u = s \o t
  OBVIOUS
<1>2. /\ IsList(u) /\ Len(u) = Len(s) + Len(t) /\ Len(s) \in Nat /\ Len(t) \in Nat
      /\ \A i \in 1 .. Len(s) : u[i] = s[i]
      /\ \A i \in Len(s) + 1 .. Len(s) + Len(t) : i - Len(s) \in 1 .. Len(t) /\ u[i] = t[i - Len(s)]
      /\ \A i \in 1 .. Len(t) : u[Len(s) + i] = t[i]
  BY <1>1, ConcatList
<1>3. \A k \in 1 .. Len(u) : k \in 1 .. Len(s) \/ k \in Len(s) + 1 .. Len(s) + Len(t)
  BY <1>2
<1>4. (\A k \in 1 .. Len(s) : k \in 1 .. Len(u)) /\ (\A i \in 1 .. Len(t) : Len(s) + i \in 1 .. Len(u))
  BY <1>2
<1>5. \A i \in 1 .. Len(u) : \/ i \in 1 .. Len(s) /\ u[i] = s[i]
                             \/ \E j \in 1 .. Len(t) : u[i] = t[j]
  BY <1>2, <1>3
<1>6. \A i \in 1 .. Len(s) : \E j \in 1 .. Len(u) : u[j] = s[i]
  BY <1>2, <1>4
<1>7. \A i \in 1 .. Len(t) : \E j \in 1 .. Len(u) : u[j] = t[i]
  BY <1>2, <1>4
<1>8. Has(u, kind, x) <=> Has(s, kind, x) \/ Has(t, kind, x)
  <2>1. ASSUME Has(u, kind, x) PROVE Has(s, kind, x) \/ Has(t, kind, x)
    <3>1. PICK i \in 1 .. Len(u) : u[i].kind = kind /\ u[i].tab = x
      BY <2>1 DEF Has
    <3>2. CASE i \in 1 .. Len(s) /\ u[i] = s[i]
      BY <3>1, <3>2 DEF Has
    <3>3. CASE \E j \in 1 .. Len(t) : u[i] = t[j]
      BY <3>1, <3>3 DEF Has
    <3> QED  BY <1>5, <3>2, <3>3
  <2>2. ASSUME Has(s, kind, x) PROVE Has(u, kind, x)
    BY <1>6, <2>2 DEF Has
  <2>3. ASSUME Has(t, kind, x) PROVE Has(u, kind, x)
    BY <1>7, <2>3 DEF Has
  <2> QED  BY <2>1, <2>2, <2>3
<1>9. About(u, x) <=> About(s, x) \/ About(t, x)
  BY <1>5, <1>6, <1>7 DEF About
<1> QED  BY <1>1, <1>8, <1>9

\* A list followed by another is in order if both are and the second has no
\* update of what the first has the removal of.
LEMMA OrderedConcat ==
  ASSUME NEW s, NEW t, IsList(s), IsList(t), NEW R, OrderedBut(s, R), OrderedBut(t, R),
         \A x : Has(s, "removed", x) /\ Has(t, "updated", x) => x \in R
  PROVE  OrderedBut(s \o t, R)
<1>1. PICK u : u = s \o t
  OBVIOUS
<1>2. /\ IsList(u) /\ Len(u) = Len(s) + Len(t) /\ Len(s) \in Nat /\ Len(t) \in Nat
      /\ \A i \in 1 .. Len(s) : u[i] = s[i]
      /\ \A i \in Len(s) + 1 .. Len(s) + Len(t) : i - Len(s) \in 1 .. Len(t) /\ u[i] = t[i - Len(s)]
  BY <1>1, ConcatList
<1> SUFFICES ASSUME NEW p \in 1 .. Len(u), NEW q \in 1 .. Len(u), p < q, u[p].kind = "removed",
                    u[q].kind = "updated", u[p].tab = u[q].tab
             PROVE  u[p].tab \in R
  BY <1>1 DEF OrderedBut
<1>3. CASE q <= Len(s)
  <2>1. p \in 1 .. Len(s) /\ q \in 1 .. Len(s)
    BY <1>2, <1>3
  <2> QED  BY <1>2, <2>1 DEF OrderedBut
<1>4. CASE p > Len(s)
  <2>1. PICK a, b : a = p - Len(s) /\ b = q - Len(s)
    OBVIOUS
  <2>2. p \in Len(s) + 1 .. Len(s) + Len(t) /\ q \in Len(s) + 1 .. Len(s) + Len(t)
    BY <1>2, <1>4
  <2>3. a \in 1 .. Len(t) /\ b \in 1 .. Len(t) /\ a < b /\ u[p] = t[a] /\ u[q] = t[b]
    BY <1>2, <2>1, <2>2
  <2> QED  BY <2>3 DEF OrderedBut
<1>5. CASE p <= Len(s) /\ q > Len(s)
  <2>1. PICK b : b = q - Len(s)
    OBVIOUS
  <2>2. p \in 1 .. Len(s) /\ q \in Len(s) + 1 .. Len(s) + Len(t)
    BY <1>2, <1>5
  <2>3. b \in 1 .. Len(t) /\ u[p] = s[p] /\ u[q] = t[b]
    BY <1>2, <2>1, <2>2
  <2>4. Has(s, "removed", u[p].tab) /\ Has(t, "updated", u[p].tab)
    BY <2>2, <2>3 DEF Has
  <2> QED  BY <2>4
<1> QED  BY <1>2, <1>3, <1>4, <1>5

--------------------------------------------------------------------------------
(***************************************************************************)
(* What the steps that hear the browser have in common.                    *)
(***************************************************************************)
Growth ==
  /\ opened' \in Nat /\ opened <= opened' /\ grouped' \in Nat /\ grouped <= grouped'
  /\ \A t \in DOMAIN forObj' : t \in 1 .. opened => t \in DOMAIN forObj
  /\ \A g \in DOMAIN label' : g \in 2 .. 1 + grouped => g \in DOMAIN label

\* The events es are queued: an update is of a tab that is open or has a title
\* waiting, and of a stashed one only if nothing else of it waits; a removed
\* tab is gone.
Queued(es) ==
  /\ EventsIn(es, opened', DOMAIN forObj', grouped', DOMAIN label')
  /\ \A t : Has(es, "updated", t) =>
       /\ t \in DOMAIN tabs \union DOMAIN titles
       /\ \/ t \in DOMAIN tabs \union timers \union raced'
          \/ ~About(queue, t) /\ \A i \in Slots : ~About(flush[i].events, t)
  /\ \A t : Has(es, "removed", t) => t \notin DOMAIN tabs' /\ t \notin timers'
  /\ \A t, u : ~(Has(es, "removed", t) /\ Has(es, "updated", u))

Listens ==
  /\ \E es : Queued(es) /\ queue' = queue \o es
  /\ Growth
  /\ timers' \subseteq timers \union DOMAIN tabs /\ timers' \subseteq DOMAIN titles'
  /\ DOMAIN titles' \subseteq DOMAIN titles \union DOMAIN tabs
  /\ DOMAIN tabs' \subseteq DOMAIN tabs \union (opened + 1 .. opened')
  /\ \A t \in DOMAIN tabs' : DOMAIN tabs'[t] = {"page", "grp"}
  /\ raced \subseteq raced' /\ unheard \subseteq unheard' /\ loading' \subseteq loading
  /\ DOMAIN tasks' = DOMAIN tasks
  /\ \A k \in DOMAIN tasks :
       \/ tasks'[k] = tasks[k]
       \/ DOMAIN tasks'[k] = TaskFields /\ tasks'[k].obj = tasks[k].obj /\ tasks'[k].at # "link"
  /\ UNCHANGED <<captured, flush, opening, forObj, freed, crashes>>

LEMMA EventsStay ==
  ASSUME TabsOk, Growth
  PROVE  \A es : EventsOk(es) => EventsIn(es, opened', DOMAIN forObj', grouped', DOMAIN label')
<1> TAKE es
<1> HAVE EventsOk(es)
<1>1. PICK n, o, F, G, m, p, L, M :
        /\ n = opened /\ o = opened' /\ F = DOMAIN forObj /\ G = DOMAIN forObj'
        /\ m = grouped /\ p = grouped' /\ L = DOMAIN label /\ M = DOMAIN label'
  OBVIOUS
<1>2. /\ n \in Nat /\ o \in Nat /\ n <= o /\ m \in Nat /\ p \in Nat /\ m <= p
      /\ (\A t \in G : t \in 1 .. n => t \in F) /\ (\A g \in M : g \in 2 .. 1 + m => g \in L)
  BY <1>1 DEF TabsOk, Growth
<1>3. EventsIn(es, n, F, m, L)
  BY <1>1 DEF EventsOk
<1>4. EventsIn(es, o, G, p, M)
  BY <1>2, <1>3, EventsGrow
<1> QED  BY <1>1, <1>4

LEMMA FlushesStay ==
  ASSUME TabsOk, FlushesOk, Growth, UNCHANGED flush
  PROVE  FlushesOk'
<1>1. \A i \in Slots : EventsIn(flush'[i].events, opened', DOMAIN forObj', grouped', DOMAIN label')
  BY EventsStay DEF FlushesOk
<1> QED  BY <1>1 DEF FlushesOk, EventsOk

LEMMA ListensShape ==
  ASSUME Shape, Listens
  PROVE  Shape'
<1>1. TabsOk /\ EventsOk(queue) /\ FlushesOk /\ TasksOk
  BY DEF Shape
<1>2. Growth
  BY DEF Listens
<1>3. TabsOk'
  <2>1. \A n \in 1 .. opened : n \in 1 .. opened'
    BY <1>1, <1>2 DEF TabsOk, Growth
  <2>2. opened \in Nat /\ opened' \in Nat /\ \A n \in opened + 1 .. opened' : n \in 1 .. opened'
    BY <1>1, <1>2 DEF TabsOk, Growth
  <2>3. opened' \in Nat /\ minted' \in Nat /\ grouped' \in Nat
    BY <1>1, <1>2 DEF TabsOk, Growth, Listens, captured
  <2>4. DOMAIN tabs' \in SUBSET (1 .. opened') /\ DOMAIN forObj' \in SUBSET (1 .. opened')
    BY <1>1, <2>1, <2>2 DEF TabsOk, Listens
  <2>5. DOMAIN tabMap' \in SUBSET (1 .. opened') /\ DOMAIN titles' \in SUBSET (1 .. opened')
    BY <1>1, <2>1 DEF TabsOk, Listens, captured
  <2>6. timers' \in SUBSET DOMAIN titles' /\ loading' \in SUBSET (1 .. opened')
    BY <1>1, <2>1 DEF TabsOk, Listens
  <2>7. opening' \in SUBSET DOMAIN forObj' /\ \A t \in DOMAIN tabs' : DOMAIN tabs'[t] = {"page", "grp"}
    BY <1>1 DEF TabsOk, Listens
  <2> QED  BY <2>3, <2>4, <2>5, <2>6, <2>7 DEF TabsOk
<1>4. EventsOk(queue)'
  <2>1. PICK es : Queued(es) /\ queue' = queue \o es
    BY DEF Listens
  <2>2. EventsIn(queue, opened', DOMAIN forObj', grouped', DOMAIN label')
    BY <1>1, <1>2, EventsStay
  <2>3. EventsIn(es, opened', DOMAIN forObj', grouped', DOMAIN label')
    BY <2>1 DEF Queued
  <2>4. EventsIn(queue \o es, opened', DOMAIN forObj', grouped', DOMAIN label')
    BY <2>2, <2>3, EventsConcat
  <2> QED  BY <2>1, <2>4 DEF EventsOk
<1>5. FlushesOk'
  BY <1>1, <1>2, FlushesStay DEF Listens
<1>6. TasksOk'
  BY <1>1 DEF TasksOk, Listens
<1> QED  BY <1>3, <1>4, <1>5, <1>6 DEF Shape

\* Queueing events that are all the same, or none.
LEMMA SameQueued ==
  ASSUME NEW es, IsList(es), NEW e, \A k \in 1 .. Len(es) : es[k] = e,
         EventIn(e, opened', DOMAIN forObj', grouped', DOMAIN label'),
         e.kind = "updated" => e.tab \in DOMAIN tabs \union timers, TabsOk,
         e.kind = "removed" => e.tab \notin DOMAIN tabs' /\ e.tab \notin timers'
  PROVE  Queued(es)
<1>1. EventsIn(es, opened', DOMAIN forObj', grouped', DOMAIN label')
  BY DEF EventsIn
<1>2. \A kind, t : Has(es, kind, t) => e.kind = kind /\ e.tab = t
  BY DEF Has
<1>3. timers \in SUBSET DOMAIN titles
  BY DEF TabsOk
<1> QED  BY <1>1, <1>2, <1>3 DEF Queued

LEMMA EventFacts ==
  \A kind, t, snap :
    LET e == Event(kind, t, snap)
    IN  DOMAIN e = EventFields /\ e.kind = kind /\ e.tab = t /\ e.page = snap.page /\ e.grp = snap.grp
<1> TAKE kind, t, snap
<1>1. EventFields = {"kind", "tab", "page", "grp"}
  BY DEF EventFields
<1> QED  BY <1>1 DEF Event

LEMMA TabEventIn ==
  ASSUME NEW kind \in {"updated", "activated", "removed"}, NEW t, NEW snap, NEW n, t \in 1 .. n,
         NEW F, NEW m, NEW L
  PROVE  EventIn(Event(kind, t, snap), n, F, m, L)
<1>1. kind \in TabKinds /\ kind \in EventKinds /\ kind \notin {"created", "groupUpdated", "groupRemoved"}
  BY DEF TabKinds, EventKinds
<1> QED  BY <1>1, EventFacts DEF EventIn

\* Nothing queued.
LEMMA NoneQueued ==
  ASSUME EventsOk(queue)
  PROVE  Queued(<< >>) /\ queue = queue \o << >>
<1>1. PICK S : queue \in Seq(S)
  BY DEF EventsOk, EventsIn, IsList
<1>2. queue = queue \o << >>
  BY <1>1, ConcatEmptySeq
<1>3. \A kind, t : ~Has(<< >>, kind, t)
  <2>1. Len(<< >>) = 0 /\ 1 .. 0 = {}
    OBVIOUS
  <2> QED  BY <2>1 DEF Has
<1> QED  BY <1>2, <1>3, NoEvents DEF Queued

\* The titles and their timers after hearing of the open tab t.
Waits ==
  /\ timers' \subseteq timers \union DOMAIN tabs /\ timers' \subseteq DOMAIN titles'
  /\ DOMAIN titles' \subseteq DOMAIN titles \union DOMAIN tabs
  /\ unheard \subseteq unheard'

LEMMA ClearTimerWaits ==
  ASSUME TabsOk, NEW t, ClearTimer(t)
  PROVE  /\ timers' \subseteq timers /\ timers' \subseteq DOMAIN titles' /\ t \notin timers'
         /\ DOMAIN titles' \subseteq DOMAIN titles
<1>1. timers \subseteq DOMAIN titles
  BY DEF TabsOk
<1>2. DOMAIN Without(titles, {t}) = DOMAIN titles \ {t}
  BY DEF Without
<1>3. timers' = timers \ {t} /\ titles' = IF t \in timers THEN Without(titles, {t}) ELSE titles
  BY DEF ClearTimer
<1> QED  BY <1>1, <1>2, <1>3

LEMMA HearUpdatedWaits ==
  ASSUME Shape, NEW t \in DOMAIN tabs, NEW snap, HearUpdated(t, snap)
  PROVE  /\ Waits
         /\ \E es : /\ IsList(es) /\ \A k \in 1 .. Len(es) : es[k] = Event("updated", t, snap)
                    /\ queue' = queue \o es
<1>1. TabsOk /\ EventsOk(queue)
  BY DEF Shape
<1>2. CASE Suppressed
  <2>1. unheard' = unheard \union {t} /\ UNCHANGED <<queue, titles, timers>>
    BY <1>2 DEF HearUpdated, pending
  <2>2. IsList(<< >>) /\ \A k \in 1 .. Len(<< >>) : << >>[k] = Event("updated", t, snap)
    BY NoEvents
  <2>3. queue' = queue \o << >>
    BY <1>1, <2>1, NoneQueued
  <2>4. Waits
    BY <1>1, <2>1 DEF Waits, TabsOk
  <2> QED  BY <2>2, <2>3, <2>4
<1>3. CASE ~Suppressed
  <2>1. ClearTimer(t) /\ queue' = queue \o <<Event("updated", t, snap)>> /\ unheard' = unheard
    BY <1>3 DEF HearUpdated, Enqueue
  <2>2. Waits
    BY <1>1, <2>1, ClearTimerWaits DEF Waits
  <2> QED  BY <2>1, <2>2, OneList
<1> QED  BY <1>2, <1>3

\* What the user's changes leave alone.
Idle == UNCHANGED <<captured, flush, guard, opening, crashes, raced>> /\ UNCHANGED remoteVars

\* A user's change that opens no tab and keeps the groups that exist.
LEMMA UserListens ==
  ASSUME Shape, Idle, Waits, NEW es, Queued(es), queue' = queue \o es, opened' = opened,
         DOMAIN tabs' \subseteq DOMAIN tabs, \A t \in DOMAIN tabs' : DOMAIN tabs'[t] = {"page", "grp"},
         DOMAIN label' \subseteq DOMAIN label \union {1}
  PROVE  Listens
<1>1. Growth
  BY DEF Growth, Shape, TabsOk, Idle, remoteVars
<1>2. raced' = raced /\ loading' = loading /\ tasks' = tasks /\ UNCHANGED <<captured, flush, opening, forObj, freed, crashes>>
  BY DEF Idle, remoteVars
<1> QED  BY <1>1, <1>2 DEF Listens, Waits

LEMMA NavigateListens ==
  ASSUME Shape, Idle, NEW t \in DOMAIN tabs, Navigate(t)
  PROVE  Listens
<1>1. PICK snap : snap = [tabs[t] EXCEPT !.page = @ + 1]
  OBVIOUS
<1>2. tabs' = [tabs EXCEPT ![t] = snap] /\ HearUpdated(t, snap) /\ UNCHANGED <<label, active, opened>>
  BY <1>1 DEF Navigate, NewPage
<1>3. TabsOk /\ t \in 1 .. opened
  BY DEF Shape, TabsOk
<1>4. DOMAIN tabs[t] = {"page", "grp"}
  BY <1>3 DEF TabsOk
<1>5. DOMAIN snap = {"page", "grp"}
  BY <1>1, <1>4
<1>6. DOMAIN tabs' = DOMAIN tabs /\ \A u \in DOMAIN tabs' : DOMAIN tabs'[u] = {"page", "grp"}
  BY <1>2, <1>3, <1>5 DEF TabsOk
<1>7. PICK es : /\ IsList(es) /\ \A k \in 1 .. Len(es) : es[k] = Event("updated", t, snap)
                /\ queue' = queue \o es
  BY <1>2, HearUpdatedWaits
<1>8. Waits
  BY <1>2, HearUpdatedWaits
<1>9. EventIn(Event("updated", t, snap), opened', DOMAIN forObj', grouped', DOMAIN label')
  BY <1>2, <1>3, TabEventIn
<1>10. Queued(es)
  BY <1>3, <1>7, <1>9, SameQueued, EventFacts
<1> QED  BY <1>2, <1>6, <1>7, <1>8, <1>10, UserListens

LEMMA RetitleListens ==
  ASSUME Shape, Idle, NEW t \in DOMAIN tabs, Retitle(t)
  PROVE  Listens
<1>1. PICK snap : snap = [tabs[t] EXCEPT !.page = @ + 1]
  OBVIOUS
<1>2. tabs' = [tabs EXCEPT ![t] = snap] /\ HearTitle(t, snap) /\ UNCHANGED <<label, active, opened>>
  BY <1>1 DEF Retitle, NewPage
<1>3. TabsOk /\ EventsOk(queue)
  BY DEF Shape
<1>4. DOMAIN tabs[t] = {"page", "grp"}
  BY <1>3 DEF TabsOk
<1>5. DOMAIN snap = {"page", "grp"}
  BY <1>1, <1>4
<1>6. DOMAIN tabs' = DOMAIN tabs /\ \A u \in DOMAIN tabs' : DOMAIN tabs'[u] = {"page", "grp"}
  BY <1>2, <1>3, <1>5 DEF TabsOk
<1>7. queue' = queue
  BY <1>2 DEF HearTitle, pending
<1>8. timers \subseteq DOMAIN titles
  BY <1>3 DEF TabsOk
<1>9. Waits
  <2>1. CASE Suppressed
    BY <1>2, <1>8, <2>1 DEF Waits, HearTitle, pending
  <2>2. CASE ~Suppressed /\ Rearmed(t) > MaxRearms
    <3>1. ClearTimer(t) /\ unheard' = unheard \union {t}
      BY <1>2, <2>2 DEF HearTitle
    <3> QED  BY <1>3, <3>1, ClearTimerWaits DEF Waits
  <2>3. CASE ~Suppressed /\ ~(Rearmed(t) > MaxRearms)
    <3>1. /\ titles' = With(titles, t, snap) /\ unheard' = unheard
          /\ timers' = IF t = active THEN timers \union {t} ELSE timers \ {t}
      BY <1>2, <2>3 DEF HearTitle
    <3>2. DOMAIN titles' = DOMAIN titles \union {t}
      BY <3>1 DEF With, Over
    <3> QED  BY <1>8, <3>1, <3>2 DEF Waits
  <2> QED  BY <2>1, <2>2, <2>3
<1>10. Queued(<< >>) /\ queue' = queue \o << >>
  BY <1>3, <1>7, NoneQueued
<1> QED  BY <1>2, <1>6, <1>9, <1>10, UserListens

LEMMA ActivateListens ==
  ASSUME Shape, Idle, NEW t \in DOMAIN tabs, Activate(t)
  PROVE  Listens
<1>1. HearActivated(t) /\ UNCHANGED <<tabs, label, opened>>
  BY DEF Activate
<1>2. TabsOk /\ EventsOk(queue) /\ t \in 1 .. opened
  BY DEF Shape, TabsOk
<1>3. UNCHANGED <<titles, timers, unheard>>
  BY <1>1 DEF HearActivated
<1>4. Waits
  BY <1>2, <1>3 DEF Waits, TabsOk
<1>5. \A u \in DOMAIN tabs' : DOMAIN tabs'[u] = {"page", "grp"}
  BY <1>1, <1>2 DEF TabsOk
<1>6. \E es : Queued(es) /\ queue' = queue \o es
  <2>1. CASE t = last
    <3>1. queue' = queue
      BY <1>1, <2>1 DEF HearActivated
    <3> QED  BY <1>2, <3>1, NoneQueued
  <2>2. CASE t # last
    <3>1. PICK e : e = Event("activated", t, Nothing)
      OBVIOUS
    <3>2. queue' = queue \o <<e>>
      BY <1>1, <2>2, <3>1 DEF HearActivated, Enqueue
    <3>3. EventIn(e, opened', DOMAIN forObj', grouped', DOMAIN label')
      BY <1>1, <1>2, <3>1, TabEventIn
    <3>4. Queued(<<e>>)
      BY <1>2, <3>1, <3>3, OneList, SameQueued, EventFacts
    <3> QED  BY <3>2, <3>4
  <2> QED  BY <2>1, <2>2
<1> QED  BY <1>1, <1>4, <1>5, <1>6, UserListens

LEMMA TabsOfFacts ==
  ASSUME NEW es, IsList(es)
  PROVE  \A t : t \in TabsOf(es) <=> About(es, t)
<1>1. Range(es) = {es[k] : k \in 1 .. Len(es)}
  BY ListFacts
<1> QED  BY <1>1 DEF TabsOf, About

\* Update events for the tabs of S, in some order.
UpdatesOf(S, f) ==
  [k \in 1 .. Cardinality(S) |-> Event("updated", SetToSeq(S)[k], f[SetToSeq(S)[k]])]

LEMMA FiniteTabs ==
  ASSUME NEW n \in Nat, NEW S \in SUBSET (1 .. n)
  PROVE  IsFiniteSet(S)
<1>1. IsFiniteSet(1 .. n)
  BY FS_Interval
<1> QED  BY <1>1, FS_Subset

LEMMA AllUpdated ==
  ASSUME NEW S, IsFiniteSet(S), NEW f
  PROVE  /\ IsList(UpdatesOf(S, f))
         /\ \A k \in 1 .. Len(UpdatesOf(S, f)) :
              LET e == UpdatesOf(S, f)[k] IN e.tab \in S /\ e = Event("updated", e.tab, f[e.tab])
         /\ \A t \in S : About(UpdatesOf(S, f), t)
<1>0. PICK es : es = UpdatesOf(S, f)
  OBVIOUS
<1>1. PICK seq, n : seq = SetToSeq(S) /\ n = Cardinality(S) /\ n \in Nat
  BY FS_CardinalityType
<1>2. Len(seq) = n /\ DOMAIN seq = 1 .. n /\ Range(seq) = S
  BY <1>1, SetToSeqFacts
<1>3. \A k \in 1 .. n : seq[k] \in S /\ es[k] = Event("updated", seq[k], f[seq[k]])
  BY <1>0, <1>1, <1>2 DEF Range, UpdatesOf
<1>4. PICK E : E = {es[k] : k \in 1 .. n}
  OBVIOUS
<1>5. es \in [1 .. n -> E]
  BY <1>0, <1>1, <1>4 DEF UpdatesOf
<1>6. es \in Seq(E) /\ Len(es) = n
  BY <1>1, <1>5
<1>7. \A k \in 1 .. n : es[k].tab = seq[k]
  BY <1>3, EventFacts
<1>8. \A t \in S : About(es, t)
  <2> TAKE t \in S
  <2>1. PICK k \in 1 .. n : seq[k] = t
    BY <1>2 DEF Range
  <2>2. k \in 1 .. Len(es) /\ es[k].tab = t
    BY <1>6, <1>7, <2>1
  <2> QED  BY <2>2 DEF About
<1> QED  BY <1>0, <1>3, <1>6, <1>7, <1>8 DEF IsList

LEMMA OpenTabListens ==
  ASSUME Shape, Idle, OpenTab
  PROVE  Listens
<1>1. TabsOk /\ EventsOk(queue) /\ opened \in Nat
  BY DEF Shape, TabsOk
<1>2. PICK snap : /\ opened' = opened + 1 /\ tabs' = With(tabs, opened', snap) /\ HearCreated(opened', snap)
                  /\ DOMAIN snap = {"page", "grp"} /\ label' = label
  BY DEF OpenTab
<1>3. forObj' = forObj /\ grouped' = grouped /\ raced' = raced /\ loading' = loading /\ tasks' = tasks
  BY DEF Idle, remoteVars
<1>4. opened' \in 1 .. opened' /\ opened' \notin DOMAIN forObj' /\ opened' \in opened + 1 .. opened'
  BY <1>1, <1>2, <1>3 DEF TabsOk
<1>5. Growth
  BY <1>1, <1>2, <1>3 DEF Growth, TabsOk
<1>6. /\ DOMAIN tabs' \subseteq DOMAIN tabs \union (opened + 1 .. opened')
      /\ \A t \in DOMAIN tabs' : DOMAIN tabs'[t] = {"page", "grp"}
  <2>1. DOMAIN tabs' = DOMAIN tabs \union {opened'}
    BY <1>2 DEF With, Over
  <2>2. \A t \in DOMAIN tabs' : tabs'[t] = IF t = opened' THEN snap ELSE tabs[t]
    BY <1>2 DEF With, Over
  <2> QED  BY <1>1, <1>2, <1>4, <2>1, <2>2 DEF TabsOk
<1>7. UNCHANGED <<titles, timers>>
  BY <1>2 DEF HearCreated
<1>8. \E es : Queued(es) /\ queue' = queue \o es
  <2>1. CASE Suppressed
    <3>1. queue' = queue
      BY <1>2, <2>1 DEF HearCreated
    <3> QED  BY <1>1, <3>1, NoneQueued
  <2>2. CASE ~Suppressed
    <3>1. PICK e : e = Event("created", opened', snap)
      OBVIOUS
    <3>2. queue' = queue \o <<e>>
      BY <1>2, <2>2, <3>1 DEF HearCreated, Enqueue
    <3>3. e.kind = "created" /\ e.tab = opened' /\ DOMAIN e = EventFields
      BY <3>1, EventFacts
    <3>4. EventIn(e, opened', DOMAIN forObj', grouped', DOMAIN label')
      BY <1>4, <3>3 DEF EventIn, EventKinds, TabKinds
    <3>5. IsList(<<e>>) /\ \A k \in 1 .. Len(<<e>>) : <<e>>[k] = e
      BY OneList
    <3>6. Queued(<<e>>)
      BY <1>1, <3>3, <3>4, <3>5, SameQueued
    <3> QED  BY <3>2, <3>6
  <2> QED  BY <2>1, <2>2
<1>9. unheard \subseteq unheard'
  BY <1>2 DEF HearCreated
<1>10. UNCHANGED <<captured, flush, opening, forObj, freed, crashes>>
  BY DEF Idle, remoteVars
<1>11. timers \subseteq DOMAIN titles
  BY <1>1 DEF TabsOk
<1> QED  BY <1>3, <1>5, <1>6, <1>7, <1>8, <1>9, <1>10, <1>11 DEF Listens

\* The removal of the group in gone, if one is.
LEMMA GroupsRemovedFacts ==
  ASSUME NEW gone, NEW g, gone \subseteq {g}
  PROVE  \E e : /\ e = Event("groupRemoved", 0, [page |-> 0, grp |-> g])
                /\ IsList(GroupsRemoved(gone)) /\ \A k \in 1 .. Len(GroupsRemoved(gone)) : GroupsRemoved(gone)[k] = e
                /\ gone = {} => Len(GroupsRemoved(gone)) = 0
<1>1. PICK n : n = Cardinality(gone)
  OBVIOUS
<1>2. n \in Nat /\ (gone = {} => n = 0)
  <2>1. gone = {} \/ gone = {g}
    OBVIOUS
  <2>2. Cardinality({}) = 0 /\ Cardinality({g}) = 1
    BY FS_EmptySet, FS_Singleton
  <2> QED  BY <1>1, <2>1, <2>2
<1>3. PICK e, es : /\ e = Event("groupRemoved", 0, [page |-> 0, grp |-> g])
                   /\ es = GroupsRemoved(gone)
  OBVIOUS
<1>4. \A k \in 1 .. n : (CHOOSE x \in gone : TRUE) = g
  <2>1. CASE gone = {}
    <3>1. 1 .. 0 = {}
      OBVIOUS
    <3> QED  BY <1>2, <2>1, <3>1
  <2>2. CASE gone = {g}
    <3>1. (CHOOSE x \in gone : TRUE) \in gone
      BY <2>2
    <3> QED  BY <2>2, <3>1
  <2> QED  BY <2>1, <2>2
<1>5. es = [k \in 1 .. n |-> e]
  BY <1>1, <1>3, <1>4 DEF GroupsRemoved
<1>6. es \in [1 .. n -> {e}]
  BY <1>5
<1>7. es \in Seq({e}) /\ Len(es) = n
  BY <1>2, <1>6
<1> QED  BY <1>2, <1>3, <1>5, <1>7 DEF IsList

\* Neither updates nor removals of tabs after other events.
LEMMA QueuedMore ==
  ASSUME NEW s, NEW t, Queued(s), EventsIn(t, opened', DOMAIN forObj', grouped', DOMAIN label'),
         \A x : ~Has(t, "updated", x) /\ ~Has(t, "removed", x)
  PROVE  Queued(s \o t)
<1>1. IsList(s) /\ IsList(t)
  BY DEF Queued, EventsIn
<1>2. \A x : /\ Has(s \o t, "updated", x) => Has(s, "updated", x)
             /\ Has(s \o t, "removed", x) => Has(s, "removed", x)
  BY <1>1, HasConcat
<1>3. EventsIn(s \o t, opened', DOMAIN forObj', grouped', DOMAIN label')
  BY EventsConcat DEF Queued
<1>4. PICK u : u = s \o t
  OBVIOUS
<1> QED  BY <1>2, <1>3, <1>4 DEF Queued

\* The group that is left empty existed.
LEMMA LeftEmptyFacts ==
  ASSUME Shape, GroupInv, NEW t \in DOMAIN tabs
  PROVE  /\ LeftEmpty(t) \subseteq {tabs[t].grp} /\ LeftEmpty(t) \subseteq DOMAIN label
         /\ LeftEmpty(t) \subseteq 1 .. 1 + grouped
<1>1. LeftEmpty(t) \subseteq {tabs[t].grp} /\ (LeftEmpty(t) # {} => tabs[t].grp # 0)
  BY DEF LeftEmpty
<1>2. tabs[t].grp # 0 => tabs[t].grp \in DOMAIN label
  BY DEF GroupInv, MembersOk
<1>3. DOMAIN label \subseteq 1 .. 1 + grouped
  BY DEF GroupInv, GroupsOk
<1> QED  BY <1>1, <1>2, <1>3

LEMMA GroupsRemovedIn ==
  ASSUME NEW gone, NEW g, gone \subseteq {g}, NEW n, NEW F, NEW m \in Nat, NEW L,
         gone \subseteq 1 .. 1 + m, gone \cap L = {}
  PROVE  /\ EventsIn(GroupsRemoved(gone), n, F, m, L)
         /\ \A x : ~Has(GroupsRemoved(gone), "updated", x) /\ ~Has(GroupsRemoved(gone), "removed", x)
<1>1. PICK e, es : /\ e = Event("groupRemoved", 0, [page |-> 0, grp |-> g]) /\ es = GroupsRemoved(gone)
                   /\ IsList(es) /\ \A k \in 1 .. Len(es) : es[k] = e
                   /\ gone = {} => Len(es) = 0
  BY GroupsRemovedFacts
<1>2. e.kind = "groupRemoved" /\ e.tab = 0 /\ e.grp = g /\ DOMAIN e = EventFields
  BY <1>1, EventFacts
<1>3. \A x : ~Has(es, "updated", x) /\ ~Has(es, "removed", x)
  BY <1>1, <1>2 DEF Has
<1>4. EventsIn(es, n, F, m, L)
  <2>1. CASE gone = {}
    <3>1. 1 .. Len(es) = {}
      BY <1>1, <2>1
    <3> QED  BY <1>1, <3>1 DEF EventsIn
  <2>2. CASE gone = {g}
    <3>1. g = 1 \/ (g \in 2 .. 1 + m /\ g \notin L)
      BY <2>2
    <3>2. EventIn(e, n, F, m, L)
      BY <1>2, <3>1 DEF EventIn, EventKinds, TabKinds
    <3> QED  BY <1>1, <3>2 DEF EventsIn
  <2> QED  BY <2>1, <2>2
<1> QED  BY <1>1, <1>3, <1>4

LEMMA CloseTabListens ==
  ASSUME Shape, GroupInv, Idle, NEW t \in DOMAIN tabs, CloseTab(t)
  PROVE  Listens
<1>1. TabsOk /\ EventsOk(queue) /\ t \in 1 .. opened /\ grouped \in Nat
  BY DEF Shape, TabsOk
<1>2. PICK gone : gone = LeftEmpty(t)
  OBVIOUS
<1>3. /\ tabs' = Without(tabs, {t}) /\ label' = Without(label, gone) /\ opened' = opened
      /\ HearRemoved(t, gone)
  BY <1>2 DEF CloseTab
<1>4. DOMAIN tabs' = DOMAIN tabs \ {t} /\ \A u \in DOMAIN tabs' : tabs'[u] = tabs[u]
  BY <1>3 DEF Without
<1>5. DOMAIN label' = DOMAIN label \ gone
  BY <1>3 DEF Without
<1>6. PICK e : e = Event("removed", t, Nothing)
  OBVIOUS
<1>7. ClearTimer(t) /\ queue' = queue \o (<<e>> \o GroupsRemoved(gone)) /\ unheard' = unheard
  BY <1>3, <1>6 DEF HearRemoved, Enqueue
<1>8. Waits /\ t \notin timers'
  BY <1>1, <1>7, ClearTimerWaits DEF Waits
<1>9. EventIn(e, opened', DOMAIN forObj', grouped', DOMAIN label')
  BY <1>1, <1>3, <1>6, TabEventIn
<1>10. e.kind = "removed" /\ e.tab = t
  BY <1>6, EventFacts
<1>11. IsList(<<e>>) /\ \A k \in 1 .. Len(<<e>>) : <<e>>[k] = e
  BY OneList
<1>12. Queued(<<e>>)
  BY <1>1, <1>4, <1>8, <1>9, <1>10, <1>11, SameQueued
<1>13. PICK g : gone \subseteq {g} /\ gone \subseteq 1 .. 1 + grouped
  BY <1>2, LeftEmptyFacts
<1>14. grouped' = grouped
  BY DEF Idle, remoteVars
<1>15. /\ EventsIn(GroupsRemoved(gone), opened', DOMAIN forObj', grouped', DOMAIN label')
       /\ \A x : ~Has(GroupsRemoved(gone), "updated", x) /\ ~Has(GroupsRemoved(gone), "removed", x)
  BY <1>1, <1>5, <1>13, <1>14, GroupsRemovedIn
<1>16. Queued(<<e>> \o GroupsRemoved(gone))
  BY <1>12, <1>15, QueuedMore
<1>17. \A u \in DOMAIN tabs' : DOMAIN tabs'[u] = {"page", "grp"}
  BY <1>1, <1>4 DEF TabsOk
<1> QED  BY <1>3, <1>4, <1>5, <1>7, <1>8, <1>16, <1>17, UserListens

LEMMA GroupTabListens ==
  ASSUME Shape, Idle, NEW t \in DOMAIN tabs, GroupTab(t)
  PROVE  Listens
<1>1. TabsOk /\ EventsOk(queue) /\ t \in 1 .. opened
  BY DEF Shape, TabsOk
<1>2. tabs' = [tabs EXCEPT ![t].grp = 1] /\ label' = With(label, 1, 1) /\ opened' = opened
  BY DEF GroupTab
<1>3. DOMAIN label' = DOMAIN label \union {1}
  BY <1>2 DEF With, Over
<1>4. DOMAIN tabs' = DOMAIN tabs /\ \A u \in DOMAIN tabs' : DOMAIN tabs'[u] = {"page", "grp"}
  BY <1>1, <1>2 DEF TabsOk
<1>5. CASE Suppressed
  <2>1. unheard' = unheard \union {t} /\ UNCHANGED <<queue, titles, timers>>
    BY <1>5 DEF GroupTab, pending
  <2>2. Waits
    BY <1>1, <2>1 DEF Waits, TabsOk
  <2>3. Queued(<< >>) /\ queue' = queue \o << >>
    BY <1>1, <2>1, NoneQueued
  <2> QED  BY <1>2, <1>3, <1>4, <2>2, <2>3, UserListens
<1>6. CASE ~Suppressed
  <2>1. PICK e, d : e = Event("updated", t, tabs'[t]) /\ d = Event("groupUpdated", 0, [page |-> 1, grp |-> 1])
    OBVIOUS
  <2>2. ClearTimer(t) /\ queue' = queue \o <<e, d>> /\ unheard' = unheard
    BY <1>6, <2>1 DEF GroupTab, Enqueue
  <2>3. Waits
    BY <1>1, <2>2, ClearTimerWaits DEF Waits
  <2>4. EventIn(e, opened', DOMAIN forObj', grouped', DOMAIN label')
    BY <1>1, <1>2, <2>1, TabEventIn
  <2>5. e.kind = "updated" /\ e.tab = t /\ d.kind = "groupUpdated" /\ d.tab = 0 /\ d.grp = 1 /\ DOMAIN d = EventFields
    BY <2>1, EventFacts
  <2>6. EventIn(d, opened', DOMAIN forObj', grouped', DOMAIN label')
    BY <2>5 DEF EventIn, EventKinds, TabKinds
  <2>7. PICK es : es = <<e, d>>
    OBVIOUS
  <2>8. es \in Seq({e, d}) /\ Len(es) = 2 /\ \A k \in 1 .. Len(es) : es[k] = e \/ es[k] = d
    BY <2>7
  <2>9. EventsIn(es, opened', DOMAIN forObj', grouped', DOMAIN label')
    BY <2>4, <2>6, <2>8 DEF EventsIn, IsList
  <2>10. \A u : ~Has(es, "removed", u) /\ (Has(es, "updated", u) => u = t)
    BY <2>5, <2>8 DEF Has
  <2>11. Queued(es)
    BY <2>9, <2>10 DEF Queued
  <2> QED  BY <1>2, <1>3, <1>4, <2>2, <2>3, <2>7, <2>11, UserListens
<1> QED  BY <1>5, <1>6

LEMMA UserStepListens ==
  ASSUME Shape, GroupInv, User, UNCHANGED remoteVars
  PROVE  Listens
<1>1. Idle
  BY DEF User, Idle
<1>2. OpenTab \/ \E t \in DOMAIN tabs : Navigate(t) \/ Retitle(t) \/ Activate(t) \/ CloseTab(t) \/ GroupTab(t)
  BY DEF User
<1> QED  BY <1>1, <1>2, OpenTabListens, NavigateListens, RetitleListens, ActivateListens, CloseTabListens, GroupTabListens

LEMMA TitleTimerListens ==
  ASSUME Shape, NEW t, TitleTimer(t), UNCHANGED remoteVars
  PROVE  Listens
<1>1. TabsOk /\ t \in timers /\ t \in DOMAIN titles /\ t \in 1 .. opened
  BY DEF Shape, TabsOk, TitleTimer
<1>2. PICK e : e = Event("updated", t, titles[t])
  OBVIOUS
<1>3. /\ timers' = timers \ {t} /\ titles' = Without(titles, {t}) /\ queue' = queue \o <<e>>
      /\ UNCHANGED <<browser, captured, flush, opening, ghosts>>
  BY <1>2 DEF TitleTimer, Enqueue
<1>4. DOMAIN titles' = DOMAIN titles \ {t}
  BY <1>3 DEF Without
<1>5. EventIn(e, opened', DOMAIN forObj', grouped', DOMAIN label')
  BY <1>1, <1>2, <1>3, TabEventIn DEF browser
<1>6. e.kind = "updated" /\ e.tab = t
  BY <1>2, EventFacts
<1>7. IsList(<<e>>) /\ \A k \in 1 .. Len(<<e>>) : <<e>>[k] = e
  BY OneList
<1>8. Queued(<<e>>)
  BY <1>1, <1>5, <1>6, <1>7, SameQueued
<1>9. Growth
  BY <1>1, <1>3 DEF Growth, TabsOk, browser, remoteVars
<1>10. timers' \subseteq timers /\ timers' \subseteq DOMAIN titles' /\ DOMAIN titles' \subseteq DOMAIN titles
  BY <1>1, <1>3, <1>4 DEF TabsOk
<1>11. /\ tabs' = tabs /\ raced' = raced /\ unheard' = unheard /\ loading' = loading /\ tasks' = tasks
       /\ UNCHANGED <<captured, flush, opening, forObj, freed, crashes>>
  BY <1>3 DEF browser, ghosts, remoteVars
<1>12. \A u \in DOMAIN tabs : DOMAIN tabs[u] = {"page", "grp"}
  BY <1>1 DEF TabsOk
<1> QED  BY <1>3, <1>8, <1>9, <1>10, <1>11, <1>12 DEF Listens

LEMMA SuspendListens ==
  ASSUME Shape, Suspend, UNCHANGED remoteVars
  PROVE  Listens
<1>1. TabsOk /\ EventsOk(queue) /\ FlushesOk /\ opened \in Nat
  BY DEF Shape, TabsOk
<1>2. PICK S : S = DOMAIN titles /\ S \subseteq 1 .. opened
  BY <1>1 DEF TabsOk
<1>3. IsFiniteSet(S)
  BY <1>1, <1>2, FiniteTabs
<1>4. PICK f : f = titles
  OBVIOUS
<1>5. PICK es : es = UpdatesOf(S, f)
  OBVIOUS
<1>6. queue' = queue \o es
  BY <1>2, <1>4, <1>5 DEF Suspend, Enqueue, UpdatesOf
<1>7. /\ titles' = None /\ timers' = {} /\ UNCHANGED <<browser, captured, flush, opening, crashes, unheard>>
      /\ raced' = raced \union (Stashed \cap (TabsOf(queue) \union UNION {TabsOf(flush[i].events) : i \in Slots}))
  BY DEF Suspend
<1>8. IsList(es) /\ \A k \in 1 .. Len(es) : es[k].tab \in S /\ es[k] = Event("updated", es[k].tab, f[es[k].tab])
  BY <1>3, <1>5, AllUpdated
<1>9. \A k \in 1 .. Len(es) : es[k].tab \in 1 .. opened' /\ es[k].kind = "updated"
  BY <1>2, <1>7, <1>8, EventFacts DEF browser
<1>10. EventsIn(es, opened', DOMAIN forObj', grouped', DOMAIN label')
  <2> SUFFICES ASSUME NEW k \in 1 .. Len(es)
               PROVE  EventIn(es[k], opened', DOMAIN forObj', grouped', DOMAIN label')
    BY <1>8 DEF EventsIn
  <2>1. PICK t, v : t = es[k].tab /\ v = f[t]
    OBVIOUS
  <2>2. es[k] = Event("updated", t, v) /\ t \in 1 .. opened'
    BY <1>8, <1>9, <2>1
  <2>3. EventIn(Event("updated", t, v), opened', DOMAIN forObj', grouped', DOMAIN label')
    BY <2>2, TabEventIn
  <2> QED  BY <2>2, <2>3
<1>11. \A t : ~Has(es, "removed", t) /\ (Has(es, "updated", t) => t \in DOMAIN titles)
  BY <1>2, <1>8, <1>9 DEF Has
<1>12. \A t \in DOMAIN titles : \/ t \in timers \union raced'
                                \/ ~About(queue, t) /\ \A i \in Slots : ~About(flush[i].events, t)
  <2> SUFFICES ASSUME NEW t \in DOMAIN titles, t \notin timers, t \notin raced'
               PROVE  ~About(queue, t) /\ \A i \in Slots : ~About(flush[i].events, t)
    OBVIOUS
  <2>1. t \in Stashed
    BY DEF Stashed
  <2>2. t \notin TabsOf(queue) /\ \A i \in Slots : t \notin TabsOf(flush[i].events)
    BY <1>7, <2>1
  <2>3. IsList(queue) /\ \A i \in Slots : IsList(flush[i].events)
    BY <1>1 DEF EventsOk, EventsIn, FlushesOk
  <2>4. \A x : x \in TabsOf(queue) <=> About(queue, x)
    BY <2>3, TabsOfFacts
  <2>5. \A i \in Slots : \A x : x \in TabsOf(flush[i].events) <=> About(flush[i].events, x)
    BY <2>3, TabsOfFacts
  <2> QED  BY <2>2, <2>4, <2>5
<1>13. Queued(es)
  BY <1>10, <1>11, <1>12 DEF Queued
<1>14. Growth
  BY <1>1, <1>7 DEF Growth, TabsOk, browser, remoteVars
<1>15. /\ tabs' = tabs /\ raced \subseteq raced' /\ unheard' = unheard /\ loading' = loading /\ tasks' = tasks
       /\ UNCHANGED <<captured, flush, opening, forObj, freed, crashes>>
  BY <1>7 DEF browser, remoteVars
<1>16. \A u \in DOMAIN tabs : DOMAIN tabs[u] = {"page", "grp"}
  BY <1>1 DEF TabsOk
<1>17. DOMAIN titles' = {}
  BY <1>7 DEF None
<1> QED  BY <1>6, <1>7, <1>13, <1>14, <1>15, <1>16, <1>17 DEF Listens

LEMMA LoadsListens ==
  ASSUME Shape, NEW t, Loads(t)
  PROVE  Listens
<1>1. TabsOk /\ EventsOk(queue)
  BY DEF Shape
<1>2. /\ loading' = loading \ {t}
      /\ UNCHANGED <<captured, browser, flush, opening, crashes, raced, tasks, forObj, freed, grouped>>
  BY DEF Loads
<1>3. Growth
  BY <1>1, <1>2 DEF Growth, TabsOk, browser
<1>4. tabs' = tabs /\ opened' = opened /\ \A u \in DOMAIN tabs : DOMAIN tabs[u] = {"page", "grp"}
  BY <1>1, <1>2 DEF TabsOk, browser
<1>5. Waits /\ \E es : Queued(es) /\ queue' = queue \o es
  <2>1. CASE t \in DOMAIN tabs
    <3>1. PICK snap : snap = tabs[t]
      OBVIOUS
    <3>2. HearUpdated(t, snap)
      BY <2>1, <3>1 DEF Loads
    <3>3. Waits
      BY <2>1, <3>2, HearUpdatedWaits
    <3>4. PICK es : /\ IsList(es) /\ \A k \in 1 .. Len(es) : es[k] = Event("updated", t, snap)
                    /\ queue' = queue \o es
      BY <2>1, <3>2, HearUpdatedWaits
    <3>5. t \in 1 .. opened'
      BY <1>1, <1>4, <2>1 DEF TabsOk
    <3>6. EventIn(Event("updated", t, snap), opened', DOMAIN forObj', grouped', DOMAIN label')
      BY <3>5, TabEventIn
    <3>7. Queued(es)
      BY <1>1, <2>1, <3>4, <3>6, SameQueued, EventFacts
    <3> QED  BY <3>3, <3>4, <3>7
  <2>2. CASE t \notin DOMAIN tabs
    <3>1. UNCHANGED <<queue, titles, timers, unheard>>
      BY <2>2 DEF Loads, pending
    <3>2. Queued(<< >>) /\ queue' = queue \o << >>
      BY <1>1, <3>1, NoneQueued
    <3>3. Waits
      BY <1>1, <3>1 DEF Waits, TabsOk
    <3> QED  BY <3>2, <3>3
  <2> QED  BY <2>1, <2>2
<1> QED  BY <1>2, <1>3, <1>4, <1>5 DEF Listens, Waits

\* What a call that holds the lock does to the groups, when it succeeds.
JoinsTo(k, t, g, gone) ==
  /\ t = tasks[k].tab /\ t \in DOMAIN tabs
  /\ g = IF tasks[k].grp # 0 THEN tasks[k].grp ELSE 2 + grouped
  /\ tasks[k].grp # 0 => g \in DOMAIN label
  /\ gone = LeftEmpty(t) \ {g}
  /\ DOMAIN tabs' = DOMAIN tabs
  /\ \A u \in DOMAIN tabs : /\ DOMAIN tabs'[u] = {"page", "grp"}
                            /\ tabs'[u].grp = IF u = t THEN g ELSE tabs[u].grp
  /\ DOMAIN label' = (DOMAIN label \union {g}) \ gone
  /\ made' = made \union {g}
  /\ grouped' = IF tasks[k].grp = 0 THEN grouped + 1 ELSE grouped
  /\ queue' = queue \o GroupsRemoved(gone)
  /\ tasks'[k].at = "linkGroup" /\ tasks'[k].grp = g
  /\ lock' = lock

JoinFails(k) ==
  UNCHANGED <<tabs, label, made, grouped, queue>> /\ tasks'[k].at = "thrown" /\ lock' = 0

LEMMA JoinCases ==
  ASSUME Shape, NEW k, Join(k)
  PROVE  /\ k \in DOMAIN tasks /\ tasks[k].at = "join"
         /\ DOMAIN tasks' = DOMAIN tasks /\ DOMAIN tasks'[k] = TaskFields /\ tasks'[k].obj = tasks[k].obj
         /\ \A j \in DOMAIN tasks : j # k => tasks'[j] = tasks[j]
         /\ UNCHANGED <<opened, captured, titles, timers, flush, opening, ghosts, loading, forObj, freed>>
         /\ JoinFails(k) \/ \E t, g, gone : JoinsTo(k, t, g, gone)
<1>1. k \in DOMAIN tasks /\ tasks[k].at = "join"
  BY DEF Join, AtPc
<1>2. DOMAIN tasks[k] = TaskFields
  BY <1>1 DEF Shape, TasksOk
<1>3. UNCHANGED <<opened, captured, titles, timers, flush, opening, ghosts, loading, forObj, freed>>
  BY DEF Join
<1>4. PICK t, g : t = tasks[k].tab /\ g = IF tasks[k].grp # 0 THEN tasks[k].grp ELSE 2 + grouped
  OBVIOUS
<1>5. PICK gone : gone = LeftEmpty(t) \ {g}
  OBVIOUS
<1>6. CASE t \notin DOMAIN tabs \/ (tasks[k].grp # 0 /\ tasks[k].grp \notin DOMAIN label)
  <2>1. /\ tasks' = [tasks EXCEPT ![k] = [[tasks[k] EXCEPT !.at = "thrown"] EXCEPT !.called = FALSE]] /\ lock' = 0
        /\ UNCHANGED <<tabs, label, made, grouped, queue>>
    BY <1>4, <1>6 DEF Join, Returns, Goes
  <2>2. DOMAIN tasks' = DOMAIN tasks /\ \A j \in DOMAIN tasks : j # k => tasks'[j] = tasks[j]
    BY <2>1
  <2>3. DOMAIN tasks'[k] = TaskFields /\ tasks'[k].obj = tasks[k].obj /\ tasks'[k].at = "thrown"
    BY <1>1, <1>2, <2>1 DEF TaskFields
  <2> QED  BY <1>1, <1>3, <2>1, <2>2, <2>3 DEF JoinFails
<1>7. CASE ~(t \notin DOMAIN tabs \/ (tasks[k].grp # 0 /\ tasks[k].grp \notin DOMAIN label))
  <2>1. /\ tasks' = [tasks EXCEPT ![k] = [[tasks[k] EXCEPT !.at = "linkGroup", !.grp = g] EXCEPT !.called = FALSE]]
        /\ tabs' = [tabs EXCEPT ![t].grp = g]
        /\ label' = Without(IF g \in DOMAIN label THEN label ELSE With(label, g, 0), gone)
        /\ made' = made \union {g} /\ lock' = lock
        /\ grouped' = IF tasks[k].grp = 0 THEN grouped + 1 ELSE grouped
        /\ queue' = queue \o GroupsRemoved(gone)
    BY <1>4, <1>5, <1>7 DEF Join, Returns, Goes, Enqueue
  <2>2. DOMAIN tasks' = DOMAIN tasks /\ \A j \in DOMAIN tasks : j # k => tasks'[j] = tasks[j]
    BY <2>1
  <2>3. /\ DOMAIN tasks'[k] = TaskFields /\ tasks'[k].obj = tasks[k].obj /\ tasks'[k].at = "linkGroup"
        /\ tasks'[k].grp = g
    BY <1>1, <1>2, <2>1 DEF TaskFields
  <2>4. DOMAIN label' = (DOMAIN label \union {g}) \ gone
    <3>1. PICK M : M = IF g \in DOMAIN label THEN label ELSE With(label, g, 0)
      OBVIOUS
    <3>2. DOMAIN M = DOMAIN label \union {g}
      BY <3>1 DEF With, Over
    <3> QED  BY <2>1, <3>1, <3>2 DEF Without
  <2>5. DOMAIN tabs' = DOMAIN tabs
    BY <2>1
  <2>6. \A u \in DOMAIN tabs : DOMAIN tabs[u] = {"page", "grp"}
    BY DEF Shape, TabsOk
  <2>7. \A u \in DOMAIN tabs : /\ DOMAIN tabs'[u] = {"page", "grp"}
                               /\ tabs'[u].grp = IF u = t THEN g ELSE tabs[u].grp
    BY <2>1, <2>6
  <2>8. JoinsTo(k, t, g, gone)
    BY <1>4, <1>5, <1>7, <2>1, <2>3, <2>4, <2>5, <2>7 DEF JoinsTo
  <2> QED  BY <1>1, <1>3, <2>2, <2>3, <2>8
<1> QED  BY <1>6, <1>7

LEMMA JoinListens ==
  ASSUME Shape, GroupInv, NEW k, Join(k)
  PROVE  Listens
<1>1. TabsOk /\ EventsOk(queue) /\ grouped \in Nat /\ opened \in Nat
  BY DEF Shape, TabsOk
<1>2. /\ DOMAIN tasks' = DOMAIN tasks /\ DOMAIN tasks'[k] = TaskFields /\ tasks'[k].obj = tasks[k].obj
      /\ \A j \in DOMAIN tasks : j # k => tasks'[j] = tasks[j]
      /\ UNCHANGED <<opened, captured, titles, timers, flush, opening, ghosts, loading, forObj, freed>>
  BY JoinCases
<1>3. \A u \in DOMAIN tabs : DOMAIN tabs[u] = {"page", "grp"}
  BY <1>1 DEF TabsOk
<1>4. timers' = timers /\ titles' = titles /\ timers \subseteq DOMAIN titles
  BY <1>1, <1>2 DEF TabsOk
<1>5. CASE JoinFails(k)
  <2>1. queue' = queue /\ tabs' = tabs /\ label' = label /\ grouped' = grouped /\ tasks'[k].at # "link"
    BY <1>5 DEF JoinFails
  <2>2. Queued(<< >>) /\ queue' = queue \o << >>
    BY <1>1, <2>1, NoneQueued
  <2>3. Growth
    BY <1>1, <1>2, <2>1 DEF Growth
  <2> QED  BY <1>2, <1>3, <1>4, <2>1, <2>2, <2>3 DEF Listens, ghosts
<1>6. CASE \E t, g, gone : JoinsTo(k, t, g, gone)
  <2>1. PICK t, g, gone : JoinsTo(k, t, g, gone)
    BY <1>6
  <2>2. grouped' \in Nat /\ grouped <= grouped'
    BY <1>1, <2>1 DEF JoinsTo
  <2>3. gone \subseteq {tabs[t].grp} /\ gone \subseteq 1 .. 1 + grouped
    BY <2>1, LeftEmptyFacts DEF JoinsTo
  <2>4. gone \subseteq 1 .. 1 + grouped' /\ gone \cap DOMAIN label' = {}
    BY <1>1, <2>1, <2>2, <2>3 DEF JoinsTo
  <2>5. /\ EventsIn(GroupsRemoved(gone), opened', DOMAIN forObj', grouped', DOMAIN label')
        /\ \A x : ~Has(GroupsRemoved(gone), "updated", x) /\ ~Has(GroupsRemoved(gone), "removed", x)
    BY <2>2, <2>3, <2>4, GroupsRemovedIn
  <2>6. Queued(GroupsRemoved(gone))
    BY <2>5 DEF Queued
  <2>7. \A h \in DOMAIN label' : h \in 2 .. 1 + grouped => h \in DOMAIN label
    BY <1>1, <2>1 DEF JoinsTo
  <2>8. Growth
    BY <1>1, <1>2, <2>2, <2>7 DEF Growth
  <2>9. DOMAIN tabs' = DOMAIN tabs /\ \A u \in DOMAIN tabs : DOMAIN tabs'[u] = {"page", "grp"}
    BY <2>1 DEF JoinsTo
  <2>10. tasks'[k].at # "link" /\ queue' = queue \o GroupsRemoved(gone)
    BY <2>1 DEF JoinsTo
  <2> QED  BY <1>2, <1>4, <2>6, <2>8, <2>9, <2>10 DEF Listens, ghosts
<1> QED  BY <1>5, <1>6, JoinCases

--------------------------------------------------------------------------------
(***************************************************************************)
(* What the steps of the applier have in common that neither open nor link *)
(* a tab.                                                                  *)
(***************************************************************************)
Remote == Theirs \union {TheirGroup}

Tends ==
  /\ UNCHANGED <<tabMap, opened, minted, sent, queue, titles, timers, flush, opening, unheard, raced,
                 crashes, forObj, freed, grouped>>
  /\ DOMAIN tabs' = DOMAIN tabs
  /\ \A t \in DOMAIN tabs : DOMAIN tabs'[t] = {"page", "grp"} /\ tabs'[t].grp = tabs[t].grp
  /\ DOMAIN label' = DOMAIN label /\ loading' \subseteq loading \union DOMAIN tabs
  /\ DOMAIN tasks' \in SUBSET (Nat \ {0})
  /\ \A k \in DOMAIN tasks' : DOMAIN tasks'[k] = TaskFields /\ tasks'[k].obj \in Remote
  /\ \A k \in DOMAIN tasks' : tasks'[k].at = "link" =>
       k \in DOMAIN tasks /\ tasks[k].at = "link" /\ tasks'[k].tab = tasks[k].tab /\ tasks'[k].obj = tasks[k].obj
  /\ \A g \in DOMAIN grpMap' : (g \in DOMAIN grpMap /\ grpMap'[g] = grpMap[g]) \/ grpMap'[g] = TheirGroup
  /\ \A o \in DOMAIN state' : o \in DOMAIN state \union Remote

LEMMA TendsShape ==
  ASSUME Shape, Tends
  PROVE  Shape'
<1>1. TabsOk /\ EventsOk(queue) /\ FlushesOk /\ TasksOk
  BY DEF Shape
<1>2. Growth
  BY <1>1 DEF Growth, Tends, TabsOk
<1>3. TabsOk'
  BY <1>1 DEF TabsOk, Tends
<1>4. EventsOk(queue)'
  BY <1>1, <1>2, EventsStay DEF EventsOk, Tends
<1>5. FlushesOk'
  BY <1>1, <1>2, FlushesStay DEF Tends
<1>6. TasksOk'
  BY DEF TasksOk, Tends, Remote
<1> QED  BY <1>3, <1>4, <1>5, <1>6 DEF Shape

\* Calls to come are for remote objects, and none has begun.
Fresh(task) == DOMAIN task = TaskFields /\ task.obj \in Remote /\ task.at \in {"label", "lookup"}

LEMMA TaskFresh ==
  ASSUME NEW by, NEW o \in Remote, NEW v
  PROVE  Fresh(Task(by, o, v)) /\ Task(by, o, v).at # "link"
<1> QED  BY DEF Fresh, Task, TaskFields

ResolveFields == {"state", "live", "rows", "acts", "drops", "todo", "opens"}

\* What resolving keeps true: D are the objects that had a state before.
ResolveOk(acc, D) ==
  /\ DOMAIN acc = ResolveFields /\ DOMAIN acc.state \subseteq D \union Remote
  /\ IsList(acc.todo) /\ \A k \in 1 .. Len(acc.todo) : Fresh(acc.todo[k])

LEMMA AppendFresh ==
  ASSUME NEW s, IsList(s), \A k \in 1 .. Len(s) : Fresh(s[k]), NEW o \in Remote, NEW v
  PROVE  IsList(Append(s, Task("batch", o, v))) /\ \A k \in 1 .. Len(Append(s, Task("batch", o, v))) : Fresh(Append(s, Task("batch", o, v))[k])
<1>1. PICK x : x = Task("batch", o, v) /\ Fresh(x)
  BY TaskFresh
<1>2. PICK r : r = Append(s, x)
  OBVIOUS
<1>3. /\ IsList(r) /\ Len(s) \in Nat /\ Len(r) = Len(s) + 1
      /\ \A k \in 1 .. Len(s) : r[k] = s[k]
      /\ r[Len(s) + 1] = x
  BY <1>2, AppendList
<1>4. \A k \in 1 .. Len(r) : k \in 1 .. Len(s) \/ k = Len(s) + 1
  BY <1>3
<1> QED  BY <1>1, <1>2, <1>3, <1>4

LEMMA ResolveOne ==
  ASSUME NEW acc, NEW D, ResolveOk(acc, D), NEW op, op.obj \in Remote,
         op.kind \in {"update", "close", "activate", "group", "ungroup"}
  PROVE  ResolveOk(ResolveItem(acc, op), D)
<1>1. PICK in : in = ResolveLiveness(acc, op)
  OBVIOUS
<1>2. ResolveOk(in, D) /\ in.state = acc.state /\ in.todo = acc.todo
  BY <1>1 DEF ResolveLiveness, ResolveOk, ResolveFields
<1>3. PICK v, o : v = ValOf(op) /\ o = op.obj /\ o \in Remote
  OBVIOUS
<1>4. PICK st : st = With(acc.state, o, [key |-> op.key, val |-> v])
  OBVIOUS
<1>5. DOMAIN st \subseteq D \union Remote
  BY <1>3, <1>4 DEF With, Over, ResolveOk
<1>6. PICK todo : todo = Append(acc.todo, Task("batch", o, v))
  OBVIOUS
<1>7. IsList(todo) /\ \A k \in 1 .. Len(todo) : Fresh(todo[k])
  BY <1>3, <1>6, AppendFresh DEF ResolveOk
<1>8. CASE op.kind \in {"close", "ungroup"}
  <2>1. ResolveItem(acc, op) = ResolveEnd(acc, op)
    BY <1>8 DEF ResolveItem
  <2>2. ResolveOk(ResolveEnd(acc, op), D)
    BY DEF ResolveEnd, ResolveOk, ResolveFields
  <2> QED  BY <2>1, <2>2
<1>9. CASE op.kind = "activate"
  <2>1. ResolveItem(acc, op) = [acc EXCEPT !.acts = @ \union {op.obj}]
    BY <1>9 DEF ResolveItem
  <2> QED  BY <2>1 DEF ResolveOk, ResolveFields
<1>10. CASE op.kind = "update"
  <2>1. ResolveItem(acc, op) = ResolveTabState(acc, op)
    BY <1>10 DEF ResolveItem
  <2>2. PICK rows1, to : /\ rows1 = With(in.rows, o, [val |-> v, deleted |-> in.live[o].dead])
                         /\ to = [in EXCEPT !.state = st, !.rows = rows1]
    OBVIOUS
  <2>3. ResolveOk(to, D) /\ to.todo = acc.todo
    BY <1>2, <1>5, <2>2 DEF ResolveOk, ResolveFields
  <2>4. ResolveOk([to EXCEPT !.todo = todo], D)
    BY <1>7, <2>3 DEF ResolveOk, ResolveFields
  <2>5. to = [in EXCEPT !.state = With(@, o, [key |-> op.key, val |-> v]),
                        !.rows = With(@, o, [val |-> v, deleted |-> in.live[o].dead])]
    BY <1>2, <1>4, <2>2
  <2>6. [to EXCEPT !.todo = todo] = [to EXCEPT !.todo = Append(@, Task("batch", o, v))]
    BY <1>6, <2>3
  <2>7. \/ ResolveTabState(acc, op) = in \/ ResolveTabState(acc, op) = to
        \/ ResolveTabState(acc, op) = [to EXCEPT !.todo = todo]
    BY <1>1, <1>3, <2>5, <2>6 DEF ResolveTabState
  <2> QED  BY <1>2, <2>1, <2>3, <2>4, <2>7
<1>11. CASE op.kind = "group"
  <2>1. ResolveItem(acc, op) = ResolveGroupState(acc, op)
    BY <1>11 DEF ResolveItem
  <2>2. PICK rows1, to : /\ rows1 = With(in.rows, o, [val |-> v, deleted |-> FALSE])
                         /\ to = [in EXCEPT !.state = st, !.rows = rows1, !.todo = todo]
    OBVIOUS
  <2>3. ResolveOk(to, D)
    BY <1>2, <1>5, <1>7, <2>2 DEF ResolveOk, ResolveFields
  <2>4. to = [in EXCEPT !.state = With(@, o, [key |-> op.key, val |-> v]),
                        !.rows = With(@, o, [val |-> v, deleted |-> FALSE]),
                        !.todo = Append(@, Task("batch", o, v))]
    BY <1>2, <1>4, <1>6, <2>2
  <2>5. ResolveGroupState(acc, op) = in \/ ResolveGroupState(acc, op) = to
    BY <1>1, <1>3, <2>4 DEF ResolveGroupState
  <2> QED  BY <1>2, <2>1, <2>3, <2>5
<1> QED  BY <1>8, <1>9, <1>10, <1>11

LEMMA ResolveBatch ==
  ASSUME NEW acc, NEW D, ResolveOk(acc, D), NEW m \in Nat, NEW batch, DOMAIN batch = 1 .. m,
         \A k \in 1 .. m : batch[k].obj \in Remote /\
                           batch[k].kind \in {"update", "close", "activate", "group", "ungroup"}
  PROVE  ResolveOk(FoldLeft(ResolveItem, acc, batch), D)
<1>1. PICK f : /\ f[0] = acc
               /\ \A k \in 1 .. m : f[k] = ResolveItem(f[k - 1], batch[k])
               /\ f[m] = FoldLeft(ResolveItem, acc, batch)
  BY ResolveSteps
<1>2. PICK G : G = {k \in 0 .. m : ResolveOk(f[k], D)}
  OBVIOUS
<1>3. 0 \in G
  BY <1>1, <1>2
<1>4. \A k \in 1 .. m : k - 1 \in G => k \in G
  <2> SUFFICES ASSUME NEW k \in 1 .. m, k - 1 \in G PROVE k \in G
    OBVIOUS
  <2>1. ResolveOk(f[k - 1], D) /\ f[k] = ResolveItem(f[k - 1], batch[k]) /\ k \in 0 .. m
    BY <1>1, <1>2
  <2>2. ResolveOk(f[k], D)
    BY <2>1, ResolveOne
  <2> QED  BY <1>2, <2>1, <2>2
<1>5. \A k \in 0 .. m : k \in G
  BY <1>3, <1>4, Upward
<1>6. m \in 0 .. m
  OBVIOUS
<1> QED  BY <1>1, <1>2, <1>5, <1>6

\* Calls that have not begun come after those there are.
Joined(s) == IsList(s) /\ (\A k \in 1 .. Len(s) : Fresh(s[k])) /\ tasks' = tasks \o s

LEMMA JoinedFacts ==
  ASSUME IsList(tasks), NEW s, Joined(s)
  PROVE  /\ IsList(tasks') /\ DOMAIN tasks' \in SUBSET (Nat \ {0})
         /\ \A k \in DOMAIN tasks' : (k \in DOMAIN tasks /\ tasks'[k] = tasks[k]) \/ Fresh(tasks'[k])
         /\ \A k \in DOMAIN tasks : k \in DOMAIN tasks' /\ tasks'[k] = tasks[k]
<1>1. PICK t, r : t = tasks /\ r = t \o s
  OBVIOUS
<1>2. /\ IsList(r) /\ Len(r) = Len(t) + Len(s) /\ Len(t) \in Nat /\ Len(s) \in Nat
      /\ \A i \in 1 .. Len(t) : r[i] = t[i]
      /\ \A i \in Len(t) + 1 .. Len(t) + Len(s) : i - Len(t) \in 1 .. Len(s) /\ r[i] = s[i - Len(t)]
  BY <1>1, ConcatList DEF Joined
<1>3. DOMAIN t = 1 .. Len(t) /\ DOMAIN r = 1 .. Len(r)
  BY <1>1, <1>2, ListFacts
<1>4. \A k \in 1 .. Len(r) : k \in 1 .. Len(t) \/ k \in Len(t) + 1 .. Len(t) + Len(s)
  BY <1>2
<1>5. \A k \in 1 .. Len(t) : k \in 1 .. Len(r)
  BY <1>2
<1>6. \A k \in Len(t) + 1 .. Len(t) + Len(s) : Fresh(r[k])
  BY <1>2 DEF Joined
<1>7. tasks' = r
  BY <1>1 DEF Joined
<1> QED  BY <1>1, <1>2, <1>3, <1>4, <1>5, <1>6, <1>7

LEMMA JoinedTends ==
  ASSUME Shape, IsList(tasks), NEW s, Joined(s)
  PROVE  /\ DOMAIN tasks' \in SUBSET (Nat \ {0})
         /\ \A k \in DOMAIN tasks' : DOMAIN tasks'[k] = TaskFields /\ tasks'[k].obj \in Remote
         /\ \A k \in DOMAIN tasks' : tasks'[k].at = "link" => k \in DOMAIN tasks /\ tasks'[k] = tasks[k]
<1>1. /\ DOMAIN tasks' \in SUBSET (Nat \ {0})
      /\ \A k \in DOMAIN tasks' : (k \in DOMAIN tasks /\ tasks'[k] = tasks[k]) \/ Fresh(tasks'[k])
  BY JoinedFacts
<1>2. \A k \in DOMAIN tasks : DOMAIN tasks[k] = TaskFields /\ tasks[k].obj \in Remote
  BY DEF Shape, TasksOk, Remote
<1> QED  BY <1>1, <1>2 DEF Fresh

\* ApplyBatch adds a list of calls that have not begun.
LEMMA ApplyBatchFresh ==
  ASSUME Shape, ApplyBatch
  PROVE  /\ \E s : Joined(s)
         /\ \A o \in DOMAIN state' : o \in DOMAIN state \union Remote
<1>1. PICK batch \in UNION {[1 .. n -> RemoteOps] : n \in 1 .. MaxSteps - steps}, policy \in RestorePolicies :
        LET start == [state |-> state, live |-> live, rows |-> rows, acts |-> acts,
                      drops |-> {}, todo |-> << >>, opens |-> policy = "automatic"]
            done  == FoldLeft(ResolveItem, start, batch)
        IN  state' = done.state /\ tasks' = tasks \o done.todo
  BY DEF ApplyBatch
<1>2. PICK start : start = [state |-> state, live |-> live, rows |-> rows, acts |-> acts,
                            drops |-> {}, todo |-> << >>, opens |-> policy = "automatic"]
  OBVIOUS
<1>3. PICK done : done = FoldLeft(ResolveItem, start, batch)
  OBVIOUS
<1>4. state' = done.state /\ tasks' = tasks \o done.todo
  BY <1>1, <1>2, <1>3
<1>5. PICK n \in 1 .. MaxSteps - steps : batch \in [1 .. n -> RemoteOps]
  OBVIOUS
<1>6. n \in Nat
  BY <1>5
<1>7. \A op \in RemoteOps : op.obj \in Remote /\ op.kind \in {"update", "close", "activate", "group", "ungroup"}
  BY DEF RemoteOps, Remote
<1>8. DOMAIN batch = 1 .. n /\ \A k \in 1 .. n : batch[k] \in RemoteOps
  BY <1>5
<1>9. PICK D : D = DOMAIN state
  OBVIOUS
<1>10. ResolveOk(start, D)
  <2>1. start.todo = << >> /\ start.state = state /\ DOMAIN start = ResolveFields
    BY <1>2 DEF ResolveFields
  <2>2. IsList(<< >>) /\ Len(<< >>) = 0 /\ 1 .. 0 = {}
    BY NoEvents
  <2> QED  BY <1>9, <2>1, <2>2 DEF ResolveOk
<1>11. \A k \in 1 .. n : batch[k].obj \in Remote /\
                         batch[k].kind \in {"update", "close", "activate", "group", "ungroup"}
  BY <1>7, <1>8
<1>12. ResolveOk(done, D)
  BY <1>3, <1>6, <1>8, <1>10, <1>11, ResolveBatch
<1> QED  BY <1>4, <1>9, <1>12 DEF ResolveOk, Joined

LEMMA ApplyBatchTends ==
  ASSUME Shape, IsList(tasks), ApplyBatch
  PROVE  Tends
<1>1. PICK s : Joined(s)
  BY ApplyBatchFresh
<1>2. \A o \in DOMAIN state' : o \in DOMAIN state \union Remote
  BY ApplyBatchFresh
<1>3. UNCHANGED <<tabMap, grpMap, minted, sent, tabs, label, opened, pending, flush, opening, ghosts,
                  loading, forObj, freed, grouped>>
  BY DEF ApplyBatch
<1>4. \A t \in DOMAIN tabs : DOMAIN tabs[t] = {"page", "grp"}
  BY DEF Shape, TabsOk
<1>5. /\ DOMAIN tasks' \in SUBSET (Nat \ {0})
      /\ \A k \in DOMAIN tasks' : DOMAIN tasks'[k] = TaskFields /\ tasks'[k].obj \in Remote
      /\ \A k \in DOMAIN tasks' : tasks'[k].at = "link" => k \in DOMAIN tasks /\ tasks'[k] = tasks[k]
  BY <1>1, JoinedTends
<1> QED  BY <1>2, <1>3, <1>4, <1>5 DEF Tends, pending, ghosts

LEMMA RestoreAllFresh ==
  ASSUME RestoreAll
  PROVE  \E s : Joined(s)
<1>1. PICK S, all : S = PendingRestores \cap DOMAIN state /\ all = SetToSeq(S)
  OBVIOUS
<1>2. PICK s : s = [k \in DOMAIN all |-> Task("popup", all[k], state[all[k]].val)] /\ tasks' = tasks \o s
  BY <1>1 DEF RestoreAll
<1>3. S \subseteq Theirs
  BY <1>1 DEF PendingRestores
<1>4. IsFiniteSet(S)
  BY <1>3, TheirsAssumption, FS_Subset
<1>5. DOMAIN all = 1 .. Cardinality(S) /\ Range(all) = S /\ Cardinality(S) \in Nat
  BY <1>1, <1>4, SetToSeqFacts, FS_CardinalityType
<1>6. \A k \in DOMAIN all : all[k] \in Remote
  BY <1>3, <1>5 DEF Range, Remote
<1>7. \A k \in DOMAIN all : Fresh(Task("popup", all[k], state[all[k]].val))
  BY <1>6, TaskFresh
<1>8. PICK n, U : n = Cardinality(S) /\ U = {s[k] : k \in 1 .. n}
  OBVIOUS
<1>9. s \in [1 .. n -> U] /\ n \in Nat
  BY <1>2, <1>5, <1>8
<1>10. s \in Seq(U) /\ Len(s) = n
  BY <1>9
<1>11. \A k \in 1 .. Len(s) : Fresh(s[k])
  BY <1>2, <1>5, <1>7, <1>8, <1>10
<1> QED  BY <1>2, <1>10, <1>11 DEF Joined, IsList

LEMMA RestoreAllTends ==
  ASSUME Shape, IsList(tasks), RestoreAll
  PROVE  Tends
<1>1. PICK s : Joined(s)
  BY RestoreAllFresh
<1>2. UNCHANGED <<captured, tabs, label, opened, pending, flush, opening, ghosts,
                  loading, forObj, freed, grouped>>
  BY DEF RestoreAll
<1>3. \A t \in DOMAIN tabs : DOMAIN tabs[t] = {"page", "grp"}
  BY DEF Shape, TabsOk
<1>4. /\ DOMAIN tasks' \in SUBSET (Nat \ {0})
      /\ \A k \in DOMAIN tasks' : DOMAIN tasks'[k] = TaskFields /\ tasks'[k].obj \in Remote
      /\ \A k \in DOMAIN tasks' : tasks'[k].at = "link" => k \in DOMAIN tasks /\ tasks'[k] = tasks[k]
  BY <1>1, JoinedTends
<1> QED  BY <1>2, <1>3, <1>4 DEF Tends, pending, ghosts, captured

\* A call goes on.
LEMMA GoesOn ==
  ASSUME TasksOk, NEW k \in DOMAIN tasks, NEW new, tasks' = [tasks EXCEPT ![k] = new],
         DOMAIN new = TaskFields, new.obj = tasks[k].obj
  PROVE  /\ DOMAIN tasks' = DOMAIN tasks /\ DOMAIN tasks' \in SUBSET (Nat \ {0}) /\ tasks'[k] = new
         /\ \A j \in DOMAIN tasks : j # k => tasks'[j] = tasks[j]
         /\ \A j \in DOMAIN tasks' : DOMAIN tasks'[j] = TaskFields /\ tasks'[j].obj \in Remote
<1>1. DOMAIN tasks' = DOMAIN tasks /\ tasks'[k] = new /\ \A j \in DOMAIN tasks : j # k => tasks'[j] = tasks[j]
  OBVIOUS
<1> QED  BY <1>1 DEF TasksOk, Remote

\* The steps that change no tab, label or mapping.
LEMMA CallTends ==
  ASSUME Shape, NEW k \in DOMAIN tasks, NEW new, tasks' = [tasks EXCEPT ![k] = new],
         DOMAIN new = TaskFields, new.obj = tasks[k].obj, new.at = "link" => new.at = tasks[k].at /\ new.tab = tasks[k].tab,
         UNCHANGED <<captured, browser, pending, flush, opening, ghosts, loading, forObj, freed, grouped>>
  PROVE  Tends
<1>1. TasksOk
  BY DEF Shape
<1>2. /\ DOMAIN tasks' = DOMAIN tasks /\ DOMAIN tasks' \in SUBSET (Nat \ {0}) /\ tasks'[k] = new
      /\ \A j \in DOMAIN tasks : j # k => tasks'[j] = tasks[j]
      /\ \A j \in DOMAIN tasks' : DOMAIN tasks'[j] = TaskFields /\ tasks'[j].obj \in Remote
  BY <1>1, GoesOn
<1>3. \A t \in DOMAIN tabs : DOMAIN tabs[t] = {"page", "grp"}
  BY DEF Shape, TabsOk
<1>4. UNCHANGED <<tabMap, opened, minted, sent, queue, titles, timers, flush, opening, unheard, raced,
                  crashes, forObj, freed, grouped, tabs, label, loading, grpMap, state>>
  BY DEF captured, browser, pending, ghosts
<1>5. \A j \in DOMAIN tasks' : tasks'[j].at = "link" =>
        j \in DOMAIN tasks /\ tasks[j].at = "link" /\ tasks'[j].tab = tasks[j].tab /\ tasks'[j].obj = tasks[j].obj
  BY <1>2
<1> QED  BY <1>2, <1>3, <1>4, <1>5 DEF Tends

LEMMA GuardRunTends ==
  ASSUME Shape, NEW k, GuardRun(k)
  PROVE  Tends
<1>1. k \in DOMAIN tasks /\ DOMAIN tasks[k] = TaskFields
  BY DEF GuardRun, AtPc, Shape, TasksOk
<1>2. PICK new : new = [tasks[k] EXCEPT !.called = TRUE]
  OBVIOUS
<1>3. DOMAIN new = TaskFields /\ new.obj = tasks[k].obj /\ new.at = tasks[k].at /\ new.tab = tasks[k].tab
  BY <1>1, <1>2 DEF TaskFields
<1>4. tasks' = [tasks EXCEPT ![k] = new]
  BY <1>2 DEF GuardRun, Goes
<1>5. UNCHANGED <<captured, browser, pending, flush, opening, ghosts, loading, forObj, freed, grouped>>
  BY DEF GuardRun
<1> QED  BY <1>1, <1>3, <1>4, <1>5, CallTends

LEMMA LookupTends ==
  ASSUME Shape, NEW k, Lookup(k)
  PROVE  Tends
<1>1. k \in DOMAIN tasks /\ DOMAIN tasks[k] = TaskFields
  BY DEF Lookup, AtPc, Shape, TasksOk
<1>2. PICK t : \/ tasks' = [tasks EXCEPT ![k] = [tasks[k] EXCEPT !.at = "done"]]
               \/ tasks' = [tasks EXCEPT ![k] = [tasks[k] EXCEPT !.at = "create"]]
               \/ tasks' = [tasks EXCEPT ![k] = [tasks[k] EXCEPT !.at = "update", !.tab = t]]
  BY DEF Lookup, Goes, Done
<1>3. PICK new : /\ \/ new = [tasks[k] EXCEPT !.at = "done"] \/ new = [tasks[k] EXCEPT !.at = "create"]
                    \/ new = [tasks[k] EXCEPT !.at = "update", !.tab = t]
                 /\ tasks' = [tasks EXCEPT ![k] = new]
  BY <1>2
<1>4. DOMAIN new = TaskFields /\ new.obj = tasks[k].obj /\ new.at # "link"
  BY <1>1, <1>3 DEF TaskFields
<1>5. UNCHANGED <<captured, browser, pending, flush, opening, ghosts, loading, forObj, freed, grouped>>
  BY DEF Lookup
<1> QED  BY <1>1, <1>3, <1>4, <1>5, CallTends

LEMMA TakeLockTends ==
  ASSUME Shape, NEW k, TakeLock(k)
  PROVE  Tends
<1>1. k \in DOMAIN tasks /\ DOMAIN tasks[k] = TaskFields
  BY DEF TakeLock, AtPc, Shape, TasksOk
<1>2. PICK g : tasks' = [tasks EXCEPT ![k] = [tasks[k] EXCEPT !.at = "join", !.grp = g]]
  BY DEF TakeLock, Goes
<1>3. PICK new : new = [tasks[k] EXCEPT !.at = "join", !.grp = g]
  OBVIOUS
<1>4. DOMAIN new = TaskFields /\ new.obj = tasks[k].obj /\ new.at # "link"
  BY <1>1, <1>3 DEF TaskFields
<1>5. UNCHANGED <<captured, browser, pending, flush, opening, ghosts, loading, forObj, freed, grouped>>
  BY DEF TakeLock
<1> QED  BY <1>1, <1>2, <1>3, <1>4, <1>5, CallTends

LEMMA RelabelTends ==
  ASSUME Shape, NEW k, Relabel(k)
  PROVE  Tends
<1>1. k \in DOMAIN tasks /\ DOMAIN tasks[k] = TaskFields /\ TasksOk
  BY DEF Relabel, AtPc, Shape, TasksOk
<1>2. PICK new : new = [tasks[k] EXCEPT !.at = "done"]
  OBVIOUS
<1>3. DOMAIN new = TaskFields /\ new.obj = tasks[k].obj /\ new.at # "link"
  BY <1>1, <1>2 DEF TaskFields
<1>4. tasks' = [tasks EXCEPT ![k] = new]
  BY <1>2 DEF Relabel, Done, Goes
<1>5. /\ DOMAIN tasks' = DOMAIN tasks /\ DOMAIN tasks' \in SUBSET (Nat \ {0}) /\ tasks'[k] = new
      /\ \A j \in DOMAIN tasks : j # k => tasks'[j] = tasks[j]
      /\ \A j \in DOMAIN tasks' : DOMAIN tasks'[j] = TaskFields /\ tasks'[j].obj \in Remote
  BY <1>1, <1>3, <1>4, GoesOn
<1>6. UNCHANGED <<tabs, opened, captured, pending, flush, opening, ghosts, loading, forObj, freed, grouped>>
  BY DEF Relabel
<1>7. DOMAIN label' = DOMAIN label
  BY DEF Relabel
<1>8. \A t \in DOMAIN tabs : DOMAIN tabs[t] = {"page", "grp"}
  BY DEF Shape, TabsOk
<1> QED  BY <1>3, <1>5, <1>6, <1>7, <1>8 DEF Tends, captured, pending, ghosts

LEMMA LinkGroupTends ==
  ASSUME Shape, NEW k, LinkGroup(k)
  PROVE  Tends
<1>1. k \in DOMAIN tasks /\ DOMAIN tasks[k] = TaskFields /\ TasksOk
  BY DEF LinkGroup, AtPc, Shape, TasksOk
<1>2. PICK new : new = [tasks[k] EXCEPT !.at = "done"]
  OBVIOUS
<1>3. DOMAIN new = TaskFields /\ new.obj = tasks[k].obj /\ new.at # "link"
  BY <1>1, <1>2 DEF TaskFields
<1>4. tasks' = [tasks EXCEPT ![k] = new]
  BY <1>2 DEF LinkGroup, Done, Goes
<1>5. /\ DOMAIN tasks' = DOMAIN tasks /\ DOMAIN tasks' \in SUBSET (Nat \ {0}) /\ tasks'[k] = new
      /\ \A j \in DOMAIN tasks : j # k => tasks'[j] = tasks[j]
      /\ \A j \in DOMAIN tasks' : DOMAIN tasks'[j] = TaskFields /\ tasks'[j].obj \in Remote
  BY <1>1, <1>3, <1>4, GoesOn
<1>6. UNCHANGED <<tabMap, state, minted, sent, tabs, opened, pending, flush, opening, ghosts,
                  loading, forObj, freed, grouped>>
  BY DEF LinkGroup
<1>7. DOMAIN label' = DOMAIN label
  BY DEF LinkGroup
<1>8. \A t \in DOMAIN tabs : DOMAIN tabs[t] = {"page", "grp"}
  BY DEF Shape, TabsOk
<1>9. grpMap' = With(grpMap, tasks[k].grp, TheirGroup)
  BY DEF LinkGroup
<1>10. \A g \in DOMAIN grpMap' : (g \in DOMAIN grpMap /\ grpMap'[g] = grpMap[g]) \/ grpMap'[g] = TheirGroup
  BY <1>9 DEF With, Over
<1> QED  BY <1>3, <1>5, <1>6, <1>7, <1>8, <1>10 DEF Tends, pending, ghosts

LEMMA FinishTends ==
  ASSUME Shape, Finish
  PROVE  Tends
<1>1. UNCHANGED <<captured, browser, pending, flush, opening, ghosts, loading, forObj, freed, grouped>> /\ tasks' = << >>
  BY DEF Finish
<1>2. DOMAIN tasks' = {}
  BY <1>1
<1>3. \A t \in DOMAIN tabs : DOMAIN tabs[t] = {"page", "grp"}
  BY DEF Shape, TabsOk
<1> QED  BY <1>1, <1>2, <1>3 DEF Tends, captured, browser, pending, ghosts

LEMMA UpdateTends ==
  ASSUME Shape, NEW k, Update(k)
  PROVE  Tends
<1>1. k \in DOMAIN tasks /\ DOMAIN tasks[k] = TaskFields /\ TasksOk
  BY DEF Update, AtPc, Shape, TasksOk
<1>2. PICK pc \in {"done", "thrown", "lock"} :
        tasks' = [tasks EXCEPT ![k] = [[tasks[k] EXCEPT !.at = pc] EXCEPT !.called = FALSE]]
  BY DEF Update, Returns, AfterTab, Goes
<1>3. PICK new : new = [[tasks[k] EXCEPT !.at = pc] EXCEPT !.called = FALSE]
  OBVIOUS
<1>4. DOMAIN new = TaskFields /\ new.obj = tasks[k].obj /\ new.at # "link"
  BY <1>1, <1>3 DEF TaskFields
<1>5. /\ DOMAIN tasks' = DOMAIN tasks /\ DOMAIN tasks' \in SUBSET (Nat \ {0}) /\ tasks'[k] = new
      /\ \A j \in DOMAIN tasks : j # k => tasks'[j] = tasks[j]
      /\ \A j \in DOMAIN tasks' : DOMAIN tasks'[j] = TaskFields /\ tasks'[j].obj \in Remote
  BY <1>1, <1>2, <1>3, <1>4, GoesOn
<1>6. UNCHANGED <<label, opened, captured, pending, flush, opening, ghosts, forObj, freed, grouped>>
  BY DEF Update
<1>7. \A t \in DOMAIN tabs : DOMAIN tabs[t] = {"page", "grp"}
  BY DEF Shape, TabsOk
<1>8. /\ DOMAIN tabs' = DOMAIN tabs /\ loading' \subseteq loading \union DOMAIN tabs
      /\ \A t \in DOMAIN tabs : DOMAIN tabs'[t] = {"page", "grp"} /\ tabs'[t].grp = tabs[t].grp
  <2>1. CASE tasks[k].tab \in DOMAIN tabs
    <3>1. PICK u, p : u = tasks[k].tab /\ p = tasks[k].val.page
      OBVIOUS
    <3>2. tabs' = [tabs EXCEPT ![u].page = p] /\ loading' = loading \union {u}
      BY <2>1, <3>1 DEF Update
    <3> QED  BY <1>7, <2>1, <3>1, <3>2
  <2>2. CASE tasks[k].tab \notin DOMAIN tabs
    BY <1>7, <2>2 DEF Update
  <2> QED  BY <2>1, <2>2
<1> QED  BY <1>4, <1>5, <1>6, <1>8 DEF Tends, captured, pending, ghosts

--------------------------------------------------------------------------------
(***************************************************************************)
(* One event staged.                                                       *)
(***************************************************************************)
AccOk(acc) == DOMAIN acc = AccFields /\ acc.next \in Nat /\ IsList(acc.ops)

SameAt(f, g, x) == x \in DOMAIN f /\ x \in DOMAIN g /\ f[x] = g[x]

\* The groups of acc are those of to, but for the one whose removal e is and
\* one that may be new.
StagedGroups(acc, e, to) ==
  /\ \A h \in DOMAIN acc.grpMap : SameAt(acc.grpMap, to.grpMap, h) \/ (e.kind = "groupRemoved" /\ h = e.grp)
  /\ \A h \in DOMAIN to.grpMap :
       \/ SameAt(acc.grpMap, to.grpMap, h)
       \/ to.grpMap[h] = acc.next + 1 /\ acc.next < to.next

\* The same of its tabs: a new one is announced, and one being opened is not new.
StagedTabs(acc, e, to) ==
  /\ \A t \in DOMAIN acc.tabMap : SameAt(acc.tabMap, to.tabMap, t) \/ (e.kind = "removed" /\ t = e.tab)
  /\ \A t \in DOMAIN to.tabMap :
       \/ SameAt(acc.tabMap, to.tabMap, t)
       \/ /\ t = e.tab /\ t \notin DOMAIN acc.tabMap /\ e.kind \in {"created", "updated"}
          /\ e.kind = "updated" => t \notin opening
          /\ to.tabMap[t] = to.next /\ acc.next < to.next /\ HasOp(to.ops, "create", to.next)
          /\ \A h \in DOMAIN to.grpMap : SameAt(acc.grpMap, to.grpMap, h) \/ to.grpMap[h] < to.next

\* The operation that is added, if one is.
StagedOp(acc, e, to, op) ==
  /\ DOMAIN op = OpFields
  /\ \/ /\ op.tab = e.tab /\ e.kind \in TabKinds
        /\ \/ op.kind = "create" /\ e.tab \in DOMAIN to.tabMap /\ op.obj = to.tabMap[e.tab]
           \/ op.kind \in {"update", "activate", "close"} /\ e.tab \in DOMAIN acc.tabMap /\ op.obj = acc.tabMap[e.tab]
     \/ /\ op.tab = 0
        /\ \/ op.kind = "delete" /\ e.grp \in DOMAIN acc.grpMap /\ op.obj = acc.grpMap[e.grp]
           \/ /\ op.kind \in {"create", "update"} /\ e.grp \in DOMAIN to.grpMap /\ op.obj = to.grpMap[e.grp]
              /\ op.kind = "update" => op.obj \in DOMAIN acc.seen
  /\ \A o \in DOMAIN to.seen : o \in DOMAIN acc.seen \/ (o = op.obj /\ op.kind \in {"create", "update"})

StagedOps(acc, e, to) ==
  \/ to.ops = acc.ops /\ to.seen = acc.seen
  \/ \E op : StagedOp(acc, e, to, op) /\ to.ops = Append(acc.ops, op)

Staged(acc, e, to) ==
  /\ AccOk(to) /\ acc.next <= to.next
  /\ StagedGroups(acc, e, to) /\ StagedTabs(acc, e, to) /\ StagedOps(acc, e, to)

LEMMA AddsFacts ==
  ASSUME NEW acc, AccOk(acc), NEW kind, NEW obj, NEW t, NEW val
  PROVE  LET to == Adds(acc, kind, obj, t, val)
         IN  /\ AccOk(to) /\ to.next = acc.next /\ to.tabMap = acc.tabMap /\ to.grpMap = acc.grpMap /\ to.acts = acc.acts
             /\ \E op : /\ DOMAIN op = OpFields /\ op.kind = kind /\ op.obj = obj /\ op.tab = t
                        /\ to.ops = Append(acc.ops, op) /\ HasOp(to.ops, kind, obj)
             /\ \A o \in DOMAIN to.seen : o \in DOMAIN acc.seen \/ (o = obj /\ kind \in {"create", "update"})
<1>1. PICK op : op = [kind |-> kind, obj |-> obj, tab |-> t, val |-> val]
  OBVIOUS
<1>2. DOMAIN op = OpFields /\ op.kind = kind /\ op.obj = obj /\ op.tab = t
  BY <1>1 DEF OpFields
<1>3. PICK ops1, seen1 : /\ ops1 = Append(acc.ops, op)
                         /\ seen1 = IF kind \in {"create", "update"} THEN With(acc.seen, obj, val) ELSE acc.seen
  OBVIOUS
<1>4. PICK to : to = [acc EXCEPT !.ops = ops1, !.seen = seen1]
  OBVIOUS
<1>5. to = Adds(acc, kind, obj, t, val)
  BY <1>1, <1>3, <1>4 DEF Adds
<1>6. /\ DOMAIN to = AccFields /\ to.next = acc.next /\ to.tabMap = acc.tabMap /\ to.grpMap = acc.grpMap
      /\ to.acts = acc.acts /\ to.ops = ops1 /\ to.seen = seen1
  BY <1>4 DEF AccOk, AccFields
<1>7. IsList(ops1) /\ Len(acc.ops) \in Nat /\ Len(ops1) = Len(acc.ops) + 1 /\ ops1[Len(acc.ops) + 1] = op
  BY <1>3, AppendList DEF AccOk
<1>8. HasOp(ops1, kind, obj)
  <2>1. PICK k : k = Len(acc.ops) + 1
    OBVIOUS
  <2>2. k \in 1 .. Len(ops1) /\ ops1[k] = op
    BY <1>7, <2>1
  <2> QED  BY <1>2, <2>2 DEF HasOp
<1>9. AccOk(to)
  BY <1>6, <1>7 DEF AccOk
<1>10. \A o \in DOMAIN seen1 : o \in DOMAIN acc.seen \/ (o = obj /\ kind \in {"create", "update"})
  BY <1>3 DEF With, Over
<1>11. \E x : /\ DOMAIN x = OpFields /\ x.kind = kind /\ x.obj = obj /\ x.tab = t
              /\ to.ops = Append(acc.ops, x) /\ HasOp(to.ops, kind, obj)
  BY <1>2, <1>3, <1>6, <1>8
<1> QED  BY <1>5, <1>6, <1>9, <1>10, <1>11

LEMMA WithGroupFacts ==
  ASSUME NEW acc, AccOk(acc), NEW g
  PROVE  LET in == WithGroup(acc, g)
         IN  /\ AccOk(in) /\ acc.next <= in.next
             /\ in.tabMap = acc.tabMap /\ in.ops = acc.ops /\ in.seen = acc.seen /\ in.acts = acc.acts
             /\ \A h \in DOMAIN acc.grpMap : SameAt(acc.grpMap, in.grpMap, h)
             /\ \A h \in DOMAIN in.grpMap :
                  SameAt(acc.grpMap, in.grpMap, h) \/ (in.grpMap[h] = acc.next + 1 /\ in.next = acc.next + 1)
             /\ g = 0 \/ g \in DOMAIN in.grpMap
<1>1. PICK in : in = WithGroup(acc, g)
  OBVIOUS
<1>2. CASE g = 0 \/ g \in DOMAIN acc.grpMap
  <2>1. in = acc
    BY <1>1, <1>2 DEF WithGroup
  <2> QED  BY <1>1, <1>2, <2>1 DEF SameAt, AccOk
<1>3. CASE ~(g = 0 \/ g \in DOMAIN acc.grpMap)
  <2>1. PICK G, n : G = With(acc.grpMap, g, acc.next + 1) /\ n = acc.next + 1
    OBVIOUS
  <2>2. in = [acc EXCEPT !.grpMap = G, !.next = n]
    BY <1>1, <1>3, <2>1 DEF WithGroup
  <2>3. /\ DOMAIN in = AccFields /\ in.grpMap = G /\ in.next = n
        /\ in.tabMap = acc.tabMap /\ in.ops = acc.ops /\ in.seen = acc.seen /\ in.acts = acc.acts
    BY <2>2 DEF AccOk, AccFields
  <2>4. n \in Nat /\ acc.next <= n
    BY <2>1 DEF AccOk
  <2>5. AccOk(in)
    BY <2>3, <2>4 DEF AccOk
  <2>6. DOMAIN G = DOMAIN acc.grpMap \union {g} /\ G[g] = n /\ \A h \in DOMAIN acc.grpMap : G[h] = acc.grpMap[h]
    BY <1>3, <2>1 DEF With, Over
  <2> QED  BY <1>1, <2>1, <2>3, <2>4, <2>5, <2>6 DEF SameAt
<1> QED  BY <1>2, <1>3

LEMMA StagedNothing ==
  ASSUME NEW acc, AccOk(acc), NEW e
  PROVE  Staged(acc, e, acc)
<1> QED  BY DEF Staged, StagedGroups, StagedTabs, StagedOps, SameAt, AccOk

LEMMA CreatedStaged ==
  ASSUME NEW acc, AccOk(acc), NEW e, e.kind \in {"created", "updated"},
         e.kind = "updated" => e.tab \notin DOMAIN acc.tabMap /\ e.tab \notin opening
  PROVE  Staged(acc, e, StageTabCreated(acc, e))
<1>1. CASE e.page = 0
  BY <1>1, StagedNothing DEF StageTabCreated
<1>2. CASE e.page # 0
  <2>1. PICK in : in = WithGroup(acc, e.grp)
    OBVIOUS
  <2>2. /\ AccOk(in) /\ acc.next <= in.next
        /\ in.tabMap = acc.tabMap /\ in.ops = acc.ops /\ in.seen = acc.seen
        /\ \A h \in DOMAIN acc.grpMap : SameAt(acc.grpMap, in.grpMap, h)
        /\ \A h \in DOMAIN in.grpMap :
             SameAt(acc.grpMap, in.grpMap, h) \/ (in.grpMap[h] = acc.next + 1 /\ in.next = acc.next + 1)
    BY <2>1, WithGroupFacts
  <2>3. PICK id, n, T : /\ id = IF Known(in, e.tab) THEN in.tabMap[e.tab] ELSE in.next + 1
                        /\ n = IF Known(in, e.tab) THEN in.next ELSE in.next + 1
                        /\ T = With(in.tabMap, e.tab, id)
    OBVIOUS
  <2>4. PICK mid : mid = [in EXCEPT !.tabMap = T, !.next = n]
    OBVIOUS
  <2>5. /\ DOMAIN mid = AccFields /\ mid.tabMap = T /\ mid.next = n
        /\ mid.grpMap = in.grpMap /\ mid.ops = in.ops /\ mid.seen = in.seen
    BY <2>2, <2>4 DEF AccOk, AccFields
  <2>6. n \in Nat /\ in.next <= n /\ in.next \in Nat /\ acc.next \in Nat
    BY <2>2, <2>3 DEF AccOk
  <2>7. AccOk(mid)
    BY <2>2, <2>5, <2>6 DEF AccOk
  <2>8. PICK v : v = Payload(mid, e)
    OBVIOUS
  <2>9. PICK to : to = Adds(mid, "create", id, e.tab, v)
    OBVIOUS
  <2>10. StageTabCreated(acc, e) = to
    BY <1>2, <2>1, <2>3, <2>4, <2>8, <2>9 DEF StageTabCreated
  <2>11. /\ AccOk(to) /\ to.next = n /\ to.tabMap = T /\ to.grpMap = in.grpMap
         /\ \A o \in DOMAIN to.seen : o \in DOMAIN acc.seen \/ (o = id /\ "create" \in {"create", "update"})
    BY <2>2, <2>5, <2>7, <2>9, AddsFacts
  <2>12. PICK op : /\ DOMAIN op = OpFields /\ op.kind = "create" /\ op.obj = id /\ op.tab = e.tab
                   /\ to.ops = Append(acc.ops, op) /\ HasOp(to.ops, "create", id)
    BY <2>2, <2>5, <2>7, <2>9, AddsFacts
  <2>13. DOMAIN T = DOMAIN acc.tabMap \union {e.tab} /\ T[e.tab] = id /\ \A t \in DOMAIN T : t # e.tab => T[t] = acc.tabMap[t]
    BY <2>2, <2>3 DEF With, Over
  <2>14. e.tab \in DOMAIN acc.tabMap => id = acc.tabMap[e.tab]
    BY <2>2, <2>3 DEF Known
  <2>15. e.tab \notin DOMAIN acc.tabMap => id = n /\ n = in.next + 1
    BY <2>2, <2>3 DEF Known
  <2>16. StagedGroups(acc, e, to)
    BY <2>2, <2>6, <2>11 DEF StagedGroups, SameAt
  <2>17. StagedTabs(acc, e, to)
    <3>1. \A t \in DOMAIN acc.tabMap : SameAt(acc.tabMap, to.tabMap, t)
      BY <2>11, <2>13, <2>14 DEF SameAt
    <3>2. ASSUME NEW t \in DOMAIN to.tabMap, ~SameAt(acc.tabMap, to.tabMap, t)
          PROVE  /\ t = e.tab /\ t \notin DOMAIN acc.tabMap /\ e.kind \in {"created", "updated"}
                 /\ e.kind = "updated" => t \notin opening
                 /\ to.tabMap[t] = to.next /\ acc.next < to.next /\ HasOp(to.ops, "create", to.next)
                 /\ \A h \in DOMAIN to.grpMap : SameAt(acc.grpMap, to.grpMap, h) \/ to.grpMap[h] < to.next
      <4>1. t = e.tab /\ t \notin DOMAIN acc.tabMap
        BY <2>11, <2>13, <3>1, <3>2
      <4>2. id = n /\ n = in.next + 1 /\ to.tabMap[t] = n /\ to.next = n
        BY <2>11, <2>13, <2>15, <4>1
      <4>3. \A h \in DOMAIN to.grpMap : SameAt(acc.grpMap, to.grpMap, h) \/ to.grpMap[h] < to.next
        BY <2>2, <2>6, <2>11, <4>2
      <4>4. acc.next < to.next
        BY <2>2, <2>6, <4>2
      <4> QED  BY <2>12, <4>1, <4>2, <4>3, <4>4
    <3> QED  BY <3>1, <3>2 DEF StagedTabs
  <2>18. StagedOps(acc, e, to)
    <3>1. e.kind \in TabKinds
      BY DEF TabKinds
    <3>2. StagedOp(acc, e, to, op)
      BY <2>11, <2>12, <2>13, <3>1 DEF StagedOp
    <3> QED  BY <2>12, <3>2 DEF StagedOps
  <2> QED  BY <2>2, <2>6, <2>10, <2>11, <2>16, <2>17, <2>18 DEF Staged
<1> QED  BY <1>1, <1>2

\* An operation is added, the group's object possibly minted before.
LEMMA AddedStaged ==
  ASSUME NEW acc, AccOk(acc), NEW e, NEW in, in = acc \/ in = WithGroup(acc, e.grp),
         NEW kind, NEW obj, NEW t, NEW val,
         \/ /\ kind \in {"update", "activate", "close"} /\ t = e.tab /\ e.kind \in TabKinds
            /\ e.tab \in DOMAIN acc.tabMap /\ obj = acc.tabMap[e.tab]
         \/ kind = "delete" /\ t = 0 /\ e.grp \in DOMAIN acc.grpMap /\ obj = acc.grpMap[e.grp]
         \/ /\ kind \in {"create", "update"} /\ t = 0 /\ e.grp \in DOMAIN in.grpMap /\ obj = in.grpMap[e.grp]
            /\ kind = "update" => obj \in DOMAIN acc.seen
  PROVE  LET to == Adds(in, kind, obj, t, val)
         IN  Staged(acc, e, to) /\ to.tabMap = acc.tabMap /\ to.grpMap = in.grpMap /\ to.acts = acc.acts
<1>1. /\ AccOk(in) /\ acc.next <= in.next
      /\ in.tabMap = acc.tabMap /\ in.ops = acc.ops /\ in.seen = acc.seen /\ in.acts = acc.acts
      /\ \A h \in DOMAIN acc.grpMap : SameAt(acc.grpMap, in.grpMap, h)
      /\ \A h \in DOMAIN in.grpMap :
           SameAt(acc.grpMap, in.grpMap, h) \/ (in.grpMap[h] = acc.next + 1 /\ in.next = acc.next + 1)
  <2>1. CASE in = acc
    BY <2>1 DEF SameAt, AccOk
  <2>2. CASE in = WithGroup(acc, e.grp)
    BY <2>2, WithGroupFacts
  <2> QED  BY <2>1, <2>2
<1>2. PICK to : to = Adds(in, kind, obj, t, val)
  OBVIOUS
<1>3. /\ AccOk(to) /\ to.next = in.next /\ to.tabMap = acc.tabMap /\ to.grpMap = in.grpMap /\ to.acts = acc.acts
      /\ \A o \in DOMAIN to.seen : o \in DOMAIN acc.seen \/ (o = obj /\ kind \in {"create", "update"})
  BY <1>1, <1>2, AddsFacts
<1>4. PICK op : /\ DOMAIN op = OpFields /\ op.kind = kind /\ op.obj = obj /\ op.tab = t
                /\ to.ops = Append(acc.ops, op)
  BY <1>1, <1>2, AddsFacts
<1>5. StagedGroups(acc, e, to)
  BY <1>1, <1>3 DEF StagedGroups, AccOk
<1>6. StagedTabs(acc, e, to)
  BY <1>3 DEF StagedTabs, SameAt
<1>7. StagedOp(acc, e, to, op)
  <2>1. \A o \in DOMAIN to.seen : o \in DOMAIN acc.seen \/ (o = op.obj /\ op.kind \in {"create", "update"})
    BY <1>3, <1>4
  <2> QED  BY <1>3, <1>4, <2>1 DEF StagedOp
<1> QED  BY <1>1, <1>2, <1>3, <1>4, <1>5, <1>6, <1>7 DEF Staged, StagedOps

LEMMA GroupStaged ==
  ASSUME NEW acc, AccOk(acc), NEW e, NEW g
  PROVE  Staged(acc, e, WithGroup(acc, g))
<1>1. PICK in : in = WithGroup(acc, g)
  OBVIOUS
<1>2. /\ AccOk(in) /\ acc.next <= in.next
      /\ in.tabMap = acc.tabMap /\ in.ops = acc.ops /\ in.seen = acc.seen
      /\ \A h \in DOMAIN acc.grpMap : SameAt(acc.grpMap, in.grpMap, h)
      /\ \A h \in DOMAIN in.grpMap :
           SameAt(acc.grpMap, in.grpMap, h) \/ (in.grpMap[h] = acc.next + 1 /\ in.next = acc.next + 1)
  BY <1>1, WithGroupFacts
<1>3. StagedGroups(acc, e, in)
  BY <1>2 DEF StagedGroups, AccOk
<1>4. StagedTabs(acc, e, in)
  BY <1>2 DEF StagedTabs, SameAt
<1> QED  BY <1>1, <1>2, <1>3, <1>4 DEF Staged, StagedOps

LEMMA UpdatedStaged ==
  ASSUME NEW acc, AccOk(acc), NEW e, e.kind = "updated"
  PROVE  Staged(acc, e, StageTabUpdated(acc, e))
<1>1. CASE ~Known(acc, e.tab)
  <2>1. CASE Materializing(e.tab)
    BY <1>1, <2>1, StagedNothing DEF StageTabUpdated
  <2>2. CASE ~Materializing(e.tab)
    <3>1. e.tab \notin DOMAIN acc.tabMap /\ e.tab \notin opening
      BY <1>1, <2>2 DEF Known, Materializing
    <3>2. Staged(acc, e, StageTabCreated(acc, e))
      BY <3>1, CreatedStaged
    <3> QED  BY <1>1, <2>2, <3>2 DEF StageTabUpdated
  <2> QED  BY <2>1, <2>2
<1>2. CASE Known(acc, e.tab) /\ e.page = 0
  BY <1>2, StagedNothing DEF StageTabUpdated
<1>3. CASE Known(acc, e.tab) /\ e.page # 0
  <2>1. PICK in : in = WithGroup(acc, e.grp)
    OBVIOUS
  <2>2. PICK p, id : p = Payload(in, e) /\ id = in.tabMap[e.tab]
    OBVIOUS
  <2>3. in.tabMap = acc.tabMap
    BY <2>1, WithGroupFacts
  <2>4. e.tab \in DOMAIN acc.tabMap /\ id = acc.tabMap[e.tab] /\ e.kind \in TabKinds
    BY <1>3, <2>2, <2>3 DEF Known, TabKinds
  <2>5. Staged(acc, e, Adds(in, "update", id, e.tab, p))
    BY <2>1, <2>4, AddedStaged
  <2>6. Staged(acc, e, in)
    BY <2>1, GroupStaged
  <2>7. StageTabUpdated(acc, e) = in \/ StageTabUpdated(acc, e) = Adds(in, "update", id, e.tab, p)
    BY <1>3, <2>1, <2>2 DEF StageTabUpdated
  <2> QED  BY <2>5, <2>6, <2>7
<1> QED  BY <1>1, <1>2, <1>3

LEMMA ActivatedStaged ==
  ASSUME NEW acc, AccOk(acc), NEW e, e.kind = "activated"
  PROVE  Staged(acc, e, StageTabActivated(acc, e))
<1>1. CASE ~Known(acc, e.tab) \/ acc.tabMap[e.tab] \in acc.acts
  BY <1>1, StagedNothing DEF StageTabActivated
<1>2. CASE ~(~Known(acc, e.tab) \/ acc.tabMap[e.tab] \in acc.acts)
  <2>1. PICK mid, A : /\ mid = Adds(acc, "activate", acc.tabMap[e.tab], e.tab, 0)
                      /\ A = mid.acts \union {acc.tabMap[e.tab]}
    OBVIOUS
  <2>2. PICK to : to = [mid EXCEPT !.acts = A]
    OBVIOUS
  <2>3. StageTabActivated(acc, e) = to
    BY <1>2, <2>1, <2>2 DEF StageTabActivated
  <2>4. e.tab \in DOMAIN acc.tabMap /\ e.kind \in TabKinds
    BY <1>2 DEF Known, TabKinds
  <2>5. Staged(acc, e, mid)
    BY <2>1, <2>4, AddedStaged
  <2>6. /\ DOMAIN to = AccFields /\ to.next = mid.next /\ to.tabMap = mid.tabMap /\ to.grpMap = mid.grpMap
        /\ to.ops = mid.ops /\ to.seen = mid.seen
    BY <2>2, <2>5 DEF Staged, AccOk, AccFields
  <2>7. AccOk(to) /\ acc.next <= to.next
    BY <2>5, <2>6 DEF Staged, AccOk
  <2>8. StagedGroups(acc, e, to)
    BY <2>5, <2>6 DEF Staged, StagedGroups
  <2>9. StagedTabs(acc, e, to)
    BY <2>5, <2>6 DEF Staged, StagedTabs
  <2>10. StagedOps(acc, e, to)
    BY <2>5, <2>6 DEF Staged, StagedOps, StagedOp
  <2> QED  BY <2>3, <2>7, <2>8, <2>9, <2>10 DEF Staged
<1> QED  BY <1>1, <1>2

LEMMA RemovedStaged ==
  ASSUME NEW acc, AccOk(acc), NEW e, e.kind = "removed"
  PROVE  Staged(acc, e, StageTabRemoved(acc, e))
<1>1. CASE ~Known(acc, e.tab)
  BY <1>1, StagedNothing DEF StageTabRemoved
<1>2. CASE Known(acc, e.tab)
  <2>1. PICK T : T = Without(acc.tabMap, {e.tab})
    OBVIOUS
  <2>2. PICK mid : mid = [acc EXCEPT !.tabMap = T]
    OBVIOUS
  <2>3. PICK id, to : id = acc.tabMap[e.tab] /\ to = Adds(mid, "close", id, e.tab, 0)
    OBVIOUS
  <2>4. StageTabRemoved(acc, e) = to
    BY <1>2, <2>1, <2>2, <2>3 DEF StageTabRemoved, Forgets
  <2>5. /\ DOMAIN mid = AccFields /\ mid.tabMap = T /\ mid.next = acc.next /\ mid.grpMap = acc.grpMap
        /\ mid.ops = acc.ops /\ mid.seen = acc.seen
    BY <2>2 DEF AccOk, AccFields
  <2>6. AccOk(mid)
    BY <2>5 DEF AccOk
  <2>7. /\ AccOk(to) /\ to.next = acc.next /\ to.tabMap = T /\ to.grpMap = acc.grpMap
        /\ \A o \in DOMAIN to.seen : o \in DOMAIN acc.seen \/ (o = id /\ "close" \in {"create", "update"})
    BY <2>3, <2>5, <2>6, AddsFacts
  <2>8. PICK op : /\ DOMAIN op = OpFields /\ op.kind = "close" /\ op.obj = id /\ op.tab = e.tab
                  /\ to.ops = Append(acc.ops, op)
    BY <2>3, <2>5, <2>6, AddsFacts
  <2>9. DOMAIN T = DOMAIN acc.tabMap \ {e.tab} /\ \A t \in DOMAIN T : T[t] = acc.tabMap[t]
    BY <2>1 DEF Without
  <2>10. StagedGroups(acc, e, to)
    BY <2>7 DEF StagedGroups, SameAt
  <2>11. StagedTabs(acc, e, to)
    BY <2>7, <2>9 DEF StagedTabs, SameAt
  <2>12. e.kind \in TabKinds /\ e.tab \in DOMAIN acc.tabMap
    BY <1>2 DEF Known, TabKinds
  <2>13. StagedOp(acc, e, to, op)
    BY <2>3, <2>7, <2>8, <2>12 DEF StagedOp
  <2>14. acc.next <= to.next
    BY <2>7 DEF AccOk
  <2> QED  BY <2>4, <2>7, <2>8, <2>10, <2>11, <2>13, <2>14 DEF Staged, StagedOps
<1> QED  BY <1>1, <1>2

LEMMA GroupRemovedStaged ==
  ASSUME NEW acc, AccOk(acc), NEW e, e.kind = "groupRemoved"
  PROVE  Staged(acc, e, StageGroupRemoved(acc, e))
<1>1. CASE e.grp \notin DOMAIN acc.grpMap
  BY <1>1, StagedNothing DEF StageGroupRemoved
<1>2. CASE e.grp \in DOMAIN acc.grpMap
  <2>1. PICK mid, G : mid = Adds(acc, "delete", acc.grpMap[e.grp], 0, 0) /\ G = Without(mid.grpMap, {e.grp})
    OBVIOUS
  <2>2. PICK to : to = [mid EXCEPT !.grpMap = G]
    OBVIOUS
  <2>3. StageGroupRemoved(acc, e) = to
    BY <1>2, <2>1, <2>2 DEF StageGroupRemoved
  <2>4. Staged(acc, e, mid) /\ mid.tabMap = acc.tabMap /\ mid.grpMap = acc.grpMap
    BY <1>2, <2>1, AddedStaged
  <2>5. /\ DOMAIN to = AccFields /\ to.next = mid.next /\ to.tabMap = mid.tabMap /\ to.grpMap = G
        /\ to.ops = mid.ops /\ to.seen = mid.seen
    BY <2>2, <2>4 DEF Staged, AccOk, AccFields
  <2>6. AccOk(to) /\ acc.next <= to.next
    BY <2>4, <2>5 DEF Staged, AccOk
  <2>7. DOMAIN G = DOMAIN acc.grpMap \ {e.grp} /\ \A h \in DOMAIN G : G[h] = acc.grpMap[h]
    BY <2>1, <2>4 DEF Without
  <2>8. StagedGroups(acc, e, to)
    BY <2>5, <2>7 DEF StagedGroups, SameAt
  <2>9. StagedTabs(acc, e, to)
    BY <2>4, <2>5 DEF StagedTabs, SameAt
  <2>10. StagedOps(acc, e, to)
    <3>1. PICK op : /\ DOMAIN op = OpFields /\ op.kind = "delete" /\ op.obj = acc.grpMap[e.grp] /\ op.tab = 0
                    /\ mid.ops = Append(acc.ops, op)
      BY <2>1, AddsFacts
    <3>2. \A o \in DOMAIN mid.seen : o \in DOMAIN acc.seen \/ "delete" \in {"create", "update"}
      BY <2>1, AddsFacts
    <3>3. StagedOp(acc, e, to, op)
      BY <1>2, <2>5, <3>1, <3>2 DEF StagedOp
    <3> QED  BY <2>5, <3>1, <3>3 DEF StagedOps
  <2> QED  BY <2>3, <2>6, <2>8, <2>9, <2>10 DEF Staged
<1> QED  BY <1>1, <1>2

LEMMA GroupUpdatedStaged ==
  ASSUME NEW acc, AccOk(acc), NEW e, e.kind = "groupUpdated", e.grp # 0
  PROVE  Staged(acc, e, StageGroupUpdated(acc, e))
<1>1. PICK in : in = WithGroup(acc, e.grp)
  OBVIOUS
<1>2. PICK id, p : id = in.grpMap[e.grp] /\ p = [page |-> e.page, grp |-> 0, win |-> "group"]
  OBVIOUS
<1>3. e.grp \in DOMAIN in.grpMap /\ in.seen = acc.seen
  BY <1>1, WithGroupFacts
<1>4. CASE id \notin DOMAIN in.seen
  <2>1. Staged(acc, e, Adds(in, "create", id, 0, p))
    BY <1>1, <1>2, <1>3, AddedStaged
  <2> QED  BY <1>1, <1>2, <1>4, <2>1 DEF StageGroupUpdated
<1>5. CASE id \in DOMAIN in.seen
  <2>1. Staged(acc, e, Adds(in, "update", id, 0, p))
    BY <1>1, <1>2, <1>3, <1>5, AddedStaged
  <2>2. Staged(acc, e, in)
    BY <1>1, GroupStaged
  <2> QED  BY <1>1, <1>2, <1>5, <2>1, <2>2 DEF StageGroupUpdated
<1> QED  BY <1>4, <1>5

LEMMA StageOne ==
  ASSUME NEW acc, AccOk(acc), NEW e, e.kind \in EventKinds, e.kind = "groupUpdated" => e.grp # 0
  PROVE  Staged(acc, e, StageEvent(acc, e))
<1>1. CASE e.kind = "created"
  BY <1>1, CreatedStaged DEF StageEvent
<1>2. CASE e.kind = "updated"
  BY <1>2, UpdatedStaged DEF StageEvent
<1>3. CASE e.kind = "activated"
  BY <1>3, ActivatedStaged DEF StageEvent
<1>4. CASE e.kind = "removed"
  BY <1>4, RemovedStaged DEF StageEvent
<1>5. CASE e.kind = "groupUpdated"
  BY <1>5, GroupUpdatedStaged DEF StageEvent
<1>6. CASE e.kind = "groupRemoved"
  BY <1>6, GroupRemovedStaged DEF StageEvent
<1> QED  BY <1>1, <1>2, <1>3, <1>4, <1>5, <1>6 DEF EventKinds, TabKinds

--------------------------------------------------------------------------------
(***************************************************************************)
(* A burst staged.                                                         *)
(***************************************************************************)
LEMMA BurstFacts ==
  ASSUME Shape, NEW i \in Slots
  PROVE  /\ EventsOk(Burst(i))
         /\ \A t : About(Burst(i), t) <=> t \in Stashed \/ About(flush[i].events, t)
         /\ \A t : Has(Burst(i), "updated", t) => t \in Stashed \/ Has(flush[i].events, "updated", t)
         /\ \A t : Has(Burst(i), "removed", t) => Has(flush[i].events, "removed", t)
         /\ \A R : OrderedBut(flush[i].events, R) => OrderedBut(Burst(i), R)
<1>1. TabsOk /\ EventsOk(flush[i].events) /\ opened \in Nat
  BY DEF Shape, FlushesOk, TabsOk
<1>2. PICK S, f, s, t : S = Stashed /\ f = titles /\ s = UpdatesOf(S, f) /\ t = flush[i].events
  OBVIOUS
<1>3. S \in SUBSET (1 .. opened)
  BY <1>1, <1>2 DEF Stashed, TabsOk
<1>4. IsFiniteSet(S)
  BY <1>1, <1>3, FiniteTabs
<1>5. DOMAIN SetToSeq(S) = 1 .. Cardinality(S)
  BY <1>4, SetToSeqFacts
<1>6. Burst(i) = s \o t
  BY <1>2, <1>5 DEF Burst, UpdatesOf
<1>7. /\ IsList(s) /\ \A k \in 1 .. Len(s) : s[k].tab \in S /\ s[k] = Event("updated", s[k].tab, f[s[k].tab])
      /\ \A x \in S : About(s, x)
  BY <1>2, <1>4, AllUpdated
<1>8. \A k \in 1 .. Len(s) : s[k].kind = "updated"
  BY <1>7, EventFacts
<1>9. EventsIn(s, opened, DOMAIN forObj, grouped, DOMAIN label)
  <2> SUFFICES ASSUME NEW k \in 1 .. Len(s)
               PROVE  EventIn(s[k], opened, DOMAIN forObj, grouped, DOMAIN label)
    BY <1>7 DEF EventsIn
  <2>1. PICK x, v : x = s[k].tab /\ v = f[x]
    OBVIOUS
  <2>2. s[k] = Event("updated", x, v) /\ x \in 1 .. opened
    BY <1>3, <1>7, <2>1
  <2>3. EventIn(Event("updated", x, v), opened, DOMAIN forObj, grouped, DOMAIN label)
    BY <2>2, TabEventIn
  <2> QED  BY <2>2, <2>3
<1>10. IsList(t) /\ EventsIn(t, opened, DOMAIN forObj, grouped, DOMAIN label)
  BY <1>1, <1>2 DEF EventsOk, EventsIn
<1>11. EventsOk(Burst(i))
  BY <1>6, <1>9, <1>10, EventsConcat DEF EventsOk
<1>12. \A kind, x : Has(s \o t, kind, x) <=> Has(s, kind, x) \/ Has(t, kind, x)
  BY <1>7, <1>10, HasConcat
<1>13. \A x : About(s \o t, x) <=> About(s, x) \/ About(t, x)
  BY <1>7, <1>10, HasConcat
<1>14. \A x : (Has(s, "updated", x) => x \in S) /\ ~Has(s, "removed", x) /\ (About(s, x) <=> x \in S)
  BY <1>7, <1>8 DEF Has, About
<1>15. \A R : OrderedBut(t, R) => OrderedBut(s \o t, R)
  <2> TAKE R
  <2> HAVE OrderedBut(t, R)
  <2>1. OrderedBut(s, R)
    BY <1>8 DEF OrderedBut
  <2> QED  BY <1>7, <1>10, <1>14, <2>1, OrderedConcat
<1> QED  BY <1>2, <1>6, <1>11, <1>12, <1>13, <1>14, <1>15

\* f goes through the burst es, of length m.
Chain(i, f, es, m) ==
  /\ es = Burst(i) /\ m = Len(es) /\ m \in Nat /\ EventsOk(es)
  /\ f[0] = Prefetched /\ f[m] = StageAll(i)
  /\ \A k \in 0 .. m : AccOk(f[k])
  /\ \A k \in 1 .. m : Staged(f[k - 1], es[k], f[k])

LEMMA StageChain ==
  ASSUME Shape, NEW i \in Slots
  PROVE  \E f, es, m : Chain(i, f, es, m)
<1>1. PICK es, m, base : es = Burst(i) /\ m = Len(es) /\ base = Prefetched
  OBVIOUS
<1>2. EventsOk(es)
  BY <1>1, BurstFacts
<1>3. IsList(es)
  BY <1>2 DEF EventsOk, EventsIn
<1>4. m \in Nat /\ DOMAIN es = 1 .. m
  BY <1>1, <1>3, ListFacts
<1>5. PICK f : /\ f[0] = base
               /\ \A k \in 1 .. m : f[k] = StageEvent(f[k - 1], es[k])
               /\ f[m] = FoldLeft(StageEvent, base, es)
  BY <1>4, StageSteps
<1>6. f[0] = Prefetched /\ f[m] = StageAll(i)
  BY <1>1, <1>5 DEF StageAll
<1>7. \A k \in 1 .. m : es[k].kind \in EventKinds /\ (es[k].kind = "groupUpdated" => es[k].grp # 0)
  BY <1>1, <1>2 DEF EventsOk, EventsIn, EventIn
<1>8. AccOk(f[0])
  <2>1. minted \in Nat
    BY DEF Shape, TabsOk
  <2> QED  BY <1>6, <2>1, NoEvents DEF Prefetched, AccOk, AccFields
<1>9. PICK G : G = {k \in 0 .. m : AccOk(f[k])}
  OBVIOUS
<1>10. \A k \in 1 .. m : k - 1 \in G => k \in G
  <2> SUFFICES ASSUME NEW k \in 1 .. m, k - 1 \in G PROVE k \in G
    OBVIOUS
  <2>1. AccOk(f[k - 1]) /\ k \in 0 .. m
    BY <1>4, <1>9
  <2>2. Staged(f[k - 1], es[k], f[k])
    BY <1>5, <1>7, <2>1, StageOne
  <2> QED  BY <1>9, <2>1, <2>2 DEF Staged
<1>11. 0 \in G
  BY <1>4, <1>8, <1>9
<1>12. \A k \in 0 .. m : k \in G
  BY <1>4, <1>10, <1>11, Upward
<1>13. \A k \in 0 .. m : AccOk(f[k])
  BY <1>9, <1>12
<1>14. \A k \in 1 .. m : Staged(f[k - 1], es[k], f[k])
  <2> TAKE k \in 1 .. m
  <2>1. k - 1 \in 0 .. m
    BY <1>4
  <2>2. AccOk(f[k - 1])
    BY <1>13, <2>1
  <2> QED  BY <1>5, <1>7, <2>2, StageOne
<1> QED  BY <1>1, <1>2, <1>4, <1>6, <1>13, <1>14 DEF Chain

LEMMA StageNumbers ==
  ASSUME Shape, NEW i \in Slots, NEW f, NEW es, NEW m, Chain(i, f, es, m)
  PROVE  \A k \in 0 .. m : minted <= f[k].next /\ DOMAIN f[k].tabMap \subseteq 1 .. opened
<1>1. PICK G : G = {k \in 0 .. m : minted <= f[k].next /\ DOMAIN f[k].tabMap \subseteq 1 .. opened}
  OBVIOUS
<1>2. m \in Nat /\ f[0] = Prefetched /\ minted \in Nat /\ DOMAIN tabMap \subseteq 1 .. opened
  BY DEF Chain, Shape, TabsOk
<1>3. f[0].next = minted /\ f[0].tabMap = tabMap
  BY <1>2 DEF Prefetched
<1>4. 0 \in G
  BY <1>1, <1>2, <1>3
<1>5. \A k \in 1 .. m : k - 1 \in G => k \in G
  <2> SUFFICES ASSUME NEW k \in 1 .. m, k - 1 \in G PROVE k \in G
    OBVIOUS
  <2>1. k \in 0 .. m /\ k - 1 \in 0 .. m /\ minted <= f[k - 1].next /\ DOMAIN f[k - 1].tabMap \subseteq 1 .. opened
    BY <1>1, <1>2
  <2>2. Staged(f[k - 1], es[k], f[k]) /\ AccOk(f[k - 1]) /\ AccOk(f[k])
    BY <2>1 DEF Chain
  <2>3. EventIn(es[k], opened, DOMAIN forObj, grouped, DOMAIN label)
    BY DEF Chain, EventsOk, EventsIn
  <2>4. es[k].kind \in {"created", "updated"} => es[k].tab \in 1 .. opened
    BY <2>3 DEF EventIn, TabKinds
  <2>5. DOMAIN f[k].tabMap \subseteq 1 .. opened
    BY <2>1, <2>2, <2>4 DEF Staged, StagedTabs, SameAt
  <2>6. minted <= f[k].next
    BY <1>2, <2>1, <2>2 DEF Staged, AccOk
  <2> QED  BY <1>1, <2>1, <2>5, <2>6
<1>6. \A k \in 0 .. m : k \in G
  BY <1>2, <1>4, <1>5, Upward
<1> QED  BY <1>1, <1>6

--------------------------------------------------------------------------------
(***************************************************************************)
(* Shape, for the other steps.                                             *)
(***************************************************************************)
\* A flush becomes new, and the numbers and groups that events name stay.
LEMMA FlushShape ==
  ASSUME Shape, NEW i \in Slots, NEW new, flush' = [flush EXCEPT ![i] = new],
         DOMAIN new = {"at", "events", "ops"}, EventsOk(new.events), new.at = "free" => new.events = << >>,
         UNCHANGED <<opened, grouped, forObj, label, tabs, loading, opening, tasks>>,
         minted' \in Nat, DOMAIN tabMap' \in SUBSET (1 .. opened), EventsOk(queue'),
         DOMAIN titles' \in SUBSET DOMAIN titles, timers' \in SUBSET DOMAIN titles'
  PROVE  Shape'
<1>1. TabsOk /\ FlushesOk /\ TasksOk
  BY DEF Shape
<1>2. TabsOk'
  BY <1>1 DEF TabsOk
<1>3. EventsOk(queue)'
  BY DEF EventsOk
<1>4. FlushesOk'
  <2>1. DOMAIN flush' = Slots /\ flush'[i] = new /\ \A j \in Slots : j # i => flush'[j] = flush[j]
    BY <1>1 DEF FlushesOk
  <2>2. \A j \in Slots : /\ DOMAIN flush'[j] = {"at", "events", "ops"}
                         /\ EventsOk(flush'[j].events)
                         /\ flush'[j].at = "free" => flush'[j].events = << >>
    BY <1>1, <2>1 DEF FlushesOk
  <2>3. \A j \in Slots : EventsIn(flush'[j].events, opened', DOMAIN forObj', grouped', DOMAIN label')
    BY <2>2 DEF EventsOk
  <2> QED  BY <2>1, <2>2, <2>3 DEF FlushesOk, EventsOk
<1>5. TasksOk'
  BY <1>1 DEF TasksOk
<1> QED  BY <1>2, <1>3, <1>4, <1>5 DEF Shape

LEMMA FreeFacts ==
  DOMAIN Free = {"at", "events", "ops"} /\ Free.at = "free" /\ Free.events = << >> /\ Free.ops = << >>
  /\ EventsOk(<< >>)
<1>1. EventsOk(<< >>)
  BY NoEvents DEF EventsOk
<1> QED  BY <1>1 DEF Free

LEMMA FlushTimerShape ==
  ASSUME Shape, NEW i \in Slots, FlushTimer(i), UNCHANGED remoteVars
  PROVE  Shape'
<1>1. TabsOk /\ EventsOk(queue) /\ FlushesOk
  BY DEF Shape
<1>2. PICK new : new = [Free EXCEPT !.at = "settings", !.events = queue]
  OBVIOUS
<1>3. DOMAIN new = {"at", "events", "ops"} /\ new.events = queue /\ new.at = "settings"
  BY <1>2, FreeFacts
<1>4. /\ flush' = [flush EXCEPT ![i] = new] /\ queue' = << >>
      /\ UNCHANGED <<titles, timers, browser, captured, opening>>
  BY <1>2 DEF FlushTimer
<1>5. UNCHANGED <<opened, grouped, forObj, label, tabs, loading, opening, tasks, minted, tabMap, titles, timers>>
  BY <1>4 DEF browser, captured, remoteVars
<1>6. EventsOk(queue')
  BY <1>4, FreeFacts
<1>7. minted' \in Nat /\ DOMAIN tabMap' \in SUBSET (1 .. opened) /\ timers' \in SUBSET DOMAIN titles'
  BY <1>1, <1>5 DEF TabsOk
<1> QED  BY <1>1, <1>3, <1>4, <1>5, <1>6, <1>7, FlushShape

LEMMA TabsOffShape ==
  ASSUME Shape, NEW i \in Slots, TabsOff(i), UNCHANGED remoteVars
  PROVE  Shape'
<1>1. TabsOk /\ EventsOk(queue)
  BY DEF Shape
<1>2. /\ flush' = [flush EXCEPT ![i] = Free] /\ titles' = None /\ timers' = {}
      /\ UNCHANGED <<queue, browser, captured, opening>>
  BY DEF TabsOff, ClearAllTimers
<1>3. UNCHANGED <<opened, grouped, forObj, label, tabs, loading, opening, tasks, minted, tabMap, queue>>
  BY <1>2 DEF browser, captured, remoteVars
<1>4. DOMAIN titles' = {}
  BY <1>2 DEF None
<1>5. minted' \in Nat /\ DOMAIN tabMap' \in SUBSET (1 .. opened) /\ timers' \in SUBSET DOMAIN titles'
  BY <1>1, <1>2, <1>3 DEF TabsOk
<1> QED  BY <1>1, <1>2, <1>3, <1>4, <1>5, FreeFacts, FlushShape

\* GroupsOff keeps some events, in order.
LEMMA GroupsOffFacts ==
  ASSUME Shape, NEW i \in Slots, GroupsOff(i)
  PROVE  \E S, new :
           /\ flush' = [flush EXCEPT ![i] = new] /\ DOMAIN new = {"at", "events", "ops"}
           /\ \/ new = Free
              \/ new.at = "settings" /\ new.events = KeepAt(flush[i].events, S) /\ new.ops = flush[i].ops
<1>1. DOMAIN flush[i] = {"at", "events", "ops"} /\ flush[i].at = "settings"
  BY DEF Shape, FlushesOk, GroupsOff
<1>2. PICK S : S = {k \in DOMAIN flush[i].events : flush[i].events[k].kind \notin {"groupUpdated", "groupRemoved"}}
  OBVIOUS
<1>3. PICK rest : rest = KeepAt(flush[i].events, S)
  OBVIOUS
<1>4. PICK new : new = IF rest = << >> THEN Free ELSE [flush[i] EXCEPT !.events = rest]
  OBVIOUS
<1>5. flush' = [flush EXCEPT ![i] = new]
  BY <1>2, <1>3, <1>4 DEF GroupsOff
<1>6. CASE rest = << >>
  BY <1>4, <1>5, <1>6, FreeFacts
<1>7. CASE rest # << >>
  <2>1. new = [flush[i] EXCEPT !.events = rest]
    BY <1>4, <1>7
  <2>2. DOMAIN new = {"at", "events", "ops"} /\ new.events = rest /\ new.ops = flush[i].ops /\ new.at = "settings"
    BY <1>1, <2>1
  <2> QED  BY <1>3, <1>5, <2>2
<1> QED  BY <1>6, <1>7

LEMMA GroupsOffShape ==
  ASSUME Shape, NEW i \in Slots, GroupsOff(i), UNCHANGED remoteVars
  PROVE  Shape'
<1>1. TabsOk /\ EventsOk(queue) /\ EventsOk(flush[i].events)
  BY DEF Shape, FlushesOk
<1>2. PICK S, new :
           /\ flush' = [flush EXCEPT ![i] = new] /\ DOMAIN new = {"at", "events", "ops"}
           /\ new = Free \/ (new.at = "settings" /\ new.events = KeepAt(flush[i].events, S))
  BY GroupsOffFacts
<1>3. UNCHANGED <<pending, browser, captured, opening>>
  BY DEF GroupsOff
<1>4. UNCHANGED <<opened, grouped, forObj, label, tabs, loading, opening, tasks, minted, tabMap, queue, titles, timers>>
  BY <1>3 DEF browser, captured, pending, remoteVars
<1>5. EventsOk(KeepAt(flush[i].events, S))
  BY <1>1, EventsKept DEF EventsOk
<1>6. EventsOk(new.events) /\ (new.at = "free" => new.events = << >>)
  BY <1>2, <1>5, FreeFacts
<1>7. minted' \in Nat /\ DOMAIN tabMap' \in SUBSET (1 .. opened) /\ timers' \in SUBSET DOMAIN titles'
  BY <1>1, <1>4 DEF TabsOk
<1> QED  BY <1>1, <1>2, <1>4, <1>6, <1>7, FlushShape

\* A flush has staged its burst.
StagedFlush(i, done, new) ==
  /\ done = StageAll(i) /\ flush[i].at = "settings"
  /\ tabMap' = done.tabMap /\ grpMap' = done.grpMap /\ minted' = done.next
  /\ flush' = [flush EXCEPT ![i] = new] /\ DOMAIN new = {"at", "events", "ops"}
  /\ \/ new = Free /\ done.ops = << >>
     \/ new.at = "ops" /\ new.events = Burst(i) /\ new.ops = Coalesce(done.ops)

LEMMA StageFlush ==
  ASSUME NEW i \in Slots, Stage(i)
  PROVE  \E done, new : StagedFlush(i, done, new)
<1>1. PICK done : done = StageAll(i)
  OBVIOUS
<1>2. PICK new : new = IF done.ops = << >> THEN Free
                       ELSE [at |-> "ops", events |-> Burst(i), ops |-> Coalesce(done.ops)]
  OBVIOUS
<1>3. DOMAIN new = {"at", "events", "ops"}
  BY <1>2, FreeFacts
<1>4. /\ flush[i].at = "settings" /\ tabMap' = done.tabMap /\ grpMap' = done.grpMap /\ minted' = done.next
      /\ flush' = [flush EXCEPT ![i] = new]
  BY <1>1, <1>2 DEF Stage
<1>5. \/ new = Free /\ done.ops = << >>
      \/ new.at = "ops" /\ new.events = Burst(i) /\ new.ops = Coalesce(done.ops)
  BY <1>2
<1>6. StagedFlush(i, done, new)
  BY <1>1, <1>3, <1>4, <1>5 DEF StagedFlush
<1> QED  BY <1>6

LEMMA StageShape ==
  ASSUME Shape, NEW i \in Slots, Stage(i), UNCHANGED remoteVars
  PROVE  Shape'
<1>1. TabsOk /\ EventsOk(queue)
  BY DEF Shape
<1>2. PICK done, new : StagedFlush(i, done, new)
  BY StageFlush
<1>3. PICK f, es, m : Chain(i, f, es, m)
  BY StageChain
<1>4. m \in 0 .. m /\ f[m] = done /\ AccOk(done)
  BY <1>2, <1>3 DEF Chain, StagedFlush
<1>5. minted' \in Nat /\ DOMAIN tabMap' \in SUBSET (1 .. opened)
  BY <1>2, <1>3, <1>4, StageNumbers DEF StagedFlush, AccOk
<1>6. EventsOk(new.events) /\ (new.at = "free" => new.events = << >>)
  BY <1>2, BurstFacts, FreeFacts DEF StagedFlush
<1>7. UNCHANGED <<queue, timers, browser, opening>> /\ titles' = Without(titles, Stashed)
  BY DEF Stage
<1>8. UNCHANGED <<opened, grouped, forObj, label, tabs, loading, opening, tasks, queue, timers>>
  BY <1>7 DEF browser, remoteVars
<1>9. DOMAIN titles' = DOMAIN titles \ Stashed
  BY <1>7 DEF Without
<1>10. DOMAIN titles' \in SUBSET DOMAIN titles /\ timers' \in SUBSET DOMAIN titles'
  BY <1>1, <1>8, <1>9 DEF TabsOk, Stashed
<1>11. flush' = [flush EXCEPT ![i] = new] /\ DOMAIN new = {"at", "events", "ops"}
  BY <1>2 DEF StagedFlush
<1> QED  BY <1>1, <1>5, <1>6, <1>8, <1>10, <1>11, FlushShape

LEMMA CreateOperationsShape ==
  ASSUME Shape, NEW i \in Slots, CreateOperations(i), UNCHANGED remoteVars
  PROVE  Shape'
<1>1. TabsOk /\ EventsOk(queue) /\ FlushesOk
  BY DEF Shape
<1>2. DOMAIN flush[i] = {"at", "events", "ops"} /\ EventsOk(flush[i].events)
  BY <1>1 DEF FlushesOk
<1>3. PICK new : new = [flush[i] EXCEPT !.at = "states"]
  OBVIOUS
<1>4. DOMAIN new = {"at", "events", "ops"} /\ new.events = flush[i].events /\ new.at = "states"
  BY <1>2, <1>3
<1>5. flush' = [flush EXCEPT ![i] = new] /\ UNCHANGED <<tabMap, minted, pending, browser, opening>>
  BY <1>3 DEF CreateOperations
<1>6. UNCHANGED <<opened, grouped, forObj, label, tabs, loading, opening, tasks, minted, tabMap, queue, titles, timers>>
  BY <1>5 DEF browser, pending, remoteVars
<1>7. minted' \in Nat /\ DOMAIN tabMap' \in SUBSET (1 .. opened) /\ timers' \in SUBSET DOMAIN titles'
  BY <1>1, <1>6 DEF TabsOk
<1> QED  BY <1>1, <1>2, <1>4, <1>5, <1>6, <1>7, FlushShape

LEMMA RecordStatesShape ==
  ASSUME Shape, NEW i \in Slots, RecordStates(i), UNCHANGED remoteVars
  PROVE  Shape'
<1>1. TabsOk /\ EventsOk(queue)
  BY DEF Shape
<1>2. flush' = [flush EXCEPT ![i] = Free] /\ UNCHANGED <<tabMap, minted, pending, browser, opening>>
  BY DEF RecordStates
<1>3. UNCHANGED <<opened, grouped, forObj, label, tabs, loading, opening, tasks, minted, tabMap, queue, titles, timers>>
  BY <1>2 DEF browser, pending, remoteVars
<1>4. minted' \in Nat /\ DOMAIN tabMap' \in SUBSET (1 .. opened) /\ timers' \in SUBSET DOMAIN titles'
  BY <1>1, <1>3 DEF TabsOk
<1> QED  BY <1>1, <1>2, <1>3, <1>4, FreeFacts, FlushShape

\* What opening a tab does.
Opens(k, n) ==
  /\ k \in DOMAIN tasks /\ tasks[k].at = "create" /\ n = opened + 1 /\ opened' = n
  /\ DOMAIN tabs' = DOMAIN tabs \union {n}
  /\ tabs'[n].grp = 0 /\ DOMAIN tabs'[n] = {"page", "grp"}
  /\ \A t \in DOMAIN tabs : t # n => tabs'[t] = tabs[t]
  /\ opening' = opening \union {n} /\ loading' = loading \union {n}
  /\ DOMAIN forObj' = DOMAIN forObj \union {n} /\ forObj'[n] = tasks[k].obj
  /\ \A t \in DOMAIN forObj : t # n => forObj'[t] = forObj[t]
  /\ DOMAIN tasks' = DOMAIN tasks /\ \A j \in DOMAIN tasks : j # k => tasks'[j] = tasks[j]
  /\ DOMAIN tasks'[k] = TaskFields /\ tasks'[k].obj = tasks[k].obj
  /\ tasks'[k].at = "link" /\ tasks'[k].tab = n
  /\ UNCHANGED <<label, captured, pending, flush, ghosts, lock, freed, made, grouped>>

LEMMA CreateOpens ==
  ASSUME Shape, NEW k, Create(k)
  PROVE  \E n : Opens(k, n)
<1>1. k \in DOMAIN tasks /\ tasks[k].at = "create" /\ DOMAIN tasks[k] = TaskFields
  BY DEF Create, AtPc, Shape, TasksOk
<1>2. PICK n, v : n = opened' /\ v = [page |-> tasks[k].val.page, grp |-> 0]
  OBVIOUS
<1>3. /\ n = opened + 1 /\ tabs' = With(tabs, n, v) /\ opening' = opening \union {n}
      /\ loading' = loading \union {n} /\ forObj' = With(forObj, n, tasks[k].obj)
  BY <1>2 DEF Create
<1>4. tasks' = [tasks EXCEPT ![k] = [[tasks[k] EXCEPT !.at = "link", !.tab = n] EXCEPT !.called = FALSE]]
  BY <1>2 DEF Create, Returns, Goes
<1>5. UNCHANGED <<label, captured, pending, flush, ghosts, lock, freed, made, grouped>>
  BY DEF Create
<1>6. /\ DOMAIN tabs' = DOMAIN tabs \union {n} /\ tabs'[n] = v
      /\ \A t \in DOMAIN tabs : t # n => tabs'[t] = tabs[t]
  BY <1>3 DEF With, Over
<1>7. /\ DOMAIN forObj' = DOMAIN forObj \union {n} /\ forObj'[n] = tasks[k].obj
      /\ \A t \in DOMAIN forObj : t # n => forObj'[t] = forObj[t]
  BY <1>3 DEF With, Over
<1>8. v.grp = 0 /\ DOMAIN v = {"page", "grp"}
  BY <1>2
<1>9. DOMAIN tasks' = DOMAIN tasks /\ \A j \in DOMAIN tasks : j # k => tasks'[j] = tasks[j]
  BY <1>4
<1>10. /\ DOMAIN tasks'[k] = TaskFields /\ tasks'[k].obj = tasks[k].obj
       /\ tasks'[k].at = "link" /\ tasks'[k].tab = n
  BY <1>1, <1>4 DEF TaskFields
<1>11. Opens(k, n)
  BY <1>1, <1>2, <1>3, <1>5, <1>6, <1>7, <1>8, <1>9, <1>10 DEF Opens
<1> QED  BY <1>11

LEMMA CreateShape ==
  ASSUME Shape, NEW k, Create(k)
  PROVE  Shape'
<1>1. TabsOk /\ EventsOk(queue) /\ FlushesOk /\ TasksOk /\ opened \in Nat
  BY DEF Shape, TabsOk
<1>2. PICK n : Opens(k, n)
  BY CreateOpens
<1>3. n = opened + 1 /\ n \in 1 .. n /\ n \notin 1 .. opened /\ \A t \in 1 .. opened : t \in 1 .. n
  BY <1>1, <1>2 DEF Opens
<1>4. Growth
  BY <1>1, <1>2, <1>3 DEF Growth, Opens, TabsOk
<1>5. TabsOk'
  <2>1. opened' \in Nat /\ minted' \in Nat /\ grouped' \in Nat /\ opened' = n
    BY <1>1, <1>2 DEF TabsOk, Opens, captured
  <2>2. DOMAIN tabs' \in SUBSET (1 .. n) /\ DOMAIN forObj' \in SUBSET (1 .. n)
    BY <1>1, <1>2, <1>3 DEF TabsOk, Opens
  <2>3. DOMAIN tabMap' \in SUBSET (1 .. n) /\ DOMAIN titles' \in SUBSET (1 .. n)
    BY <1>1, <1>2, <1>3 DEF TabsOk, Opens, captured, pending
  <2>4. timers' \in SUBSET DOMAIN titles' /\ loading' \in SUBSET (1 .. n)
    BY <1>1, <1>2, <1>3 DEF TabsOk, Opens, pending
  <2>5. opening' \in SUBSET DOMAIN forObj'
    BY <1>1, <1>2 DEF TabsOk, Opens
  <2>6. \A t \in DOMAIN tabs' : DOMAIN tabs'[t] = {"page", "grp"}
    BY <1>1, <1>2 DEF TabsOk, Opens
  <2> QED  BY <2>1, <2>2, <2>3, <2>4, <2>5, <2>6 DEF TabsOk
<1>6. EventsOk(queue)'
  BY <1>1, <1>2, <1>4, EventsStay DEF EventsOk, Opens, pending
<1>7. FlushesOk'
  BY <1>1, <1>2, <1>4, FlushesStay DEF Opens
<1>8. TasksOk'
  BY <1>1, <1>2 DEF TasksOk, Opens
<1> QED  BY <1>5, <1>6, <1>7, <1>8 DEF Shape

\* What linking a tab does.
Links(k) ==
  /\ k \in DOMAIN tasks /\ tasks[k].at = "link"
  /\ DOMAIN tabMap' = DOMAIN tabMap \union {tasks[k].tab} /\ tabMap'[tasks[k].tab] = tasks[k].obj
  /\ \A t \in DOMAIN tabMap : t # tasks[k].tab => tabMap'[t] = tabMap[t]
  /\ opening' = opening \ {tasks[k].tab}
  /\ DOMAIN tasks' = DOMAIN tasks /\ \A j \in DOMAIN tasks : j # k => tasks'[j] = tasks[j]
  /\ DOMAIN tasks'[k] = TaskFields /\ tasks'[k].obj = tasks[k].obj /\ tasks'[k].at \in {"done", "lock"}
  /\ UNCHANGED <<grpMap, state, minted, sent, browser, pending, flush, ghosts,
                 lock, loading, forObj, freed, made, grouped>>

LEMMA LinkLinks ==
  ASSUME Shape, NEW k, Link(k)
  PROVE  Links(k)
<1>1. k \in DOMAIN tasks /\ tasks[k].at = "link" /\ DOMAIN tasks[k] = TaskFields
  BY DEF Link, AtPc, Shape, TasksOk
<1>2. /\ tabMap' = With(tabMap, tasks[k].tab, tasks[k].obj) /\ opening' = opening \ {tasks[k].tab}
      /\ UNCHANGED <<grpMap, state, minted, sent, browser, pending, flush, ghosts,
                     lock, loading, forObj, freed, made, grouped>>
  BY DEF Link
<1>3. PICK pc \in {"done", "lock"} : tasks' = [tasks EXCEPT ![k] = [tasks[k] EXCEPT !.at = pc]]
  BY DEF Link, AfterTab, Goes
<1>4. DOMAIN tasks' = DOMAIN tasks /\ \A j \in DOMAIN tasks : j # k => tasks'[j] = tasks[j]
  BY <1>3
<1>5. DOMAIN tasks'[k] = TaskFields /\ tasks'[k].obj = tasks[k].obj /\ tasks'[k].at \in {"done", "lock"}
  BY <1>1, <1>3 DEF TaskFields
<1>6. /\ DOMAIN tabMap' = DOMAIN tabMap \union {tasks[k].tab} /\ tabMap'[tasks[k].tab] = tasks[k].obj
      /\ \A t \in DOMAIN tabMap : t # tasks[k].tab => tabMap'[t] = tabMap[t]
  BY <1>2 DEF With, Over
<1> QED  BY <1>1, <1>2, <1>4, <1>5, <1>6 DEF Links

LEMMA QuietShape ==
  ASSUME Shape, UNCHANGED <<opened, grouped, forObj, label, tabs, loading, minted, titles, timers, queue, flush>>,
         DOMAIN tabMap' \in SUBSET (1 .. opened), opening' \in SUBSET DOMAIN forObj, TasksOk'
  PROVE  Shape'
<1>1. TabsOk /\ EventsOk(queue) /\ FlushesOk
  BY DEF Shape
<1>2. TabsOk'
  BY <1>1 DEF TabsOk
<1>3. EventsOk(queue)'
  BY <1>1 DEF EventsOk
<1>4. Growth
  BY <1>1 DEF Growth, TabsOk
<1>5. FlushesOk'
  BY <1>1, <1>4, FlushesStay
<1> QED  BY <1>2, <1>3, <1>5 DEF Shape

\* A call that links a tab has opened it.
LEMMA LinkShape ==
  ASSUME Shape, LinkingOk, NEW k, Link(k)
  PROVE  Shape'
<1>1. Links(k) /\ TabsOk /\ TasksOk
  BY LinkLinks DEF Shape
<1>2. tasks[k].tab \in 1 .. opened
  BY <1>1 DEF LinkingOk, Links, TabsOk
<1>3. DOMAIN tabMap' \in SUBSET (1 .. opened) /\ opening' \in SUBSET DOMAIN forObj
  BY <1>1, <1>2 DEF Links, TabsOk
<1>4. TasksOk'
  BY <1>1 DEF TasksOk, Links
<1>5. UNCHANGED <<opened, grouped, forObj, label, tabs, loading, minted, titles, timers, queue, flush>>
  BY <1>1 DEF Links, browser, pending
<1> QED  BY <1>3, <1>4, <1>5, QuietShape

LEMMA DropClosedShape ==
  ASSUME Shape, DropClosed
  PROVE  Shape'
<1>1. TabsOk /\ TasksOk
  BY DEF Shape
<1>2. /\ UNCHANGED <<opened, grouped, forObj, label, tabs, loading, minted, titles, timers, queue, flush, opening, tasks>>
      /\ tabMap' = Without(tabMap, {t \in DOMAIN tabMap : tabMap[t] \in drops})
  BY DEF DropClosed, browser, pending
<1>3. DOMAIN tabMap' \in SUBSET (1 .. opened) /\ opening' \in SUBSET DOMAIN forObj
  BY <1>1, <1>2 DEF TabsOk, Without
<1>4. TasksOk'
  BY <1>1, <1>2 DEF TasksOk
<1> QED  BY <1>2, <1>3, <1>4, QuietShape

LEMMA CrashShape ==
  ASSUME Shape, Crash
  PROVE  Shape'
<1>1. TabsOk /\ opened \in Nat
  BY DEF Shape, TabsOk
<1>2. /\ titles' = None /\ timers' = {} /\ flush' = [i \in Slots |-> Free] /\ opening' = {} /\ tasks' = << >>
      /\ UNCHANGED <<opened, tabs, label, tabMap, minted, loading, forObj, grouped>>
  BY DEF Crash, CaptureCrash, ClearAllTimers, browser, captured
<1>3. DOMAIN titles' = {} /\ DOMAIN tasks' = {}
  BY <1>2 DEF None
<1>4. TabsOk'
  BY <1>1, <1>2, <1>3 DEF TabsOk
<1>5. TasksOk'
  BY <1>3 DEF TasksOk
<1>6. FlushesOk'
  <2>1. \A i \in Slots : flush'[i] = Free
    BY <1>2
  <2>2. EventsIn(<< >>, opened', DOMAIN forObj', grouped', DOMAIN label')
    BY NoEvents
  <2> QED  BY <1>2, <2>1, <2>2, FreeFacts DEF FlushesOk, EventsOk
<1>7. PICK S, f : S = DOMAIN tabs /\ f = tabs
  OBVIOUS
<1>8. queue' = UpdatesOf(S, f)
  BY <1>7 DEF Crash, CaptureCrash, UpdatesOf
<1>9. S \in SUBSET (1 .. opened)
  BY <1>1, <1>7 DEF TabsOk
<1>10. PICK es : es = UpdatesOf(S, f)
  OBVIOUS
<1>11. IsList(es) /\ \A k \in 1 .. Len(es) : es[k].tab \in S /\ es[k] = Event("updated", es[k].tab, f[es[k].tab])
  <2>1. IsFiniteSet(S)
    BY <1>1, <1>9, FiniteTabs
  <2> QED  BY <1>10, <2>1, AllUpdated
<1>12. EventsIn(es, opened', DOMAIN forObj', grouped', DOMAIN label')
  <2> SUFFICES ASSUME NEW k \in 1 .. Len(es)
               PROVE  EventIn(es[k], opened', DOMAIN forObj', grouped', DOMAIN label')
    BY <1>11 DEF EventsIn
  <2>1. PICK x, v : x = es[k].tab /\ v = f[x]
    OBVIOUS
  <2>2. es[k] = Event("updated", x, v) /\ x \in 1 .. opened'
    BY <1>2, <1>9, <1>11, <2>1
  <2>3. EventIn(Event("updated", x, v), opened', DOMAIN forObj', grouped', DOMAIN label')
    BY <2>2, TabEventIn
  <2> QED  BY <2>2, <2>3
<1>13. EventsOk(queue)'
  BY <1>8, <1>10, <1>12 DEF EventsOk
<1> QED  BY <1>4, <1>5, <1>6, <1>13 DEF Shape

--------------------------------------------------------------------------------
(***************************************************************************)
(* GroupInv.  Most steps leave the groups, their mappings and the calls    *)
(* that hold the lock alone.                                               *)
(***************************************************************************)
Settled ==
  /\ UNCHANGED <<made, grouped, grpMap, lock>> /\ DOMAIN label' = DOMAIN label
  /\ \A t \in DOMAIN tabs' : tabs'[t].grp = 0 \/ (t \in DOMAIN tabs /\ tabs'[t].grp = tabs[t].grp)
  /\ \A k \in DOMAIN tasks' : tasks'[k].at \in Holding =>
       k \in DOMAIN tasks /\ tasks[k].at = tasks'[k].at /\ tasks[k].grp = tasks'[k].grp
  /\ \A k \in DOMAIN tasks : tasks[k].at \in Holding =>
       k \in DOMAIN tasks' /\ tasks[k].at = tasks'[k].at /\ tasks[k].grp = tasks'[k].grp

LEMMA SettledGroups ==
  ASSUME GroupInv, Settled
  PROVE  GroupInv'
<1>1. MembersOk /\ GroupsOk /\ LockOk /\ HolderOk /\ MadeOk
  BY DEF GroupInv
<1>2. MembersOk'
  BY <1>1 DEF MembersOk, Settled
<1>3. Mapped' = Mapped
  BY DEF Mapped, Settled
<1>4. GroupsOk'
  BY <1>1, <1>3 DEF GroupsOk, Settled
<1>5. LockOk'
  BY <1>1 DEF LockOk, Settled
<1>6. HolderOk'
  <2> SUFFICES ASSUME NEW k \in DOMAIN tasks', tasks'[k].at \in Holding
               PROVE  HeldIn(tasks'[k].at, tasks'[k].grp, Mapped', grouped', DOMAIN label')
    BY DEF HolderOk
  <2>1. k \in DOMAIN tasks /\ tasks[k].at = tasks'[k].at /\ tasks[k].grp = tasks'[k].grp
    BY DEF Settled
  <2>2. grpMap' = grpMap /\ grouped' = grouped /\ DOMAIN label' = DOMAIN label
    BY DEF Settled
  <2>3. HeldIn(tasks[k].at, tasks[k].grp, Mapped, grouped, DOMAIN label)
    BY <1>1, <2>1 DEF HolderOk
  <2> QED  BY <1>3, <2>1, <2>2, <2>3
<1>7. MadeOk'
  <2> SUFFICES ASSUME NEW g \in made' \cap DOMAIN label'
               PROVE  g \in Mapped' \/ \E k \in DOMAIN tasks' : tasks'[k].at = "linkGroup" /\ tasks'[k].grp = g
    BY DEF MadeOk
  <2>1. g \in made \cap DOMAIN label
    BY DEF Settled
  <2>2. CASE g \in Mapped
    BY <1>3, <2>2
  <2>3. CASE \E k \in DOMAIN tasks : tasks[k].at = "linkGroup" /\ tasks[k].grp = g
    <3>1. PICK k \in DOMAIN tasks : tasks[k].at = "linkGroup" /\ tasks[k].grp = g
      BY <2>3
    <3>2. "linkGroup" \in Holding
      BY DEF Holding
    <3> QED  BY <3>1, <3>2 DEF Settled
  <2> QED  BY <1>1, <2>1, <2>2, <2>3 DEF MadeOk
<1> QED  BY <1>2, <1>4, <1>5, <1>6, <1>7 DEF GroupInv

\* Calls that do not hold the lock, and will not.
LEMMA CallSettles ==
  ASSUME Shape, NEW k \in DOMAIN tasks, DOMAIN tasks' = DOMAIN tasks,
         \A j \in DOMAIN tasks : j # k => tasks'[j] = tasks[j],
         \/ tasks[k].at \notin Holding /\ tasks'[k].at \notin Holding
         \/ tasks'[k].at = tasks[k].at /\ tasks'[k].grp = tasks[k].grp,
         UNCHANGED <<made, grouped, grpMap, lock>>, DOMAIN label' = DOMAIN label,
         \A t \in DOMAIN tabs' : tabs'[t].grp = 0 \/ (t \in DOMAIN tabs /\ tabs'[t].grp = tabs[t].grp)
  PROVE  Settled
<1> QED  BY DEF Settled

LEMMA NewPageSettles ==
  ASSUME Shape, Idle, NEW t \in DOMAIN tabs, Navigate(t) \/ Retitle(t)
  PROVE  Settled
<1>1. PICK snap : snap = [tabs[t] EXCEPT !.page = @ + 1]
  OBVIOUS
<1>2. tabs' = [tabs EXCEPT ![t] = snap] /\ label' = label
  BY <1>1 DEF Navigate, Retitle, NewPage
<1>3. DOMAIN tabs[t] = {"page", "grp"}
  BY DEF Shape, TabsOk
<1>4. snap.grp = tabs[t].grp
  BY <1>1, <1>3
<1>5. UNCHANGED <<made, grouped, grpMap, lock, tasks>>
  BY DEF Idle, remoteVars, captured
<1> QED  BY <1>2, <1>4, <1>5 DEF Settled

LEMMA OpenTabSettles ==
  ASSUME Shape, Idle, OpenTab
  PROVE  Settled
<1>1. PICK p : tabs' = With(tabs, opened', [page |-> p, grp |-> 0]) /\ label' = label
  BY DEF OpenTab
<1>2. PICK v : v = [page |-> p, grp |-> 0]
  OBVIOUS
<1>3. /\ DOMAIN tabs' = DOMAIN tabs \union {opened'} /\ tabs'[opened'] = v
      /\ \A t \in DOMAIN tabs : t # opened' => tabs'[t] = tabs[t]
  BY <1>1, <1>2 DEF With, Over
<1>4. UNCHANGED <<made, grouped, grpMap, lock, tasks>>
  BY DEF Idle, remoteVars, captured
<1>5. v.grp = 0
  BY <1>2
<1> QED  BY <1>1, <1>3, <1>4, <1>5 DEF Settled

LEMMA SameSettles ==
  ASSUME UNCHANGED <<made, grouped, grpMap, lock, label, tabs, tasks>>
  PROVE  Settled
<1> QED  BY DEF Settled

\* A tab is closed, and its group with it when it was the last.
LEMMA CloseTabGroups ==
  ASSUME Shape, GroupInv, Idle, NEW t \in DOMAIN tabs, CloseTab(t)
  PROVE  GroupInv'
<1>1. MembersOk /\ GroupsOk /\ LockOk /\ HolderOk /\ MadeOk
  BY DEF GroupInv
<1>2. UNCHANGED <<made, grouped, grpMap, lock, tasks>>
  BY DEF Idle, remoteVars, captured
<1>3. /\ DOMAIN tabs' = DOMAIN tabs \ {t} /\ (\A u \in DOMAIN tabs' : tabs'[u] = tabs[u])
      /\ DOMAIN label' = DOMAIN label \ LeftEmpty(t)
  BY DEF CloseTab, Without
<1>4. MembersOk'
  <2> SUFFICES ASSUME NEW u \in DOMAIN tabs', tabs'[u].grp # 0 PROVE tabs'[u].grp \in DOMAIN label'
    BY DEF MembersOk
  <2>1. u \in DOMAIN tabs /\ u # t /\ tabs'[u].grp = tabs[u].grp /\ tabs[u].grp \in DOMAIN label
    BY <1>1, <1>3 DEF MembersOk
  <2>2. tabs[u].grp \notin LeftEmpty(t)
    <3> SUFFICES ASSUME tabs[u].grp \in LeftEmpty(t) PROVE FALSE
      OBVIOUS
    <3>1. tabs[u].grp = tabs[t].grp /\ Members(tabs[t].grp) = {t}
      BY DEF LeftEmpty
    <3>2. u \in Members(tabs[t].grp)
      BY <2>1, <3>1 DEF Members
    <3> QED  BY <2>1, <3>1, <3>2
  <2> QED  BY <1>3, <2>1, <2>2
<1>5. Mapped' = Mapped
  BY <1>2 DEF Mapped
<1>6. GroupsOk'
  BY <1>1, <1>2, <1>3, <1>5 DEF GroupsOk
<1>7. LockOk'
  BY <1>1, <1>2 DEF LockOk
<1>8. HolderOk'
  <2> SUFFICES ASSUME NEW k \in DOMAIN tasks', tasks'[k].at \in Holding
               PROVE  HeldIn(tasks'[k].at, tasks'[k].grp, Mapped', grouped', DOMAIN label')
    BY DEF HolderOk
  <2>1. tasks' = tasks /\ grpMap' = grpMap /\ grouped' = grouped /\ DOMAIN label' \subseteq DOMAIN label
    BY <1>2, <1>3
  <2>2. HeldIn(tasks[k].at, tasks[k].grp, Mapped, grouped, DOMAIN label)
    BY <1>1, <2>1 DEF HolderOk
  <2> QED  BY <1>5, <2>1, <2>2 DEF HeldIn
<1>9. MadeOk'
  <2> SUFFICES ASSUME NEW g \in made' \cap DOMAIN label'
               PROVE  g \in Mapped' \/ \E k \in DOMAIN tasks' : tasks'[k].at = "linkGroup" /\ tasks'[k].grp = g
    BY DEF MadeOk
  <2>1. g \in made \cap DOMAIN label /\ tasks' = tasks
    BY <1>2, <1>3
  <2> QED  BY <1>1, <1>5, <2>1 DEF MadeOk
<1> QED  BY <1>4, <1>6, <1>7, <1>8, <1>9 DEF GroupInv

\* A tab is put in group 1, which is none of those made for the remote one.
LEMMA GroupTabGroups ==
  ASSUME Shape, GroupInv, Idle, NEW t \in DOMAIN tabs, GroupTab(t)
  PROVE  GroupInv'
<1>1. MembersOk /\ GroupsOk /\ LockOk /\ HolderOk /\ MadeOk
  BY DEF GroupInv
<1>2. UNCHANGED <<made, grouped, grpMap, lock, tasks>> /\ grouped \in Nat
  BY DEF Idle, remoteVars, captured, Shape, TabsOk
<1>3. tabs' = [tabs EXCEPT ![t].grp = 1] /\ label' = With(label, 1, 1)
  BY DEF GroupTab
<1>4. DOMAIN label' = DOMAIN label \union {1}
  BY <1>3 DEF With, Over
<1>5. DOMAIN tabs[t] = {"page", "grp"}
  BY DEF Shape, TabsOk
<1>6. DOMAIN tabs' = DOMAIN tabs /\ \A u \in DOMAIN tabs : tabs'[u].grp = IF u = t THEN 1 ELSE tabs[u].grp
  BY <1>3, <1>5
<1>7. MembersOk'
  BY <1>1, <1>4, <1>6 DEF MembersOk
<1>8. Mapped' = Mapped
  BY <1>2 DEF Mapped
<1>9. 1 \in 1 .. 1 + grouped /\ 1 \notin 2 .. 1 + grouped
  BY <1>2
<1>10. GroupsOk'
  BY <1>1, <1>2, <1>4, <1>8, <1>9 DEF GroupsOk
<1>11. LockOk'
  BY <1>1, <1>2 DEF LockOk
<1>12. HolderOk'
  <2> SUFFICES ASSUME NEW k \in DOMAIN tasks', tasks'[k].at \in Holding
               PROVE  HeldIn(tasks'[k].at, tasks'[k].grp, Mapped', grouped', DOMAIN label')
    BY DEF HolderOk
  <2>1. tasks' = tasks /\ grpMap' = grpMap /\ grouped' = grouped
    BY <1>2
  <2>2. HeldIn(tasks[k].at, tasks[k].grp, Mapped, grouped, DOMAIN label)
    BY <1>1, <2>1 DEF HolderOk
  <2>3. tasks[k].grp # 1
    BY <1>9, <2>2 DEF HeldIn
  <2> QED  BY <1>4, <1>8, <2>1, <2>2, <2>3 DEF HeldIn
<1>13. MadeOk'
  <2> SUFFICES ASSUME NEW g \in made' \cap DOMAIN label'
               PROVE  g \in Mapped' \/ \E k \in DOMAIN tasks' : tasks'[k].at = "linkGroup" /\ tasks'[k].grp = g
    BY DEF MadeOk
  <2>1. g \in made /\ g # 1 /\ tasks' = tasks
    BY <1>1, <1>2, <1>9 DEF GroupsOk
  <2>2. g \in made \cap DOMAIN label
    BY <1>4, <2>1
  <2> QED  BY <1>1, <1>8, <2>1, <2>2 DEF MadeOk
<1> QED  BY <1>7, <1>10, <1>11, <1>12, <1>13 DEF GroupInv

\* Only the call that has the lock is at the steps that need it.
LEMMA OneHolder ==
  ASSUME Shape, GroupInv
  PROVE  \A j, k \in DOMAIN tasks : tasks[j].at \in Holding /\ tasks[k].at \in Holding => j = k /\ lock = k /\ lock # 0
<1>1. \A k \in DOMAIN tasks : k # 0
  BY DEF Shape, TasksOk
<1> QED  BY <1>1 DEF GroupInv, LockOk

LEMMA TakeLockGroups ==
  ASSUME Shape, GroupInv, NEW k, TakeLock(k)
  PROVE  GroupInv'
<1>1. MembersOk /\ GroupsOk /\ LockOk /\ HolderOk /\ MadeOk /\ TasksOk
  BY DEF GroupInv, Shape
<1>2. k \in DOMAIN tasks /\ DOMAIN tasks[k] = TaskFields /\ lock = 0 /\ lock' = k
  BY <1>1 DEF TakeLock, AtPc, LockFree, TasksOk
<1>3. \A j \in DOMAIN tasks : tasks[j].at \notin Holding
  BY <1>2, OneHolder
<1>4. PICK h : h = IF Mapped = {} THEN 0 ELSE CHOOSE g \in Mapped : TRUE
  OBVIOUS
<1>5. tasks' = [tasks EXCEPT ![k] = [tasks[k] EXCEPT !.at = "join", !.grp = h]]
  BY <1>4 DEF TakeLock, Goes, Mapped
<1>6. /\ DOMAIN tasks' = DOMAIN tasks /\ tasks'[k].at = "join" /\ tasks'[k].grp = h
      /\ \A j \in DOMAIN tasks : j # k => tasks'[j] = tasks[j]
  BY <1>2, <1>5 DEF TaskFields
<1>7. UNCHANGED <<tabs, label, grouped, made, grpMap>>
  BY DEF TakeLock, captured, browser
<1>8. Mapped' = Mapped
  BY <1>7 DEF Mapped
<1>9. MembersOk'
  BY <1>1, <1>7 DEF MembersOk
<1>10. GroupsOk'
  BY <1>1, <1>7, <1>8 DEF GroupsOk
<1>11. "join" \in Holding /\ k # 0
  BY <1>1, <1>2 DEF Holding, TasksOk
<1>12. LockOk'
  BY <1>2, <1>3, <1>6, <1>11 DEF LockOk
<1>13. HeldIn("join", h, Mapped, grouped, DOMAIN label)
  <2>1. CASE Mapped = {}
    <3>1. h = 0 /\ 0 \notin DOMAIN label
      BY <1>1, <1>4, <2>1 DEF GroupsOk
    <3> QED  BY <2>1, <3>1 DEF HeldIn
  <2>2. CASE Mapped # {}
    <3>1. h \in Mapped
      BY <1>4, <2>2
    <3>2. h \in 2 .. 1 + grouped /\ h # 0 /\ Mapped \subseteq {h}
      BY <1>1, <3>1 DEF GroupsOk
    <3> QED  BY <3>1, <3>2 DEF HeldIn
  <2> QED  BY <2>1, <2>2
<1>14. HolderOk'
  <2> SUFFICES ASSUME NEW j \in DOMAIN tasks', tasks'[j].at \in Holding
               PROVE  HeldIn(tasks'[j].at, tasks'[j].grp, Mapped', grouped', DOMAIN label')
    BY DEF HolderOk
  <2>1. j = k
    BY <1>3, <1>6
  <2> QED  BY <1>6, <1>7, <1>8, <1>13, <2>1
<1>15. MadeOk'
  <2> SUFFICES ASSUME NEW g \in made' \cap DOMAIN label' PROVE g \in Mapped'
    BY DEF MadeOk
  <2>1. g \in made \cap DOMAIN label
    BY <1>7
  <2>2. "linkGroup" \in Holding
    BY DEF Holding
  <2> QED  BY <1>1, <1>3, <1>8, <2>1, <2>2 DEF MadeOk
<1> QED  BY <1>9, <1>10, <1>12, <1>14, <1>15 DEF GroupInv

LEMMA JoinGroups ==
  ASSUME Shape, GroupInv, NEW k, Join(k)
  PROVE  GroupInv'
<1>1. MembersOk /\ GroupsOk /\ LockOk /\ HolderOk /\ MadeOk /\ TasksOk /\ grouped \in Nat
  BY DEF GroupInv, Shape, TabsOk
<1>2. /\ k \in DOMAIN tasks /\ tasks[k].at = "join" /\ DOMAIN tasks' = DOMAIN tasks
      /\ \A j \in DOMAIN tasks : j # k => tasks'[j] = tasks[j]
      /\ UNCHANGED captured
  BY JoinCases
<1>3. Mapped' = Mapped
  BY <1>2 DEF Mapped, captured
<1>4. "join" \in Holding /\ "linkGroup" \in Holding /\ "thrown" \notin Holding
  BY DEF Holding
<1>5. lock = k /\ k # 0 /\ \A j \in DOMAIN tasks : tasks[j].at \in Holding => j = k
  BY <1>2, <1>4, OneHolder
<1>6. HeldIn("join", tasks[k].grp, Mapped, grouped, DOMAIN label)
  BY <1>1, <1>2, <1>4 DEF HolderOk
<1>7. \A g \in made \cap DOMAIN label : g \in Mapped
  BY <1>1, <1>2, <1>4, <1>5 DEF MadeOk
<1>8. CASE JoinFails(k)
  <2>1. UNCHANGED <<tabs, label, made, grouped>> /\ tasks'[k].at = "thrown" /\ lock' = 0
    BY <1>8 DEF JoinFails
  <2>2. \A j \in DOMAIN tasks' : tasks'[j].at \notin Holding
    BY <1>2, <1>4, <1>5, <2>1
  <2>3. MembersOk'
    BY <1>1, <2>1 DEF MembersOk
  <2>4. GroupsOk'
    BY <1>1, <1>3, <2>1 DEF GroupsOk
  <2>5. LockOk'
    BY <2>1, <2>2 DEF LockOk
  <2>6. HolderOk'
    BY <2>2 DEF HolderOk
  <2>7. MadeOk'
    BY <1>3, <1>7, <2>1 DEF MadeOk
  <2> QED  BY <2>3, <2>4, <2>5, <2>6, <2>7 DEF GroupInv
<1>9. CASE \E t, g, gone : JoinsTo(k, t, g, gone)
  <2>1. PICK t, g, gone : JoinsTo(k, t, g, gone)
    BY <1>9
  <2>2. g \in 2 .. 1 + grouped' /\ grouped' \in Nat /\ grouped <= grouped' /\ Mapped \subseteq {g}
    <3>1. CASE tasks[k].grp = 0
      <4>1. g = 2 + grouped /\ grouped' = grouped + 1 /\ Mapped = {}
        BY <1>6, <2>1, <3>1 DEF JoinsTo, HeldIn
      <4> QED  BY <1>1, <4>1
    <3>2. CASE tasks[k].grp # 0
      <4>1. g = tasks[k].grp /\ grouped' = grouped
        BY <2>1, <3>2 DEF JoinsTo
      <4> QED  BY <1>1, <1>6, <3>2, <4>1 DEF HeldIn
    <3> QED  BY <3>1, <3>2
  <2>a. PICK c, d : c = grouped /\ d = grouped'
    OBVIOUS
  <2>b. c \in Nat /\ d \in Nat /\ c <= d
    BY <1>1, <2>2, <2>a
  <2>c. /\ \A n \in 1 .. 1 + c : n \in 1 .. 1 + d
        /\ \A n \in 2 .. 1 + c : n \in 2 .. 1 + d
        /\ \A n \in 2 .. 1 + d : n \in 1 .. 1 + d
    BY <2>b
  <2>3. /\ \A n \in 1 .. 1 + grouped : n \in 1 .. 1 + grouped'
        /\ \A n \in 2 .. 1 + grouped' : n \in 1 .. 1 + grouped'
    BY <2>a, <2>c
  <2>4. \A n \in 2 .. 1 + grouped : n \in 2 .. 1 + grouped'
    BY <2>a, <2>c
  <2>5. MembersOk'
    <3> SUFFICES ASSUME NEW u \in DOMAIN tabs', tabs'[u].grp # 0 PROVE tabs'[u].grp \in DOMAIN label'
      BY DEF MembersOk
    <3>1. u \in DOMAIN tabs /\ tabs'[u].grp = IF u = t THEN g ELSE tabs[u].grp
      BY <2>1 DEF JoinsTo
    <3>2. g \notin gone /\ DOMAIN label' = (DOMAIN label \union {g}) \ gone
      BY <2>1 DEF JoinsTo
    <3>3. CASE u = t
      BY <3>1, <3>2, <3>3
    <3>4. CASE u # t
      <4>1. tabs[u].grp \in DOMAIN label
        BY <1>1, <3>1, <3>4 DEF MembersOk
      <4>2. tabs[u].grp \notin LeftEmpty(t)
        <5> SUFFICES ASSUME tabs[u].grp \in LeftEmpty(t) PROVE FALSE
          OBVIOUS
        <5>1. tabs[u].grp = tabs[t].grp /\ Members(tabs[t].grp) = {t}
          BY DEF LeftEmpty
        <5>2. u \in Members(tabs[t].grp)
          BY <3>1, <5>1 DEF Members
        <5> QED  BY <3>4, <5>1, <5>2
      <4>3. tabs[u].grp \notin gone
        BY <2>1, <4>2 DEF JoinsTo
      <4> QED  BY <3>1, <3>2, <3>4, <4>1, <4>3
    <3> QED  BY <3>3, <3>4
  <2>6. GroupsOk'
    <3>1. DOMAIN label' \in SUBSET (1 .. 1 + grouped')
      <4>1. g \in 1 .. 1 + grouped'
        BY <2>2, <2>3
      <4> QED  BY <1>1, <2>1, <2>3, <4>1 DEF JoinsTo, GroupsOk
    <3>2. made' \in SUBSET (2 .. 1 + grouped') /\ Mapped' \in SUBSET (2 .. 1 + grouped')
      BY <1>1, <1>3, <2>1, <2>2, <2>4 DEF JoinsTo, GroupsOk
    <3> QED  BY <1>1, <1>3, <3>1, <3>2 DEF GroupsOk
  <2>7. tasks'[k].at = "linkGroup" /\ tasks'[k].grp = g /\ lock' = lock
    BY <2>1 DEF JoinsTo
  <2>8. LockOk'
    BY <1>2, <1>4, <1>5, <2>7 DEF LockOk
  <2>9. HolderOk'
    <3>1. HeldIn("linkGroup", g, Mapped', grouped', DOMAIN label')
      BY <1>3, <2>2 DEF HeldIn
    <3>2. \A j \in DOMAIN tasks' : tasks'[j].at \in Holding => j = k
      BY <1>2, <1>5
    <3> QED  BY <2>7, <3>1, <3>2 DEF HolderOk
  <2>10. MadeOk'
    <3> SUFFICES ASSUME NEW x \in made' \cap DOMAIN label', x # g PROVE x \in Mapped'
      BY <1>2, <2>7 DEF MadeOk
    <3>1. x \in made \cap DOMAIN label
      BY <2>1 DEF JoinsTo
    <3> QED  BY <1>3, <1>7, <3>1
  <2> QED  BY <2>5, <2>6, <2>8, <2>9, <2>10 DEF GroupInv
<1> QED  BY <1>8, <1>9, JoinCases

LEMMA LinkGroupGroups ==
  ASSUME Shape, GroupInv, NEW k, LinkGroup(k)
  PROVE  GroupInv'
<1>1. MembersOk /\ GroupsOk /\ LockOk /\ HolderOk /\ MadeOk /\ TasksOk
  BY DEF GroupInv, Shape
<1>2. k \in DOMAIN tasks /\ tasks[k].at = "linkGroup" /\ DOMAIN tasks[k] = TaskFields
  BY <1>1 DEF LinkGroup, AtPc, TasksOk
<1>3. tasks' = [tasks EXCEPT ![k] = [tasks[k] EXCEPT !.at = "done"]] /\ lock' = 0
  BY DEF LinkGroup, Done, Goes
<1>4. DOMAIN tasks' = DOMAIN tasks /\ tasks'[k].at = "done" /\ \A j \in DOMAIN tasks : j # k => tasks'[j] = tasks[j]
  BY <1>2, <1>3 DEF TaskFields
<1>5. "linkGroup" \in Holding /\ "done" \notin Holding
  BY DEF Holding
<1>6. \A j \in DOMAIN tasks' : tasks'[j].at \notin Holding
  BY <1>2, <1>4, <1>5, OneHolder
<1>7. UNCHANGED <<tabs, grouped, made>> /\ DOMAIN label' = DOMAIN label
  BY DEF LinkGroup
<1>8. PICK h : h = tasks[k].grp
  OBVIOUS
<1>9. h \in 2 .. 1 + grouped /\ Mapped \subseteq {h}
  BY <1>1, <1>2, <1>5, <1>8 DEF HolderOk, HeldIn
<1>10. Mapped' = {h}
  <2>1. grpMap' = With(grpMap, h, TheirGroup)
    BY <1>8 DEF LinkGroup
  <2>2. h \in DOMAIN grpMap' /\ grpMap'[h] = TheirGroup
    BY <2>1 DEF With, Over
  <2>3. \A g \in DOMAIN grpMap' : g # h => g \in DOMAIN grpMap /\ grpMap'[g] = grpMap[g]
    BY <2>1 DEF With, Over
  <2> QED  BY <1>9, <2>2, <2>3 DEF Mapped
<1>11. MembersOk'
  BY <1>1, <1>7 DEF MembersOk
<1>12. GroupsOk'
  BY <1>1, <1>7, <1>9, <1>10 DEF GroupsOk
<1>13. LockOk'
  BY <1>3, <1>6 DEF LockOk
<1>14. HolderOk'
  BY <1>6 DEF HolderOk
<1>15. MadeOk'
  <2> SUFFICES ASSUME NEW g \in made' \cap DOMAIN label' PROVE g \in Mapped'
    BY DEF MadeOk
  <2>1. g \in made \cap DOMAIN label
    BY <1>7
  <2>2. CASE g \in Mapped
    BY <1>9, <1>10, <2>2
  <2>3. CASE \E j \in DOMAIN tasks : tasks[j].at = "linkGroup" /\ tasks[j].grp = g
    BY <1>2, <1>5, <1>8, <1>10, <2>3, OneHolder
  <2> QED  BY <1>1, <2>1, <2>2, <2>3 DEF MadeOk
<1> QED  BY <1>11, <1>12, <1>13, <1>14, <1>15 DEF GroupInv

LEMMA CrashGroups ==
  ASSUME Shape, GroupInv, Crash
  PROVE  GroupInv'
<1>1. MembersOk /\ GroupsOk
  BY DEF GroupInv
<1>2. tasks' = << >> /\ lock' = 0 /\ made' = {} /\ UNCHANGED <<tabs, label, grpMap, grouped>>
  BY DEF Crash, CaptureCrash, browser, captured
<1>3. DOMAIN tasks' = {} /\ Mapped' = Mapped
  BY <1>2 DEF Mapped
<1>4. MembersOk'
  BY <1>1, <1>2 DEF MembersOk
<1>5. GroupsOk'
  BY <1>1, <1>2, <1>3 DEF GroupsOk
<1>6. LockOk' /\ HolderOk' /\ MadeOk'
  BY <1>2, <1>3 DEF LockOk, HolderOk, MadeOk
<1> QED  BY <1>4, <1>5, <1>6 DEF GroupInv

\* Staging drops the mapping of a group for the remote one only after the group
\* is gone, and makes none.
MappedIn(f) == {g \in DOMAIN f : f[g] = TheirGroup}

LEMMA StageMapped ==
  ASSUME Shape, GroupInv, NEW i \in Slots, NEW f, NEW es, NEW m, Chain(i, f, es, m)
  PROVE  \A k \in 0 .. m : MappedIn(f[k].grpMap) \subseteq Mapped /\ Mapped \cap DOMAIN label \subseteq MappedIn(f[k].grpMap)
<1>1. PICK G : G = {k \in 0 .. m : /\ MappedIn(f[k].grpMap) \subseteq Mapped
                                   /\ Mapped \cap DOMAIN label \subseteq MappedIn(f[k].grpMap)}
  OBVIOUS
<1>2. m \in Nat /\ f[0] = Prefetched
  BY DEF Chain
<1>3. f[0].grpMap = grpMap
  BY <1>2 DEF Prefetched
<1>4. 0 \in G
  BY <1>1, <1>2, <1>3 DEF Mapped, MappedIn
<1>5. \A k \in 1 .. m : k - 1 \in G => k \in G
  <2> SUFFICES ASSUME NEW k \in 1 .. m, k - 1 \in G PROVE k \in G
    OBVIOUS
  <2>1. PICK a, b, e : a = f[k - 1] /\ b = f[k] /\ e = es[k]
    OBVIOUS
  <2>2. k \in 0 .. m /\ k - 1 \in 0 .. m
    BY <1>2
  <2>3. MappedIn(a.grpMap) \subseteq Mapped /\ Mapped \cap DOMAIN label \subseteq MappedIn(a.grpMap)
    BY <1>1, <2>1
  <2>4. Staged(a, e, b) /\ AccOk(a)
    BY <2>1, <2>2 DEF Chain
  <2>5. EventIn(e, opened, DOMAIN forObj, grouped, DOMAIN label)
    BY <2>1 DEF Chain, EventsOk, EventsIn
  <2>6. StagedGroups(a, e, b) /\ a.next \in Nat
    BY <2>4 DEF Staged, AccOk
  <2>7. a.next + 1 # TheirGroup
    <3>1. TheirGroup \in Int /\ TheirGroup < 0
      BY TheirsAssumption
    <3> QED  BY <2>6, <3>1
  <2>8. MappedIn(b.grpMap) \subseteq MappedIn(a.grpMap)
    BY <2>6, <2>7 DEF StagedGroups, SameAt, MappedIn
  <2>9. Mapped \in SUBSET (2 .. 1 + grouped)
    BY DEF GroupInv, GroupsOk
  <2>10. \A g \in Mapped \cap DOMAIN label : ~(e.kind = "groupRemoved" /\ g = e.grp)
    BY <2>5, <2>9 DEF EventIn
  <2>11. Mapped \cap DOMAIN label \subseteq MappedIn(b.grpMap)
    BY <2>3, <2>6, <2>10 DEF StagedGroups, SameAt, MappedIn
  <2> QED  BY <1>1, <2>1, <2>2, <2>3, <2>8, <2>11
<1>6. \A k \in 0 .. m : k \in G
  BY <1>2, <1>4, <1>5, Upward
<1> QED  BY <1>1, <1>6

LEMMA StageGroups ==
  ASSUME Shape, GroupInv, NEW i \in Slots, Stage(i), UNCHANGED remoteVars
  PROVE  GroupInv'
<1>1. MembersOk /\ GroupsOk /\ LockOk /\ HolderOk /\ MadeOk
  BY DEF GroupInv
<1>2. PICK done, new : StagedFlush(i, done, new)
  BY StageFlush
<1>3. PICK f, es, m : Chain(i, f, es, m)
  BY StageChain
<1>4. m \in 0 .. m /\ f[m].grpMap = grpMap'
  BY <1>2, <1>3 DEF Chain, StagedFlush
<1>5. Mapped' = MappedIn(f[m].grpMap)
  BY <1>4 DEF Mapped, MappedIn
<1>6. Mapped' \subseteq Mapped /\ Mapped \cap DOMAIN label \subseteq Mapped'
  BY <1>3, <1>4, <1>5, StageMapped
<1>7. UNCHANGED <<tabs, label, lock, tasks, made, grouped>>
  BY DEF Stage, browser, remoteVars
<1>8. MembersOk' /\ LockOk'
  BY <1>1, <1>7 DEF MembersOk, LockOk
<1>9. GroupsOk'
  BY <1>1, <1>6, <1>7 DEF GroupsOk
<1>10. HolderOk'
  <2> SUFFICES ASSUME NEW k \in DOMAIN tasks', tasks'[k].at \in Holding
               PROVE  HeldIn(tasks'[k].at, tasks'[k].grp, Mapped', grouped', DOMAIN label')
    BY DEF HolderOk
  <2>1. HeldIn(tasks[k].at, tasks[k].grp, Mapped, grouped, DOMAIN label)
    BY <1>1, <1>7 DEF HolderOk
  <2> QED  BY <1>6, <1>7, <2>1 DEF HeldIn
<1>11. MadeOk'
  <2> SUFFICES ASSUME NEW g \in made' \cap DOMAIN label'
               PROVE  g \in Mapped' \/ \E k \in DOMAIN tasks' : tasks'[k].at = "linkGroup" /\ tasks'[k].grp = g
    BY DEF MadeOk
  <2>1. g \in made \cap DOMAIN label /\ tasks' = tasks
    BY <1>7
  <2> QED  BY <1>1, <1>6, <2>1 DEF MadeOk
<1> QED  BY <1>8, <1>9, <1>10, <1>11 DEF GroupInv

\* The calls a batch or a restore begins with hold nothing.
LEMMA FreshSettles ==
  ASSUME IsList(tasks), NEW s, Joined(s), UNCHANGED <<made, grouped, grpMap, lock, label, tabs>>
  PROVE  Settled
<1>1. /\ \A k \in DOMAIN tasks' : (k \in DOMAIN tasks /\ tasks'[k] = tasks[k]) \/ Fresh(tasks'[k])
      /\ \A k \in DOMAIN tasks : k \in DOMAIN tasks' /\ tasks'[k] = tasks[k]
  BY JoinedFacts
<1>2. \A k \in DOMAIN tasks' : Fresh(tasks'[k]) => tasks'[k].at \notin Holding
  BY DEF Fresh, Holding
<1> QED  BY <1>1, <1>2 DEF Settled

LEMMA ApplyBatchSettles ==
  ASSUME Shape, IsList(tasks), ApplyBatch
  PROVE  Settled
<1>1. PICK s : Joined(s)
  BY ApplyBatchFresh
<1>2. UNCHANGED <<made, grouped, grpMap, lock, label, tabs>>
  BY DEF ApplyBatch
<1> QED  BY <1>1, <1>2, FreshSettles

LEMMA RestoreAllSettles ==
  ASSUME IsList(tasks), RestoreAll
  PROVE  Settled
<1>1. PICK s : Joined(s)
  BY RestoreAllFresh
<1>2. UNCHANGED <<made, grouped, grpMap, lock, label, tabs>>
  BY DEF RestoreAll, captured
<1> QED  BY <1>1, <1>2, FreshSettles

LEMMA FinishSettles ==
  ASSUME Finish
  PROVE  Settled
<1>1. tasks' = << >> /\ UNCHANGED <<made, grouped, grpMap, lock, label, tabs>>
  BY DEF Finish, captured, browser
<1>2. DOMAIN tasks' = {}
  BY <1>1
<1>3. \A k \in DOMAIN tasks : tasks[k].at \notin Holding
  BY DEF Finish, Holding
<1> QED  BY <1>1, <1>2, <1>3 DEF Settled

\* The steps of a call that do not need the lock.
LEMMA CallStepSettles ==
  ASSUME Shape, NEW k, GuardRun(k) \/ Lookup(k) \/ Relabel(k) \/ Update(k) \/ Create(k) \/ Link(k)
  PROVE  Settled
<1>1. TasksOk /\ TabsOk
  BY DEF Shape
<1>2. k \in DOMAIN tasks /\ DOMAIN tasks[k] = TaskFields
  <2>1. k \in DOMAIN tasks
    BY DEF GuardRun, Lookup, Relabel, Update, Create, Link, AtPc
  <2> QED  BY <1>1, <2>1 DEF TasksOk
<1>3. \A pc \in {"create", "update", "link", "lookup", "label", "done", "thrown", "lock"} : pc \notin Holding
  BY DEF Holding
<1>4. CASE GuardRun(k)
  <2>1. PICK new : new = [tasks[k] EXCEPT !.called = TRUE]
    OBVIOUS
  <2>2. new.at = tasks[k].at /\ new.grp = tasks[k].grp
    BY <1>2, <2>1 DEF TaskFields
  <2>3. tasks' = [tasks EXCEPT ![k] = new] /\ UNCHANGED <<made, grouped, grpMap, lock, label, tabs>>
    BY <1>4, <2>1 DEF GuardRun, Goes, captured, browser
  <2>4. DOMAIN tasks' = DOMAIN tasks /\ tasks'[k] = new /\ \A j \in DOMAIN tasks : j # k => tasks'[j] = tasks[j]
    BY <1>2, <2>3
  <2> QED  BY <1>2, <2>2, <2>3, <2>4, CallSettles
<1>5. CASE Lookup(k)
  <2>1. PICK known : known = {t \in DOMAIN tabMap : tabMap[t] = tasks[k].obj}
    OBVIOUS
  <2>2. PICK one : one = IF known = {} THEN [tasks[k] EXCEPT !.at = "create"]
                         ELSE [tasks[k] EXCEPT !.at = "update", !.tab = CHOOSE t \in known : TRUE]
    OBVIOUS
  <2>3. PICK none : none = [tasks[k] EXCEPT !.at = "done"]
    OBVIOUS
  <2>4. PICK new : new.at \in {"create", "update", "done"} /\ tasks' = [tasks EXCEPT ![k] = new]
    <3>1. one.at \in {"create", "update"} /\ none.at = "done"
      BY <1>2, <2>2, <2>3 DEF TaskFields
    <3>2. tasks' = [tasks EXCEPT ![k] = one] \/ tasks' = [tasks EXCEPT ![k] = none]
      BY <1>5, <2>1, <2>2, <2>3, Zenon DEF Lookup, Goes, Done
    <3> QED  BY <3>1, <3>2
  <2>5. tasks[k].at = "lookup" /\ UNCHANGED <<made, grouped, grpMap, lock, label, tabs>>
    BY <1>5 DEF Lookup, AtPc, captured, browser
  <2>6. DOMAIN tasks' = DOMAIN tasks /\ tasks'[k] = new /\ \A j \in DOMAIN tasks : j # k => tasks'[j] = tasks[j]
    BY <1>2, <2>4
  <2> QED  BY <1>2, <1>3, <2>4, <2>5, <2>6, CallSettles
<1>6. CASE Relabel(k)
  <2>1. PICK new : new = [tasks[k] EXCEPT !.at = "done"]
    OBVIOUS
  <2>2. new.at = "done"
    BY <1>2, <2>1 DEF TaskFields
  <2>3. tasks' = [tasks EXCEPT ![k] = new] /\ UNCHANGED <<made, grouped, grpMap, lock, tabs>> /\ tasks[k].at = "label"
    BY <1>6, <2>1 DEF Relabel, Done, Goes, AtPc, captured
  <2>4. DOMAIN label' = DOMAIN label
    BY <1>6 DEF Relabel
  <2>5. DOMAIN tasks' = DOMAIN tasks /\ tasks'[k] = new /\ \A j \in DOMAIN tasks : j # k => tasks'[j] = tasks[j]
    BY <1>2, <2>3
  <2> QED  BY <1>2, <1>3, <2>2, <2>3, <2>4, <2>5, CallSettles
<1>7. CASE Update(k)
  <2>1. PICK new : new.at \in {"done", "thrown", "lock"} /\ tasks' = [tasks EXCEPT ![k] = new]
    <3>1. PICK n1, n2 : /\ n1 = [AfterTab(tasks[k]) EXCEPT !.called = FALSE]
                        /\ n2 = [[tasks[k] EXCEPT !.at = "thrown"] EXCEPT !.called = FALSE]
      OBVIOUS
    <3>2. n1.at \in {"done", "lock"} /\ n2.at = "thrown"
      BY <1>2, <3>1 DEF AfterTab, TaskFields
    <3>3. tasks' = [tasks EXCEPT ![k] = n1] \/ tasks' = [tasks EXCEPT ![k] = n2]
      BY <1>7, <3>1 DEF Update, Returns, Goes
    <3> QED  BY <3>2, <3>3
  <2>2. tasks[k].at = "update" /\ UNCHANGED <<made, grouped, grpMap, lock, label>>
    BY <1>7 DEF Update, AtPc, captured
  <2>3. \A t \in DOMAIN tabs' : t \in DOMAIN tabs /\ tabs'[t].grp = tabs[t].grp
    BY <1>7, UpdateTends DEF Tends
  <2>4. DOMAIN tasks' = DOMAIN tasks /\ tasks'[k] = new /\ \A j \in DOMAIN tasks : j # k => tasks'[j] = tasks[j]
    BY <1>2, <2>1
  <2> QED  BY <1>2, <1>3, <2>1, <2>2, <2>3, <2>4, CallSettles
<1>8. CASE Create(k)
  <2>1. PICK n : Opens(k, n)
    BY <1>8, CreateOpens
  <2>2. \A t \in DOMAIN tabs' : tabs'[t].grp = 0 \/ (t \in DOMAIN tabs /\ tabs'[t].grp = tabs[t].grp)
    BY <2>1 DEF Opens
  <2>3. UNCHANGED <<made, grouped, grpMap, lock, label>>
    BY <2>1 DEF Opens, captured
  <2>4. /\ DOMAIN tasks' = DOMAIN tasks /\ \A j \in DOMAIN tasks : j # k => tasks'[j] = tasks[j]
        /\ tasks[k].at = "create" /\ tasks'[k].at = "link"
    BY <2>1 DEF Opens
  <2> QED  BY <1>2, <1>3, <2>2, <2>3, <2>4, CallSettles
<1>9. CASE Link(k)
  <2>1. Links(k)
    BY <1>9, LinkLinks
  <2>2. UNCHANGED <<made, grouped, grpMap, lock, label, tabs>>
    BY <2>1 DEF Links, browser
  <2>3. /\ DOMAIN tasks' = DOMAIN tasks /\ \A j \in DOMAIN tasks : j # k => tasks'[j] = tasks[j]
        /\ tasks[k].at = "link" /\ tasks'[k].at \in {"done", "lock"}
    BY <2>1 DEF Links
  <2> QED  BY <1>2, <1>3, <2>2, <2>3, CallSettles
<1> QED  BY <1>4, <1>5, <1>6, <1>7, <1>8, <1>9

LEMMA UserGroups ==
  ASSUME Shape, GroupInv, User, UNCHANGED remoteVars
  PROVE  GroupInv'
<1>1. Idle
  BY DEF User, Idle
<1>2. \/ OpenTab
      \/ \E t \in DOMAIN tabs : Navigate(t) \/ Retitle(t) \/ Activate(t) \/ CloseTab(t) \/ GroupTab(t)
  BY DEF User
<1>3. \A t \in DOMAIN tabs : Activate(t) => Settled
  <2> SUFFICES ASSUME NEW t \in DOMAIN tabs, Activate(t) PROVE Settled
    OBVIOUS
  <2>1. UNCHANGED <<made, grouped, grpMap, lock, label, tabs, tasks>>
    BY <1>1 DEF Activate, Idle, captured, remoteVars
  <2> QED  BY <2>1, SameSettles
<1>4. CASE OpenTab
  BY <1>1, <1>4, OpenTabSettles, SettledGroups
<1>5. CASE \E t \in DOMAIN tabs : Navigate(t) \/ Retitle(t) \/ Activate(t) \/ CloseTab(t) \/ GroupTab(t)
  <2>1. PICK t \in DOMAIN tabs : Navigate(t) \/ Retitle(t) \/ Activate(t) \/ CloseTab(t) \/ GroupTab(t)
    BY <1>5
  <2>2. CASE Navigate(t) \/ Retitle(t) \/ Activate(t)
    BY <1>1, <1>3, <2>2, NewPageSettles, SettledGroups
  <2>3. CASE CloseTab(t)
    BY <1>1, <2>3, CloseTabGroups
  <2>4. CASE GroupTab(t)
    BY <1>1, <2>4, GroupTabGroups
  <2> QED  BY <2>1, <2>2, <2>3, <2>4
<1> QED  BY <1>2, <1>4, <1>5

LEMMA CaptureGroups ==
  ASSUME Shape, GroupInv, CaptureStep, UNCHANGED remoteVars
  PROVE  GroupInv'
<1>1. CASE User
  BY <1>1, UserGroups
<1>2. CASE Suspend
  <2>1. UNCHANGED <<made, grouped, grpMap, lock, label, tabs, tasks>>
    BY <1>2 DEF Suspend, captured, browser, remoteVars
  <2> QED  BY <2>1, SameSettles, SettledGroups
<1>3. CASE \E t \in timers : TitleTimer(t)
  <2>1. UNCHANGED <<made, grouped, grpMap, lock, label, tabs, tasks>>
    BY <1>3 DEF TitleTimer, captured, browser, remoteVars
  <2> QED  BY <2>1, SameSettles, SettledGroups
<1>4. CASE \E i \in Slots : FlushTimer(i) \/ TabsOff(i) \/ GroupsOff(i) \/ CreateOperations(i) \/ RecordStates(i)
  <2>1. PICK i \in Slots : FlushTimer(i) \/ TabsOff(i) \/ GroupsOff(i) \/ CreateOperations(i) \/ RecordStates(i)
    BY <1>4
  <2>2. UNCHANGED <<made, grouped, grpMap, lock, label, tabs, tasks>>
    BY <2>1 DEF FlushTimer, TabsOff, GroupsOff, CreateOperations, RecordStates, captured, browser, remoteVars
  <2> QED  BY <2>2, SameSettles, SettledGroups
<1>5. CASE \E i \in Slots : Stage(i)
  BY <1>5, StageGroups
<1> QED  BY <1>1, <1>2, <1>3, <1>4, <1>5 DEF CaptureStep

LEMMA NextGroups ==
  ASSUME Shape, IsList(tasks), GroupInv, Next
  PROVE  GroupInv'
<1>1. CASE CaptureStep /\ UNCHANGED remoteVars
  BY <1>1, CaptureGroups
<1>2. CASE ApplyBatch \/ RestoreAll \/ Finish
  BY <1>2, ApplyBatchSettles, RestoreAllSettles, FinishSettles, SettledGroups
<1>3. CASE DropClosed \/ \E t \in loading : Loads(t)
  <2>1. UNCHANGED <<made, grouped, grpMap, lock, label, tabs, tasks>>
    BY <1>3 DEF DropClosed, Loads, captured, browser
  <2> QED  BY <2>1, SameSettles, SettledGroups
<1>4. CASE Crash
  BY <1>4, CrashGroups
<1>5. CASE \E k \in DOMAIN tasks :
             \/ GuardRun(k) \/ Relabel(k) \/ Lookup(k) \/ Create(k) \/ Link(k) \/ Update(k)
             \/ TakeLock(k) \/ Join(k) \/ LinkGroup(k)
  <2>1. PICK k \in DOMAIN tasks : \/ GuardRun(k) \/ Relabel(k) \/ Lookup(k) \/ Create(k) \/ Link(k) \/ Update(k)
                                  \/ TakeLock(k) \/ Join(k) \/ LinkGroup(k)
    BY <1>5
  <2>2. CASE GuardRun(k) \/ Lookup(k) \/ Relabel(k) \/ Update(k) \/ Create(k) \/ Link(k)
    BY <2>2, CallStepSettles, SettledGroups
  <2>3. CASE TakeLock(k)
    BY <2>3, TakeLockGroups
  <2>4. CASE Join(k)
    BY <2>4, JoinGroups
  <2>5. CASE LinkGroup(k)
    BY <2>5, LinkGroupGroups
  <2> QED  BY <2>1, <2>2, <2>3, <2>4, <2>5
<1> QED  BY <1>1, <1>2, <1>3, <1>4, <1>5 DEF Next

--------------------------------------------------------------------------------
(***************************************************************************)
(* OpenInv.                                                                *)
(***************************************************************************)
LEMMA HasFacts ==
  ASSUME Shape, NEW es, EventsOk(es)
  PROVE  /\ \A t : Has(es, "updated", t) \/ Has(es, "removed", t) => t \in 1 .. opened /\ About(es, t)
         /\ \A t : About(es, t) => t \in 0 .. opened
<1>1. \A k \in 1 .. Len(es) : EventIn(es[k], opened, DOMAIN forObj, grouped, DOMAIN label)
  BY DEF EventsOk, EventsIn
<1>2. opened \in Nat
  BY DEF Shape, TabsOk
<1>3. \A n \in 1 .. opened : n \in 0 .. opened
  BY <1>2
<1>4. \A k \in 1 .. Len(es) : es[k].kind \in {"updated", "removed"} => es[k].tab \in 1 .. opened
  BY <1>1 DEF EventIn, TabKinds
<1>5. \A k \in 1 .. Len(es) : es[k].tab \in 0 .. opened
  <2> TAKE k \in 1 .. Len(es)
  <2>1. EventIn(es[k], opened, DOMAIN forObj, grouped, DOMAIN label)
    BY <1>1
  <2>2. es[k].tab \in 1 .. opened \/ es[k].tab = 0
    BY <2>1 DEF EventIn
  <2> QED  BY <1>2, <1>3, <2>2
<1> QED  BY <1>4, <1>5 DEF Has, About

LEMMA OrderedMore ==
  \A es, R, Q : R \subseteq Q /\ OrderedBut(es, R) => OrderedBut(es, Q)
<1> QED  BY DEF OrderedBut

LEMMA NoneOrdered ==
  /\ \A R : OrderedBut(<< >>, R)
  /\ \A kind, t : ~Has(<< >>, kind, t)
  /\ \A t : ~About(<< >>, t)
<1>1. Len(<< >>) = 0 /\ 1 .. 0 = {}
  OBVIOUS
<1> QED  BY <1>1 DEF OrderedBut, Has, About

\* What the queue and the flushes say of closed tabs: q are the queued events,
\* es those of a flush, T the open tabs, H those with a timer, R the raced ones.
QueueClosed(q, t, T, H) == Has(q, "removed", t) => t \notin T /\ t \notin H

FlushClosed(q, es, t, T, H, R) ==
  Has(es, "removed", t) => t \notin T /\ t \notin H /\ (Has(q, "updated", t) => t \in R)

LEMMA ClosedFacts ==
  ClosedOk <=> /\ OrderedBut(queue, raced) /\ \A i \in Slots : OrderedBut(flush[i].events, raced)
               /\ \A t \in 1 .. opened : QueueClosed(queue, t, DOMAIN tabs, timers)
               /\ \A t \in 1 .. opened : \A i \in Slots :
                    FlushClosed(queue, flush[i].events, t, DOMAIN tabs, timers, raced)
<1> QED  BY DEF ClosedOk, Ordered, QueueClosed, FlushClosed

LEMMA ListensClosed ==
  ASSUME Shape, OpenInv, Listens
  PROVE  ClosedOk'
<1>1. PICK es : Queued(es) /\ queue' = queue \o es
  BY DEF Listens
<1>2. /\ IsList(queue) /\ IsList(es) /\ EventsOk(queue) /\ opened \in Nat /\ opened' \in Nat /\ opened <= opened'
      /\ \A i \in Slots : EventsOk(flush[i].events)
  BY <1>1 DEF Shape, EventsOk, EventsIn, Queued, TabsOk, Listens, Growth, FlushesOk
<1>3. \A kind, x : Has(queue', kind, x) <=> Has(queue, kind, x) \/ Has(es, kind, x)
  BY <1>1, <1>2, HasConcat
<1>4. ClosedOk
  BY DEF OpenInv
<1>5. /\ OrderedBut(queue, raced) /\ \A i \in Slots : OrderedBut(flush[i].events, raced)
      /\ \A t \in 1 .. opened : QueueClosed(queue, t, DOMAIN tabs, timers)
      /\ \A t \in 1 .. opened : \A i \in Slots :
           FlushClosed(queue, flush[i].events, t, DOMAIN tabs, timers, raced)
  BY <1>4, ClosedFacts
<1>6. /\ raced \subseteq raced' /\ timers' \subseteq timers \union DOMAIN tabs /\ flush' = flush
      /\ DOMAIN tabs' \subseteq DOMAIN tabs \union (opened + 1 .. opened')
  BY DEF Listens
<1>7. \A t \in 1 .. opened : t \notin opened + 1 .. opened'
  BY <1>2
<1>8. \A t \in 1 .. opened : t \notin DOMAIN tabs /\ t \notin timers => t \notin DOMAIN tabs' /\ t \notin timers'
  BY <1>6, <1>7
<1>9. /\ \A t : Has(es, "updated", t) =>
           \/ t \in DOMAIN tabs \union timers \union raced'
           \/ ~About(queue, t) /\ \A i \in Slots : ~About(flush[i].events, t)
      /\ \A t : Has(es, "removed", t) => t \notin DOMAIN tabs' /\ t \notin timers'
      /\ \A t, u : ~(Has(es, "removed", t) /\ Has(es, "updated", u))
  BY <1>1 DEF Queued
<1>10. \A t : Has(queue, "removed", t) => t \in 1 .. opened /\ About(queue, t)
  BY <1>2, HasFacts
<1>11. \A i \in Slots : \A t : Has(flush[i].events, "removed", t) => t \in 1 .. opened /\ About(flush[i].events, t)
  BY <1>2, HasFacts
<1>12. OrderedBut(queue', raced')
  <2>1. OrderedBut(queue, raced')
    BY <1>5, <1>6, OrderedMore
  <2>2. OrderedBut(es, raced')
    BY <1>9 DEF OrderedBut, Has
  <2>3. \A x : Has(queue, "removed", x) /\ Has(es, "updated", x) => x \in raced'
    BY <1>5, <1>9, <1>10 DEF QueueClosed
  <2>4. PICK q, r, R : q = queue /\ r = queue' /\ R = raced'
    OBVIOUS
  <2>5. OrderedBut(q \o es, R)
    BY <1>2, <2>1, <2>2, <2>3, <2>4, OrderedConcat
  <2> QED  BY <1>1, <2>4, <2>5
<1>13. \A i \in Slots : OrderedBut(flush'[i].events, raced')
  BY <1>5, <1>6, OrderedMore
<1>14. \A t \in 1 .. opened' : QueueClosed(queue', t, DOMAIN tabs', timers')
  <2> SUFFICES ASSUME NEW t, Has(queue', "removed", t) PROVE t \notin DOMAIN tabs' /\ t \notin timers'
    BY DEF QueueClosed
  <2>1. CASE Has(queue, "removed", t)
    BY <1>5, <1>8, <1>10, <2>1 DEF QueueClosed
  <2>2. CASE Has(es, "removed", t)
    BY <1>9, <2>2
  <2> QED  BY <1>3, <2>1, <2>2
<1>15. \A t \in 1 .. opened' : \A i \in Slots :
         FlushClosed(queue', flush'[i].events, t, DOMAIN tabs', timers', raced')
  <2> SUFFICES ASSUME NEW t, NEW i \in Slots, Has(flush[i].events, "removed", t)
               PROVE  t \notin DOMAIN tabs' /\ t \notin timers' /\ (Has(queue', "updated", t) => t \in raced')
    BY <1>6 DEF FlushClosed
  <2>1. t \in 1 .. opened /\ About(flush[i].events, t)
    BY <1>11
  <2>2. t \notin DOMAIN tabs /\ t \notin timers /\ (Has(queue, "updated", t) => t \in raced)
    BY <1>5, <2>1 DEF FlushClosed
  <2>3. Has(es, "updated", t) => t \in raced'
    BY <1>9, <2>1, <2>2
  <2> QED  BY <1>3, <1>6, <1>8, <2>1, <2>2, <2>3
<1>16. /\ OrderedBut(queue, raced)' /\ (\A i \in Slots : OrderedBut(flush[i].events, raced))'
       /\ (\A t \in 1 .. opened : QueueClosed(queue, t, DOMAIN tabs, timers))'
       /\ (\A t \in 1 .. opened : \A i \in Slots :
             FlushClosed(queue, flush[i].events, t, DOMAIN tabs, timers, raced))'
  BY <1>12, <1>13, <1>14, <1>15
<1> QED  BY <1>16 DEF ClosedOk, Ordered, QueueClosed, FlushClosed

LEMMA ListensOpen ==
  ASSUME Shape, OpenInv, Listens
  PROVE  OpenInv'
<1>1. LinkingOk /\ UnmappedOk /\ ApartOk /\ NotTakenForNew
  BY DEF OpenInv
<1>2. /\ UNCHANGED <<captured, flush, opening, forObj, freed>> /\ raced \subseteq raced' /\ unheard \subseteq unheard'
      /\ DOMAIN titles' \subseteq DOMAIN titles \union DOMAIN tabs
      /\ DOMAIN tabs' \subseteq DOMAIN tabs \union (opened + 1 .. opened')
      /\ DOMAIN tasks' = DOMAIN tasks
      /\ \A k \in DOMAIN tasks : tasks'[k] = tasks[k] \/ tasks'[k].at # "link"
  BY DEF Listens
<1>3. tabMap' = tabMap /\ Kept' \subseteq Kept
  BY <1>2 DEF captured, Kept
<1>4. LinkingOk'
  BY <1>1, <1>2, <1>3 DEF LinkingOk
<1>5. NotTakenForNew'
  <2>1. \A t \in Kept : t \in DOMAIN tabMap => tabMap[t] = forObj[t]
    BY <1>1 DEF NotTakenForNew, Kept
  <2>2. \A t \in Kept' : t \in DOMAIN tabMap' => tabMap'[t] = forObj'[t]
    BY <1>2, <1>3, <2>1
  <2> QED  BY <2>2 DEF NotTakenForNew, Kept
<1>6. PICK es : Queued(es) /\ queue' = queue \o es
  BY DEF Listens
<1>7. IsList(queue) /\ IsList(es) /\ opened \in Nat /\ opened' \in Nat /\ DOMAIN forObj \in SUBSET (1 .. opened)
  BY <1>6 DEF Shape, EventsOk, EventsIn, Queued, TabsOk, Listens, Growth
<1>8. \A x : Has(queue', "updated", x) <=> Has(queue, "updated", x) \/ Has(es, "updated", x)
  BY <1>6, <1>7, HasConcat
<1>9. UnmappedOk'
  <2> SUFFICES ASSUME NEW t \in Kept' \ (opening' \union DOMAIN tabMap')
               PROVE  /\ t \notin DOMAIN tabs' /\ t \notin DOMAIN titles' /\ ~Has(queue', "updated", t)
                      /\ \A i \in Slots : flush'[i].at = "settings" => ~Has(flush'[i].events, "updated", t)
    BY DEF UnmappedOk
  <2>1. t \in Kept \ (opening \union DOMAIN tabMap)
    BY <1>2, <1>3
  <2>2. /\ t \notin DOMAIN tabs /\ t \notin DOMAIN titles /\ ~Has(queue, "updated", t)
        /\ \A i \in Slots : flush[i].at = "settings" => ~Has(flush[i].events, "updated", t)
    BY <1>1, <2>1 DEF UnmappedOk
  <2>3. t \in 1 .. opened
    BY <1>7, <2>1 DEF Kept
  <2>4. t \notin opened + 1 .. opened'
    BY <1>7, <2>3
  <2>5. ~Has(es, "updated", t)
    BY <1>6, <2>2 DEF Queued
  <2> QED  BY <1>2, <1>8, <2>2, <2>4, <2>5
<1>10. ApartOk'
  <2> SUFFICES ASSUME NEW i \in Slots, NEW j \in Slots, i # j, NEW t,
                      About(flush[i].events, t), About(flush[j].events, t)
               PROVE  t \in raced
    BY <1>2 DEF ApartOk
  <2>1. EventsOk(flush[i].events)
    BY DEF Shape, FlushesOk
  <2>2. t \in 0 .. opened
    BY <2>1, HasFacts
  <2> QED  BY <1>1, <2>2 DEF ApartOk
<1>11. ClosedOk'
  BY ListensClosed
<1> QED  BY <1>4, <1>5, <1>9, <1>10, <1>11 DEF OpenInv

LEMMA TendsOpen ==
  ASSUME Shape, OpenInv, Tends
  PROVE  OpenInv'
<1>1. LinkingOk /\ UnmappedOk /\ ClosedOk /\ ApartOk /\ NotTakenForNew
  BY DEF OpenInv
<1>2. /\ UNCHANGED <<tabMap, opened, queue, titles, timers, flush, opening, unheard, raced, forObj, freed>>
      /\ DOMAIN tabs' = DOMAIN tabs
  BY DEF Tends
<1>3. Kept' = Kept
  BY <1>2 DEF Kept
<1>4. LinkingOk'
  <2>1. \A k \in DOMAIN tasks' : tasks'[k].at = "link" =>
          k \in DOMAIN tasks /\ tasks[k].at = "link" /\ tasks'[k].tab = tasks[k].tab /\ tasks'[k].obj = tasks[k].obj
    BY DEF Tends
  <2> QED  BY <1>1, <1>2, <2>1 DEF LinkingOk
<1>5. UnmappedOk'
  BY <1>1, <1>2, <1>3 DEF UnmappedOk
<1>6. ClosedOk'
  BY <1>1, <1>2 DEF ClosedOk, Ordered
<1>7. ApartOk' /\ NotTakenForNew'
  BY <1>1, <1>2 DEF ApartOk, NotTakenForNew
<1> QED  BY <1>4, <1>5, <1>6, <1>7 DEF OpenInv

\* es has no more than fs, in the same order.
Within(es, fs) ==
  /\ \A kind, t : Has(es, kind, t) => Has(fs, kind, t)
  /\ \A t : About(es, t) => About(fs, t)
  /\ \A R : OrderedBut(fs, R) => OrderedBut(es, R)

LEMMA NothingWithin ==
  \A es : Within(es, es) /\ Within(<< >>, es)
<1> QED  BY NoneOrdered DEF Within

LEMMA KeptWithin ==
  ASSUME NEW fs, IsList(fs), NEW S
  PROVE  Within(KeepAt(fs, S), fs)
<1>1. PICK es : es = KeepAt(fs, S)
  OBVIOUS
<1>2. KeptUpTo(KeepAt(fs, S), fs, S, Len(fs))
  BY KeepAtFacts
<1>3. PICK h : /\ \A j \in 1 .. Len(es) : h[j] \in 1 .. Len(fs) /\ es[j] = fs[h[j]]
               /\ \A a, b \in 1 .. Len(es) : a < b => h[a] < h[b]
  BY <1>1, <1>2 DEF KeptUpTo
<1>4. \A kind, t : Has(es, kind, t) => Has(fs, kind, t)
  BY <1>3 DEF Has
<1>5. \A t : About(es, t) => About(fs, t)
  BY <1>3 DEF About
<1>6. \A R : OrderedBut(fs, R) => OrderedBut(es, R)
  BY <1>3 DEF OrderedBut
<1>7. Within(es, fs)
  BY <1>4, <1>5, <1>6 DEF Within
<1> QED  BY <1>1, <1>7

\* A flush that ends, or goes on with no more than it had.
LEMMA FlushLess ==
  ASSUME Shape, OpenInv, NEW i \in Slots, NEW new, flush' = [flush EXCEPT ![i] = new],
         Within(new.events, flush[i].events), new.at = "settings" => flush[i].at = "settings",
         UNCHANGED <<opened, forObj, freed, tabs, tabMap, queue, opening, tasks, raced>>,
         DOMAIN titles' \subseteq DOMAIN titles, timers' \subseteq timers, unheard \subseteq unheard'
  PROVE  OpenInv'
<1>1. LinkingOk /\ UnmappedOk /\ ClosedOk /\ ApartOk /\ NotTakenForNew
  BY DEF OpenInv
<1>2. DOMAIN flush = Slots
  BY DEF Shape, FlushesOk
<1>3. /\ \A j \in Slots : Within(flush'[j].events, flush[j].events)
      /\ \A j \in Slots : flush'[j].at = "settings" => flush[j].at = "settings"
  <2> SUFFICES ASSUME NEW j \in Slots
               PROVE  Within(flush'[j].events, flush[j].events) /\ (flush'[j].at = "settings" => flush[j].at = "settings")
    OBVIOUS
  <2>1. CASE j = i
    BY <1>2, <2>1
  <2>2. CASE j # i
    BY <1>2, <2>2, NothingWithin
  <2> QED  BY <2>1, <2>2
<1>4. Kept' \subseteq Kept
  BY DEF Kept
<1>5. LinkingOk' /\ NotTakenForNew'
  BY <1>1 DEF LinkingOk, NotTakenForNew
<1>6. UnmappedOk'
  BY <1>1, <1>3, <1>4 DEF UnmappedOk, Within
<1>7. ApartOk'
  BY <1>1, <1>3 DEF ApartOk, Within
<1>8. /\ OrderedBut(queue, raced) /\ \A j \in Slots : OrderedBut(flush[j].events, raced)
      /\ \A t \in 1 .. opened : QueueClosed(queue, t, DOMAIN tabs, timers)
      /\ \A t \in 1 .. opened : \A j \in Slots :
           FlushClosed(queue, flush[j].events, t, DOMAIN tabs, timers, raced)
  BY <1>1, ClosedFacts
<1>9. \A j \in Slots : OrderedBut(flush'[j].events, raced')
  BY <1>3, <1>8 DEF Within
<1>10. \A t \in 1 .. opened' : QueueClosed(queue', t, DOMAIN tabs', timers')
  BY <1>8 DEF QueueClosed
<1>11. \A t \in 1 .. opened' : \A j \in Slots :
         FlushClosed(queue', flush'[j].events, t, DOMAIN tabs', timers', raced')
  <2> SUFFICES ASSUME NEW t \in 1 .. opened, NEW j \in Slots, Has(flush'[j].events, "removed", t)
               PROVE  t \notin DOMAIN tabs /\ t \notin timers' /\ (Has(queue, "updated", t) => t \in raced)
    BY DEF FlushClosed
  <2>1. Has(flush[j].events, "removed", t)
    BY <1>3 DEF Within
  <2> QED  BY <1>8, <2>1 DEF FlushClosed
<1>12. ClosedOk'
  BY <1>8, <1>9, <1>10, <1>11 DEF ClosedOk, Ordered, QueueClosed, FlushClosed
<1> QED  BY <1>5, <1>6, <1>7, <1>12 DEF OpenInv

LEMMA TabsOffOpen ==
  ASSUME Shape, OpenInv, NEW i \in Slots, TabsOff(i), UNCHANGED remoteVars
  PROVE  OpenInv'
<1>1. /\ flush' = [flush EXCEPT ![i] = Free] /\ titles' = None /\ timers' = {} /\ unheard \subseteq unheard'
      /\ UNCHANGED <<queue, browser, captured, opening, raced>>
  BY DEF TabsOff, ClearAllTimers
<1>2. UNCHANGED <<opened, forObj, freed, tabs, tabMap, queue, opening, tasks, raced>>
  BY <1>1 DEF browser, captured, remoteVars
<1>3. DOMAIN titles' = {} /\ Within(Free.events, flush[i].events) /\ Free.at # "settings"
  BY <1>1, FreeFacts, NothingWithin DEF None
<1> QED  BY <1>1, <1>2, <1>3, FlushLess

LEMMA GroupsOffOpen ==
  ASSUME Shape, OpenInv, NEW i \in Slots, GroupsOff(i), UNCHANGED remoteVars
  PROVE  OpenInv'
<1>1. PICK S, new :
           /\ flush' = [flush EXCEPT ![i] = new] /\ DOMAIN new = {"at", "events", "ops"}
           /\ new = Free \/ (new.at = "settings" /\ new.events = KeepAt(flush[i].events, S))
  BY GroupsOffFacts
<1>2. UNCHANGED <<pending, browser, captured, opening, unheard, raced>> /\ flush[i].at = "settings"
  BY DEF GroupsOff
<1>3. UNCHANGED <<opened, forObj, freed, tabs, tabMap, queue, opening, tasks, raced, titles, timers, unheard>>
  BY <1>2 DEF browser, captured, pending, remoteVars
<1>4. PICK fs : fs = flush[i].events
  OBVIOUS
<1>5. IsList(fs)
  BY <1>4 DEF Shape, FlushesOk, EventsOk, EventsIn
<1>6. Within(KeepAt(fs, S), fs) /\ Within(<< >>, fs)
  BY <1>5, KeptWithin, NothingWithin
<1>7. Within(new.events, flush[i].events)
  BY <1>1, <1>4, <1>6, FreeFacts
<1> QED  BY <1>1, <1>2, <1>3, <1>7, FlushLess

LEMMA CreateOperationsOpen ==
  ASSUME Shape, OpenInv, NEW i \in Slots, CreateOperations(i), UNCHANGED remoteVars
  PROVE  OpenInv'
<1>1. DOMAIN flush[i] = {"at", "events", "ops"}
  BY DEF Shape, FlushesOk
<1>2. PICK new : new = [flush[i] EXCEPT !.at = "states"]
  OBVIOUS
<1>3. new.events = flush[i].events /\ new.at = "states"
  BY <1>1, <1>2
<1>4. flush' = [flush EXCEPT ![i] = new] /\ UNCHANGED <<tabMap, pending, browser, opening, ghosts>>
  BY <1>2 DEF CreateOperations
<1>5. UNCHANGED <<opened, forObj, freed, tabs, tabMap, queue, opening, tasks, raced, titles, timers, unheard>>
  BY <1>4 DEF browser, pending, remoteVars, ghosts
<1>6. Within(new.events, flush[i].events)
  BY <1>3, NothingWithin
<1> QED  BY <1>3, <1>4, <1>5, <1>6, FlushLess

LEMMA RecordStatesOpen ==
  ASSUME Shape, OpenInv, NEW i \in Slots, RecordStates(i), UNCHANGED remoteVars
  PROVE  OpenInv'
<1>1. flush' = [flush EXCEPT ![i] = Free] /\ UNCHANGED <<tabMap, pending, browser, opening, ghosts>>
  BY DEF RecordStates
<1>2. UNCHANGED <<opened, forObj, freed, tabs, tabMap, queue, opening, tasks, raced, titles, timers, unheard>>
  BY <1>1 DEF browser, pending, remoteVars, ghosts
<1>3. Within(Free.events, flush[i].events) /\ Free.at # "settings"
  BY FreeFacts, NothingWithin
<1> QED  BY <1>1, <1>2, <1>3, FlushLess

\* The queue is taken: two flushes have events of a tab, which is now raced.
LEMMA FlushTimerOpen ==
  ASSUME Shape, OpenInv, NEW i \in Slots, FlushTimer(i), UNCHANGED remoteVars
  PROVE  OpenInv'
<1>1. LinkingOk /\ UnmappedOk /\ ClosedOk /\ ApartOk /\ NotTakenForNew
  BY DEF OpenInv
<1>2. DOMAIN flush = Slots /\ IsList(queue) /\ \A j \in Slots : IsList(flush[j].events)
  BY DEF Shape, FlushesOk, EventsOk, EventsIn
<1>3. PICK new : new = [Free EXCEPT !.at = "settings", !.events = queue]
  OBVIOUS
<1>4. new.events = queue /\ new.at = "settings"
  BY <1>3, FreeFacts
<1>5. /\ flush' = [flush EXCEPT ![i] = new] /\ queue' = << >>
      /\ raced' = raced \union (TabsOf(queue) \cap UNION {TabsOf(flush[j].events) : j \in Slots})
      /\ UNCHANGED <<titles, timers, browser, captured, opening, unheard>>
  BY <1>3 DEF FlushTimer
<1>6. UNCHANGED <<opened, forObj, freed, tabs, tabMap, opening, tasks, titles, timers, unheard>>
  BY <1>5 DEF browser, captured, remoteVars
<1>7. flush'[i] = new /\ \A j \in Slots : j # i => flush'[j] = flush[j]
  BY <1>2, <1>5
<1>8. raced \subseteq raced' /\ Kept' \subseteq Kept
  BY <1>5, <1>6 DEF Kept
<1>9. LinkingOk'
  BY <1>1, <1>6 DEF LinkingOk
<1>10. NotTakenForNew'
  BY <1>1, <1>6, <1>8 DEF NotTakenForNew
<1>11. UnmappedOk'
  <2> SUFFICES ASSUME NEW t \in Kept' \ (opening' \union DOMAIN tabMap')
               PROVE  /\ t \notin DOMAIN tabs' /\ t \notin DOMAIN titles' /\ ~Has(queue', "updated", t)
                      /\ \A j \in Slots : flush'[j].at = "settings" => ~Has(flush'[j].events, "updated", t)
    BY DEF UnmappedOk
  <2>1. /\ t \notin DOMAIN tabs /\ t \notin DOMAIN titles /\ ~Has(queue, "updated", t)
        /\ \A j \in Slots : flush[j].at = "settings" => ~Has(flush[j].events, "updated", t)
    BY <1>1, <1>6, <1>8 DEF UnmappedOk
  <2>2. \A j \in Slots : flush'[j].at = "settings" => ~Has(flush'[j].events, "updated", t)
    BY <1>4, <1>7, <2>1
  <2> QED  BY <1>5, <1>6, <2>1, <2>2, NoneOrdered
<1>12. \A j \in Slots : \A t : About(queue, t) /\ About(flush[j].events, t) => t \in raced'
  BY <1>2, <1>5, TabsOfFacts
<1>13. ApartOk'
  <2> SUFFICES ASSUME NEW a \in Slots, NEW b \in Slots, a # b, NEW t \in 0 .. opened,
                      About(flush'[a].events, t), About(flush'[b].events, t)
               PROVE  t \in raced'
    BY <1>6 DEF ApartOk
  <2>1. CASE a = i
    BY <1>4, <1>7, <1>12, <2>1
  <2>2. CASE b = i
    BY <1>4, <1>7, <1>12, <2>2
  <2>3. CASE a # i /\ b # i
    BY <1>1, <1>7, <1>8, <2>3 DEF ApartOk
  <2> QED  BY <2>1, <2>2, <2>3
<1>14. /\ OrderedBut(queue, raced) /\ \A j \in Slots : OrderedBut(flush[j].events, raced)
       /\ \A t \in 1 .. opened : QueueClosed(queue, t, DOMAIN tabs, timers)
       /\ \A t \in 1 .. opened : \A j \in Slots :
            FlushClosed(queue, flush[j].events, t, DOMAIN tabs, timers, raced)
  BY <1>1, ClosedFacts
<1>15. OrderedBut(queue', raced') /\ \A j \in Slots : OrderedBut(flush'[j].events, raced')
  BY <1>4, <1>5, <1>7, <1>8, <1>14, OrderedMore, NoneOrdered
<1>16. \A t : ~Has(queue', "removed", t) /\ ~Has(queue', "updated", t)
  BY <1>5, NoneOrdered
<1>17. \A t \in 1 .. opened' : QueueClosed(queue', t, DOMAIN tabs', timers')
  BY <1>16 DEF QueueClosed
<1>18. \A t \in 1 .. opened' : \A j \in Slots :
         FlushClosed(queue', flush'[j].events, t, DOMAIN tabs', timers', raced')
  BY <1>4, <1>6, <1>7, <1>14, <1>16 DEF FlushClosed, QueueClosed
<1>19. ClosedOk'
  BY <1>15, <1>17, <1>18 DEF ClosedOk, Ordered, QueueClosed, FlushClosed
<1> QED  BY <1>9, <1>10, <1>11, <1>13, <1>19 DEF OpenInv

(***************************************************************************)
(* Staging gives no new object to a tab opened for a remote one: a tab     *)
(* that is being opened is passed over, and one that lost its mapping was  *)
(* closed in the same burst, after which no update of it comes.            *)
(***************************************************************************)
Stays(t, acc, es, k) ==
  /\ t \in DOMAIN acc.tabMap => SameAt(acc.tabMap, tabMap, t)
  /\ t \in DOMAIN tabMap /\ t \notin DOMAIN acc.tabMap =>
       \E p \in 1 .. k : es[p].kind = "removed" /\ es[p].tab = t

LEMMA StageStays ==
  ASSUME Shape, OpenInv, NEW i \in Slots, flush[i].at = "settings", NEW f, NEW es, NEW m, Chain(i, f, es, m),
         NEW t \in Kept, t \notin opening
  PROVE  \A k \in 0 .. m : Stays(t, f[k], es, k)
<1>1. PICK G : G = {k \in 0 .. m : Stays(t, f[k], es, k)}
  OBVIOUS
<1>2. m \in Nat /\ f[0] = Prefetched /\ es = Burst(i) /\ m = Len(es) /\ EventsOk(es)
  BY DEF Chain
<1>3. f[0].tabMap = tabMap
  BY <1>2 DEF Prefetched
<1>4. 0 \in G
  BY <1>1, <1>2, <1>3 DEF Stays, SameAt
<1>5. OrderedBut(es, raced)
  <2>1. OrderedBut(flush[i].events, raced)
    BY DEF OpenInv, ClosedOk, Ordered
  <2> QED  BY <1>2, <2>1, BurstFacts
<1>6. t \notin DOMAIN tabMap => ~Has(es, "updated", t)
  <2> SUFFICES ASSUME t \notin DOMAIN tabMap PROVE ~Has(es, "updated", t)
    OBVIOUS
  <2>1. t \notin DOMAIN titles /\ ~Has(flush[i].events, "updated", t)
    BY DEF OpenInv, UnmappedOk
  <2>2. t \notin Stashed
    BY <2>1 DEF Stashed
  <2> QED  BY <1>2, <2>1, <2>2, BurstFacts
<1>7. \A k \in 1 .. m : k - 1 \in G => k \in G
  <2> SUFFICES ASSUME NEW k \in 1 .. m, k - 1 \in G PROVE k \in G
    OBVIOUS
  <2>1. PICK a, b, e : a = f[k - 1] /\ b = f[k] /\ e = es[k]
    OBVIOUS
  <2>2. k \in 0 .. m /\ k - 1 \in 0 .. m /\ k \in 1 .. k /\ \A p \in 1 .. k - 1 : p \in 1 .. k /\ p \in 1 .. m /\ p < k
    BY <1>2
  <2>3. Stays(t, a, es, k - 1)
    BY <1>1, <2>1
  <2>4. Staged(a, e, b)
    BY <2>1, <2>2 DEF Chain
  <2>5. StagedTabs(a, e, b)
    BY <2>4 DEF Staged
  <2>6. EventIn(e, opened, DOMAIN forObj, grouped, DOMAIN label)
    BY <1>2, <2>1 DEF EventsOk, EventsIn
  <2>7. t \in DOMAIN b.tabMap => SameAt(a.tabMap, b.tabMap, t)
    <3> SUFFICES ASSUME t \in DOMAIN b.tabMap, ~SameAt(a.tabMap, b.tabMap, t) PROVE FALSE
      OBVIOUS
    <3>1. t = e.tab /\ t \notin DOMAIN a.tabMap /\ e.kind \in {"created", "updated"}
      BY <2>5 DEF StagedTabs
    <3>2. e.kind = "updated"
      BY <2>6, <3>1 DEF EventIn, Kept
    <3>3. Has(es, "updated", t)
      BY <1>2, <2>1, <3>1, <3>2 DEF Has
    <3>4. t \in DOMAIN tabMap
      BY <1>6, <3>3
    <3>5. PICK p \in 1 .. k - 1 : es[p].kind = "removed" /\ es[p].tab = t
      BY <2>3, <3>1, <3>4 DEF Stays
    <3>6. es[p].tab \in raced
      BY <1>2, <1>5, <2>1, <2>2, <3>1, <3>2, <3>5 DEF OrderedBut
    <3> QED  BY <3>5, <3>6 DEF Kept
  <2>8. t \in DOMAIN b.tabMap => SameAt(b.tabMap, tabMap, t)
    BY <2>3, <2>7 DEF Stays, SameAt
  <2>9. t \in DOMAIN tabMap /\ t \notin DOMAIN b.tabMap =>
          \E p \in 1 .. k : es[p].kind = "removed" /\ es[p].tab = t
    <3> SUFFICES ASSUME t \in DOMAIN tabMap, t \notin DOMAIN b.tabMap
                 PROVE  \E p \in 1 .. k : es[p].kind = "removed" /\ es[p].tab = t
      OBVIOUS
    <3>1. CASE t \in DOMAIN a.tabMap
      <4>1. e.kind = "removed" /\ t = e.tab
        BY <2>5, <3>1 DEF StagedTabs, SameAt
      <4> QED  BY <2>1, <2>2, <4>1
    <3>2. CASE t \notin DOMAIN a.tabMap
      BY <2>2, <2>3, <3>2 DEF Stays
    <3> QED  BY <3>1, <3>2
  <2>10. Stays(t, b, es, k)
    BY <2>8, <2>9 DEF Stays
  <2> QED  BY <1>1, <2>1, <2>2, <2>10
<1>8. \A k \in 0 .. m : k \in G
  BY <1>2, <1>4, <1>7, Upward
<1> QED  BY <1>1, <1>8

\* A tab that is being opened gets no mapping.
LEMMA StageOpening ==
  ASSUME Shape, OpenInv, NEW i \in Slots, NEW f, NEW es, NEW m, Chain(i, f, es, m)
  PROVE  \A k \in 0 .. m : opening \cap DOMAIN f[k].tabMap = {}
<1>1. PICK G : G = {k \in 0 .. m : opening \cap DOMAIN f[k].tabMap = {}}
  OBVIOUS
<1>2. m \in Nat /\ f[0] = Prefetched /\ m = Len(es) /\ EventsOk(es)
  BY DEF Chain
<1>3. f[0].tabMap = tabMap
  BY <1>2 DEF Prefetched
<1>4. 0 \in G
  BY <1>1, <1>2, <1>3 DEF OpenInv, LinkingOk
<1>5. \A k \in 1 .. m : k - 1 \in G => k \in G
  <2> SUFFICES ASSUME NEW k \in 1 .. m, k - 1 \in G PROVE k \in G
    OBVIOUS
  <2>1. PICK a, b, e : a = f[k - 1] /\ b = f[k] /\ e = es[k]
    OBVIOUS
  <2>2. k \in 0 .. m /\ k - 1 \in 0 .. m /\ opening \cap DOMAIN a.tabMap = {}
    BY <1>1, <1>2, <2>1
  <2>3. Staged(a, e, b)
    BY <2>1, <2>2 DEF Chain
  <2>4. StagedTabs(a, e, b)
    BY <2>3 DEF Staged
  <2>5. EventIn(e, opened, DOMAIN forObj, grouped, DOMAIN label) /\ opening \in SUBSET DOMAIN forObj
    BY <1>2, <2>1 DEF EventsOk, EventsIn, Shape, TabsOk
  <2>6. opening \cap DOMAIN b.tabMap = {}
    BY <2>2, <2>4, <2>5 DEF StagedTabs, SameAt, EventIn
  <2> QED  BY <1>1, <2>1, <2>2, <2>6
<1>6. \A k \in 0 .. m : k \in G
  BY <1>2, <1>4, <1>5, Upward
<1> QED  BY <1>1, <1>6

LEMMA StageOpen ==
  ASSUME Shape, OpenInv, NEW i \in Slots, Stage(i), UNCHANGED remoteVars
  PROVE  OpenInv'
<1>1. LinkingOk /\ UnmappedOk /\ ClosedOk /\ ApartOk /\ NotTakenForNew
  BY DEF OpenInv
<1>2. PICK done, new : StagedFlush(i, done, new)
  BY StageFlush
<1>3. PICK f, es, m : Chain(i, f, es, m)
  BY StageChain
<1>4. m \in 0 .. m /\ f[m].tabMap = tabMap' /\ es = Burst(i) /\ m = Len(es)
  BY <1>2, <1>3 DEF Chain, StagedFlush
<1>5. flush[i].at = "settings" /\ DOMAIN flush = Slots /\ timers \in SUBSET DOMAIN titles
  BY <1>2 DEF Shape, FlushesOk, StagedFlush, TabsOk
<1>6. flush' = [flush EXCEPT ![i] = new] /\ (new = Free \/ (new.at = "ops" /\ new.events = es))
  BY <1>2, <1>4 DEF StagedFlush
<1>7. flush'[i] = new /\ \A j \in Slots : j # i => flush'[j] = flush[j]
  BY <1>5, <1>6
<1>8. /\ UNCHANGED <<queue, timers, browser, opening, unheard>> /\ titles' = Without(titles, Stashed)
      /\ raced \subseteq raced'
      /\ \A t \in Stashed : \A j \in Slots \ {i} : t \in TabsOf(flush[j].events) => t \in raced'
  BY DEF Stage
<1>9. UNCHANGED <<opened, forObj, freed, tabs, opening, tasks, queue, timers, unheard>>
  BY <1>8 DEF browser, remoteVars
<1>10. DOMAIN titles' = timers
  BY <1>5, <1>8 DEF Without, Stashed
<1>11. Kept' \subseteq Kept
  BY <1>8, <1>9 DEF Kept
<1>12. opening \cap DOMAIN tabMap' = {}
  BY <1>3, <1>4, StageOpening
<1>13. \A t \in Kept' : t \notin opening => Stays(t, f[m], es, m)
  BY <1>3, <1>4, <1>5, <1>11, StageStays
<1>14. LinkingOk'
  BY <1>1, <1>9, <1>12 DEF LinkingOk
<1>15. NotTakenForNew'
  <2> SUFFICES ASSUME NEW t \in Kept', t \in DOMAIN tabMap' PROVE tabMap'[t] = forObj'[t]
    BY DEF NotTakenForNew, Kept
  <2>1. t \in Kept /\ t \notin opening
    BY <1>11, <1>12
  <2>2. SameAt(tabMap', tabMap, t)
    BY <1>4, <1>13, <2>1 DEF Stays
  <2>3. tabMap[t] = forObj[t]
    BY <1>1, <2>1, <2>2 DEF NotTakenForNew, Kept, SameAt
  <2> QED  BY <1>9, <2>2, <2>3 DEF SameAt
<1>16. /\ OrderedBut(queue, raced) /\ \A j \in Slots : OrderedBut(flush[j].events, raced)
       /\ \A t \in 1 .. opened : QueueClosed(queue, t, DOMAIN tabs, timers)
       /\ \A t \in 1 .. opened : \A j \in Slots :
            FlushClosed(queue, flush[j].events, t, DOMAIN tabs, timers, raced)
  BY <1>1, ClosedFacts
<1>17. \A j \in Slots : EventsOk(flush[j].events) /\ IsList(flush[j].events)
  BY DEF Shape, FlushesOk, EventsOk, EventsIn
<1>18. UnmappedOk'
  <2> SUFFICES ASSUME NEW t \in Kept' \ (opening' \union DOMAIN tabMap')
               PROVE  /\ t \notin DOMAIN tabs' /\ t \notin DOMAIN titles' /\ ~Has(queue', "updated", t)
                      /\ \A j \in Slots : flush'[j].at = "settings" => ~Has(flush'[j].events, "updated", t)
    BY DEF UnmappedOk
  <2>1. t \in Kept /\ t \notin opening /\ t \notin DOMAIN tabMap' /\ t \notin raced'
    BY <1>9, <1>11 DEF Kept
  <2>2. flush'[i].at # "settings"
    BY <1>6, <1>7, FreeFacts
  <2>3. CASE t \notin DOMAIN tabMap
    <3>1. /\ t \notin DOMAIN tabs /\ t \notin DOMAIN titles /\ ~Has(queue, "updated", t)
          /\ \A j \in Slots : flush[j].at = "settings" => ~Has(flush[j].events, "updated", t)
      BY <1>1, <2>1, <2>3 DEF UnmappedOk
    <3> QED  BY <1>5, <1>7, <1>9, <1>10, <2>2, <3>1
  <2>4. CASE t \in DOMAIN tabMap
    <3>1. Stays(t, f[m], es, m)
      BY <1>13, <2>1
    <3>2. PICK p \in 1 .. m : es[p].kind = "removed" /\ es[p].tab = t
      BY <1>4, <2>1, <2>4, <3>1 DEF Stays
    <3>3. Has(es, "removed", t)
      BY <1>4, <3>2 DEF Has
    <3>4. Has(flush[i].events, "removed", t)
      BY <1>4, <3>3, BurstFacts
    <3>5. t \in 1 .. opened /\ About(flush[i].events, t) /\ t \in 0 .. opened
      BY <1>17, <3>4, HasFacts
    <3>6. t \notin DOMAIN tabs /\ t \notin timers /\ ~Has(queue, "updated", t)
      BY <1>8, <1>16, <2>1, <3>4, <3>5 DEF FlushClosed
    <3>7. \A j \in Slots : j # i => ~Has(flush[j].events, "updated", t)
      <4> SUFFICES ASSUME NEW j \in Slots, j # i, Has(flush[j].events, "updated", t) PROVE FALSE
        OBVIOUS
      <4>1. About(flush[j].events, t)
        BY <1>17, HasFacts
      <4> QED  BY <1>1, <1>8, <2>1, <3>5, <4>1 DEF ApartOk
    <3> QED  BY <1>7, <1>9, <1>10, <2>2, <3>6, <3>7
  <2> QED  BY <2>3, <2>4
<1>19. ApartOk'
  <2>1. \A t : About(flush'[i].events, t) => t \in Stashed \/ About(flush[i].events, t)
    BY <1>4, <1>6, <1>7, BurstFacts, FreeFacts, NoneOrdered
  <2>2. \A j \in Slots : j # i => \A t : t \in Stashed /\ About(flush[j].events, t) => t \in raced'
    BY <1>8, <1>17, TabsOfFacts
  <2>3. \A j \in Slots : j # i => \A t \in 0 .. opened : About(flush'[i].events, t) /\ About(flush[j].events, t) => t \in raced'
    BY <1>1, <1>8, <2>1, <2>2 DEF ApartOk
  <2> SUFFICES ASSUME NEW a \in Slots, NEW b \in Slots, a # b, NEW t \in 0 .. opened,
                      About(flush'[a].events, t), About(flush'[b].events, t)
               PROVE  t \in raced'
    BY <1>9 DEF ApartOk
  <2>4. CASE a = i
    BY <1>7, <2>3, <2>4
  <2>5. CASE b = i
    BY <1>7, <2>3, <2>5
  <2>6. CASE a # i /\ b # i
    BY <1>1, <1>7, <1>8, <2>6 DEF ApartOk
  <2> QED  BY <2>4, <2>5, <2>6
<1>20. ClosedOk'
  <2>1. OrderedBut(es, raced) /\ OrderedBut(<< >>, raced)
    BY <1>4, <1>16, BurstFacts, NoneOrdered
  <2>2. \A j \in Slots : OrderedBut(flush'[j].events, raced)
    BY <1>6, <1>7, <1>16, <2>1, FreeFacts
  <2>3. OrderedBut(queue', raced') /\ \A j \in Slots : OrderedBut(flush'[j].events, raced')
    BY <1>8, <1>16, <2>2, OrderedMore
  <2>4. \A t : Has(flush'[i].events, "removed", t) => Has(flush[i].events, "removed", t)
    BY <1>4, <1>6, <1>7, BurstFacts, FreeFacts, NoneOrdered
  <2>5. \A t \in 1 .. opened' : QueueClosed(queue', t, DOMAIN tabs', timers')
    BY <1>9, <1>16 DEF QueueClosed
  <2>6. \A t \in 1 .. opened' : \A j \in Slots :
          FlushClosed(queue', flush'[j].events, t, DOMAIN tabs', timers', raced')
    BY <1>7, <1>8, <1>9, <1>16, <2>4 DEF FlushClosed
  <2> QED  BY <2>3, <2>5, <2>6 DEF ClosedOk, Ordered, QueueClosed, FlushClosed
<1> QED  BY <1>14, <1>15, <1>18, <1>19, <1>20 DEF OpenInv

LEMMA CreateOpen ==
  ASSUME Shape, OpenInv, NEW k, Create(k)
  PROVE  OpenInv'
<1>1. LinkingOk /\ UnmappedOk /\ ClosedOk /\ ApartOk /\ NotTakenForNew
  BY DEF OpenInv
<1>2. PICK n : Opens(k, n)
  BY CreateOpens
<1>3. TabsOk /\ EventsOk(queue) /\ opened \in Nat /\ \A i \in Slots : EventsOk(flush[i].events)
  BY DEF Shape, TabsOk, FlushesOk
<1>4. n \notin 1 .. opened /\ n \notin 0 .. opened /\ opened' = n /\ n = opened + 1
  BY <1>2, <1>3 DEF Opens
<1>5. /\ \A t \in 1 .. n : t \in 1 .. opened \/ t = n
      /\ \A t \in 0 .. n : t \in 0 .. opened \/ t = n
  BY <1>3, <1>4
<1>6. UNCHANGED <<tabMap, queue, titles, timers, flush, unheard, raced, freed>>
  BY <1>2 DEF Opens, captured, pending, ghosts
<1>7. /\ DOMAIN tabs' = DOMAIN tabs \union {n} /\ opening' = opening \union {n}
      /\ DOMAIN forObj' = DOMAIN forObj \union {n} /\ forObj'[n] = tasks[k].obj
      /\ \A t \in DOMAIN forObj : t # n => forObj'[t] = forObj[t]
  BY <1>2 DEF Opens
<1>8. n \notin DOMAIN tabMap /\ n \notin DOMAIN forObj /\ n \notin opening /\ n \notin timers
  BY <1>3, <1>4 DEF TabsOk
<1>9. LinkingOk'
  <2>1. /\ k \in DOMAIN tasks /\ DOMAIN tasks' = DOMAIN tasks /\ tasks'[k].obj = tasks[k].obj
        /\ tasks'[k].at = "link" /\ tasks'[k].tab = n
        /\ \A j \in DOMAIN tasks : j # k => tasks'[j] = tasks[j]
    BY <1>2 DEF Opens
  <2>2. \A j \in DOMAIN tasks : j # k /\ tasks'[j].at = "link" =>
          /\ tasks'[j] = tasks[j] /\ tasks'[j].tab # n /\ tasks'[j].tab \in opening
          /\ forObj[tasks[j].tab] = tasks[j].obj /\ tasks[j].tab \in DOMAIN forObj
    BY <1>1, <1>3, <1>8, <2>1 DEF LinkingOk, TabsOk
  <2>3. \A j \in DOMAIN tasks' : tasks'[j].at = "link" =>
          tasks'[j].tab \in opening' /\ forObj'[tasks'[j].tab] = tasks'[j].obj
    BY <1>7, <2>1, <2>2
  <2>4. \A i, j \in DOMAIN tasks' :
          tasks'[i].at = "link" /\ tasks'[j].at = "link" /\ tasks'[i].tab = tasks'[j].tab => i = j
    BY <1>1, <2>1, <2>2 DEF LinkingOk
  <2>5. opening' \cap DOMAIN tabMap' = {}
    BY <1>1, <1>6, <1>7, <1>8 DEF LinkingOk
  <2> QED  BY <2>3, <2>4, <2>5 DEF LinkingOk
<1>10. \A t \in Kept' : t # n => t \in Kept
  BY <1>6, <1>7 DEF Kept
<1>11. UnmappedOk'
  <2> SUFFICES ASSUME NEW t \in Kept' \ (opening' \union DOMAIN tabMap')
               PROVE  /\ t \notin DOMAIN tabs' /\ t \notin DOMAIN titles' /\ ~Has(queue', "updated", t)
                      /\ \A j \in Slots : flush'[j].at = "settings" => ~Has(flush'[j].events, "updated", t)
    BY DEF UnmappedOk
  <2>1. t # n /\ t \in Kept \ (opening \union DOMAIN tabMap)
    BY <1>6, <1>7, <1>10
  <2> QED  BY <1>1, <1>6, <1>7, <2>1 DEF UnmappedOk
<1>12. NotTakenForNew'
  <2> SUFFICES ASSUME NEW t \in Kept', t \in DOMAIN tabMap' PROVE tabMap'[t] = forObj'[t]
    BY DEF NotTakenForNew, Kept
  <2>1. t # n /\ t \in Kept /\ t \in DOMAIN tabMap /\ t \in DOMAIN forObj
    BY <1>6, <1>8, <1>10 DEF Kept
  <2>2. tabMap[t] = forObj[t]
    BY <1>1, <2>1 DEF NotTakenForNew, Kept
  <2> QED  BY <1>6, <1>7, <2>1, <2>2
<1>13. ~Has(queue, "removed", n) /\ \A i \in Slots : ~Has(flush[i].events, "removed", n) /\ ~About(flush[i].events, n)
  BY <1>3, <1>4, HasFacts
<1>14. ApartOk'
  BY <1>1, <1>4, <1>5, <1>6, <1>13 DEF ApartOk
<1>15. ClosedOk'
  <2>1. /\ OrderedBut(queue, raced) /\ \A j \in Slots : OrderedBut(flush[j].events, raced)
        /\ \A t \in 1 .. opened : QueueClosed(queue, t, DOMAIN tabs, timers)
        /\ \A t \in 1 .. opened : \A j \in Slots :
             FlushClosed(queue, flush[j].events, t, DOMAIN tabs, timers, raced)
    BY <1>1, ClosedFacts
  <2>2. \A t \in 1 .. opened' : QueueClosed(queue', t, DOMAIN tabs', timers')
    BY <1>4, <1>5, <1>6, <1>7, <1>13, <2>1 DEF QueueClosed
  <2>3. \A t \in 1 .. opened' : \A j \in Slots :
          FlushClosed(queue', flush'[j].events, t, DOMAIN tabs', timers', raced')
    BY <1>4, <1>5, <1>6, <1>7, <1>13, <2>1 DEF FlushClosed
  <2> QED  BY <1>6, <2>1, <2>2, <2>3 DEF ClosedOk, Ordered, QueueClosed, FlushClosed
<1> QED  BY <1>9, <1>11, <1>12, <1>14, <1>15 DEF OpenInv

LEMMA LinkOpen ==
  ASSUME Shape, OpenInv, NEW k, Link(k)
  PROVE  OpenInv'
<1>1. LinkingOk /\ UnmappedOk /\ ClosedOk /\ ApartOk /\ NotTakenForNew
  BY DEF OpenInv
<1>2. Links(k)
  BY LinkLinks
<1>3. PICK t : t = tasks[k].tab
  OBVIOUS
<1>4. k \in DOMAIN tasks /\ tasks[k].at = "link" /\ t \in opening /\ forObj[t] = tasks[k].obj
  BY <1>1, <1>2, <1>3 DEF Links, LinkingOk
<1>5. /\ DOMAIN tabMap' = DOMAIN tabMap \union {t} /\ tabMap'[t] = tasks[k].obj
      /\ \A u \in DOMAIN tabMap : u # t => tabMap'[u] = tabMap[u]
      /\ opening' = opening \ {t}
  BY <1>2, <1>3 DEF Links
<1>6. UNCHANGED <<tabs, opened, queue, titles, timers, flush, unheard, raced, freed, forObj>>
  BY <1>2 DEF Links, browser, pending, ghosts
<1>7. Kept' = Kept
  BY <1>6 DEF Kept
<1>8. LinkingOk'
  <2>1. /\ DOMAIN tasks' = DOMAIN tasks /\ \A j \in DOMAIN tasks : j # k => tasks'[j] = tasks[j]
        /\ tasks'[k].at # "link"
    BY <1>2 DEF Links
  <2>2. \A j \in DOMAIN tasks' : tasks'[j].at = "link" =>
          tasks'[j].tab \in opening' /\ forObj'[tasks'[j].tab] = tasks'[j].obj
    <3> SUFFICES ASSUME NEW j \in DOMAIN tasks', tasks'[j].at = "link"
                 PROVE  tasks'[j].tab \in opening' /\ forObj'[tasks'[j].tab] = tasks'[j].obj
      OBVIOUS
    <3>1. j # k /\ j \in DOMAIN tasks /\ tasks'[j] = tasks[j]
      BY <2>1
    <3>2. tasks[j].tab \in opening /\ tasks[j].tab # t /\ forObj[tasks[j].tab] = tasks[j].obj
      BY <1>1, <1>3, <1>4, <3>1 DEF LinkingOk
    <3> QED  BY <1>5, <1>6, <3>1, <3>2
  <2>3. \A i, j \in DOMAIN tasks' :
          tasks'[i].at = "link" /\ tasks'[j].at = "link" /\ tasks'[i].tab = tasks'[j].tab => i = j
    BY <1>1, <2>1 DEF LinkingOk
  <2>4. opening' \cap DOMAIN tabMap' = {}
    BY <1>1, <1>5 DEF LinkingOk
  <2> QED  BY <2>2, <2>3, <2>4 DEF LinkingOk
<1>9. UnmappedOk'
  <2>1. opening' \union DOMAIN tabMap' = opening \union DOMAIN tabMap
    BY <1>4, <1>5
  <2> QED  BY <1>1, <1>6, <1>7, <2>1 DEF UnmappedOk
<1>10. NotTakenForNew'
  BY <1>1, <1>4, <1>5, <1>6 DEF NotTakenForNew
<1>11. ClosedOk' /\ ApartOk'
  BY <1>1, <1>6 DEF ClosedOk, ApartOk, Ordered
<1> QED  BY <1>8, <1>9, <1>10, <1>11 DEF OpenInv

LEMMA DropClosedOpen ==
  ASSUME Shape, OpenInv, DropClosed
  PROVE  OpenInv'
<1>1. LinkingOk /\ UnmappedOk /\ ClosedOk /\ ApartOk /\ NotTakenForNew
  BY DEF OpenInv
<1>2. PICK S : S = {t \in DOMAIN tabMap : tabMap[t] \in drops}
  OBVIOUS
<1>3. tabMap' = Without(tabMap, S) /\ freed' = freed \union S
  BY <1>2 DEF DropClosed
<1>4. UNCHANGED <<tabs, opened, queue, titles, timers, flush, unheard, raced, forObj, opening, tasks>>
  BY DEF DropClosed, browser, pending, ghosts
<1>5. DOMAIN tabMap' = DOMAIN tabMap \ S /\ \A t \in DOMAIN tabMap' : tabMap'[t] = tabMap[t]
  BY <1>3 DEF Without
<1>6. Kept' = Kept \ S
  BY <1>3, <1>4 DEF Kept
<1>7. LinkingOk'
  BY <1>1, <1>4, <1>5 DEF LinkingOk
<1>8. UnmappedOk'
  <2>1. \A t \in Kept' \ (opening' \union DOMAIN tabMap') : t \in Kept \ (opening \union DOMAIN tabMap)
    BY <1>4, <1>5, <1>6
  <2> QED  BY <1>1, <1>4, <2>1 DEF UnmappedOk
<1>9. NotTakenForNew'
  BY <1>1, <1>3, <1>4, <1>5 DEF NotTakenForNew
<1>10. ClosedOk' /\ ApartOk'
  BY <1>1, <1>4 DEF ClosedOk, ApartOk, Ordered
<1> QED  BY <1>7, <1>8, <1>9, <1>10 DEF OpenInv

LEMMA CrashOpen ==
  ASSUME Shape, OpenInv, Crash
  PROVE  OpenInv'
<1>1. UnmappedOk /\ NotTakenForNew /\ opened \in Nat /\ DOMAIN tabs \in SUBSET (1 .. opened)
  BY DEF OpenInv, Shape, TabsOk
<1>2. /\ UNCHANGED <<tabs, opened, tabMap, forObj, freed, raced>> /\ unheard \subseteq unheard'
      /\ opening \subseteq unheard'
      /\ tasks' = << >> /\ opening' = {} /\ titles' = None /\ timers' = {} /\ flush' = [i \in Slots |-> Free]
  BY DEF Crash, CaptureCrash, ClearAllTimers, browser, captured
<1>3. DOMAIN tasks' = {} /\ DOMAIN titles' = {} /\ \A i \in Slots : flush'[i].events = << >> /\ flush'[i].at = "free"
  BY <1>2, FreeFacts DEF None
<1>4. PICK S, g, es : S = DOMAIN tabs /\ g = tabs /\ es = UpdatesOf(S, g)
  OBVIOUS
<1>5. queue' = es
  BY <1>4 DEF Crash, CaptureCrash, UpdatesOf
<1>6. IsFiniteSet(S)
  BY <1>1, <1>4, FiniteTabs
<1>7. IsList(es) /\ \A k \in 1 .. Len(es) : es[k].tab \in S /\ es[k] = Event("updated", es[k].tab, g[es[k].tab])
  BY <1>4, <1>6, AllUpdated
<1>8. \A k \in 1 .. Len(es) : es[k].tab \in S /\ es[k].kind = "updated"
  BY <1>7, EventFacts
<1>9. (\A t : Has(es, "updated", t) => t \in S) /\ (\A t : ~Has(es, "removed", t)) /\ OrderedBut(es, raced')
  BY <1>8 DEF Has, OrderedBut
<1>10. \A t \in Kept' : t \in Kept /\ t \notin opening
  BY <1>2 DEF Kept
<1>11. LinkingOk'
  BY <1>2, <1>3 DEF LinkingOk
<1>12. UnmappedOk'
  <2> SUFFICES ASSUME NEW t \in Kept' \ (opening' \union DOMAIN tabMap')
               PROVE  /\ t \notin DOMAIN tabs' /\ t \notin DOMAIN titles' /\ ~Has(queue', "updated", t)
                      /\ \A i \in Slots : flush'[i].at = "settings" => ~Has(flush'[i].events, "updated", t)
    BY DEF UnmappedOk
  <2>1. t \in Kept \ (opening \union DOMAIN tabMap)
    BY <1>2, <1>10
  <2>2. t \notin DOMAIN tabs
    BY <1>1, <2>1 DEF UnmappedOk
  <2> QED  BY <1>2, <1>3, <1>4, <1>5, <1>9, <2>2
<1>13. NotTakenForNew'
  BY <1>1, <1>2 DEF NotTakenForNew
<1>14. ApartOk'
  BY <1>3, NoneOrdered DEF ApartOk
<1>15. ClosedOk'
  BY <1>3, <1>5, <1>9, NoneOrdered DEF ClosedOk, Ordered
<1> QED  BY <1>11, <1>12, <1>13, <1>14, <1>15 DEF OpenInv

--------------------------------------------------------------------------------
(***************************************************************************)
(* All steps together.                                                     *)
(***************************************************************************)
FlushStep(i) ==
  FlushTimer(i) \/ TabsOff(i) \/ GroupsOff(i) \/ Stage(i) \/ CreateOperations(i) \/ RecordStates(i)

LEMMA NextCases ==
  ASSUME Shape, IsList(tasks), GroupInv, Next
  PROVE  \/ Listens \/ Tends \/ DropClosed \/ Crash
         \/ \E i \in Slots : FlushStep(i) /\ UNCHANGED remoteVars
         \/ \E k : Create(k) \/ Link(k)
<1>1. CASE CaptureStep /\ UNCHANGED remoteVars
  <2>1. CASE User
    BY <1>1, <2>1, UserStepListens
  <2>2. CASE Suspend
    BY <1>1, <2>2, SuspendListens
  <2>3. CASE \E t \in timers : TitleTimer(t)
    BY <1>1, <2>3, TitleTimerListens
  <2>4. CASE \E i \in Slots : FlushStep(i)
    BY <1>1, <2>4
  <2> QED  BY <1>1, <2>1, <2>2, <2>3, <2>4 DEF CaptureStep, FlushStep
<1>2. CASE ApplyBatch \/ RestoreAll \/ Finish
  BY <1>2, ApplyBatchTends, RestoreAllTends, FinishTends
<1>3. CASE DropClosed \/ Crash
  BY <1>3
<1>4. CASE \E t \in loading : Loads(t)
  BY <1>4, LoadsListens
<1>5. CASE \E k \in DOMAIN tasks :
             \/ GuardRun(k) \/ Relabel(k) \/ Lookup(k) \/ Create(k) \/ Link(k) \/ Update(k)
             \/ TakeLock(k) \/ Join(k) \/ LinkGroup(k)
  <2>1. PICK k \in DOMAIN tasks : \/ GuardRun(k) \/ Relabel(k) \/ Lookup(k) \/ Create(k) \/ Link(k) \/ Update(k)
                                  \/ TakeLock(k) \/ Join(k) \/ LinkGroup(k)
    BY <1>5
  <2>2. CASE GuardRun(k) \/ Relabel(k) \/ Lookup(k) \/ Update(k) \/ TakeLock(k) \/ LinkGroup(k)
    BY <2>2, GuardRunTends, RelabelTends, LookupTends, UpdateTends, TakeLockTends, LinkGroupTends
  <2>3. CASE Join(k)
    BY <2>3, JoinListens
  <2>4. CASE Create(k) \/ Link(k)
    BY <2>4
  <2> QED  BY <2>1, <2>2, <2>3, <2>4
<1> QED  BY <1>1, <1>2, <1>3, <1>4, <1>5 DEF Next

TabInv == Shape /\ IsList(tasks) /\ GroupInv /\ OpenInv

\* The calls stay a list.
LEMMA NextList ==
  ASSUME Shape, IsList(tasks), Next
  PROVE  IsList(tasks')
<1>1. CASE UNCHANGED tasks
  BY <1>1
<1>2. CASE tasks' = << >>
  BY <1>2, NoEvents
<1>3. CASE \E s : Joined(s)
  BY <1>3, JoinedFacts
<1>4. CASE \E k, new : k \in DOMAIN tasks /\ tasks' = [tasks EXCEPT ![k] = new]
  <2>1. PICK k, new : k \in DOMAIN tasks /\ tasks' = [tasks EXCEPT ![k] = new]
    BY <1>4
  <2>2. PICK S : tasks \in Seq(S)
    BY DEF IsList
  <2>3. tasks \in Seq(S \union {new})
    BY <2>2
  <2>4. tasks' \in Seq(S \union {new})
    BY <2>1, <2>3
  <2> QED  BY <2>4 DEF IsList
<1>5. CASE \E k \in DOMAIN tasks :
             \/ GuardRun(k) \/ Relabel(k) \/ Lookup(k) \/ Create(k) \/ Link(k) \/ Update(k)
             \/ TakeLock(k) \/ Join(k) \/ LinkGroup(k)
  <2>1. PICK k \in DOMAIN tasks :
             \/ GuardRun(k) \/ Relabel(k) \/ Lookup(k) \/ Create(k) \/ Link(k) \/ Update(k)
             \/ TakeLock(k) \/ Join(k) \/ LinkGroup(k)
    BY <1>5
  <2>2. \E new : tasks' = [tasks EXCEPT ![k] = new]
    <3>1. ASSUME NEW new, Goes(k, new) PROVE \E x : tasks' = [tasks EXCEPT ![k] = x]
      BY <3>1 DEF Goes
    <3>2. CASE GuardRun(k)
      BY <3>1, <3>2 DEF GuardRun
    <3>3. CASE Relabel(k) \/ LinkGroup(k)
      BY <3>1, <3>3 DEF Relabel, LinkGroup, Done
    <3>4. CASE Lookup(k)
      BY <3>1, <3>4 DEF Lookup, Done
    <3>5. CASE Create(k)
      BY <3>1, <3>5 DEF Create, Returns
    <3>6. CASE Link(k)
      BY <3>1, <3>6 DEF Link
    <3>7. CASE Update(k)
      BY <3>1, <3>7 DEF Update, Returns
    <3>8. CASE TakeLock(k)
      BY <3>1, <3>8 DEF TakeLock
    <3>9. CASE Join(k)
      BY <3>1, <3>9 DEF Join, Returns
    <3> QED  BY <2>1, <3>2, <3>3, <3>4, <3>5, <3>6, <3>7, <3>8, <3>9
  <2> QED  BY <1>4, <2>2
<1>6. CASE ApplyBatch \/ RestoreAll
  BY <1>3, <1>6, ApplyBatchFresh, RestoreAllFresh
<1>7. CASE Finish \/ Crash
  BY <1>2, <1>7 DEF Finish, Crash
<1>8. CASE DropClosed \/ (CaptureStep /\ UNCHANGED remoteVars) \/ \E t \in loading : Loads(t)
  BY <1>1, <1>8 DEF DropClosed, Loads, remoteVars
<1> QED  BY <1>5, <1>6, <1>7, <1>8 DEF Next

LEMMA NextTabInv ==
  ASSUME TabInv, Next
  PROVE  TabInv'
<1>1. Shape /\ IsList(tasks) /\ GroupInv /\ OpenInv /\ LinkingOk
  BY DEF TabInv, OpenInv
<1>2. GroupInv' /\ IsList(tasks')
  BY <1>1, NextGroups, NextList
<1>3. CASE Listens
  BY <1>1, <1>2, <1>3, ListensShape, ListensOpen DEF TabInv
<1>4. CASE Tends
  BY <1>1, <1>2, <1>4, TendsShape, TendsOpen DEF TabInv
<1>5. CASE DropClosed
  BY <1>1, <1>2, <1>5, DropClosedShape, DropClosedOpen DEF TabInv
<1>6. CASE Crash
  BY <1>1, <1>2, <1>6, CrashShape, CrashOpen DEF TabInv
<1>7. CASE \E i \in Slots : FlushStep(i) /\ UNCHANGED remoteVars
  <2>1. PICK i \in Slots : FlushStep(i) /\ UNCHANGED remoteVars
    BY <1>7
  <2>2. Shape'
    BY <1>1, <2>1, FlushTimerShape, TabsOffShape, GroupsOffShape, StageShape, CreateOperationsShape,
       RecordStatesShape DEF FlushStep
  <2>3. OpenInv'
    BY <1>1, <2>1, FlushTimerOpen, TabsOffOpen, GroupsOffOpen, StageOpen, CreateOperationsOpen,
       RecordStatesOpen DEF FlushStep
  <2> QED  BY <1>2, <2>2, <2>3 DEF TabInv
<1>8. CASE \E k : Create(k) \/ Link(k)
  BY <1>1, <1>2, <1>8, CreateShape, CreateOpen, LinkShape, LinkOpen DEF TabInv
<1> QED  BY <1>1, <1>3, <1>4, <1>5, <1>6, <1>7, <1>8, NextCases

LEMMA InitTabInv ==
  ASSUME Init
  PROVE  TabInv
<1>1. /\ tabs = <<[page |-> 1, grp |-> 0]>> /\ label = None /\ opened = 1 /\ tabMap = <<1>> /\ grpMap = None
      /\ minted = 1 /\ queue = << >> /\ titles = None /\ timers = {} /\ flush = [i \in Slots |-> Free]
      /\ opening = {} /\ raced = {}
  BY DEF Init, CaptureInit
<1>2. /\ tasks = << >> /\ lock = 0 /\ loading = {} /\ forObj = None /\ freed = {} /\ made = {} /\ grouped = 0
  BY DEF Init
<1>3. /\ DOMAIN tabs = {1} /\ tabs[1] = [page |-> 1, grp |-> 0] /\ DOMAIN tabMap = {1} /\ 1 .. opened = {1}
      /\ DOMAIN tasks = {}
  BY <1>1, <1>2
<1>4. DOMAIN label = {} /\ DOMAIN grpMap = {} /\ DOMAIN titles = {} /\ DOMAIN forObj = {}
  BY <1>1, <1>2 DEF None
<1>5. \A i \in Slots : flush[i] = Free
  BY <1>1
<1>6. TabsOk
  BY <1>1, <1>2, <1>3, <1>4 DEF TabsOk
<1>7. EventsOk(queue) /\ FlushesOk /\ TasksOk /\ IsList(tasks)
  BY <1>1, <1>2, <1>3, <1>5, FreeFacts, NoEvents DEF FlushesOk, TasksOk
<1>8. Mapped = {}
  BY <1>4 DEF Mapped
<1>9. GroupInv
  BY <1>2, <1>3, <1>4, <1>8 DEF GroupInv, MembersOk, GroupsOk, LockOk, HolderOk, MadeOk
<1>10. LinkingOk /\ UnmappedOk /\ NotTakenForNew
  BY <1>1, <1>3, <1>4 DEF LinkingOk, UnmappedOk, NotTakenForNew, Kept
<1>11. ClosedOk /\ ApartOk
  BY <1>1, <1>5, FreeFacts, NoneOrdered DEF ClosedOk, ApartOk, Ordered
<1> QED  BY <1>6, <1>7, <1>9, <1>10, <1>11 DEF TabInv, Shape, OpenInv

LEMMA TabInvInductive ==
  TabInv /\ [Next]_vars => TabInv'
<1> SUFFICES ASSUME TabInv, [Next]_vars PROVE TabInv'
  OBVIOUS
<1>1. CASE Next
  BY <1>1, NextTabInv
<1>2. CASE UNCHANGED vars
  <2>1. UNCHANGED <<tabs, label, opened, tabMap, grpMap, minted, queue, titles, timers, flush, opening, unheard,
                    raced, tasks, lock, loading, forObj, freed, made, grouped>>
    BY <1>2 DEF vars, captured, browser, pending, ghosts, remoteVars
  <2>2. Shape'
    <3>1. DOMAIN tabMap \in SUBSET (1 .. opened) /\ opening \in SUBSET DOMAIN forObj /\ TasksOk
      BY DEF TabInv, Shape, TabsOk
    <3>2. TasksOk'
      BY <2>1, <3>1 DEF TasksOk
    <3> QED  BY <2>1, <3>1, <3>2, QuietShape DEF TabInv
  <2>3. GroupInv'
    BY <2>1, SameSettles, SettledGroups DEF TabInv
  <2>4. Kept' = Kept
    BY <2>1 DEF Kept
  <2>5. LinkingOk' /\ UnmappedOk' /\ NotTakenForNew'
    BY <2>1, <2>4 DEF TabInv, OpenInv, LinkingOk, UnmappedOk, NotTakenForNew
  <2>6. ClosedOk' /\ ApartOk'
    BY <2>1 DEF TabInv, OpenInv, ClosedOk, ApartOk, Ordered
  <2>7. IsList(tasks')
    BY <2>1 DEF TabInv
  <2> QED  BY <2>2, <2>3, <2>5, <2>6, <2>7 DEF TabInv, OpenInv
<1> QED  BY <1>1, <1>2

\* TabInv holds of every state: the typing of the tabs, their events, flushes
\* and calls, the group lock, and the tabs opened for remote ones.
THEOREM TabInvHolds == Spec => []TabInv
<1>1. Init => TabInv
  BY InitTabInv
<1>2. TabInv /\ [Next]_vars => TabInv'
  BY TabInvInductive
<1> QED  BY <1>1, <1>2, PTL DEF Spec

LEMMA OneGroupWithMembers ==
  ASSUME GroupInv, Shape
  PROVE  OneLocalGroup
<1>1. MembersOk /\ GroupsOk /\ HolderOk /\ MadeOk
  BY DEF GroupInv
<1>2. PICK S : S = {g \in made : Members(g) # {}}
  OBVIOUS
<1>3. \A g \in S : g \in Mapped \/ \E k \in DOMAIN tasks : tasks[k].at = "linkGroup" /\ tasks[k].grp = g
  <2> TAKE g \in S
  <2>1. g \in made /\ g # 0
    BY <1>1, <1>2 DEF GroupsOk
  <2>2. g \in DOMAIN label
    BY <1>1, <1>2, <2>1 DEF Members, MembersOk
  <2> QED  BY <1>1, <2>1, <2>2 DEF MadeOk
<1>4. "linkGroup" \in Holding
  BY DEF Holding
<1>5. \A k \in DOMAIN tasks : tasks[k].at = "linkGroup" => Mapped \subseteq {tasks[k].grp}
  BY <1>1, <1>4 DEF HolderOk, HeldIn
<1>6. \A j, k \in DOMAIN tasks : tasks[j].at = "linkGroup" /\ tasks[k].at = "linkGroup" => j = k
  BY <1>4, OneHolder
<1>7. \A g, h \in S : g = h
  BY <1>1, <1>3, <1>5, <1>6 DEF GroupsOk
<1>8. S = {} \/ \E g : S = {g}
  BY <1>7
<1>9. Cardinality(S) <= 1
  <2>1. Cardinality({}) = 0 /\ \A g : Cardinality({g}) = 1
    BY FS_EmptySet, FS_Singleton
  <2>2. Cardinality(S) = 0 \/ Cardinality(S) = 1
    BY <1>8, <2>1
  <2> QED  BY <2>2
<1> QED  BY <1>2, <1>9 DEF OneLocalGroup

\* Tabs of one remote group that are opened at the same time end in one local
\* group: groupSyncLock lets one call at a time look the group up, make it and
\* store its mapping, whatever the user and the flushes do meanwhile.
THEOREM OneLocalGroupHolds == Spec => []OneLocalGroup
<1>1. TabInv => OneLocalGroup
  BY OneGroupWithMembers DEF TabInv
<1> QED  BY <1>1, TabInvHolds, PTL

\* A tab opened for a remote one is never announced as a new tab of this device:
\* guard.run and materializingTabIds cover it until its mapping is stored, and
\* a burst that drops the mapping has the tab's removal, after its updates.
THEOREM NotTakenForNewHolds == Spec => []NotTakenForNew
<1>1. TabInv => NotTakenForNew
  BY DEF TabInv, OpenInv
<1> QED  BY <1>1, TabInvHolds, PTL

--------------------------------------------------------------------------------
(***************************************************************************)
(* AnnounceInv.                                                            *)
(***************************************************************************)
LEMMA RemoteBelow ==
  \A o \in Remote : o \in Int /\ o < 0
<1> QED  BY TheirsAssumption DEF Remote

\* Steps that stage and send nothing, and give tabs and groups only remote objects.
LEMMA SameAnnounced ==
  ASSUME Shape, AnnounceInv, UNCHANGED <<flush, sent, minted, crashes>>, raced \subseteq raced',
         \A t \in DOMAIN tabMap' : SameAt(tabMap, tabMap', t) \/ tabMap'[t] \in Remote,
         \A g \in DOMAIN grpMap' : SameAt(grpMap, grpMap', g) \/ grpMap'[g] \in Remote,
         \A o \in DOMAIN state' : o \in DOMAIN state \union Remote
  PROVE  AnnounceInv'
<1>1. OpsOk /\ IdsOk /\ crashes \in Nat /\ minted \in Nat
  BY DEF AnnounceInv, Shape, TabsOk
<1>2. \A o \in Remote : o \in Int /\ o < 0 /\ o <= minted /\ ~(o > 0)
  BY <1>1, RemoteBelow
<1>3. OpsOk'
  BY <1>1 DEF OpsOk
<1>4. IdsOk'
  <2>1. \A t \in DOMAIN tabMap' : tabMap'[t] \in Int /\ tabMap'[t] <= minted'
    BY <1>1, <1>2 DEF IdsOk, SameAt
  <2>2. \A g \in DOMAIN grpMap' : grpMap'[g] \in Int /\ grpMap'[g] <= minted'
    BY <1>1, <1>2 DEF IdsOk, SameAt
  <2>3. \A o \in DOMAIN state' : o \in Int /\ o <= minted'
    BY <1>1, <1>2 DEF IdsOk
  <2>4. ASSUME NEW g \in DOMAIN grpMap', grpMap'[g] > 0
        PROVE  /\ \A t \in DOMAIN tabMap' : tabMap'[t] # grpMap'[g]
               /\ \A i \in Slots : \A k \in 1 .. Len(flush'[i].ops) :
                    flush'[i].ops[k].tab # 0 => flush'[i].ops[k].obj # grpMap'[g]
    <3>1. SameAt(grpMap, grpMap', g)
      BY <1>2, <2>4
    <3> QED  BY <1>1, <1>2, <2>4, <3>1 DEF IdsOk, SameAt
  <2> QED  BY <2>1, <2>2, <2>3, <2>4 DEF IdsOk
<1>5. ASSUME crashes' = 0 PROVE AnnouncedOk' /\ UpdatesOk' /\ StatesOk' /\ (sent.early \subseteq raced)'
  <2>1. AnnouncedOk /\ UpdatesOk /\ StatesOk /\ sent.early \subseteq raced
    BY <1>5 DEF AnnounceInv
  <2>2. AnnouncedOk'
    <3> SUFFICES ASSUME NEW t \in DOMAIN tabMap' \ raced', tabMap'[t] > 0
                 PROVE  \/ tabMap'[t] \in DOMAIN sent.created
                        \/ \E i \in Slots : /\ flush[i].at = "ops" /\ HasOp(flush[i].ops, "create", tabMap'[t])
                                            /\ About(flush[i].events, t)
      BY DEF AnnouncedOk
    <3>1. SameAt(tabMap, tabMap', t) /\ t \notin raced
      BY <1>2
    <3> QED  BY <2>1, <3>1 DEF AnnouncedOk, SameAt
  <2>3. UpdatesOk'
    BY <2>1 DEF UpdatesOk
  <2>4. StatesOk'
    <3> SUFFICES ASSUME 0 \notin raced', NEW g \in DOMAIN grpMap', grpMap'[g] > 0, grpMap'[g] \in DOMAIN state'
                 PROVE  grpMap'[g] \in DOMAIN sent.created
      BY DEF StatesOk
    <3>1. SameAt(grpMap, grpMap', g) /\ grpMap'[g] \in DOMAIN state /\ 0 \notin raced
      BY <1>2
    <3> QED  BY <2>1, <3>1 DEF StatesOk, SameAt
  <2> QED  BY <2>1, <2>2, <2>3, <2>4
<1> QED  BY <1>1, <1>3, <1>4, <1>5 DEF AnnounceInv

LEMMA ListensAnnounced ==
  ASSUME Shape, AnnounceInv, Listens
  PROVE  AnnounceInv'
<1>1. UNCHANGED <<captured, flush, crashes>> /\ raced \subseteq raced'
  BY DEF Listens
<1>2. UNCHANGED <<flush, sent, minted, crashes, tabMap, grpMap, state>>
  BY <1>1 DEF captured
<1> QED  BY <1>1, <1>2, SameAnnounced DEF SameAt

LEMMA TendsAnnounced ==
  ASSUME Shape, AnnounceInv, Tends
  PROVE  AnnounceInv'
<1>1. UNCHANGED <<flush, sent, minted, crashes, tabMap, raced>>
  BY DEF Tends
<1>2. /\ \A g \in DOMAIN grpMap' : (g \in DOMAIN grpMap /\ grpMap'[g] = grpMap[g]) \/ grpMap'[g] = TheirGroup
      /\ \A o \in DOMAIN state' : o \in DOMAIN state \union Remote
  BY DEF Tends
<1>3. TheirGroup \in Remote
  BY DEF Remote
<1> QED  BY <1>1, <1>2, <1>3, SameAnnounced DEF SameAt

LEMMA DropClosedAnnounced ==
  ASSUME Shape, AnnounceInv, DropClosed
  PROVE  AnnounceInv'
<1>1. UNCHANGED <<flush, sent, minted, crashes, raced, grpMap, state>>
  BY DEF DropClosed, ghosts
<1>2. \A t \in DOMAIN tabMap' : SameAt(tabMap, tabMap', t)
  BY DEF DropClosed, Without, SameAt
<1> QED  BY <1>1, <1>2, SameAnnounced DEF SameAt

LEMMA CreateAnnounced ==
  ASSUME Shape, AnnounceInv, NEW k, Create(k)
  PROVE  AnnounceInv'
<1>1. UNCHANGED <<flush, sent, minted, crashes, raced, grpMap, state, tabMap>>
  BY DEF Create, ghosts, captured
<1> QED  BY <1>1, SameAnnounced DEF SameAt

LEMMA LinkAnnounced ==
  ASSUME Shape, AnnounceInv, NEW k, Link(k)
  PROVE  AnnounceInv'
<1>1. Links(k)
  BY LinkLinks
<1>2. UNCHANGED <<flush, sent, minted, crashes, raced, grpMap, state>>
  BY <1>1 DEF Links, ghosts
<1>3. tasks[k].obj \in Remote
  BY <1>1 DEF Links, Shape, TasksOk, Remote
<1>4. \A t \in DOMAIN tabMap' : SameAt(tabMap, tabMap', t) \/ tabMap'[t] \in Remote
  BY <1>1, <1>3 DEF Links, SameAt
<1> QED  BY <1>2, <1>4, SameAnnounced DEF SameAt

\* The flushes keep their operations or lose them all.
LEMMA FewerOps ==
  ASSUME AnnounceInv, UNCHANGED <<tabMap, grpMap, state, minted>>,
         \A j \in Slots : flush'[j].ops = << >> \/ flush'[j].ops = flush[j].ops
  PROVE  OpsOk' /\ IdsOk'
<1>1. OpsOk /\ IdsOk
  BY DEF AnnounceInv
<1>2. Len(<< >>) = 0 /\ 1 .. 0 = {} /\ IsList(<< >>)
  BY NoEvents
<1>3. OpsIn(<< >>, minted)
  BY <1>2 DEF OpsIn
<1>4. OpsOk'
  BY <1>1, <1>3 DEF OpsOk
<1>5. \A j \in Slots : \A k \in 1 .. Len(flush'[j].ops) : k \in 1 .. Len(flush[j].ops) /\ flush'[j].ops[k] = flush[j].ops[k]
  BY <1>2
<1>6. IdsOk'
  BY <1>1, <1>5 DEF IdsOk
<1> QED  BY <1>4, <1>6

\* After a restart, or a change of the settings, only the numbers are followed.
LEMMA CrashAnnounced ==
  ASSUME Shape, AnnounceInv, \/ Crash
                             \/ \E i \in Slots : (TabsOff(i) \/ GroupsOff(i)) /\ UNCHANGED remoteVars
  PROVE  AnnounceInv'
<1>1. UNCHANGED <<tabMap, grpMap, state, minted>> /\ crashes' = crashes + 1 /\ crashes \in Nat
  BY DEF Crash, CaptureCrash, TabsOff, GroupsOff, captured, AnnounceInv
<1>2. crashes' \in Nat /\ crashes' # 0
  BY <1>1
<1>3. DOMAIN flush = Slots
  BY DEF Shape, FlushesOk
<1>4. \A j \in Slots : flush'[j].ops = << >> \/ flush'[j].ops = flush[j].ops
  <2>1. CASE Crash
    <3>1. \A j \in Slots : flush'[j] = Free
      BY <2>1 DEF Crash, CaptureCrash
    <3> QED  BY <3>1, FreeFacts
  <2>2. CASE \E i \in Slots : TabsOff(i)
    <3>1. PICK i \in Slots : flush' = [flush EXCEPT ![i] = Free]
      BY <2>2 DEF TabsOff
    <3> QED  BY <1>3, <3>1, FreeFacts
  <2>3. CASE \E i \in Slots : GroupsOff(i)
    <3>1. PICK i \in Slots : GroupsOff(i)
      BY <2>3
    <3>2. PICK S, new : /\ flush' = [flush EXCEPT ![i] = new]
                        /\ new = Free \/ new.ops = flush[i].ops
      BY <3>1, GroupsOffFacts
    <3> QED  BY <1>3, <3>2, FreeFacts
  <2> QED  BY <2>1, <2>2, <2>3
<1>5. OpsOk' /\ IdsOk'
  BY <1>1, <1>4, FewerOps
<1> QED  BY <1>2, <1>5 DEF AnnounceInv

LEMMA FlushTimerAnnounced ==
  ASSUME Shape, AnnounceInv, NEW i \in Slots, FlushTimer(i)
  PROVE  AnnounceInv'
<1>1. DOMAIN flush = Slots /\ flush[i].at = "free"
  BY DEF Shape, FlushesOk, FlushTimer
<1>2. PICK new : new = [Free EXCEPT !.at = "settings", !.events = queue]
  OBVIOUS
<1>3. new.ops = << >> /\ new.at = "settings"
  BY <1>2, FreeFacts
<1>4. /\ flush' = [flush EXCEPT ![i] = new] /\ raced \subseteq raced'
      /\ UNCHANGED <<tabMap, grpMap, state, minted, sent, crashes>>
  BY <1>2 DEF FlushTimer, captured
<1>5. flush'[i] = new /\ \A j \in Slots : j # i => flush'[j] = flush[j]
  BY <1>1, <1>4
<1>6. OpsOk' /\ IdsOk'
  BY <1>3, <1>4, <1>5, FewerOps
<1>7. ASSUME crashes' = 0 PROVE AnnouncedOk' /\ UpdatesOk' /\ StatesOk' /\ (sent.early \subseteq raced)'
  <2>1. AnnouncedOk /\ UpdatesOk /\ StatesOk /\ sent.early \subseteq raced
    BY <1>4, <1>7 DEF AnnounceInv
  <2>2. AnnouncedOk'
    <3> SUFFICES ASSUME NEW t \in DOMAIN tabMap \ raced', tabMap[t] > 0, tabMap[t] \notin DOMAIN sent.created
                 PROVE  \E j \in Slots : /\ flush'[j].at = "ops" /\ HasOp(flush'[j].ops, "create", tabMap[t])
                                         /\ About(flush'[j].events, t)
      BY <1>4 DEF AnnouncedOk
    <3>1. PICK j \in Slots : /\ flush[j].at = "ops" /\ HasOp(flush[j].ops, "create", tabMap[t])
                             /\ About(flush[j].events, t)
      BY <1>4, <2>1 DEF AnnouncedOk
    <3> QED  BY <1>1, <1>5, <3>1
  <2>3. UpdatesOk'
    <3>1. Len(<< >>) = 0 /\ 1 .. 0 = {}
      OBVIOUS
    <3>2. \A j \in Slots : \A k \in 1 .. Len(flush'[j].ops) : j # i /\ flush'[j] = flush[j]
      BY <1>3, <1>5, <3>1
    <3> QED  BY <1>4, <2>1, <3>2 DEF UpdatesOk
  <2>4. StatesOk' /\ (sent.early \subseteq raced)'
    BY <1>4, <2>1 DEF StatesOk
  <2> QED  BY <2>2, <2>3, <2>4
<1> QED  BY <1>4, <1>6, <1>7 DEF AnnounceInv

--------------------------------------------------------------------------------
(***************************************************************************)
(* What a burst has staged so far.                                         *)
(***************************************************************************)
\* The operations of acc are still there, and a new one is the event's.
LEMMA OpsGrow ==
  ASSUME NEW a, NEW e, NEW b, AccOk(a), StagedOps(a, e, b)
  PROVE  /\ IsList(b.ops)
         /\ \A kind, o : HasOp(a.ops, kind, o) => HasOp(b.ops, kind, o)
         /\ \A k \in 1 .. Len(b.ops) :
              \/ \E j \in 1 .. Len(a.ops) : b.ops[k] = a.ops[j]
              \/ StagedOp(a, e, b, b.ops[k])
         /\ \A o \in DOMAIN b.seen : o \in DOMAIN a.seen \/
              \E op : StagedOp(a, e, b, op) /\ o = op.obj /\ op.kind \in {"create", "update"} /\ HasOp(b.ops, op.kind, o)
<1>1. IsList(a.ops)
  BY DEF AccOk
<1>2. CASE b.ops = a.ops /\ b.seen = a.seen
  BY <1>1, <1>2
<1>3. CASE \E op : StagedOp(a, e, b, op) /\ b.ops = Append(a.ops, op)
  <2>1. PICK op : StagedOp(a, e, b, op) /\ b.ops = Append(a.ops, op)
    BY <1>3
  <2>2. PICK s, r, n : s = a.ops /\ r = b.ops /\ n = Len(s)
    OBVIOUS
  <2>3. IsList(s) /\ r = Append(s, op)
    BY <1>1, <2>1, <2>2
  <2>4. /\ IsList(r) /\ n \in Nat /\ Len(r) = n + 1 /\ r[n + 1] = op
        /\ \A k \in 1 .. n : r[k] = s[k]
    BY <2>2, <2>3, AppendList
  <2>5. \A kind, o : HasOp(s, kind, o) => HasOp(r, kind, o)
    <3> SUFFICES ASSUME NEW kind, NEW o, NEW k \in 1 .. n, s[k].kind = kind, s[k].obj = o
                 PROVE  HasOp(r, kind, o)
      BY <2>2 DEF HasOp
    <3>1. k \in 1 .. Len(r) /\ r[k] = s[k]
      BY <2>4
    <3> QED  BY <3>1 DEF HasOp
  <2>6. \A k \in 1 .. Len(r) : (\E j \in 1 .. n : r[k] = s[j]) \/ r[k] = op
    <3> TAKE k \in 1 .. Len(r)
    <3>1. k \in 1 .. n \/ k = n + 1
      BY <2>4
    <3> QED  BY <2>4, <3>1
  <2>7. HasOp(r, op.kind, op.obj)
    <3>1. PICK k : k = n + 1
      OBVIOUS
    <3>2. k \in 1 .. Len(r) /\ r[k] = op
      BY <2>4, <3>1
    <3> QED  BY <3>2 DEF HasOp
  <2>8. \A o \in DOMAIN b.seen : o \in DOMAIN a.seen \/ (o = op.obj /\ op.kind \in {"create", "update"})
    BY <2>1 DEF StagedOp
  <2>9. \A o \in DOMAIN b.seen : o \in DOMAIN a.seen \/
          \E x : StagedOp(a, e, b, x) /\ o = x.obj /\ x.kind \in {"create", "update"} /\ HasOp(b.ops, x.kind, o)
    BY <2>1, <2>2, <2>7, <2>8
  <2> QED  BY <2>1, <2>2, <2>4, <2>5, <2>6, <2>9
<1> QED  BY <1>2, <1>3 DEF StagedOps

\* Every number is one that was minted.
BoundIn(acc) ==
  /\ \A t \in DOMAIN acc.tabMap : acc.tabMap[t] \in Int /\ acc.tabMap[t] <= acc.next
  /\ \A g \in DOMAIN acc.grpMap : acc.grpMap[g] \in Int /\ acc.grpMap[g] <= acc.next
  /\ \A o \in DOMAIN acc.seen : o \in Int /\ o <= acc.next
  /\ OpsIn(acc.ops, acc.next)

\* IdsOk, of acc.
ApartIn(acc) ==
  \A g \in DOMAIN acc.grpMap : acc.grpMap[g] > 0 =>
    /\ \A t \in DOMAIN acc.tabMap : acc.tabMap[t] # acc.grpMap[g]
    /\ \A k \in 1 .. Len(acc.ops) : acc.ops[k].tab # 0 => acc.ops[k].obj # acc.grpMap[g]

LEMMA BoundOne ==
  ASSUME NEW a, NEW e, NEW b, AccOk(a), Staged(a, e, b), BoundIn(a), e.tab \in Nat
  PROVE  BoundIn(b)
<1>1. PICK n, m : n = a.next /\ m = b.next
  OBVIOUS
<1>2. n \in Nat /\ m \in Nat /\ n <= m /\ (n < m => n + 1 <= m)
  BY <1>1 DEF AccOk, Staged
<1>3. \A o \in Int : o <= n => o <= m
  BY <1>2
<1>4. StagedGroups(a, e, b) /\ StagedTabs(a, e, b) /\ StagedOps(a, e, b)
  BY DEF Staged
<1>5. \A t \in DOMAIN b.tabMap : b.tabMap[t] \in Int /\ b.tabMap[t] <= m
  BY <1>1, <1>2, <1>3, <1>4 DEF StagedTabs, SameAt, BoundIn
<1>6. \A g \in DOMAIN b.grpMap : b.grpMap[g] \in Int /\ b.grpMap[g] <= m
  <2> TAKE g \in DOMAIN b.grpMap
  <2>1. CASE SameAt(a.grpMap, b.grpMap, g)
    BY <1>1, <1>3, <2>1 DEF SameAt, BoundIn
  <2>2. CASE b.grpMap[g] = n + 1 /\ n < m
    BY <1>2, <2>2
  <2> QED  BY <1>1, <1>4, <2>1, <2>2 DEF StagedGroups
<1>7. \A op : StagedOp(a, e, b, op) => OpIn(op, m)
  <2> SUFFICES ASSUME NEW op, StagedOp(a, e, b, op) PROVE OpIn(op, m)
    OBVIOUS
  <2>1. DOMAIN op = OpFields /\ op.tab \in Nat
    BY DEF StagedOp
  <2>2. op.obj \in Int /\ op.obj <= m
    BY <1>1, <1>3, <1>5, <1>6 DEF StagedOp, BoundIn
  <2> QED  BY <2>1, <2>2 DEF OpIn
<1>8. OpsIn(b.ops, m)
  <2>1. \A k \in 1 .. Len(a.ops) : OpIn(a.ops[k], m)
    BY <1>1, <1>3 DEF BoundIn, OpsIn, OpIn
  <2> QED  BY <1>4, <1>7, <2>1, OpsGrow DEF OpsIn
<1>9. \A o \in DOMAIN b.seen : o \in Int /\ o <= m
  <2> TAKE o \in DOMAIN b.seen
  <2>1. CASE o \in DOMAIN a.seen
    BY <1>1, <1>3, <2>1 DEF BoundIn
  <2>2. CASE \E op : StagedOp(a, e, b, op) /\ o = op.obj
    BY <1>7, <2>2 DEF OpIn
  <2> QED  BY <1>4, <2>1, <2>2, OpsGrow
<1> QED  BY <1>1, <1>5, <1>6, <1>8, <1>9 DEF BoundIn

LEMMA ApartOne ==
  ASSUME NEW a, NEW e, NEW b, AccOk(a), Staged(a, e, b), BoundIn(a), ApartIn(a)
  PROVE  ApartIn(b)
<1>1. PICK n, m : n = a.next /\ m = b.next
  OBVIOUS
<1>2. n \in Nat /\ m \in Nat /\ n <= m
  BY <1>1 DEF AccOk, Staged
<1>3. StagedGroups(a, e, b) /\ StagedTabs(a, e, b) /\ StagedOps(a, e, b)
  BY DEF Staged
<1> SUFFICES ASSUME NEW g \in DOMAIN b.grpMap, b.grpMap[g] > 0
             PROVE  /\ \A t \in DOMAIN b.tabMap : b.tabMap[t] # b.grpMap[g]
                    /\ \A k \in 1 .. Len(b.ops) : b.ops[k].tab # 0 => b.ops[k].obj # b.grpMap[g]
  BY DEF ApartIn
<1>4. PICK id : id = b.grpMap[g]
  OBVIOUS
<1>5. \A o \in Int : o <= n => o # n + 1 /\ (n < m => o # m)
  BY <1>2
<1>6. SameAt(a.grpMap, b.grpMap, g) \/ (id = n + 1 /\ n < m)
  BY <1>1, <1>3, <1>4 DEF StagedGroups
<1>7. \A t \in DOMAIN a.tabMap : a.tabMap[t] # id
  BY <1>1, <1>4, <1>5, <1>6 DEF BoundIn, ApartIn, SameAt
<1>8. \A k \in 1 .. Len(a.ops) : a.ops[k].tab # 0 => a.ops[k].obj # id
  BY <1>1, <1>4, <1>5, <1>6 DEF BoundIn, ApartIn, SameAt, OpsIn, OpIn
<1>9. \A t \in DOMAIN b.tabMap : b.tabMap[t] # id
  <2> TAKE t \in DOMAIN b.tabMap
  <2>1. CASE SameAt(a.tabMap, b.tabMap, t)
    BY <1>7, <2>1 DEF SameAt
  <2>2. CASE ~SameAt(a.tabMap, b.tabMap, t)
    <3>1. b.tabMap[t] = m /\ n < m /\ (SameAt(a.grpMap, b.grpMap, g) \/ id < m)
      BY <1>1, <1>3, <1>4, <2>2 DEF StagedTabs
    <3>2. CASE SameAt(a.grpMap, b.grpMap, g)
      <4>1. id \in Int /\ id <= n
        BY <1>1, <1>4, <3>2 DEF SameAt, BoundIn
      <4> QED  BY <1>5, <3>1, <4>1
    <3>3. CASE id < m
      BY <1>2, <1>6, <3>1, <3>2, <3>3
    <3> QED  BY <3>1, <3>2, <3>3
  <2> QED  BY <2>1, <2>2
<1>10. \A op : StagedOp(a, e, b, op) /\ op.tab # 0 => op.obj # id
  BY <1>7, <1>9 DEF StagedOp
<1>11. \A k \in 1 .. Len(b.ops) : b.ops[k].tab # 0 => b.ops[k].obj # id
  BY <1>3, <1>8, <1>10, OpsGrow
<1> QED  BY <1>4, <1>9, <1>11

\* A tab has the object it had, or one that is announced.
AnnIn(acc, es) ==
  \A t \in DOMAIN acc.tabMap :
    \/ SameAt(tabMap, acc.tabMap, t)
    \/ HasOp(acc.ops, "create", acc.tabMap[t]) /\ About(es, t)

\* A group has the object it had, or a new one.
NewIn(acc) ==
  \A g \in DOMAIN acc.grpMap : SameAt(grpMap, acc.grpMap, g) \/ acc.grpMap[g] > minted

Sent(acc, o) == o \in DOMAIN sent.created \/ HasOp(acc.ops, "create", o)

\* A group with a state was announced or is.  R are the tabs counted as raced.
SeenIn(acc, R) ==
  0 \notin R => \A g \in DOMAIN acc.grpMap :
    acc.grpMap[g] > 0 /\ acc.grpMap[g] \in DOMAIN acc.seen => Sent(acc, acc.grpMap[g])

\* So was or is what is updated.
UpdIn(acc, R) ==
  \A k \in 1 .. Len(acc.ops) :
    acc.ops[k].kind = "update" /\ acc.ops[k].obj > 0 => acc.ops[k].tab \in R \/ Sent(acc, acc.ops[k].obj)

LEMMA NewOne ==
  ASSUME NEW a, NEW e, NEW b, AccOk(a), Staged(a, e, b), minted \in Nat, minted <= a.next, NewIn(a)
  PROVE  NewIn(b)
<1>1. PICK n, m, c : n = a.next /\ m = b.next /\ c = minted
  OBVIOUS
<1>2. n \in Nat /\ c \in Nat /\ n + 1 > c
  BY <1>1 DEF AccOk
<1> SUFFICES ASSUME NEW g \in DOMAIN b.grpMap PROVE SameAt(grpMap, b.grpMap, g) \/ b.grpMap[g] > c
  BY <1>1 DEF NewIn
<1>3. CASE SameAt(a.grpMap, b.grpMap, g)
  BY <1>1, <1>3 DEF NewIn, SameAt
<1>4. CASE b.grpMap[g] = n + 1
  BY <1>2, <1>4
<1> QED  BY <1>1, <1>3, <1>4 DEF Staged, StagedGroups

LEMMA AnnOne ==
  ASSUME NEW a, NEW e, NEW b, AccOk(a), Staged(a, e, b), NEW es, NEW k \in 1 .. Len(es), e = es[k], AnnIn(a, es)
  PROVE  AnnIn(b, es)
<1>1. StagedTabs(a, e, b) /\ StagedOps(a, e, b)
  BY DEF Staged
<1> SUFFICES ASSUME NEW t \in DOMAIN b.tabMap
             PROVE  SameAt(tabMap, b.tabMap, t) \/ (HasOp(b.ops, "create", b.tabMap[t]) /\ About(es, t))
  BY DEF AnnIn
<1>2. CASE SameAt(a.tabMap, b.tabMap, t)
  <2>1. t \in DOMAIN a.tabMap /\ a.tabMap[t] = b.tabMap[t] /\ t \in DOMAIN b.tabMap
    BY <1>2 DEF SameAt
  <2>2. SameAt(tabMap, a.tabMap, t) \/ (HasOp(a.ops, "create", a.tabMap[t]) /\ About(es, t))
    BY <2>1 DEF AnnIn
  <2>3. \A o : HasOp(a.ops, "create", o) => HasOp(b.ops, "create", o)
    BY <1>1, OpsGrow
  <2> QED  BY <2>1, <2>2, <2>3 DEF SameAt
<1>3. CASE ~SameAt(a.tabMap, b.tabMap, t)
  <2>1. t = e.tab /\ b.tabMap[t] = b.next /\ HasOp(b.ops, "create", b.next)
    BY <1>1, <1>3 DEF StagedTabs
  <2> QED  BY <2>1 DEF About
<1> QED  BY <1>2, <1>3

LEMMA SeenOne ==
  ASSUME NEW a, NEW e, NEW b, AccOk(a), Staged(a, e, b), BoundIn(a), ApartIn(a), NEW R, SeenIn(a, R)
  PROVE  SeenIn(b, R)
<1>1. PICK n, m : n = a.next /\ m = b.next
  OBVIOUS
<1>2. n \in Nat /\ \A o \in Int : o <= n => o # n + 1
  BY <1>1 DEF AccOk
<1>3. StagedGroups(a, e, b) /\ StagedOps(a, e, b)
  BY DEF Staged
<1> SUFFICES ASSUME 0 \notin R, NEW g \in DOMAIN b.grpMap, b.grpMap[g] > 0, b.grpMap[g] \in DOMAIN b.seen
             PROVE  Sent(b, b.grpMap[g])
  BY DEF SeenIn
<1>4. PICK id : id = b.grpMap[g]
  OBVIOUS
<1>5. SameAt(a.grpMap, b.grpMap, g) \/ id = n + 1
  BY <1>1, <1>3, <1>4 DEF StagedGroups
<1>6. \A o : Sent(a, o) => Sent(b, o)
  BY <1>3, OpsGrow DEF Sent
<1>7. id \in DOMAIN a.seen => Sent(b, id)
  <2> SUFFICES ASSUME id \in DOMAIN a.seen PROVE Sent(b, id)
    OBVIOUS
  <2>1. SameAt(a.grpMap, b.grpMap, g)
    BY <1>1, <1>2, <1>5 DEF BoundIn
  <2>2. Sent(a, id)
    BY <1>4, <2>1 DEF SeenIn, SameAt
  <2> QED  BY <1>6, <2>2
<1>8. CASE id \notin DOMAIN a.seen
  <2>1. PICK op : StagedOp(a, e, b, op) /\ id = op.obj /\ op.kind \in {"create", "update"} /\ HasOp(b.ops, op.kind, id)
    BY <1>3, <1>4, <1>8, OpsGrow
  <2>2. CASE op.kind = "create"
    BY <1>4, <2>1, <2>2 DEF Sent
  <2>3. CASE op.kind = "update"
    <3>1. e.tab \in DOMAIN a.tabMap /\ id = a.tabMap[e.tab]

      BY <1>8, <2>1, <2>3 DEF StagedOp
    <3>2. id # n + 1
      BY <1>1, <1>2, <3>1 DEF BoundIn
    <3>3. g \in DOMAIN a.grpMap /\ a.grpMap[g] = id
      BY <1>4, <1>5, <3>2 DEF SameAt
    <3> QED  BY <1>4, <3>1, <3>3 DEF ApartIn
  <2> QED  BY <2>1, <2>2, <2>3
<1> QED  BY <1>4, <1>7, <1>8

LEMMA UpdOne ==
  ASSUME NEW a, NEW e, NEW b, AccOk(a), Staged(a, e, b), BoundIn(a), NEW R, SeenIn(a, R), UpdIn(a, R),
         NEW es, NEW k \in 1 .. Len(es), e = es[k], AnnIn(a, es),
         \A t \in DOMAIN tabMap : About(es, t) /\ tabMap[t] > 0 => t \in R \/ tabMap[t] \in DOMAIN sent.created
  PROVE  UpdIn(b, R)
<1>1. PICK n, m : n = a.next /\ m = b.next
  OBVIOUS
<1>2. n \in Nat /\ \A o \in Int : o <= n => o # n + 1
  BY <1>1 DEF AccOk
<1>3. StagedGroups(a, e, b) /\ StagedOps(a, e, b)
  BY DEF Staged
<1>4. \A o : Sent(a, o) => Sent(b, o)
  BY <1>3, OpsGrow DEF Sent
<1>5. ASSUME NEW op, StagedOp(a, e, b, op), op.kind = "update", op.obj > 0
      PROVE  op.tab \in R \/ Sent(b, op.obj)
  <2>1. CASE op.tab = e.tab /\ e.tab \in DOMAIN a.tabMap /\ op.obj = a.tabMap[e.tab]
    <3>1. SameAt(tabMap, a.tabMap, e.tab) \/ HasOp(a.ops, "create", op.obj)
      BY <2>1 DEF AnnIn
    <3>2. About(es, e.tab)
      BY DEF About
    <3>3. op.tab \in R \/ Sent(a, op.obj)
      BY <1>5, <2>1, <3>1, <3>2 DEF SameAt, Sent
    <3> QED  BY <1>4, <3>3
  <2>2. CASE op.tab = 0 /\ e.grp \in DOMAIN b.grpMap /\ op.obj = b.grpMap[e.grp] /\ op.obj \in DOMAIN a.seen
    <3>1. b.grpMap[e.grp] # n + 1
      BY <1>1, <1>2, <2>2 DEF BoundIn
    <3>2. SameAt(a.grpMap, b.grpMap, e.grp)
      BY <1>1, <1>3, <2>2, <3>1 DEF StagedGroups
    <3>3. 0 \in R \/ Sent(a, op.obj)
      BY <1>5, <2>2, <3>2 DEF SeenIn, SameAt
    <3> QED  BY <1>4, <2>2, <3>3
  <2> QED  BY <1>5, <2>1, <2>2 DEF StagedOp
<1> SUFFICES ASSUME NEW p \in 1 .. Len(b.ops), b.ops[p].kind = "update", b.ops[p].obj > 0
             PROVE  b.ops[p].tab \in R \/ Sent(b, b.ops[p].obj)
  BY DEF UpdIn
<1>6. PICK op : op = b.ops[p]
  OBVIOUS
<1>7. CASE \E j \in 1 .. Len(a.ops) : op = a.ops[j]
  BY <1>4, <1>6, <1>7 DEF UpdIn
<1>8. CASE StagedOp(a, e, b, op)
  BY <1>5, <1>6, <1>8
<1> QED  BY <1>3, <1>6, <1>7, <1>8, OpsGrow

\* All of it.
AccIn(acc, es, R) ==
  /\ BoundIn(acc) /\ ApartIn(acc) /\ NewIn(acc)
  /\ crashes = 0 => AnnIn(acc, es) /\ SeenIn(acc, R) /\ UpdIn(acc, R)

LEMMA StageAcc ==
  ASSUME Shape, AnnounceInv, NEW i \in Slots, NEW f, NEW es, NEW m, Chain(i, f, es, m), NEW R, raced \subseteq R,
         crashes = 0 => \A t \in DOMAIN tabMap :
           About(es, t) /\ tabMap[t] > 0 => t \in R \/ tabMap[t] \in DOMAIN sent.created
  PROVE  \A k \in 0 .. m : AccIn(f[k], es, R)
<1>1. PICK G : G = {k \in 0 .. m : AccIn(f[k], es, R)}
  OBVIOUS
<1>2. m \in Nat /\ f[0] = Prefetched /\ m = Len(es) /\ EventsOk(es) /\ minted \in Nat
  BY DEF Chain, Shape, TabsOk
<1>3. PICK a : a = f[0]
  OBVIOUS
<1>4. a.tabMap = tabMap /\ a.grpMap = grpMap /\ a.next = minted /\ a.ops = << >> /\ DOMAIN a.seen = DOMAIN state
  BY <1>2, <1>3 DEF Prefetched, Overlay
<1>5. Len(<< >>) = 0 /\ 1 .. 0 = {} /\ IsList(<< >>)
  BY NoEvents
<1>6. BoundIn(a)
  <2>1. OpsIn(<< >>, minted)
    BY <1>5 DEF OpsIn
  <2> QED  BY <1>4, <2>1 DEF BoundIn, AnnounceInv, IdsOk
<1>7. ApartIn(a)
  BY <1>4, <1>5 DEF ApartIn, AnnounceInv, IdsOk
<1>8. NewIn(a)
  BY <1>4 DEF NewIn, SameAt
<1>9. ASSUME crashes = 0 PROVE AnnIn(a, es) /\ SeenIn(a, R) /\ UpdIn(a, R)
  <2>1. AnnIn(a, es)
    BY <1>4 DEF AnnIn, SameAt
  <2>2. SeenIn(a, R)
    BY <1>4, <1>9 DEF SeenIn, Sent, AnnounceInv, StatesOk
  <2>3. UpdIn(a, R)
    BY <1>4, <1>5 DEF UpdIn
  <2> QED  BY <2>1, <2>2, <2>3
<1>10. 0 \in G
  <2>1. AccIn(a, es, R)
    BY <1>6, <1>7, <1>8, <1>9 DEF AccIn
  <2> QED  BY <1>1, <1>2, <1>3, <2>1
<1>11. \A k \in 1 .. m : k - 1 \in G => k \in G
  <2> SUFFICES ASSUME NEW k \in 1 .. m, k - 1 \in G PROVE k \in G
    OBVIOUS
  <2>1. PICK c, d, e : c = f[k - 1] /\ d = f[k] /\ e = es[k]
    OBVIOUS
  <2>2. k \in 0 .. m /\ k - 1 \in 0 .. m /\ AccIn(c, es, R)
    BY <1>1, <1>2, <2>1
  <2>3. AccOk(c) /\ Staged(c, e, d)
    BY <2>1, <2>2 DEF Chain
  <2>4. minted <= c.next
    BY <2>1, <2>2, StageNumbers
  <2>5. e.tab \in Nat
    <3>1. EventIn(e, opened, DOMAIN forObj, grouped, DOMAIN label)
      BY <1>2, <2>1 DEF EventsOk, EventsIn
    <3> QED  BY <3>1 DEF EventIn
  <2>6. BoundIn(c) /\ ApartIn(c) /\ NewIn(c)
    BY <2>2 DEF AccIn
  <2>7. BoundIn(d)
    BY <2>3, <2>5, <2>6, BoundOne
  <2>8. ApartIn(d)
    BY <2>3, <2>6, ApartOne
  <2>9. NewIn(d)
    BY <1>2, <2>3, <2>4, <2>6, NewOne
  <2>10. ASSUME crashes = 0 PROVE AnnIn(d, es) /\ SeenIn(d, R) /\ UpdIn(d, R)
    <3>1. AnnIn(c, es) /\ SeenIn(c, R) /\ UpdIn(c, R)
      BY <2>2, <2>10 DEF AccIn
    <3>2. k \in 1 .. Len(es) /\ e = es[k]
      BY <1>2, <2>1
    <3>3. AnnIn(d, es)
      BY <2>3, <3>1, <3>2, AnnOne
    <3>4. SeenIn(d, R)
      BY <2>3, <2>6, <3>1, SeenOne
    <3>5. UpdIn(d, R)
      BY <2>3, <2>6, <2>10, <3>1, <3>2, UpdOne
    <3> QED  BY <3>3, <3>4, <3>5
  <2>11. AccIn(d, es, R)
    BY <2>7, <2>8, <2>9, <2>10 DEF AccIn
  <2> QED  BY <1>1, <2>1, <2>2, <2>11
<1>12. \A k \in 0 .. m : k \in G
  BY <1>2, <1>10, <1>11, Upward
<1> QED  BY <1>1, <1>12

\* Coalescing leaves operations out, no creation among them.
LEMMA CoalesceFacts ==
  ASSUME NEW ops, IsList(ops)
  PROVE  /\ IsList(Coalesce(ops))
         /\ \A k \in 1 .. Len(Coalesce(ops)) : \E j \in 1 .. Len(ops) : Coalesce(ops)[k] = ops[j]
         /\ \A o : HasOp(ops, "create", o) => HasOp(Coalesce(ops), "create", o)
<1>1. PICK m : m = Len(ops) /\ m \in Nat /\ DOMAIN ops = 1 .. m
  BY ListFacts
<1>2. PICK S, r : S = {i \in 1 .. m : ~Superseded(ops, i)} /\ r = KeepAt(ops, S)
  OBVIOUS
<1>3. r = Coalesce(ops)
  BY <1>1, <1>2 DEF Coalesce
<1>4. KeptUpTo(r, ops, S, m)
  BY <1>1, <1>2, KeepAtFacts
<1>5. \A k \in 1 .. Len(r) : \E j \in 1 .. m : r[k] = ops[j]
  <2>1. PICK h : \A j \in 1 .. Len(r) : h[j] \in 1 .. m /\ r[j] = ops[h[j]]
    BY <1>4 DEF KeptUpTo
  <2> QED  BY <2>1
<1>6. \A o : HasOp(ops, "create", o) => HasOp(r, "create", o)
  <2> SUFFICES ASSUME NEW o, NEW k \in 1 .. m, ops[k].kind = "create", ops[k].obj = o PROVE HasOp(r, "create", o)
    BY <1>1 DEF HasOp
  <2>1. ~Superseded(ops, k)
    BY DEF Superseded
  <2>2. k \in S
    BY <1>2, <2>1
  <2>3. PICK j \in 1 .. Len(r) : r[j] = ops[k]
    BY <1>4, <2>2 DEF KeptUpTo
  <2> QED  BY <2>3 DEF HasOp
<1> QED  BY <1>1, <1>3, <1>4, <1>5, <1>6 DEF KeptUpTo

--------------------------------------------------------------------------------
(***************************************************************************)
(* AnnounceInv, for the steps of a flush.                                  *)
(***************************************************************************)
LEMMA StageAnnounced ==
  ASSUME Shape, OpenInv, AnnounceInv, NEW i \in Slots, Stage(i)
  PROVE  AnnounceInv'
<1>1. PICK done, new : StagedFlush(i, done, new)
  BY StageFlush
<1>2. PICK f, es, m : Chain(i, f, es, m)
  BY StageChain
<1>3. m \in 0 .. m /\ f[m] = done /\ es = Burst(i) /\ AccOk(done) /\ minted \in Nat
  BY <1>1, <1>2 DEF Chain, StagedFlush, Shape, TabsOk
<1>4. flush[i].at = "settings" /\ DOMAIN flush = Slots
  BY <1>1 DEF StagedFlush, Shape, FlushesOk
<1>5. flush' = [flush EXCEPT ![i] = new] /\ tabMap' = done.tabMap /\ grpMap' = done.grpMap /\ minted' = done.next
  BY <1>1 DEF StagedFlush
<1>6. flush'[i] = new /\ \A j \in Slots : j # i => flush'[j] = flush[j]
  BY <1>4, <1>5
<1>7. /\ UNCHANGED <<state, sent, crashes>> /\ raced \subseteq raced'
      /\ \A t \in Stashed : \A j \in Slots \ {i} : t \in TabsOf(flush[j].events) => t \in raced'
  BY DEF Stage
<1>8. PICK R : R = raced'
  OBVIOUS
<1>9. OpsOk /\ IdsOk /\ crashes \in Nat
  BY DEF AnnounceInv
<1>10. ASSUME crashes = 0
       PROVE  \A t \in DOMAIN tabMap : About(es, t) /\ tabMap[t] > 0 => t \in R \/ tabMap[t] \in DOMAIN sent.created
  <2> SUFFICES ASSUME NEW t \in DOMAIN tabMap, About(es, t), tabMap[t] > 0, t \notin R, tabMap[t] \notin DOMAIN sent.created
               PROVE  FALSE
    OBVIOUS
  <2>1. AnnouncedOk /\ t \notin raced
    BY <1>7, <1>8, <1>10 DEF AnnounceInv
  <2>2. PICK j \in Slots : flush[j].at = "ops" /\ About(flush[j].events, t)
    BY <2>1 DEF AnnouncedOk
  <2>3. j # i
    BY <1>4, <2>2
  <2>4. CASE About(flush[i].events, t)
    <3>1. t \in 0 .. opened
      BY DEF Shape, TabsOk
    <3> QED  BY <2>1, <2>2, <2>3, <2>4, <3>1 DEF OpenInv, ApartOk
  <2>5. CASE t \in Stashed
    <3>1. IsList(flush[j].events)
      BY DEF Shape, FlushesOk, EventsOk, EventsIn
    <3>2. t \in TabsOf(flush[j].events)
      BY <2>2, <3>1, TabsOfFacts
    <3> QED  BY <1>7, <1>8, <2>3, <2>5, <3>2
  <2> QED  BY <1>3, <2>4, <2>5, BurstFacts
<1>11. AccIn(done, es, R) /\ minted <= done.next
  <2>1. \A k \in 0 .. m : AccIn(f[k], es, R)
    BY <1>2, <1>7, <1>8, <1>10, StageAcc
  <2> QED  BY <1>2, <1>3, <2>1, StageNumbers
<1>12. BoundIn(done) /\ ApartIn(done) /\ NewIn(done)
  BY <1>11 DEF AccIn
<1>13. PICK ops : ops = new.ops
  OBVIOUS
<1>14. /\ IsList(ops) /\ \A k \in 1 .. Len(ops) : \E j \in 1 .. Len(done.ops) : ops[k] = done.ops[j]
       /\ \A o : HasOp(done.ops, "create", o) => HasOp(ops, "create", o) /\ new.at = "ops" /\ new.events = es
  <2>1. IsList(done.ops) /\ IsList(<< >>) /\ Len(<< >>) = 0 /\ 1 .. 0 = {}
    BY <1>3, NoEvents DEF AccOk
  <2>2. CASE new = Free /\ done.ops = << >>
    BY <1>13, <2>1, <2>2, FreeFacts DEF HasOp
  <2>3. CASE new.at = "ops" /\ new.events = es /\ new.ops = Coalesce(done.ops)
    BY <1>13, <2>1, <2>3, CoalesceFacts
  <2> QED  BY <1>1, <1>3, <2>2, <2>3 DEF StagedFlush
<1>15. PICK c, d : c = minted /\ d = done.next
  OBVIOUS
<1>16. c \in Nat /\ d \in Nat /\ c <= d /\ \A o \in Int : (o <= c => o <= d) /\ (o > c => ~(o <= c))
  BY <1>3, <1>11, <1>15 DEF AccOk
<1>17. OpsOk'
  <2>1. OpsIn(ops, d)
    BY <1>12, <1>14, <1>15 DEF BoundIn, OpsIn
  <2>2. \A j \in Slots : j # i => OpsIn(flush[j].ops, d)
    BY <1>9, <1>15, <1>16 DEF OpsOk, OpsIn, OpIn
  <2> QED  BY <1>5, <1>6, <1>13, <1>15, <2>1, <2>2 DEF OpsOk
<1>18. IdsOk'
  <2>1. \A t \in DOMAIN tabMap' : tabMap'[t] \in Int /\ tabMap'[t] <= minted'
    BY <1>5, <1>12 DEF BoundIn
  <2>2. \A g \in DOMAIN grpMap' : grpMap'[g] \in Int /\ grpMap'[g] <= minted'
    BY <1>5, <1>12 DEF BoundIn
  <2>3. \A o \in DOMAIN state' : o \in Int /\ o <= minted'
    BY <1>5, <1>7, <1>9, <1>15, <1>16 DEF IdsOk
  <2>4. ASSUME NEW g \in DOMAIN grpMap', grpMap'[g] > 0
        PROVE  /\ \A t \in DOMAIN tabMap' : tabMap'[t] # grpMap'[g]
               /\ \A j \in Slots : \A k \in 1 .. Len(flush'[j].ops) :
                    flush'[j].ops[k].tab # 0 => flush'[j].ops[k].obj # grpMap'[g]
    <3>1. PICK id : id = done.grpMap[g] /\ id = grpMap'[g] /\ g \in DOMAIN done.grpMap /\ id > 0
      BY <1>5, <2>4
    <3>2. /\ \A t \in DOMAIN done.tabMap : done.tabMap[t] # id
          /\ \A k \in 1 .. Len(done.ops) : done.ops[k].tab # 0 => done.ops[k].obj # id
      BY <1>12, <3>1 DEF ApartIn
    <3>3. \A k \in 1 .. Len(ops) : ops[k].tab # 0 => ops[k].obj # id
      BY <1>14, <3>2
    <3>4. ASSUME NEW j \in Slots, j # i, NEW k \in 1 .. Len(flush[j].ops), flush[j].ops[k].tab # 0
          PROVE  flush[j].ops[k].obj # id
      <4>1. OpIn(flush[j].ops[k], minted)
        BY <1>9 DEF OpsOk, OpsIn
      <4>2. CASE SameAt(grpMap, done.grpMap, g)
        BY <1>9, <3>1, <3>4, <4>2 DEF IdsOk, SameAt
      <4>3. CASE id > c
        BY <1>15, <1>16, <4>1, <4>3 DEF OpIn
      <4> QED  BY <1>12, <1>15, <3>1, <4>2, <4>3 DEF NewIn
    <3>5. \A j \in Slots : \A k \in 1 .. Len(flush'[j].ops) : flush'[j].ops[k].tab # 0 => flush'[j].ops[k].obj # id
      BY <1>6, <1>13, <3>3, <3>4
    <3> QED  BY <1>5, <3>1, <3>2, <3>5
  <2> QED  BY <2>1, <2>2, <2>3, <2>4 DEF IdsOk
<1>19. ASSUME crashes' = 0 PROVE AnnouncedOk' /\ UpdatesOk' /\ StatesOk' /\ (sent.early \subseteq raced)'
  <2>1. crashes = 0 /\ AnnouncedOk /\ UpdatesOk /\ StatesOk /\ sent.early \subseteq raced
    BY <1>7, <1>19 DEF AnnounceInv
  <2>2. AnnIn(done, es) /\ UpdIn(done, R)
    BY <1>11, <2>1 DEF AccIn
  <2>3. AnnouncedOk'
    <3> SUFFICES ASSUME NEW t \in DOMAIN tabMap' \ raced', tabMap'[t] > 0, tabMap'[t] \notin DOMAIN sent.created
                 PROVE  \E j \in Slots : /\ flush'[j].at = "ops" /\ HasOp(flush'[j].ops, "create", tabMap'[t])
                                         /\ About(flush'[j].events, t)
      BY <1>7 DEF AnnouncedOk
    <3>1. CASE SameAt(tabMap, done.tabMap, t)
      <4>1. t \in DOMAIN tabMap \ raced /\ tabMap'[t] = tabMap[t]
        BY <1>5, <1>7, <3>1 DEF SameAt
      <4>2. PICK j \in Slots : /\ flush[j].at = "ops" /\ HasOp(flush[j].ops, "create", tabMap[t])
                               /\ About(flush[j].events, t)
        BY <2>1, <4>1 DEF AnnouncedOk
      <4> QED  BY <1>4, <1>6, <4>1, <4>2
    <3>2. CASE HasOp(done.ops, "create", done.tabMap[t]) /\ About(es, t)
      BY <1>5, <1>6, <1>13, <1>14, <3>2
    <3> QED  BY <1>5, <2>2, <3>1, <3>2 DEF AnnIn
  <2>4. UpdatesOk'
    <3>1. ASSUME NEW k \in 1 .. Len(ops)
          PROVE  /\ ops[k].kind = "update" /\ ops[k].obj > 0 =>
                      ops[k].tab \in R \/ ops[k].obj \in DOMAIN sent.created \/ HasOp(ops, "create", ops[k].obj)
                 /\ new.at # "states"
      <4>1. PICK j \in 1 .. Len(done.ops) : ops[k] = done.ops[j]
        BY <1>14
      <4>2. new.at # "states"
        BY <1>1, FreeFacts DEF StagedFlush
      <4> QED  BY <1>14, <2>2, <4>1, <4>2 DEF UpdIn, Sent
    <3>2. ASSUME NEW j \in Slots, NEW k \in 1 .. Len(flush'[j].ops)
          PROVE  LET op == flush'[j].ops[k]
                 IN  /\ flush'[j].at = "ops" /\ op.kind = "update" /\ op.obj > 0 =>
                          \/ op.tab \in raced' \/ op.obj \in DOMAIN sent'.created
                          \/ HasOp(flush'[j].ops, "create", op.obj)
                     /\ flush'[j].at = "states" /\ op.kind \in {"create", "update"} /\ op.obj > 0 =>
                          op.tab \in raced' \/ op.obj \in DOMAIN sent'.created
      <4>1. CASE j = i
        BY <1>6, <1>7, <1>8, <1>13, <3>1, <3>2, <4>1
      <4>2. CASE j # i
        <5>1. flush'[j] = flush[j] /\ sent' = sent /\ raced \subseteq raced' /\ k \in 1 .. Len(flush[j].ops)
          BY <1>6, <1>7, <3>2, <4>2
        <5> QED  BY <2>1, <5>1 DEF UpdatesOk
      <4> QED  BY <4>1, <4>2
    <3> QED  BY <3>2 DEF UpdatesOk
  <2>5. StatesOk'
    <3> SUFFICES ASSUME 0 \notin raced', NEW g \in DOMAIN grpMap', grpMap'[g] > 0, grpMap'[g] \in DOMAIN state
                 PROVE  grpMap'[g] \in DOMAIN sent.created
      BY <1>7 DEF StatesOk
    <3>1. PICK id : id = done.grpMap[g] /\ id = grpMap'[g] /\ g \in DOMAIN done.grpMap
      BY <1>5
    <3>2. id \in Int /\ id <= c
      BY <1>9, <1>15, <3>1 DEF IdsOk
    <3>3. SameAt(grpMap, done.grpMap, g)
      BY <1>12, <1>15, <1>16, <3>1, <3>2 DEF NewIn
    <3> QED  BY <1>7, <2>1, <3>1, <3>3 DEF StatesOk, SameAt
  <2> QED  BY <1>7, <2>1, <2>3, <2>4, <2>5
<1>20. crashes' \in Nat
  BY <1>7, <1>9
<1> QED  BY <1>17, <1>18, <1>19, <1>20 DEF AnnounceInv

\* The objects of a list's operations of some kinds.
LEMMA ObjsFacts ==
  ASSUME NEW ops, IsList(ops), NEW kinds
  PROVE  \A o : o \in Objs(ops, kinds) <=> \E k \in 1 .. Len(ops) : ops[k].kind \in kinds /\ ops[k].obj = o
<1>1. Range(ops) = {ops[k] : k \in 1 .. Len(ops)}
  <2>1. DOMAIN ops = 1 .. Len(ops)
    BY ListFacts
  <2> QED  BY <2>1 DEF Range
<1> QED  BY <1>1 DEF Objs

LEMMA CreateOperationsAnnounced ==
  ASSUME Shape, AnnounceInv, NEW i \in Slots, CreateOperations(i)
  PROVE  AnnounceInv'
<1>1. DOMAIN flush = Slots /\ DOMAIN flush[i] = {"at", "events", "ops"} /\ flush[i].at = "ops"
  BY DEF Shape, FlushesOk, CreateOperations
<1>2. PICK new : new = [flush[i] EXCEPT !.at = "states"]
  OBVIOUS
<1>3. new.at = "states" /\ new.ops = flush[i].ops /\ new.events = flush[i].events
  BY <1>1, <1>2
<1>4. flush' = [flush EXCEPT ![i] = new] /\ UNCHANGED <<tabMap, grpMap, state, minted, raced, crashes>>
  BY <1>2 DEF CreateOperations, ghosts
<1>5. flush'[i] = new /\ \A j \in Slots : j # i => flush'[j] = flush[j]
  BY <1>1, <1>4
<1>6. OpsOk' /\ IdsOk'
  BY <1>3, <1>4, <1>5, FewerOps
<1>7. PICK ops, C : ops = flush[i].ops /\ C = Objs(ops, {"create"})
  OBVIOUS
<1>8. IsList(ops)
  BY <1>7 DEF AnnounceInv, OpsOk, OpsIn
<1>9. \A o : o \in C <=> HasOp(ops, "create", o)
  BY <1>7, <1>8, ObjsFacts DEF HasOp
<1>10. PICK D : D = DOMAIN sent'.created
  OBVIOUS
<1>11. /\ D = C \union DOMAIN sent.created
       /\ sent'.early = sent.early \union
            {op.tab : op \in {x \in Range(ops) : x.kind = "update" /\ x.obj > 0 /\ x.obj \notin D}}
  BY <1>7, <1>10 DEF CreateOperations, Over
<1>12. ASSUME crashes' = 0 PROVE AnnouncedOk' /\ UpdatesOk' /\ StatesOk' /\ (sent.early \subseteq raced)'
  <2>1. AnnouncedOk /\ UpdatesOk /\ StatesOk /\ sent.early \subseteq raced
    BY <1>4, <1>12 DEF AnnounceInv
  <2>2. AnnouncedOk'
    <3> SUFFICES ASSUME NEW t \in DOMAIN tabMap \ raced, tabMap[t] > 0, tabMap[t] \notin D
                 PROVE  \E j \in Slots : /\ flush'[j].at = "ops" /\ HasOp(flush'[j].ops, "create", tabMap[t])
                                         /\ About(flush'[j].events, t)
      BY <1>4, <1>10 DEF AnnouncedOk
    <3>1. PICK j \in Slots : /\ flush[j].at = "ops" /\ HasOp(flush[j].ops, "create", tabMap[t])
                             /\ About(flush[j].events, t)
      BY <1>11, <2>1 DEF AnnouncedOk
    <3>2. j # i
      BY <1>7, <1>9, <1>11, <3>1
    <3> QED  BY <1>5, <3>1, <3>2
  <2>3. \A k \in 1 .. Len(ops) : ops[k].kind = "update" /\ ops[k].obj > 0 => ops[k].tab \in raced \/ ops[k].obj \in D
    BY <1>1, <1>7, <1>9, <1>11, <2>1 DEF UpdatesOk
  <2>4. \A k \in 1 .. Len(ops) : ops[k].kind = "create" => ops[k].obj \in D
    BY <1>9, <1>11 DEF HasOp
  <2>5. UpdatesOk'
    <3>1. ASSUME NEW j \in Slots, NEW k \in 1 .. Len(flush'[j].ops)
          PROVE  LET op == flush'[j].ops[k]
                 IN  /\ flush'[j].at = "ops" /\ op.kind = "update" /\ op.obj > 0 =>
                          \/ op.tab \in raced' \/ op.obj \in DOMAIN sent'.created
                          \/ HasOp(flush'[j].ops, "create", op.obj)
                     /\ flush'[j].at = "states" /\ op.kind \in {"create", "update"} /\ op.obj > 0 =>
                          op.tab \in raced' \/ op.obj \in DOMAIN sent'.created
      <4>1. CASE j = i
        BY <1>3, <1>4, <1>5, <1>7, <1>10, <2>3, <2>4, <3>1, <4>1
      <4>2. CASE j # i
        <5>1. /\ flush'[j] = flush[j] /\ raced' = raced /\ k \in 1 .. Len(flush[j].ops)
              /\ DOMAIN sent.created \subseteq DOMAIN sent'.created
          BY <1>4, <1>5, <1>10, <1>11, <3>1, <4>2
        <5> QED  BY <2>1, <5>1 DEF UpdatesOk
      <4> QED  BY <4>1, <4>2
    <3> QED  BY <3>1 DEF UpdatesOk
  <2>6. StatesOk'
    BY <1>4, <1>10, <1>11, <2>1 DEF StatesOk
  <2>7. sent'.early \subseteq raced'
    <3>1. Range(ops) = {ops[k] : k \in 1 .. Len(ops)}
      <4>1. DOMAIN ops = 1 .. Len(ops)
        BY <1>8, ListFacts
      <4> QED  BY <4>1 DEF Range
    <3>2. \A x \in Range(ops) : x.kind = "update" /\ x.obj > 0 /\ x.obj \notin D => x.tab \in raced
      BY <2>3, <3>1
    <3> QED  BY <1>4, <1>11, <2>1, <3>2
  <2> QED  BY <2>2, <2>5, <2>6, <2>7
<1>13. crashes' \in Nat
  BY <1>4 DEF AnnounceInv
<1> QED  BY <1>6, <1>12, <1>13 DEF AnnounceInv

LEMMA RecordStatesAnnounced ==
  ASSUME Shape, AnnounceInv, NEW i \in Slots, RecordStates(i)
  PROVE  AnnounceInv'
<1>1. DOMAIN flush = Slots /\ flush[i].at = "states"
  BY DEF Shape, FlushesOk, RecordStates
<1>2. flush' = [flush EXCEPT ![i] = Free] /\ UNCHANGED <<tabMap, grpMap, minted, sent, raced, crashes>>
  BY DEF RecordStates, ghosts
<1>3. flush'[i] = Free /\ \A j \in Slots : j # i => flush'[j] = flush[j]
  BY <1>1, <1>2
<1>4. OpsOk /\ IdsOk /\ crashes \in Nat
  BY DEF AnnounceInv
<1>5. PICK ops, N : ops = flush[i].ops /\ N = Objs(ops, {"create", "update"})
  OBVIOUS
<1>6. IsList(ops) /\ \A k \in 1 .. Len(ops) : OpIn(ops[k], minted)
  BY <1>4, <1>5 DEF OpsOk, OpsIn
<1>7. \A o : o \in N <=> \E k \in 1 .. Len(ops) : ops[k].kind \in {"create", "update"} /\ ops[k].obj = o
  BY <1>5, <1>6, ObjsFacts
<1>8. DOMAIN state' = N \union DOMAIN state
  BY <1>5 DEF RecordStates, Over, Payloads
<1>9. \A j \in Slots : flush'[j].ops = << >> \/ flush'[j].ops = flush[j].ops
  BY <1>3, FreeFacts
<1>10. Len(<< >>) = 0 /\ 1 .. 0 = {} /\ IsList(<< >>)
  BY NoEvents
<1>11. \A j \in Slots : \A k \in 1 .. Len(flush'[j].ops) : j # i /\ flush'[j] = flush[j]
  BY <1>3, <1>10, FreeFacts
<1>12. OpsOk'
  <2>1. OpsIn(<< >>, minted)
    BY <1>10 DEF OpsIn
  <2> QED  BY <1>2, <1>4, <1>9, <2>1 DEF OpsOk
<1>13. IdsOk'
  <2>1. \A o \in DOMAIN state' : o \in Int /\ o <= minted'
    BY <1>2, <1>4, <1>6, <1>7, <1>8 DEF IdsOk, OpIn
  <2> QED  BY <1>2, <1>4, <1>11, <2>1 DEF IdsOk
<1>14. ASSUME crashes' = 0 PROVE AnnouncedOk' /\ UpdatesOk' /\ StatesOk' /\ (sent.early \subseteq raced)'
  <2>1. AnnouncedOk /\ UpdatesOk /\ StatesOk /\ sent.early \subseteq raced
    BY <1>2, <1>14 DEF AnnounceInv
  <2>2. AnnouncedOk'
    <3> SUFFICES ASSUME NEW t \in DOMAIN tabMap \ raced, tabMap[t] > 0, tabMap[t] \notin DOMAIN sent.created
                 PROVE  \E j \in Slots : /\ flush'[j].at = "ops" /\ HasOp(flush'[j].ops, "create", tabMap[t])
                                         /\ About(flush'[j].events, t)
      BY <1>2 DEF AnnouncedOk
    <3>1. PICK j \in Slots : /\ flush[j].at = "ops" /\ HasOp(flush[j].ops, "create", tabMap[t])
                             /\ About(flush[j].events, t)
      BY <2>1 DEF AnnouncedOk
    <3> QED  BY <1>1, <1>3, <3>1
  <2>3. UpdatesOk'
    BY <1>2, <1>11, <2>1 DEF UpdatesOk
  <2>4. StatesOk'
    <3> SUFFICES ASSUME 0 \notin raced, NEW g \in DOMAIN grpMap, grpMap[g] > 0, grpMap[g] \in DOMAIN state'
                 PROVE  grpMap[g] \in DOMAIN sent.created
      BY <1>2 DEF StatesOk
    <3>1. CASE grpMap[g] \in DOMAIN state
      BY <2>1, <3>1 DEF StatesOk
    <3>2. CASE grpMap[g] \in N
      <4>1. PICK k \in 1 .. Len(ops) : ops[k].kind \in {"create", "update"} /\ ops[k].obj = grpMap[g]
        BY <1>7, <3>2
      <4>2. ops[k].tab = 0
        BY <1>4, <1>5, <4>1 DEF IdsOk
      <4>3. ops[k].tab \in raced \/ ops[k].obj \in DOMAIN sent.created
        BY <1>1, <1>5, <2>1, <4>1 DEF UpdatesOk
      <4> QED  BY <4>1, <4>2, <4>3
    <3> QED  BY <1>8, <3>1, <3>2
  <2> QED  BY <1>2, <2>1, <2>2, <2>3, <2>4
<1> QED  BY <1>2, <1>4, <1>12, <1>13, <1>14 DEF AnnounceInv

LEMMA NextAnnounced ==
  ASSUME TabInv, AnnounceInv, Next
  PROVE  AnnounceInv'
<1>1. Shape /\ IsList(tasks) /\ GroupInv /\ OpenInv
  BY DEF TabInv
<1>2. CASE Listens \/ Tends \/ DropClosed \/ Crash
  BY <1>1, <1>2, ListensAnnounced, TendsAnnounced, DropClosedAnnounced, CrashAnnounced
<1>3. CASE \E i \in Slots : FlushStep(i) /\ UNCHANGED remoteVars
  <2>1. PICK i \in Slots : FlushStep(i) /\ UNCHANGED remoteVars
    BY <1>3
  <2>2. CASE FlushTimer(i)
    BY <1>1, <2>2, FlushTimerAnnounced
  <2>3. CASE TabsOff(i) \/ GroupsOff(i)
    BY <1>1, <2>1, <2>3, CrashAnnounced
  <2>4. CASE Stage(i)
    BY <1>1, <2>4, StageAnnounced
  <2>5. CASE CreateOperations(i)
    BY <1>1, <2>5, CreateOperationsAnnounced
  <2>6. CASE RecordStates(i)
    BY <1>1, <2>6, RecordStatesAnnounced
  <2> QED  BY <2>1, <2>2, <2>3, <2>4, <2>5, <2>6 DEF FlushStep
<1>4. CASE \E k : Create(k) \/ Link(k)
  BY <1>1, <1>4, CreateAnnounced, LinkAnnounced
<1> QED  BY <1>1, <1>2, <1>3, <1>4, NextCases

LEMMA InitAnnounced ==
  ASSUME Init
  PROVE  AnnounceInv
<1>1. /\ tabMap = <<1>> /\ grpMap = None /\ minted = 1 /\ flush = [i \in Slots |-> Free] /\ crashes = 0
      /\ DOMAIN state = {1} /\ DOMAIN sent.created = {1} /\ sent.early = {}
  BY DEF Init, CaptureInit
<1>2. DOMAIN tabMap = {1} /\ tabMap[1] = 1 /\ DOMAIN grpMap = {}
  BY <1>1 DEF None
<1>3. Len(<< >>) = 0 /\ 1 .. 0 = {} /\ IsList(<< >>)
  BY NoEvents
<1>4. \A i \in Slots : flush[i].ops = << >> /\ Len(flush[i].ops) = 0 /\ 1 .. Len(flush[i].ops) = {}
  BY <1>1, <1>3, FreeFacts
<1>5. OpsOk
  BY <1>3, <1>4 DEF OpsOk, OpsIn
<1>6. IdsOk
  BY <1>1, <1>2 DEF IdsOk
<1>7. AnnouncedOk /\ UpdatesOk /\ StatesOk /\ sent.early \subseteq raced
  BY <1>1, <1>2, <1>4 DEF AnnouncedOk, UpdatesOk, StatesOk
<1> QED  BY <1>1, <1>5, <1>6, <1>7 DEF AnnounceInv

\* CreatedBeforeUpdated: until the worker is killed or sync switched off, no
\* update of an object of this device is sent before its creation, whatever the
\* tabs, the bursts and the batches, but for a tab two flushes worked on
\* (stageTabUpdated, stageGroupUpdated, createLocalOperationsBatch).

THEOREM CreatedBeforeUpdatedHolds == Spec => []CreatedBeforeUpdated
<1>1. Init => TabInv /\ AnnounceInv
  BY InitTabInv, InitAnnounced
<1>2. TabInv /\ AnnounceInv /\ [Next]_vars => TabInv' /\ AnnounceInv'
  <2> SUFFICES ASSUME TabInv, AnnounceInv, [Next]_vars PROVE TabInv' /\ AnnounceInv'
    OBVIOUS
  <2>1. TabInv'
    BY TabInvInductive
  <2>2. CASE Next
    BY <2>1, <2>2, NextAnnounced
  <2>3. CASE UNCHANGED vars
    <3>1. UNCHANGED <<flush, sent, minted, crashes, raced, tabMap, grpMap, state>>
      BY <2>3 DEF vars, captured, ghosts
    <3>2. AnnounceInv'
      BY <3>1, SameAnnounced DEF TabInv, SameAt
    <3> QED  BY <2>1, <3>2
  <2> QED  BY <2>2, <2>3
<1>3. AnnounceInv => CreatedBeforeUpdated
  BY DEF AnnounceInv, CreatedBeforeUpdated
<1> QED  BY <1>1, <1>2, <1>3, PTL DEF Spec

================================================================================
