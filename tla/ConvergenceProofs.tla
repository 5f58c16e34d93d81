--------------------------- MODULE ConvergenceProofs ---------------------------
(***************************************************************************)
(* Every device ends with the same winner of every field, and a deleted    *)
(* bookmark does not come back, for any number of devices and changes.     *)
(*                                                                         *)
(* What a device knows is the rows it has received and its own operations  *)
(* whose field states are recorded.  Quiet or not, its field states are    *)
(* the winners among these, and what the browser shows is what they say    *)
(* with the changes on top that are still on their way into them.          *)
(***************************************************************************)
EXTENDS Convergence, SequenceTheorems, WellFoundedInduction, TLAPS

Contents == {"title", "move"}

Change  == [kind : {"update", "move", "delete"}, val : Nat]
NodeRec == [in : BOOLEAN, title : Nat, move : Nat]
TodoRec == [op : OpRecord \cup {NoOp}, wins : SUBSET Fields, next : Nat]

TypeOK ==
  /\ clock  \in [Devices -> Nat]
  /\ states \in [Devices -> [Fields -> OpRecord \cup {NoState}]]
  /\ node   \in [Devices -> NodeRec]
  /\ mapped \in [Devices -> BOOLEAN]
  /\ queued \in [Devices -> Seq(Change)]
  /\ made   \in [Devices -> SUBSET OpRecord]
  /\ outbox \in [Devices -> Seq(OpRecord)]
  /\ at     \in [Devices -> Nat]
  /\ todo   \in [Devices -> TodoRec]
  /\ log    \in Seq(OpRecord) /\ folded \in Nat
  /\ base   \in OpRecord \cup {NoOp}
  /\ tomb   \in [op : OpRecord \cup {NoOp}, active : BOOLEAN]
  /\ changes \in 0 .. MaxChanges /\ restores \in Nat
  /\ folded <= Len(log)
  /\ \A d \in Devices : at[d] <= Len(log) /\ todo[d].next <= Len(log)

\* Every operation there is, and those of device d.
AllOps == Rows \cup UNION {Range(outbox[d]) : d \in Devices}
Own(d) == {op \in AllOps : op.dev = d}

\* The row up to which device d has resolved the log.
Upto(d) == IF todo[d] = Idle THEN at[d] ELSE todo[d].next

Seen(d) == {log[i] : i \in 1 .. Upto(d)} \cup (Own(d) \ made[d])

Clean(d, f) == <<d, f>> \notin mixed

\* Operations and changes on their way are told apart by their ids.
Numbered ==
  /\ \A x, y \in AllOps : x.id = y.id => x = y
  /\ \A x \in AllOps :
       x.id <= changes \/ (MaxChanges < x.id /\ x.id <= MaxChanges + restores)
  /\ \A d \in Devices : \A i \in 1 .. Len(queued[d]) :
       /\ queued[d][i].val \in 1 .. changes
       /\ \A x \in AllOps : x.id # queued[d][i].val
  /\ \A d, e \in Devices : \A i \in 1 .. Len(queued[d]), j \in 1 .. Len(queued[e]) :
       queued[d][i].val = queued[e][j].val => d = e /\ i = j

\* An operation made now has the highest key the device knows of.
Clocked(d) ==
  /\ made[d] \subseteq Own(d)
  /\ \A x \in Own(d) : x.lam <= clock[d]
  /\ \A i \in 1 .. Len(outbox[d]) : outbox[d][i].dev = d
  /\ \A f \in Fields : states[d][f] # NoState => states[d][f].lam <= clock[d]

\* The states are the winners of what the device has seen.
Winning(d) ==
  \A f \in Contents : Clean(d, f) =>
    /\ states[d][f] \in Seen(d) /\ f \in LocalFieldsOf(states[d][f])
    /\ \A x \in Seen(d) : f \in LocalFieldsOf(x) => x = states[d][f] \/ Beats(states[d][f], x)

\* A delete holds the liveness unless another operation than a move beats it.
Deleting(d) ==
  Clean(d, "liveness") =>
    /\ states[d]["liveness"] \in Seen(d)
    /\ \A e \in Seen(d) : Deletes(e) =>
         \/ e = states[d]["liveness"]
         \/ \E y \in Seen(d) : y.kind # "move" /\ Beats(y, e)

\* Local changes about field f that are not recorded yet.
QueuedFor(d, f) == {i \in 1 .. Len(queued[d]) : f \in LocalFieldsOf(queued[d][i])}
MadeFor(d, f)   == {op \in made[d] : f \in LocalFieldsOf(op)}

\* The operation whose browser change is due, and nothing local, holds the
\* fields it has won.
Due(d) ==
  todo[d] # Idle =>
    /\ todo[d].op = NoOp => \A f \in Fields : ~Clean(d, f)
    /\ todo[d].op # NoOp =>
         /\ todo[d].wins \subseteq FieldsOf(todo[d].op)
         /\ \A f \in FieldsOf(todo[d].op) : Clean(d, f) =>
              /\ QueuedFor(d, f) = {} /\ MadeFor(d, f) \subseteq {todo[d].op}
              /\ f \in todo[d].wins => states[d][f] = todo[d].op
         /\ Opens(todo[d].op) /\ Clean(d, "liveness") =>
              todo[d].wins = {} \/ (todo[d].wins = Fields /\ ~node[d].in)

DeleteDue(d) == todo[d] # Idle /\ todo[d].op # NoOp /\ Deletes(todo[d].op) /\ "liveness" \in todo[d].wins

\* A bookmark that is there is mapped and live, and nobody is deleting it.
Living(d) ==
  Clean(d, "liveness") /\ node[d].in =>
    /\ mapped[d]
    /\ IsLive(states[d]) \/ DeleteDue(d)
    /\ QueuedFor(d, "liveness") = {} 
    /\ \A op \in MadeFor(d, "liveness") : ~Deletes(op)

\* What the browser shows: the last change of the user on its way, else the winner.
Showing(d) ==
  \A f \in Contents : Clean(d, f) /\ Clean(d, "liveness") /\ node[d].in =>
    /\ \A i \in QueuedFor(d, f) :
         (\A j \in QueuedFor(d, f) : j <= i) => node[d][f] = queued[d][i].val
    /\ QueuedFor(d, f) = {} /\ ~(todo[d] # Idle /\ f \in todo[d].wins) =>
         \A x \in MadeFor(d, f) \cup {states[d][f]} :
           (\A y \in MadeFor(d, f) : y = x \/ Beats(x, y)) /\ (x = states[d][f] \/ Beats(x, states[d][f]))
             => node[d][f] = x.id

\* The tombstone is the last delete, as long as no restore follows.
Tombed ==
  \A i \in 1 .. Len(log) :
    Deletes(log[i]) /\ (\A j \in 1 .. Len(log) : j > i => log[j].kind \notin {"delete", "restore"})
      => tomb.active /\ tomb.op = log[i]

DeviceInv(d) ==
  Clocked(d) /\ Winning(d) /\ Deleting(d) /\ Due(d) /\ Living(d) /\ Showing(d)

ConvInv == TypeOK /\ Numbered /\ \A d \in Devices : DeviceInv(d)
-------------------------------------------------------------------------------
(***************************************************************************)
(* The ordering key, and the fields of operations.                         *)
(***************************************************************************)
LEMMA BeatsOrder ==
  ASSUME NEW x \in OpRecord, NEW y \in OpRecord
  PROVE  /\ ~Beats(x, x)
         /\ Beats(x, y) => ~Beats(y, x)
         /\ x.id # y.id => Beats(x, y) \/ Beats(y, x)
BY DEF OpRecord, Beats

LEMMA BeatsTransitive ==
  ASSUME NEW x \in OpRecord, NEW y \in OpRecord, NEW z \in OpRecord, Beats(x, y), Beats(y, z)
  PROVE  Beats(x, z)
BY DEF OpRecord, Beats

LEMMA LaterBeats ==
  ASSUME NEW x \in OpRecord, NEW y \in OpRecord, x.lam > y.lam
  PROVE  Beats(x, y)
BY DEF OpRecord, Beats

LEMMA FieldFacts ==
  ASSUME NEW x, x.kind \in {"create", "update", "move", "delete", "restore"}
  PROVE  /\ "title" \in LocalFieldsOf(x) <=> x.kind \in {"create", "restore", "update"}
         /\ "move" \in LocalFieldsOf(x) <=> x.kind \in {"create", "restore", "move"}
         /\ "liveness" \in LocalFieldsOf(x) <=> x.kind \in {"create", "restore", "delete"}
         /\ "title" \in FieldsOf(x) <=> x.kind \in {"create", "restore", "update"}
         /\ "move" \in FieldsOf(x) <=> x.kind \in {"create", "restore", "move"}
         /\ "liveness" \in FieldsOf(x)
         /\ FieldsOf(x) \subseteq Fields /\ LocalFieldsOf(x) \subseteq FieldsOf(x)
<1>1. CASE x.kind = "create"  BY <1>1 DEF FieldsOf, LocalFieldsOf, Fields
<1>2. CASE x.kind = "restore"  BY <1>2 DEF FieldsOf, LocalFieldsOf, Fields
<1>3. CASE x.kind = "update"  BY <1>3 DEF FieldsOf, LocalFieldsOf, Fields
<1>4. CASE x.kind = "move"  BY <1>4 DEF FieldsOf, LocalFieldsOf, Fields
<1>5. CASE x.kind = "delete"  BY <1>5 DEF FieldsOf, LocalFieldsOf, Fields
<1> QED  BY <1>1, <1>2, <1>3, <1>4, <1>5

\* A title or a place is taken by key alone.
LEMMA ContentTakes ==
  ASSUME NEW f \in Contents, NEW c, NEW x
  PROVE  Takes(f, c, x) <=> c = NoState \/ Beats(x, c)
BY DEF Takes, Contents

LEMMA ContentFields ==
  ASSUME NEW f \in Contents, NEW x, x.kind \in {"create", "update", "move", "delete", "restore"}
  PROVE  (f \in FieldsOf(x) <=> f \in LocalFieldsOf(x)) /\ f \in Fields
BY FieldFacts DEF Contents, Fields

\* resolveFields, field by field.
LEMMA ResolvedField ==
  ASSUME NEW st, NEW x, NEW f \in Fields
  PROVE  /\ f \in Wins(st, x) => Resolved(st, x)[f] = x
         /\ f \notin Wins(st, x) => Resolved(st, x)[f] = st[f]
BY DEF Resolved, Put

LEMMA RecordedField ==
  ASSUME NEW st, NEW x, NEW f \in Fields
  PROVE  /\ f \in LocalFieldsOf(x) => Recorded(st, x)[f] = x
         /\ f \notin LocalFieldsOf(x) => Recorded(st, x)[f] = st[f]
BY DEF Recorded, Put

LEMMA StatesType ==
  ASSUME NEW st \in [Fields -> OpRecord \cup {NoState}], NEW x \in OpRecord, NEW fs
  PROVE  Put(st, fs, x) \in [Fields -> OpRecord \cup {NoState}]
BY DEF Put

\* Sequences as sets.
LEMMA RangeAppend ==
  ASSUME NEW S, NEW s \in Seq(S), NEW e \in S
  PROVE  /\ Append(s, e) \in Seq(S) /\ Len(Append(s, e)) = Len(s) + 1
         /\ Range(Append(s, e)) = Range(s) \cup {e}
         /\ \A i \in 1 .. Len(s) : Append(s, e)[i] = s[i]
         /\ Append(s, e)[Len(s) + 1] = e
<1>1. /\ Append(s, e) \in Seq(S) /\ Len(Append(s, e)) = Len(s) + 1
      /\ \A i \in 1 .. Len(s) : Append(s, e)[i] = s[i]
      /\ Append(s, e)[Len(s) + 1] = e
  OBVIOUS
<1>2. DOMAIN s = 1 .. Len(s) /\ DOMAIN Append(s, e) = 1 .. Len(s) + 1 /\ Len(s) \in Nat
  BY <1>1, LenProperties
<1>3. Range(Append(s, e)) = Range(s) \cup {e}
  BY <1>1, <1>2 DEF Range
<1> QED  BY <1>1, <1>3

LEMMA RangeTail ==
  ASSUME NEW S, NEW s \in Seq(S), s # << >>
  PROVE  /\ Head(s) \in S /\ Tail(s) \in Seq(S) /\ Head(s) = s[1]
         /\ Len(s) \in Nat /\ Len(Tail(s)) = Len(s) - 1 /\ Len(s) >= 1
         /\ \A i \in 1 .. Len(s) - 1 : Tail(s)[i] = s[i + 1]
         /\ Range(s) = Range(Tail(s)) \cup {Head(s)}
<1>1. /\ Head(s) \in S /\ Tail(s) \in Seq(S) /\ Head(s) = s[1]
      /\ Len(s) \in Nat /\ Len(Tail(s)) = Len(s) - 1 /\ Len(s) >= 1
      /\ \A i \in 1 .. Len(s) - 1 : Tail(s)[i] = s[i + 1]
  BY HeadTailProperties, EmptySeq
<1>2. DOMAIN s = 1 .. Len(s) /\ DOMAIN Tail(s) = 1 .. Len(s) - 1
  BY <1>1, LenProperties
<1>3. \A x \in Range(s) : x \in Range(Tail(s)) \cup {Head(s)}
  <2>1. SUFFICES ASSUME NEW i \in 1 .. Len(s) PROVE s[i] \in Range(Tail(s)) \cup {Head(s)}
    BY <1>2 DEF Range
  <2>2. CASE i = 1
    BY <1>1, <2>2
  <2>3. CASE i # 1
    <3>1. i - 1 \in 1 .. Len(s) - 1 /\ (i - 1) + 1 = i
      BY <1>1, <2>3
    <3>2. s[i] = Tail(s)[i - 1]
      BY <1>1, <3>1
    <3> QED  BY <1>2, <3>1, <3>2 DEF Range
  <2> QED  BY <2>2, <2>3
<1>4. \A x \in Range(Tail(s)) \cup {Head(s)} : x \in Range(s)
  <2>1. ASSUME NEW i \in 1 .. Len(s) - 1 PROVE Tail(s)[i] \in Range(s)
    <3>1. i + 1 \in 1 .. Len(s)
      BY <1>1
    <3> QED  BY <1>1, <1>2, <3>1 DEF Range
  <2>2. Head(s) \in Range(s)
    BY <1>1, <1>2 DEF Range
  <2> QED  BY <1>2, <2>1, <2>2 DEF Range
<1> QED  BY <1>1, <1>3, <1>4
-------------------------------------------------------------------------------
(***************************************************************************)
(* Types.                                                                  *)
(***************************************************************************)
LEMMA FirstType == First \in OpRecord /\ First.id = 0 /\ First.dev = 1 /\ First.kind = "create"
BY DEF First, Op, OpRecord

LEMMA IdleType == Idle \in TodoRec /\ Idle.op = NoOp /\ Idle.next = 0
BY DEF Idle, TodoRec

LEMMA OpType ==
  ASSUME NEW d \in Nat, NEW n \in Nat, NEW l \in Nat,
         NEW k \in {"create", "update", "move", "delete", "restore"}
  PROVE  /\ Op(d, n, l, k) \in OpRecord
         /\ Op(d, n, l, k).id = n /\ Op(d, n, l, k).dev = d
         /\ Op(d, n, l, k).lam = l /\ Op(d, n, l, k).kind = k
BY DEF Op, OpRecord

LEMMA NewTodo ==
  ASSUME NEW op \in OpRecord \cup {NoOp}, NEW w \in SUBSET Fields, NEW n \in Nat
  PROVE  /\ [op |-> op, wins |-> w, next |-> n] \in TodoRec
         /\ [op |-> op, wins |-> w, next |-> n].op = op
         /\ [op |-> op, wins |-> w, next |-> n].wins = w
         /\ [op |-> op, wins |-> w, next |-> n].next = n
BY DEF TodoRec

LEMMA WinsFields ==
  ASSUME NEW st, NEW x \in OpRecord
  PROVE  Wins(st, x) \subseteq FieldsOf(x) /\ FieldsOf(x) \subseteq Fields
BY FieldFacts DEF Wins, OpRecord

LEMMA TypeInit == Init => TypeOK
<1> SUFFICES ASSUME Init PROVE TypeOK
  OBVIOUS
<1> USE DEF Init
<1>1. clock \in [Devices -> Nat] /\ at \in [Devices -> Nat]
  OBVIOUS
<1>2. states \in [Devices -> [Fields -> OpRecord \cup {NoState}]]
  BY FirstType DEF Resolved, Put, Blank
<1>3. node \in [Devices -> NodeRec] /\ mapped \in [Devices -> BOOLEAN]
  BY DEF NodeRec
<1>4. /\ queued \in [Devices -> Seq(Change)] /\ outbox \in [Devices -> Seq(OpRecord)]
      /\ made \in [Devices -> SUBSET OpRecord]
  BY EmptySeq
<1>5. todo \in [Devices -> TodoRec] /\ \A d \in Devices : todo[d].next = 0
  BY IdleType
<1>6. log \in Seq(OpRecord) /\ Len(log) = 1
  BY FirstType
<1>7. /\ base \in OpRecord \cup {NoOp} /\ tomb \in [op : OpRecord \cup {NoOp}, active : BOOLEAN]
      /\ changes \in 0 .. MaxChanges /\ restores \in Nat /\ folded \in Nat
  BY DevicesAssumption
<1>8. folded <= Len(log) /\ \A d \in Devices : at[d] <= Len(log) /\ todo[d].next <= Len(log)
  BY <1>5, <1>6
<1> QED  BY <1>1, <1>2, <1>3, <1>4, <1>5, <1>6, <1>7, <1>8 DEF TypeOK

-------------------------------------------------------------------------------
(***************************************************************************)
(* The highest of some rows exists.                                        *)
(***************************************************************************)
LEMMA LeastNumber ==
  ASSUME NEW T \in SUBSET Nat, T # {}
  PROVE  \E x \in T : \A y \in T : x <= y
<1>1. PICK x \in T : \A y \in T : <<y, x>> \notin OpToRel(<, Nat)
  BY NatLessThanWellFounded, WFMin
<1>2. \A y \in T : ~(y < x)
  BY <1>1 DEF OpToRel
<1> QED  BY <1>2

IsTop(t, S) == t \in S /\ \A p \in S \ {t} : Beats(t, p)

LEMMA TopIs ==
  ASSUME NEW S \in SUBSET OpRecord, NEW t, IsTop(t, S)
  PROVE  Top(S) = t
<1>1. \A o \in S : (\A p \in S \ {o} : Beats(o, p)) => o = t
  BY BeatsOrder DEF IsTop
<1> QED  BY <1>1 DEF Top, IsTop

LEMMA TopOfRows ==
  ASSUME TypeOK, Numbered, NEW m \in Nat, m < Len(log)
  PROVE  IsTop(Top({log[i] : i \in m + 1 .. Len(log)}), {log[i] : i \in m + 1 .. Len(log)})
<1> DEFINE T(k) == {log[i] : i \in m + 1 .. k}
           Bad == {k \in m + 1 .. Len(log) : ~\E t : IsTop(t, T(k))}
<1>1. Len(log) \in Nat /\ DOMAIN log = 1 .. Len(log) /\ \A i \in 1 .. Len(log) : log[i] \in OpRecord
  BY LenProperties, ElementOfSeq DEF TypeOK
<1>2. \A i, j \in 1 .. Len(log) : log[i].id = log[j].id => log[i] = log[j]
  BY <1>1 DEF Numbered, AllOps, Rows
<1>3. \A k \in m + 1 .. Len(log) : T(k) \in SUBSET OpRecord
  BY <1>1
<1>4. ASSUME NEW k \in m + 1 .. Len(log), k > m + 1, \E t : IsTop(t, T(k - 1))
      PROVE  \E t : IsTop(t, T(k))
  <2>1. PICK t : IsTop(t, T(k - 1))
    BY <1>4
  <2>2. T(k) = T(k - 1) \cup {log[k]}
    <3>1. \A i : i \in m + 1 .. k <=> i \in m + 1 .. k - 1 \/ i = k
      BY <1>1
    <3> QED  BY <3>1
  <2>3. log[k] \in OpRecord /\ t \in OpRecord /\ t \in T(k - 1)
    BY <1>1, <1>3, <1>4, <2>1 DEF IsTop
  <2>4. t = log[k] \/ Beats(t, log[k]) \/ Beats(log[k], t)
    <3>1. PICK i \in m + 1 .. k - 1 : t = log[i]
      BY <2>3
    <3>2. i \in 1 .. Len(log) /\ k \in 1 .. Len(log)
      BY <1>1
    <3> QED  BY <1>2, <2>3, <3>1, <3>2, BeatsOrder
  <2>5. CASE t = log[k] \/ Beats(t, log[k])
    <3>1. IsTop(t, T(k))
      BY <2>1, <2>2, <2>5 DEF IsTop
    <3> QED  BY <3>1
  <2>6. CASE Beats(log[k], t)
    <3>1. \A p \in T(k - 1) : p \in OpRecord
      BY <1>1
    <3>2. ASSUME NEW p \in T(k) \ {log[k]} PROVE Beats(log[k], p)
      <4>1. p = t \/ Beats(t, p)
        BY <2>1, <2>2 DEF IsTop
      <4> HIDE DEF T
      <4> QED  BY <2>2, <2>3, <2>6, <3>1, <4>1, BeatsTransitive
    <3>3. IsTop(log[k], T(k))
      BY <2>2, <3>2 DEF IsTop
    <3> QED  BY <3>3
  <2> QED  BY <2>4, <2>5, <2>6
<1>5. \E t : IsTop(t, T(m + 1))
  <2>1. T(m + 1) = {log[m + 1]}
    BY <1>1
  <2> QED  BY <2>1 DEF IsTop
<1>6. Bad = {}
  <2> SUFFICES ASSUME Bad # {} PROVE FALSE
    OBVIOUS
  <2>1. Bad \in SUBSET Nat
    BY <1>1
  <2>2. PICK k \in Bad : \A y \in Bad : k <= y
    <3> HIDE DEF Bad
    <3> QED  BY <2>1, LeastNumber
  <2>3. k \in m + 1 .. Len(log) /\ ~\E t : IsTop(t, T(k))
    OBVIOUS
  <2>4. k > m + 1
    <3>1. k # m + 1
      BY <1>5, <2>3
    <3> QED  BY <1>1, <2>3, <3>1
  <2>5. k - 1 \in m + 1 .. Len(log) /\ ~(k <= k - 1)
    BY <1>1, <2>3, <2>4
  <2>6. \E t : IsTop(t, T(k - 1))
    <3>1. k - 1 \notin Bad
      <4> HIDE DEF Bad
      <4> QED  BY <2>2, <2>5
    <3> QED  BY <2>5, <3>1
  <2> QED  BY <1>4, <2>3, <2>4, <2>6
<1>7. Len(log) \in m + 1 .. Len(log)
  BY <1>1
<1>8. PICK t : IsTop(t, T(Len(log)))
  BY <1>6, <1>7
<1> QED  BY <1>3, <1>7, <1>8, TopIs

LEMMA RowFacts ==
  ASSUME TypeOK
  PROVE  /\ Len(log) \in Nat /\ DOMAIN log = 1 .. Len(log)
         /\ Rows = {log[i] : i \in 1 .. Len(log)} /\ Rows \in SUBSET OpRecord
         /\ AllOps \in SUBSET OpRecord
         /\ \A d \in Devices : Range(outbox[d]) = {outbox[d][i] : i \in 1 .. Len(outbox[d])}
<1>1. Len(log) \in Nat /\ DOMAIN log = 1 .. Len(log) /\ \A i \in 1 .. Len(log) : log[i] \in OpRecord
  BY LenProperties, ElementOfSeq DEF TypeOK
<1>2. ASSUME NEW d \in Devices
      PROVE  /\ Range(outbox[d]) = {outbox[d][i] : i \in 1 .. Len(outbox[d])}
             /\ Range(outbox[d]) \in SUBSET OpRecord
  <2>1. outbox[d] \in Seq(OpRecord)
    BY DEF TypeOK
  <2> QED  BY <2>1, LenProperties, ElementOfSeq DEF Range
<1> QED  BY <1>1, <1>2 DEF Rows, AllOps

\* What a snapshot lists is a row, or what the one before listed.
LEMMA ListedFacts ==
  ASSUME TypeOK, Numbered
  PROVE  Combined \in Rows \cup {base} /\ Listed \in {NoOp, Combined} /\ Listed \in OpRecord \cup {NoOp}
<1>1. CASE folded = Len(log)
  BY <1>1, RowFacts DEF Combined, Listed, TypeOK
<1>2. CASE folded # Len(log)
  <2>1. folded \in Nat /\ folded < Len(log)
    BY <1>2, RowFacts DEF TypeOK
  <2>2. Combined \in {log[i] : i \in folded + 1 .. Len(log)}
    BY <1>2, <2>1, TopOfRows DEF Combined, IsTop
  <2>3. Combined \in Rows
    BY <2>1, <2>2, RowFacts
  <2> QED  BY <2>3, RowFacts DEF Listed
<1> QED  BY <1>1, <1>2
-------------------------------------------------------------------------------
(***************************************************************************)
(* What a step leaves alone.                                               *)
(***************************************************************************)
LEMMA DeviceTypes ==
  ASSUME TypeOK, NEW d \in Devices
  PROVE  /\ d \in Nat /\ clock[d] \in Nat /\ states[d] \in [Fields -> OpRecord \cup {NoState}]
         /\ node[d] \in NodeRec /\ mapped[d] \in BOOLEAN
         /\ queued[d] \in Seq(Change) /\ Len(queued[d]) \in Nat
         /\ \A i \in 1 .. Len(queued[d]) : queued[d][i] \in Change
         /\ made[d] \in SUBSET OpRecord
         /\ outbox[d] \in Seq(OpRecord) /\ at[d] \in Nat /\ todo[d] \in TodoRec
         /\ Upto(d) \in 0 .. Len(log) /\ Seen(d) \in SUBSET AllOps
<1>1. /\ d \in Nat /\ clock[d] \in Nat /\ states[d] \in [Fields -> OpRecord \cup {NoState}]
      /\ node[d] \in NodeRec /\ mapped[d] \in BOOLEAN
      /\ queued[d] \in Seq(Change) /\ made[d] \in SUBSET OpRecord
      /\ outbox[d] \in Seq(OpRecord) /\ at[d] \in Nat /\ todo[d] \in TodoRec
  BY DevicesAssumption DEF TypeOK
<1>2. Len(queued[d]) \in Nat /\ \A i \in 1 .. Len(queued[d]) : queued[d][i] \in Change
  BY <1>1, LenProperties, ElementOfSeq
<1>3. Upto(d) \in 0 .. Len(log)
  BY <1>1, RowFacts DEF Upto, TypeOK, TodoRec
<1>4. Seen(d) \in SUBSET AllOps
  BY <1>3, RowFacts DEF Seen, Own, AllOps
<1> QED  BY <1>1, <1>2, <1>3, <1>4

\* The event a flush takes, and the operation it becomes.
LEMMA CaptureFacts ==
  ASSUME TypeOK, NEW d \in Devices, Capture(d),
         NEW ev, ev = Head(queued[d]), NEW op, op = Op(d, ev.val, clock[d] + 1, ev.kind)
  PROVE  /\ op \in OpRecord /\ op.id = ev.val /\ op.dev = d /\ op.lam = clock[d] + 1
         /\ op.kind = ev.kind /\ ev.kind \in {"update", "move", "delete"} /\ ev.val \in Nat
         /\ queued[d] # << >> /\ Len(queued[d]) \in Nat /\ Len(queued[d]) >= 1
         /\ ev = queued[d][1] /\ queued'[d] = Tail(queued[d]) /\ Tail(queued[d]) \in Seq(Change)
         /\ Len(queued'[d]) = Len(queued[d]) - 1
         /\ \A i \in 1 .. Len(queued[d]) - 1 : queued'[d][i] = queued[d][i + 1]
         /\ \A e \in Devices \ {d} : queued'[e] = queued[e]
<1>1. d \in Nat /\ clock[d] + 1 \in Nat /\ queued[d] \in Seq(Change) /\ queued[d] # << >>
  BY DeviceTypes DEF Capture
<1>2. /\ ev \in Change /\ ev = queued[d][1] /\ Len(queued[d]) >= 1 /\ Len(queued[d]) \in Nat
      /\ Len(Tail(queued[d])) = Len(queued[d]) - 1 /\ Tail(queued[d]) \in Seq(Change)
      /\ \A i \in 1 .. Len(queued[d]) - 1 : Tail(queued[d])[i] = queued[d][i + 1]
  BY <1>1, RangeTail
<1>3. queued'[d] = Tail(queued[d]) /\ \A e \in Devices \ {d} : queued'[e] = queued[e]
  BY DEF Capture, TypeOK
<1>4. ev.val \in Nat /\ ev.kind \in {"update", "move", "delete"}
  BY <1>2 DEF Change
<1>5. /\ op \in OpRecord /\ op.id = ev.val /\ op.dev = d /\ op.lam = clock[d] + 1
      /\ op.kind = ev.kind
  BY <1>1, <1>4 DEF Op, OpRecord
<1> QED  BY <1>1, <1>2, <1>3, <1>4, <1>5

LEMMA RestoreFacts ==
  ASSUME TypeOK, NEW d \in Devices, Restore(d),
         NEW op, op = Op(d, MaxChanges + restores', clock[d] + 1, "restore")
  PROVE  /\ op \in OpRecord /\ op.id = MaxChanges + restores + 1 /\ op.dev = d
         /\ op.lam = clock[d] + 1 /\ op.kind = "restore"
         /\ restores' = restores + 1 /\ restores \in Nat /\ MaxChanges \in Nat
<1>1. d \in Nat /\ clock[d] + 1 \in Nat
  BY DeviceTypes
<1>2. restores' = restores + 1 /\ restores \in Nat /\ MaxChanges \in Nat
  BY DevicesAssumption DEF Restore, TypeOK
<1>3. MaxChanges + restores' \in Nat /\ MaxChanges + restores' = MaxChanges + restores + 1
  BY <1>2
<1> QED  BY <1>1, <1>2, <1>3 DEF Op, OpRecord

LEMMA SameOps ==
  ASSUME outbox' = outbox, log' = log
  PROVE  AllOps' = AllOps /\ Rows' = Rows /\ \A e \in Devices : Own(e)' = Own(e)
BY DEF AllOps, Rows, Own

LEMMA NewOps ==
  ASSUME TypeOK, NEW d \in Devices, NEW op \in OpRecord, op.dev = d,
         outbox' = [outbox EXCEPT ![d] = Append(@, op)], log' = log
  PROVE  /\ AllOps' = AllOps \cup {op}
         /\ Own(d)' = Own(d) \cup {op}
         /\ \A e \in Devices \ {d} : Own(e)' = Own(e)
<1>1. outbox[d] \in Seq(OpRecord)
  BY DeviceTypes
<1>2. outbox'[d] = Append(outbox[d], op) /\ \A e \in Devices \ {d} : outbox'[e] = outbox[e]
  BY DEF TypeOK
<1>3. Range(outbox'[d]) = Range(outbox[d]) \cup {op}
  BY <1>1, <1>2, RangeAppend
<1>4. AllOps' = AllOps \cup {op}
  <2>1. \A e \in Devices \ {d} : Range(outbox'[e]) = Range(outbox[e])
    BY <1>2
  <2>2. Rows' = Rows
    BY DEF Rows
  <2>3. \A x : (\E e \in Devices : x \in Range(outbox'[e])) <=> (x = op \/ \E e \in Devices : x \in Range(outbox[e]))
    BY <1>3, <2>1
  <2> QED  BY <2>2, <2>3 DEF AllOps
<1> QED  BY <1>4 DEF Own

LEMMA UploadOps ==
  ASSUME TypeOK, NEW d \in Devices, Upload(d)
  PROVE  /\ AllOps' = AllOps /\ Rows' = Rows \cup {Head(outbox[d])}
         /\ log' \in Seq(OpRecord) /\ Len(log') = Len(log) + 1
         /\ \A i \in 1 .. Len(log) : log'[i] = log[i]
         /\ log'[Len(log) + 1] = Head(outbox[d])
<1> DEFINE op == Head(outbox[d])
<1>1. outbox[d] \in Seq(OpRecord) /\ outbox[d] # << >> /\ log \in Seq(OpRecord)
  BY DeviceTypes DEF Upload, TypeOK
<1>2. op \in OpRecord /\ Range(outbox[d]) = Range(Tail(outbox[d])) \cup {op}
  BY <1>1, RangeTail
<1>3. outbox'[d] = Tail(outbox[d]) /\ \A e \in Devices \ {d} : outbox'[e] = outbox[e]
  BY DEF TypeOK, Upload
<1>4. log' = Append(log, op)
  BY DEF Upload
<1>5. /\ log' \in Seq(OpRecord) /\ Len(log') = Len(log) + 1 /\ Range(log') = Range(log) \cup {op}
      /\ \A i \in 1 .. Len(log) : log'[i] = log[i]
      /\ log'[Len(log) + 1] = op
  BY <1>1, <1>2, <1>4, RangeAppend
<1>6. Rows = Range(log) /\ Rows' = Range(log')
  BY DEF Rows, Range
<1>7. AllOps' = AllOps
  <2>1. \A e \in Devices \ {d} : Range(outbox'[e]) = Range(outbox[e])
    BY <1>3
  <2>2. Range(outbox[d]) = Range(outbox'[d]) \cup {op}
    BY <1>2, <1>3
  <2>3. \A x : (\E e \in Devices : x \in Range(outbox[e])) <=>
               (x = op \/ \E e \in Devices : x \in Range(outbox'[e]))
    BY <2>1, <2>2
  <2>4. \A x : x \in AllOps <=> x \in Rows \/ \E e \in Devices : x \in Range(outbox[e])
    BY DEF AllOps
  <2>5. \A x : x \in AllOps' <=> x \in Rows' \/ \E e \in Devices : x \in Range(outbox'[e])
    BY DEF AllOps
  <2>6. \A x : x \in Rows' <=> x \in Rows \/ x = op
    BY <1>5, <1>6
  <2> HIDE DEF op
  <2>7. \A x : x \in AllOps' <=> x \in AllOps
    BY <2>3, <2>4, <2>5, <2>6
  <2> QED  BY <2>7
<1> QED  BY <1>5, <1>6, <1>7

\* A device that a step does not touch.
LEMMA OtherDevice ==
  ASSUME NEW e \in Devices, DeviceInv(e),
         clock'[e] = clock[e], states'[e] = states[e], node'[e] = node[e],
         mapped'[e] = mapped[e], queued'[e] = queued[e], made'[e] = made[e],
         at'[e] = at[e], todo'[e] = todo[e],
         \A i \in 1 .. Len(outbox'[e]) : outbox'[e][i].dev = e,
         Own(e)' = Own(e), Seen(e)' = Seen(e),
         \A f : Clean(e, f)' => Clean(e, f)
  PROVE  DeviceInv(e)'
<1>1. Clocked(e)'
  BY DEF DeviceInv, Clocked
<1>2. Winning(e)'
  BY DEF DeviceInv, Winning, Contents
<1>3. Deleting(e)'
  BY DEF DeviceInv, Deleting
<1>4. /\ \A f : QueuedFor(e, f)' = QueuedFor(e, f)
      /\ \A f : MadeFor(e, f)' = MadeFor(e, f)
      /\ DeleteDue(e)' <=> DeleteDue(e)
  BY DEF QueuedFor, MadeFor, DeleteDue
<1>5. Due(e)'
  BY <1>4 DEF DeviceInv, Due
<1>6. Living(e)'
  BY <1>4 DEF DeviceInv, Living
<1>7. Showing(e)'
  BY <1>4 DEF DeviceInv, Showing, Contents
<1> QED  BY <1>1, <1>2, <1>3, <1>5, <1>6, <1>7 DEF DeviceInv
-------------------------------------------------------------------------------
(***************************************************************************)
(* Every step keeps the types.                                             *)
(***************************************************************************)
LEMMA UserChangeType ==
  ASSUME TypeOK, NEW d \in Devices, NEW k \in Kinds, UserChange(d, k)
  PROVE  TypeOK'
<1> DEFINE ev == [kind |-> k, val |-> changes + 1]
<1>1. k \in {"update", "move", "delete"} /\ changes + 1 \in 0 .. MaxChanges /\ changes + 1 \in Nat
  <2>1. changes \in 0 .. MaxChanges
    BY DEF TypeOK
  <2>2. changes < MaxChanges
    BY DEF UserChange
  <2>3. MaxChanges \in Nat /\ k \in {"update", "move", "delete"}
    BY DevicesAssumption
  <2> QED  BY <2>1, <2>2, <2>3
<1>2. node' \in [Devices -> NodeRec]
  <2>1. node[d] \in NodeRec
    BY DeviceTypes
  <2>2. CASE k = "update"
    BY <1>1, <2>1, <2>2 DEF UserChange, NodeRec, TypeOK
  <2>3. CASE k = "move"
    BY <1>1, <2>1, <2>3 DEF UserChange, NodeRec, TypeOK
  <2>4. CASE k = "delete"
    BY <1>1, <2>1, <2>4 DEF UserChange, NodeRec, TypeOK
  <2> QED  BY <1>1, <2>2, <2>3, <2>4
<1>3. ev \in Change
  BY <1>1 DEF Change
<1>4. queued' \in [Devices -> Seq(Change)]
  <2>1. queued[d] \in Seq(Change)
    BY DeviceTypes
  <2>2. Append(queued[d], ev) \in Seq(Change)
    BY <1>3, <2>1, RangeAppend
  <2>3. queued' = [queued EXCEPT ![d] = Append(queued[d], ev)]
    BY DEF UserChange
  <2> HIDE DEF ev
  <2> QED  BY <2>2, <2>3 DEF TypeOK
<1> QED  BY <1>1, <1>2, <1>4 DEF TypeOK, UserChange, server

LEMMA CaptureType ==
  ASSUME TypeOK, NEW d \in Devices, Capture(d)
  PROVE  TypeOK'
<1> DEFINE ev == Head(queued[d])
           op == Op(d, ev.val, clock[d] + 1, ev.kind)
<1>1. clock[d] \in Nat /\ outbox[d] \in Seq(OpRecord)
  BY DeviceTypes
<1>2. Tail(queued[d]) \in Seq(Change)
  BY CaptureFacts
<1>3. op \in OpRecord
  BY CaptureFacts
<1>4. Append(outbox[d], op) \in Seq(OpRecord)
  BY <1>1, <1>3, RangeAppend
<1>5. queued' \in [Devices -> Seq(Change)]
  BY <1>2 DEF TypeOK, Capture
<1>6. \/ UNCHANGED <<clock, mapped, outbox, made>>
      \/ /\ clock' = [clock EXCEPT ![d] = clock[d] + 1]
         /\ mapped' = [mapped EXCEPT ![d] = ev.kind # "delete"]
         /\ outbox' = [outbox EXCEPT ![d] = Append(outbox[d], op)]
         /\ made' = [made EXCEPT ![d] = made[d] \cup {op}]
  BY DEF Capture
<1> HIDE DEF ev, op
<1>7. /\ clock' \in [Devices -> Nat] /\ mapped' \in [Devices -> BOOLEAN]
      /\ outbox' \in [Devices -> Seq(OpRecord)] /\ made' \in [Devices -> SUBSET OpRecord]
  <2>1. CASE UNCHANGED <<clock, mapped, outbox, made>>
    BY <2>1 DEF TypeOK
  <2>2. CASE ~UNCHANGED <<clock, mapped, outbox, made>>
    <3>1. /\ clock' = [clock EXCEPT ![d] = clock[d] + 1]
          /\ mapped' = [mapped EXCEPT ![d] = ev.kind # "delete"]
          /\ outbox' = [outbox EXCEPT ![d] = Append(outbox[d], op)]
          /\ made' = [made EXCEPT ![d] = made[d] \cup {op}]
      BY <1>6, <2>2
    <3>2. clock' \in [Devices -> Nat]
      BY <1>1, <3>1 DEF TypeOK
    <3>3. mapped' \in [Devices -> BOOLEAN]
      BY <3>1 DEF TypeOK
    <3>4. outbox' \in [Devices -> Seq(OpRecord)]
      BY <1>4, <3>1 DEF TypeOK
    <3>5. made' \in [Devices -> SUBSET OpRecord]
      BY <1>3, <3>1 DEF TypeOK
    <3> QED  BY <3>2, <3>3, <3>4, <3>5
  <2> QED  BY <2>1, <2>2
<1> QED  BY <1>5, <1>7 DEF TypeOK, Capture, server

LEMMA RecordType ==
  ASSUME TypeOK, NEW d \in Devices, Record(d)
  PROVE  TypeOK'
<1>1. PICK op \in made[d] :
        /\ states' = [states EXCEPT ![d] = Recorded(@, op)]
        /\ made' = [made EXCEPT ![d] = @ \ {op}]
        /\ UNCHANGED <<clock, node, mapped, queued, outbox, at, todo, server,
                       changes, restores, folds>>
  BY DEF Record
<1>2. op \in OpRecord /\ Recorded(states[d], op) \in [Fields -> OpRecord \cup {NoState}]
  BY DeviceTypes, StatesType DEF Recorded
<1> QED  BY <1>1, <1>2 DEF TypeOK, server

LEMMA RestoreType ==
  ASSUME TypeOK, NEW d \in Devices, Restore(d)
  PROVE  TypeOK'
<1> DEFINE op == Op(d, MaxChanges + restores', clock[d] + 1, "restore")
           w == Wins(states[d], op)
<1>1. /\ d \in Nat /\ clock[d] \in Nat /\ outbox[d] \in Seq(OpRecord) /\ at[d] \in Nat
      /\ states[d] \in [Fields -> OpRecord \cup {NoState}]
  BY DeviceTypes
<1>2. restores' \in Nat
  BY RestoreFacts
<1>3. op \in OpRecord
  BY RestoreFacts
<1>4. /\ Append(outbox[d], op) \in Seq(OpRecord)
      /\ Resolved(states[d], op) \in [Fields -> OpRecord \cup {NoState}]
      /\ w \in SUBSET Fields
  <2> HIDE DEF op
  <2> QED  BY <1>1, <1>3, RangeAppend, StatesType, WinsFields DEF Resolved
<1>5. /\ clock' = [clock EXCEPT ![d] = clock[d] + 1]
      /\ outbox' = [outbox EXCEPT ![d] = Append(outbox[d], op)]
      /\ states' = [states EXCEPT ![d] = Resolved(states[d], op)]
      /\ todo' = [todo EXCEPT ![d] = [op |-> op, wins |-> w, next |-> at[d]]]
  BY DEF Restore
<1> HIDE DEF op, w
<1>6. /\ [op |-> op, wins |-> w, next |-> at[d]] \in TodoRec
      /\ [op |-> op, wins |-> w, next |-> at[d]].next = at[d]
  BY <1>1, <1>3, <1>4, NewTodo
<1>7. /\ clock' \in [Devices -> Nat] /\ outbox' \in [Devices -> Seq(OpRecord)]
      /\ states' \in [Devices -> [Fields -> OpRecord \cup {NoState}]]
  <2>1. /\ clock \in [Devices -> Nat] /\ outbox \in [Devices -> Seq(OpRecord)]
        /\ states \in [Devices -> [Fields -> OpRecord \cup {NoState}]]
    BY DEF TypeOK
  <2>2. clock' \in [Devices -> Nat]
    BY <1>1, <1>5, <2>1
  <2>3. outbox' \in [Devices -> Seq(OpRecord)]
    BY <1>4, <1>5, <2>1
  <2>4. states' \in [Devices -> [Fields -> OpRecord \cup {NoState}]]
    BY <1>4, <1>5, <2>1
  <2> QED  BY <2>2, <2>3, <2>4
<1>8. todo' \in [Devices -> TodoRec] /\ \A e \in Devices : todo'[e].next <= Len(log)
  <2>1. \A e \in Devices : todo'[e] = IF e = d THEN [op |-> op, wins |-> w, next |-> at[d]] ELSE todo[e]
    BY <1>5 DEF TypeOK
  <2>2. todo' \in [Devices -> TodoRec]
    BY <1>5, <1>6 DEF TypeOK
  <2> QED  BY <2>1, <2>2, <1>6 DEF TypeOK
<1> QED  BY <1>2, <1>7, <1>8 DEF TypeOK, Restore, server

LEMMA UploadType ==
  ASSUME TypeOK, NEW d \in Devices, Upload(d)
  PROVE  TypeOK'
<1> DEFINE op == Head(outbox[d])
<1>1. outbox[d] \in Seq(OpRecord) /\ outbox[d] # << >> /\ Len(log) \in Nat
  BY DeviceTypes, RowFacts DEF Upload
<1>2. op \in OpRecord /\ Tail(outbox[d]) \in Seq(OpRecord)
  BY <1>1, RangeTail
<1>3. log' \in Seq(OpRecord) /\ Len(log') = Len(log) + 1
  BY UploadOps
<1>4. outbox' \in [Devices -> Seq(OpRecord)]
  BY <1>2 DEF TypeOK, Upload
<1>5. tomb' \in [op : OpRecord \cup {NoOp}, active : BOOLEAN]
  <2>1. tomb' \in {[op |-> op, active |-> TRUE], [tomb EXCEPT !.active = FALSE], tomb}
    BY DEF Upload
  <2> HIDE DEF op
  <2>2. tomb \in [op : OpRecord \cup {NoOp}, active : BOOLEAN]
    BY DEF TypeOK
  <2>3. [op |-> op, active |-> TRUE] \in [op : OpRecord \cup {NoOp}, active : BOOLEAN]
    BY <1>2
  <2>4. [tomb EXCEPT !.active = FALSE] \in [op : OpRecord \cup {NoOp}, active : BOOLEAN]
    BY <2>2
  <2> QED  BY <2>1, <2>2, <2>3, <2>4
<1>6. folded' <= Len(log') /\ \A e \in Devices : at'[e] <= Len(log') /\ todo'[e].next <= Len(log')
  <2>1. \A e \in Devices : todo[e].next \in Nat
    BY DEF TypeOK, TodoRec
  <2>2. /\ folded \in Nat /\ folded <= Len(log) /\ log \in Seq(OpRecord)
        /\ \A e \in Devices : at[e] \in Nat /\ at[e] <= Len(log) /\ todo[e].next <= Len(log)
    BY DEF TypeOK
  <2>3. Len(log) \in Nat
    BY <2>2, LenProperties
  <2>4. folded' = folded /\ at' = at /\ todo' = todo
    BY DEF Upload
  <2> QED  BY <1>3, <2>1, <2>2, <2>3, <2>4
<1> QED  BY <1>3, <1>4, <1>5, <1>6 DEF TypeOK, Upload

LEMMA ReceiveType ==
  ASSUME TypeOK, NEW d \in Devices, Receive(d)
  PROVE  TypeOK'
<1> DEFINE i == at[d] + 1
           op == log[i]
           w == Wins(states[d], op)
<1>1. /\ clock[d] \in Nat /\ at[d] \in Nat /\ Len(log) \in Nat
      /\ states[d] \in [Fields -> OpRecord \cup {NoState}]
  BY DeviceTypes, RowFacts
<1>2. i \in 1 .. Len(log)
  BY <1>1 DEF Receive
<1>3. op \in OpRecord
  BY <1>2, ElementOfSeq DEF TypeOK
<1>4. Larger(clock[d], op.lam) + 1 \in Nat
  <2>1. op.lam \in Nat
    BY <1>3 DEF OpRecord
  <2> HIDE DEF op
  <2> QED  BY <1>1, <2>1 DEF Larger
<1>5. /\ clock' = [clock EXCEPT ![d] = Larger(clock[d], op.lam) + 1]
      /\ states' = [states EXCEPT ![d] = Resolved(states[d], op)]
      /\ todo' = [todo EXCEPT ![d] = [op |-> op, wins |-> w, next |-> i]]
  BY DEF Receive
<1> HIDE DEF op, i
<1>6. /\ Resolved(states[d], op) \in [Fields -> OpRecord \cup {NoState}]
      /\ w \in SUBSET Fields
  BY <1>1, <1>3, StatesType, WinsFields DEF Resolved
<1> HIDE DEF w
<1>7. /\ [op |-> op, wins |-> w, next |-> i] \in TodoRec
      /\ [op |-> op, wins |-> w, next |-> i].next = i
  BY <1>1, <1>2, <1>3, <1>6, NewTodo
<1>8. todo' \in [Devices -> TodoRec] /\ \A e \in Devices : todo'[e].next <= Len(log)
  <2>1. \A e \in Devices : todo'[e] = IF e = d THEN [op |-> op, wins |-> w, next |-> i] ELSE todo[e]
    BY <1>5 DEF TypeOK
  <2>2. todo' \in [Devices -> TodoRec]
    BY <1>5, <1>7 DEF TypeOK
  <2>3. \A e \in Devices : todo[e].next <= Len(log)
    BY DEF TypeOK
  <2>4. i <= Len(log)
    BY <1>2
  <2> QED  BY <1>7, <2>1, <2>2, <2>3, <2>4
<1>9. clock' \in [Devices -> Nat] /\ states' \in [Devices -> [Fields -> OpRecord \cup {NoState}]]
  BY <1>4, <1>5, <1>6 DEF TypeOK
<1> QED  BY <1>8, <1>9 DEF TypeOK, Receive, server

\* What comes back from a snapshot, and the key it comes under.
LEMMA ResyncFacts ==
  ASSUME TypeOK, Numbered, NEW d \in Devices, Resync(d),
         NEW lam, lam = Larger(clock[d], IF Listed = NoOp THEN 0 ELSE Listed.lam) + 1,
         NEW op, op = SyntheticSnapshotOp(lam)
  PROVE  /\ lam \in Nat /\ clock[d] <= lam /\ op \in OpRecord \cup {NoOp}
         /\ op # NoOp => op \in OpRecord /\ op.lam <= lam
         /\ clock' = [clock EXCEPT ![d] = lam]
         /\ states' = [states EXCEPT ![d] = IF op = NoOp THEN Blank ELSE Resolved(Blank, op)]
         /\ todo' = [todo EXCEPT ![d] =
                       [op |-> op, wins |-> IF op = NoOp THEN {} ELSE FieldsOf(op),
                        next |-> Len(log)]]
<1>1. clock[d] \in Nat /\ Listed \in OpRecord \cup {NoOp}
  BY DeviceTypes, ListedFacts
<1>2. Listed # NoOp => Listed.lam \in Nat
  BY <1>1 DEF OpRecord
<1>3. lam \in Nat /\ clock[d] <= lam /\ (Listed # NoOp => Listed.lam <= lam)
  BY <1>1, <1>2 DEF Larger
<1>4. Op(0, 0, lam, "delete") \in OpRecord /\ Op(0, 0, lam, "delete").lam = lam
  BY <1>3, OpType
<1>5. op \in OpRecord \cup {NoOp} /\ (op # NoOp => op.lam <= lam)
  BY <1>1, <1>3, <1>4 DEF SyntheticSnapshotOp
<1> QED  BY <1>3, <1>5 DEF Resync

LEMMA ResyncType ==
  ASSUME TypeOK, Numbered, NEW d \in Devices, Resync(d)
  PROVE  TypeOK'
<1> DEFINE lam == Larger(clock[d], IF Listed = NoOp THEN 0 ELSE Listed.lam) + 1
           op == SyntheticSnapshotOp(lam)
           w == IF op = NoOp THEN {} ELSE FieldsOf(op)
           st == IF op = NoOp THEN Blank ELSE Resolved(Blank, op)
<1>1. /\ lam \in Nat /\ op \in OpRecord \cup {NoOp}
      /\ clock' = [clock EXCEPT ![d] = lam]
      /\ states' = [states EXCEPT ![d] = st]
      /\ todo' = [todo EXCEPT ![d] = [op |-> op, wins |-> w, next |-> Len(log)]]
  BY ResyncFacts
<1> HIDE DEF lam, op
<1>2. Blank \in [Fields -> OpRecord \cup {NoState}]
  BY DEF Blank
<1>3. w \in SUBSET Fields /\ st \in [Fields -> OpRecord \cup {NoState}]
  BY <1>1, <1>2, WinsFields, StatesType DEF Resolved
<1> HIDE DEF w, st
<1>4. /\ [op |-> op, wins |-> w, next |-> Len(log)] \in TodoRec
      /\ [op |-> op, wins |-> w, next |-> Len(log)].next = Len(log) /\ Len(log) \in Nat
  BY <1>1, <1>3, NewTodo, RowFacts
<1>5. todo' \in [Devices -> TodoRec] /\ \A e \in Devices : todo'[e].next <= Len(log)
  <2>1. \A e \in Devices :
          todo'[e] = IF e = d THEN [op |-> op, wins |-> w, next |-> Len(log)] ELSE todo[e]
    BY <1>1 DEF TypeOK
  <2>2. todo' \in [Devices -> TodoRec]
    BY <1>1, <1>4 DEF TypeOK
  <2>3. (\A e \in Devices : todo[e].next <= Len(log)) /\ Len(log) <= Len(log)
    BY <1>4 DEF TypeOK
  <2> QED  BY <1>4, <2>1, <2>2, <2>3
<1>6. clock' \in [Devices -> Nat] /\ states' \in [Devices -> [Fields -> OpRecord \cup {NoState}]]
  BY <1>1, <1>3 DEF TypeOK
<1> QED  BY <1>5, <1>6 DEF TypeOK, Resync, server

\* The browser change, operation by operation.
LEMMA ShownCases ==
  ASSUME NEW d \in Devices, NEW op \in OpRecord, NEW w
  PROVE  /\ Opens(op) /\ "liveness" \in w /\ ~(mapped[d] /\ node[d].in) =>
              Shown(d, op, w) = [in |-> TRUE, title |-> op.id, move |-> op.id]
         /\ Opens(op) /\ "liveness" \in w /\ mapped[d] /\ node[d].in =>
              Shown(d, op, w) \in {node[d], [node[d] EXCEPT !.move = op.id]}
         /\ Opens(op) /\ "liveness" \notin w => Shown(d, op, w) = node[d]
         /\ op.kind = "update" => Shown(d, op, w) =
              IF "title" \in w /\ mapped[d] THEN [node[d] EXCEPT !.title = op.id] ELSE node[d]
         /\ op.kind = "move" => Shown(d, op, w) =
              IF "move" \in w /\ IsLive(states[d]) /\ mapped[d]
                THEN [node[d] EXCEPT !.move = op.id] ELSE node[d]
         /\ op.kind = "delete" => Shown(d, op, w) =
              IF "liveness" \in w THEN [node[d] EXCEPT !.in = FALSE] ELSE node[d]
<1>1. op # NoOp
  BY MarkersAssumption
<1>2. CASE op.kind \in {"create", "restore"}
  BY <1>1, <1>2 DEF Shown, Opens
<1>3. CASE op.kind = "update"
  BY <1>1, <1>3 DEF Shown, Opens
<1>4. CASE op.kind = "move"
  BY <1>1, <1>4 DEF Shown, Opens
<1>5. CASE op.kind = "delete"
  BY <1>1, <1>5 DEF Shown, Opens
<1> QED  BY <1>2, <1>3, <1>4, <1>5 DEF OpRecord

LEMMA ShownType ==
  ASSUME TypeOK, NEW d \in Devices, NEW op \in OpRecord \cup {NoOp}, NEW w
  PROVE  Shown(d, op, w) \in NodeRec
<1>1. node[d] \in NodeRec
  BY DeviceTypes
<1>2. CASE op = NoOp
  <2>1. Shown(d, NoOp, w) = node[d]
    BY DEF Shown
  <2> QED  BY <1>1, <1>2, <2>1
<1>3. CASE op # NoOp
  <2>1. op \in OpRecord /\ op.id \in Nat
    BY <1>3 DEF OpRecord
  <2>2. Shown(d, op, w) \in
          {node[d], [in |-> TRUE, title |-> op.id, move |-> op.id], [node[d] EXCEPT !.in = FALSE],
           [node[d] EXCEPT !.title = op.id], [node[d] EXCEPT !.move = op.id]}
    BY <2>1, ShownCases DEF OpRecord, Opens
  <2>3. /\ [in |-> TRUE, title |-> op.id, move |-> op.id] \in NodeRec
        /\ [node[d] EXCEPT !.in = FALSE] \in NodeRec
        /\ [node[d] EXCEPT !.title = op.id] \in NodeRec
        /\ [node[d] EXCEPT !.move = op.id] \in NodeRec
    BY <1>1, <2>1 DEF NodeRec
  <2> QED  BY <1>1, <2>2, <2>3
<1> QED  BY <1>2, <1>3

LEMMA MutateType ==
  ASSUME TypeOK, NEW d \in Devices, Mutate(d)
  PROVE  TypeOK'
<1>1. todo[d] \in TodoRec /\ todo[d].next \in Nat /\ todo[d].next <= Len(log)
  BY DeviceTypes DEF TypeOK, TodoRec
<1>2. Shown(d, todo[d].op, todo[d].wins) \in NodeRec
  BY <1>1, ShownType DEF TodoRec
<1>3. node' = [node EXCEPT ![d] = Shown(d, todo[d].op, todo[d].wins)]
  BY DEF Mutate
<1>4. node' \in [Devices -> NodeRec]
  BY <1>2, <1>3 DEF TypeOK
<1>5. mapped' \in [Devices -> BOOLEAN]
  BY DEF Mutate, TypeOK
<1>6. /\ at' \in [Devices -> Nat] /\ todo' \in [Devices -> TodoRec]
      /\ \A e \in Devices : at'[e] <= Len(log) /\ todo'[e].next <= Len(log)
  <2>1. at' = [at EXCEPT ![d] = todo[d].next] /\ todo' = [todo EXCEPT ![d] = Idle]
    BY DEF Mutate
  <2> QED  BY <1>1, <2>1, IdleType, RowFacts DEF TypeOK
<1> QED  BY <1>4, <1>5, <1>6 DEF TypeOK, Mutate, server

LEMMA CompactType ==
  ASSUME TypeOK, Numbered, Compact
  PROVE  TypeOK'
BY ListedFacts, RowFacts DEF TypeOK, Compact, device
-------------------------------------------------------------------------------
(***************************************************************************)
(* Ids stay apart.                                                         *)
(***************************************************************************)
LEMMA SameNumbers ==
  ASSUME TypeOK, Numbered, AllOps' = AllOps, UNCHANGED <<queued, changes, restores>>
  PROVE  Numbered'
BY DEF Numbered

LEMMA UserChangeNumbered ==
  ASSUME TypeOK, Numbered, NEW d \in Devices, NEW k \in Kinds, UserChange(d, k)
  PROVE  Numbered'
<1> DEFINE ev == [kind |-> k, val |-> changes + 1]
           n == Len(queued[d])
<1>1. /\ changes' = changes + 1 /\ changes \in Nat /\ MaxChanges \in Nat /\ changes < MaxChanges
      /\ restores' = restores /\ restores \in Nat
  BY DevicesAssumption DEF UserChange, TypeOK
<1>2. AllOps' = AllOps
  BY SameOps DEF UserChange, server
<1>3. queued[d] \in Seq(Change) /\ n \in Nat /\ ev \in Change
  BY <1>1, DeviceTypes, DevicesAssumption DEF Change
<1>4. queued'[d] = Append(queued[d], ev) /\ \A e \in Devices \ {d} : queued'[e] = queued[e]
  BY <1>1 DEF UserChange, TypeOK
<1>5. /\ Len(queued'[d]) = n + 1 /\ queued'[d][n + 1].val = changes + 1
      /\ \A i \in 1 .. n : queued'[d][i] = queued[d][i]
  BY <1>3, <1>4, RangeAppend
<1> HIDE DEF ev
<1>6. \A e \in Devices : Len(queued[e]) \in Nat
  BY DeviceTypes
<1>7. \A x \in AllOps : x.id \in Nat
  BY RowFacts DEF OpRecord
<1>8. \A e \in Devices : \A i \in 1 .. Len(queued'[e]) :
        \/ e = d /\ i = n + 1 /\ queued'[e][i].val = changes + 1
        \/ i \in 1 .. Len(queued[e]) /\ queued'[e][i].val = queued[e][i].val
  <2>1. \A i \in 1 .. Len(queued'[d]) : i \in 1 .. n \/ i = n + 1
    BY <1>3, <1>5
  <2>2. \A e \in Devices : e # d => queued'[e] = queued[e]
    BY <1>4
  <2> QED  BY <1>5, <2>1, <2>2
<1>9. \A e \in Devices : \A i \in 1 .. Len(queued[e]) :
        /\ queued[e][i].val \in 1 .. changes
        /\ \A x \in AllOps : x.id # queued[e][i].val
  BY DEF Numbered
<1>10. \A x \in AllOps :
         x.id <= changes \/ (MaxChanges < x.id /\ x.id <= MaxChanges + restores)
  BY DEF Numbered
<1>11. \A e \in Devices : \A i \in 1 .. Len(queued'[e]) :
         /\ queued'[e][i].val \in 1 .. changes + 1
         /\ \A x \in AllOps : x.id # queued'[e][i].val
  <2>1. SUFFICES ASSUME NEW e \in Devices, NEW i \in 1 .. Len(queued'[e])
                 PROVE  /\ queued'[e][i].val \in 1 .. changes + 1
                        /\ \A x \in AllOps : x.id # queued'[e][i].val
    OBVIOUS
  <2>2. CASE e = d /\ i = n + 1 /\ queued'[e][i].val = changes + 1
    BY <1>1, <1>7, <1>10, <2>2
  <2>3. CASE i \in 1 .. Len(queued[e]) /\ queued'[e][i].val = queued[e][i].val
    BY <1>1, <1>9, <2>3
  <2> QED  BY <1>8, <2>2, <2>3
<1>12. \A e, g \in Devices : \A i \in 1 .. Len(queued'[e]), j \in 1 .. Len(queued'[g]) :
         queued'[e][i].val = queued'[g][j].val => e = g /\ i = j
  <2>1. SUFFICES ASSUME NEW e \in Devices, NEW g \in Devices,
                        NEW i \in 1 .. Len(queued'[e]), NEW j \in 1 .. Len(queued'[g]),
                        queued'[e][i].val = queued'[g][j].val
                 PROVE  e = g /\ i = j
    OBVIOUS
  <2>2. \/ e = d /\ i = n + 1 /\ queued'[e][i].val = changes + 1
        \/ i \in 1 .. Len(queued[e]) /\ queued'[e][i].val = queued[e][i].val
    BY <1>8
  <2>3. \/ g = d /\ j = n + 1 /\ queued'[g][j].val = changes + 1
        \/ j \in 1 .. Len(queued[g]) /\ queued'[g][j].val = queued[g][j].val
    BY <1>8
  <2>4. /\ i \in 1 .. Len(queued[e]) => queued[e][i].val \in 1 .. changes
        /\ j \in 1 .. Len(queued[g]) => queued[g][j].val \in 1 .. changes
    BY <1>9
  <2>5. CASE e = d /\ i = n + 1 /\ queued'[e][i].val = changes + 1
    BY <1>1, <2>1, <2>3, <2>4, <2>5
  <2>6. CASE g = d /\ j = n + 1 /\ queued'[g][j].val = changes + 1
    BY <1>1, <2>1, <2>2, <2>4, <2>6
  <2>7. CASE /\ i \in 1 .. Len(queued[e]) /\ queued'[e][i].val = queued[e][i].val
             /\ j \in 1 .. Len(queued[g]) /\ queued'[g][j].val = queued[g][j].val
    <3>1. queued[e][i].val = queued[g][j].val
      BY <2>1, <2>7
    <3> QED  BY <2>7, <3>1 DEF Numbered
  <2> QED  BY <2>2, <2>3, <2>5, <2>6, <2>7
<1>13. \A x \in AllOps :
         x.id <= changes + 1 \/ (MaxChanges < x.id /\ x.id <= MaxChanges + restores)
  BY <1>1, <1>7, <1>10
<1>14. \A x, y \in AllOps : x.id = y.id => x = y
  BY DEF Numbered
<1> QED  BY <1>1, <1>2, <1>11, <1>12, <1>13, <1>14 DEF Numbered

LEMMA CaptureNumbered ==
  ASSUME TypeOK, Numbered, NEW d \in Devices, Capture(d)
  PROVE  Numbered'
<1> DEFINE ev == Head(queued[d])
           op == Op(d, ev.val, clock[d] + 1, ev.kind)
<1>1. changes' = changes /\ restores' = restores /\ log' = log /\ Len(queued[d]) \in Nat
  BY DeviceTypes DEF Capture, server
<1>2. /\ ev = queued[d][1] /\ Len(queued[d]) >= 1 /\ Len(queued'[d]) = Len(queued[d]) - 1
      /\ \A i \in 1 .. Len(queued[d]) - 1 : queued'[d][i] = queued[d][i + 1]
  BY CaptureFacts
<1>3. \A e \in Devices \ {d} : queued'[e] = queued[e]
  BY CaptureFacts
<1>4. op \in OpRecord /\ op.id = ev.val /\ op.dev = d
  BY CaptureFacts
<1>5. AllOps' \in {AllOps, AllOps \cup {op}}
  <2>1. CASE outbox' = outbox
    BY <1>1, <2>1, SameOps
  <2>2. CASE outbox' # outbox
    <3>1. outbox' = [outbox EXCEPT ![d] = Append(@, op)]
      BY <2>2 DEF Capture
    <3> HIDE DEF op
    <3> QED  BY <1>1, <1>4, <3>1, NewOps
  <2> QED  BY <2>1, <2>2
<1> HIDE DEF ev, op
<1> DEFINE At(e, i) == IF e = d THEN i + 1 ELSE i
<1>6. \A e \in Devices : \A i \in 1 .. Len(queued'[e]) :
        At(e, i) \in 1 .. Len(queued[e]) /\ queued'[e][i] = queued[e][At(e, i)]
  <2>1. \A i \in 1 .. Len(queued'[d]) : i + 1 \in 1 .. Len(queued[d]) /\ queued'[d][i] = queued[d][i + 1]
    BY <1>1, <1>2
  <2>2. \A e \in Devices : e # d => \A i \in 1 .. Len(queued'[e]) :
          i \in 1 .. Len(queued[e]) /\ queued'[e][i] = queued[e][i]
    BY <1>3
  <2> QED  BY <2>1, <2>2
<1>7. \A e \in Devices : \A i \in 1 .. Len(queued'[e]) : d = e => At(e, i) # 1
  BY <1>1, <1>2, <1>3
<1>8. /\ 1 \in 1 .. Len(queued[d]) /\ ev.val \in 1 .. changes /\ op.id \in 1 .. changes
      /\ \A x \in AllOps : x.id # op.id
  BY <1>1, <1>2, <1>4 DEF Numbered
<1>9. ASSUME NEW e \in Devices, NEW i \in 1 .. Len(queued'[e])
      PROVE  queued'[e][i].val \in 1 .. changes /\ \A x \in AllOps \cup {op} : x.id # queued'[e][i].val
  <2>1. At(e, i) \in 1 .. Len(queued[e]) /\ queued'[e][i] = queued[e][At(e, i)]
    BY <1>6
  <2> HIDE DEF At
  <2>2. queued[d][1].val = queued[e][At(e, i)].val => d = e /\ 1 = At(e, i)
    BY <1>8, <2>1 DEF Numbered
  <2>3. queued[e][At(e, i)].val # op.id
    BY <1>2, <1>4, <1>7, <2>2
  <2> QED  BY <2>1, <2>3 DEF Numbered
<1>10. ASSUME NEW e \in Devices, NEW g \in Devices,
              NEW i \in 1 .. Len(queued'[e]), NEW j \in 1 .. Len(queued'[g]),
              queued'[e][i].val = queued'[g][j].val
       PROVE  e = g /\ i = j
  <2>1. At(e, i) \in 1 .. Len(queued[e]) /\ At(g, j) \in 1 .. Len(queued[g])
    BY <1>6
  <2>2. e = g /\ At(e, i) = At(g, j)
    <3>1. queued[e][At(e, i)].val = queued[g][At(g, j)].val
      BY <1>6, <1>10
    <3> HIDE DEF At
    <3> QED  BY <2>1, <3>1 DEF Numbered
  <2>3. Len(queued'[e]) \in Nat
    BY <1>1, <1>2, <1>3, DeviceTypes
  <2> QED  BY <2>2, <2>3
<1>11. \A x, y \in AllOps \cup {op} : x.id = y.id => x = y
  BY <1>8 DEF Numbered
<1>12. \A x \in AllOps \cup {op} :
         x.id <= changes \/ (MaxChanges < x.id /\ x.id <= MaxChanges + restores)
  <2>1. op.id <= changes
    BY <1>8 DEF TypeOK
  <2> QED  BY <2>1 DEF Numbered
<1>13. AllOps' \subseteq AllOps \cup {op}
  BY <1>5
<1> QED  BY <1>1, <1>9, <1>10, <1>11, <1>12, <1>13 DEF Numbered

LEMMA RestoreNumbered ==
  ASSUME TypeOK, Numbered, NEW d \in Devices, Restore(d)
  PROVE  Numbered'
<1> DEFINE op == Op(d, MaxChanges + restores', clock[d] + 1, "restore")
<1>1. /\ d \in Nat /\ clock[d] \in Nat /\ MaxChanges \in Nat /\ restores \in Nat
      /\ restores' = restores + 1 /\ changes' = changes /\ changes \in 0 .. MaxChanges
      /\ queued' = queued /\ log' = log /\ outbox' = [outbox EXCEPT ![d] = Append(@, op)]
  BY DeviceTypes, DevicesAssumption DEF TypeOK, Restore, server
<1>2. op \in OpRecord /\ op.id = MaxChanges + restores + 1 /\ op.dev = d
  BY RestoreFacts
<1>3. AllOps' = AllOps \cup {op}
  <2> HIDE DEF op
  <2> QED  BY <1>1, <1>2, NewOps
<1> HIDE DEF op
<1>4. \A x \in AllOps : x.id \in Nat
  BY RowFacts DEF OpRecord
<1>5. \A x \in AllOps :
        x.id <= changes \/ (MaxChanges < x.id /\ x.id <= MaxChanges + restores)
  BY DEF Numbered
<1>6. \A x \in AllOps : x.id # op.id
  BY <1>1, <1>2, <1>4, <1>5
<1>7. \A x \in AllOps' :
        x.id <= changes \/ (MaxChanges < x.id /\ x.id <= MaxChanges + restores')
  BY <1>1, <1>2, <1>3, <1>4, <1>5
<1>8. \A x, y \in AllOps' : x.id = y.id => x = y
  BY <1>3, <1>6 DEF Numbered
<1>9. \A e \in Devices : \A i \in 1 .. Len(queued[e]) :
        /\ queued[e][i].val \in 1 .. changes
        /\ \A x \in AllOps' : x.id # queued[e][i].val
  <2>1. \A e \in Devices : \A i \in 1 .. Len(queued[e]) :
          /\ queued[e][i].val \in 1 .. changes
          /\ \A x \in AllOps : x.id # queued[e][i].val
    BY DEF Numbered
  <2>2. \A v \in 1 .. changes : v # op.id
    BY <1>1, <1>2
  <2> QED  BY <1>3, <2>1, <2>2
<1>10. \A e, g \in Devices : \A i \in 1 .. Len(queued[e]), j \in 1 .. Len(queued[g]) :
         queued[e][i].val = queued[g][j].val => e = g /\ i = j
  BY DEF Numbered
<1>11. changes' = changes /\ queued' = queued
  BY <1>1
<1> QED  BY <1>7, <1>8, <1>9, <1>10, <1>11 DEF Numbered
-------------------------------------------------------------------------------
(***************************************************************************)
(* What a device holds and shows, step by step.                            *)
(***************************************************************************)
LEMMA Others ==
  ASSUME NEW d \in Devices, \A e \in Devices : DeviceInv(e),
         log' = log, mixed \subseteq mixed',
         \A e \in Devices \ {d} :
           /\ clock'[e] = clock[e] /\ states'[e] = states[e] /\ node'[e] = node[e]
           /\ mapped'[e] = mapped[e] /\ queued'[e] = queued[e] /\ made'[e] = made[e]
           /\ outbox'[e] = outbox[e] /\ at'[e] = at[e] /\ todo'[e] = todo[e]
           /\ Own(e)' = Own(e)
  PROVE  \A e \in Devices \ {d} : DeviceInv(e)'
<1> SUFFICES ASSUME NEW e \in Devices \ {d} PROVE DeviceInv(e)'
  OBVIOUS
<1>1. Seen(e)' = Seen(e)
  BY DEF Seen, Upto
<1>2. \A f : Clean(e, f)' => Clean(e, f)
  BY DEF Clean
<1>3. \A i \in 1 .. Len(outbox'[e]) : outbox'[e][i].dev = e
  BY DEF DeviceInv, Clocked
<1> QED  BY <1>1, <1>2, <1>3, OtherDevice

LEMMA InitDevices == Init => \A d \in Devices : DeviceInv(d)
<1> SUFFICES ASSUME Init, NEW d \in Devices PROVE DeviceInv(d)
  OBVIOUS
<1>1. /\ clock[d] \in Nat /\ clock[d] >= 1 /\ node[d] = [in |-> TRUE, title |-> 0, move |-> 0]
      /\ mapped[d] = TRUE /\ queued[d] = << >> /\ made[d] = {} /\ outbox[d] = << >> /\ at[d] = 1
      /\ todo[d] = Idle /\ log = <<First>>
  BY DEF Init
<1>2. First \in OpRecord /\ First.id = 0 /\ First.dev = 1 /\ First.kind = "create" /\ First.lam = 1
  BY FirstType DEF First, Op
<1>3. First # NoState
  BY <1>2, MarkersAssumption
<1>4. FieldsOf(First) = Fields /\ LocalFieldsOf(First) = Fields
  BY <1>2 DEF FieldsOf, LocalFieldsOf
<1>5. states[d] = [f \in Fields |-> First]
  BY <1>4 DEF Init, Resolved, Put, Wins, Takes, Blank
<1>6. AllOps = {First}
  <2>1. Rows = {First}
    BY <1>1 DEF Rows
  <2>2. \A e \in Devices : Range(outbox[e]) = {}
    BY DEF Init, Range
  <2> QED  BY <2>1, <2>2 DEF AllOps
<1>7. Seen(d) = {First}
  <2>1. {log[i] : i \in 1 .. 1} = {First}
    BY <1>1
  <2> QED  BY <1>1, <1>6, <2>1 DEF Seen, Upto, Own
<1>8. /\ \A f : QueuedFor(d, f) = {}
      /\ \A f : MadeFor(d, f) = {}
  BY <1>1 DEF QueuedFor, MadeFor
<1>9. Clocked(d)
  BY <1>1, <1>2, <1>5, <1>6 DEF Clocked, Own
<1>10. Winning(d)
  BY <1>4, <1>5, <1>7 DEF Winning, Contents, Fields
<1>11. Deleting(d)
  BY <1>2, <1>5, <1>7 DEF Deleting, Deletes, Fields
<1>12. Due(d)
  BY <1>1 DEF Due
<1>13. Living(d)
  BY <1>1, <1>2, <1>3, <1>5, <1>8 DEF Living, IsLive, Deletes, Fields
<1>14. Showing(d)
  BY <1>1, <1>2, <1>5, <1>8 DEF Showing, Contents, Fields
<1> QED  BY <1>9, <1>10, <1>11, <1>12, <1>13, <1>14 DEF DeviceInv

LEMMA UserChangeDevices ==
  ASSUME ConvInv, NEW d \in Devices, NEW k \in Kinds, UserChange(d, k)
  PROVE  \A e \in Devices : DeviceInv(e)'
<1> DEFINE ev == [kind |-> k, val |-> changes + 1]
           n == Len(queued[d])
<1>1. TypeOK /\ DeviceInv(d) /\ \A e \in Devices : DeviceInv(e)
  BY DEF ConvInv
<1>2. /\ queued[d] \in Seq(Change) /\ n \in Nat /\ node[d] \in NodeRec /\ todo[d] \in TodoRec
      /\ states[d] \in [Fields -> OpRecord \cup {NoState}]
      /\ \A i \in 1 .. n : queued[d][i] \in Change
  BY <1>1, DeviceTypes
<1>3. k \in {"update", "move", "delete"} /\ changes + 1 \in Nat
  BY <1>1, DevicesAssumption DEF TypeOK
<1>4. ev \in Change
  BY <1>3 DEF Change
<1>5. /\ UNCHANGED <<clock, states, mapped, made, outbox, at, todo, log>>
      /\ changes' = changes + 1 /\ node[d].in
  BY DEF UserChange, server
<1>6. queued'[d] = Append(queued[d], ev) /\ \A e \in Devices \ {d} : queued'[e] = queued[e]
  BY <1>1, <1>5 DEF UserChange, TypeOK
<1>7. /\ Len(queued'[d]) = n + 1 /\ queued'[d][n + 1] = ev
      /\ \A i \in 1 .. n : queued'[d][i] = queued[d][i]
  BY <1>2, <1>4, <1>6, RangeAppend
<1>8. \A e \in Devices \ {d} : node'[e] = node[e]
  BY <1>1 DEF UserChange, TypeOK
<1>9. /\ k = "update" => node'[d] = [node[d] EXCEPT !.title = changes + 1]
      /\ k = "move" => node'[d] = [node[d] EXCEPT !.move = changes + 1]
      /\ k = "delete" => node'[d] = [node[d] EXCEPT !.in = FALSE]
  BY <1>1, <1>5 DEF UserChange, TypeOK
<1>10. LocalFieldsOf([kind |-> k]) = LocalFieldsOf(ev)
  BY <1>3 DEF LocalFieldsOf, FieldsOf
<1>11. /\ mixed \subseteq mixed'
       /\ todo[d].op # NoOp => \A f \in FieldsOf(todo[d].op) :
            f \in LocalFieldsOf(ev) => ~Clean(d, f)'
  BY <1>10 DEF UserChange, Mixes, Clean
<1>12. \A f : Clean(d, f)' => Clean(d, f)
  BY <1>11 DEF Clean
<1>13. Own(d)' = Own(d) /\ \A e \in Devices : Own(e)' = Own(e)
  BY <1>5, SameOps
<1>14. Seen(d)' = Seen(d)
  BY <1>5, <1>13 DEF Seen, Upto
<1>15. \A f : /\ MadeFor(d, f)' = MadeFor(d, f)
              /\ f \in LocalFieldsOf(ev) => QueuedFor(d, f)' = QueuedFor(d, f) \cup {n + 1}
              /\ f \notin LocalFieldsOf(ev) => QueuedFor(d, f)' = QueuedFor(d, f)
  <2>1. \A i : i \in 1 .. n + 1 <=> i \in 1 .. n \/ i = n + 1
    BY <1>2
  <2> QED  BY <1>5, <1>7, <2>1 DEF MadeFor, QueuedFor
<1> HIDE DEF ev
<1>16. Clocked(d)'
  BY <1>1, <1>5, <1>13 DEF DeviceInv, Clocked
<1>17. Winning(d)'
  BY <1>1, <1>5, <1>12, <1>14 DEF DeviceInv, Winning, Contents
<1>18. Deleting(d)'
  BY <1>1, <1>5, <1>12, <1>14 DEF DeviceInv, Deleting
<1>19. Due(d)'
  <2>1. SUFFICES ASSUME todo[d] # Idle
                 PROVE  /\ todo[d].op = NoOp => \A f \in Fields : ~Clean(d, f)'
                        /\ todo[d].op # NoOp =>
                             /\ todo[d].wins \subseteq FieldsOf(todo[d].op)
                             /\ \A f \in FieldsOf(todo[d].op) : Clean(d, f)' =>
                                  /\ QueuedFor(d, f)' = {} /\ MadeFor(d, f)' \subseteq {todo[d].op}
                                  /\ f \in todo[d].wins => states[d][f] = todo[d].op
                             /\ Opens(todo[d].op) /\ Clean(d, "liveness")' =>
                                  todo[d].wins = {} \/ (todo[d].wins = Fields /\ ~node'[d].in)
    BY <1>5 DEF Due
  <2>2. /\ todo[d].op = NoOp => \A f \in Fields : ~Clean(d, f)
        /\ todo[d].op # NoOp =>
             /\ todo[d].wins \subseteq FieldsOf(todo[d].op)
             /\ \A f \in FieldsOf(todo[d].op) : Clean(d, f) =>
                  /\ QueuedFor(d, f) = {} /\ MadeFor(d, f) \subseteq {todo[d].op}
                  /\ f \in todo[d].wins => states[d][f] = todo[d].op
             /\ Opens(todo[d].op) /\ Clean(d, "liveness") => todo[d].wins = {}
    BY <1>1, <1>5, <2>1 DEF DeviceInv, Due
  <2> QED  BY <1>11, <1>12, <1>15, <2>2
<1>20. Living(d)'
  <2>1. ASSUME Clean(d, "liveness")', node'[d].in
        PROVE  k # "delete" /\ "liveness" \notin LocalFieldsOf(ev)
    BY <1>2, <1>3, <1>9, <2>1 DEF ev, LocalFieldsOf, FieldsOf, NodeRec
  <2>2. DeleteDue(d)' <=> DeleteDue(d)
    BY <1>5 DEF DeleteDue
  <2> QED  BY <1>1, <1>5, <1>12, <1>15, <2>1, <2>2 DEF DeviceInv, Living
<1>21. Showing(d)'
  <2>1. SUFFICES ASSUME NEW f \in Contents, Clean(d, f)', Clean(d, "liveness")', node'[d].in
                 PROVE  /\ \A i \in QueuedFor(d, f)' :
                             (\A j \in QueuedFor(d, f)' : j <= i) => node'[d][f] = queued'[d][i].val
                        /\ QueuedFor(d, f)' = {} /\ ~(todo[d] # Idle /\ f \in todo[d].wins) =>
                             \A x \in MadeFor(d, f) \cup {states[d][f]} :
                               (\A y \in MadeFor(d, f) : y = x \/ Beats(x, y)) /\ (x = states[d][f] \/ Beats(x, states[d][f]))
                                 => node'[d][f] = x.id
    BY <1>5, <1>15 DEF Showing
  <2>2. k # "delete"
    BY <1>2, <1>9, <2>1 DEF NodeRec
  <2>3. QueuedFor(d, f) \subseteq 1 .. n
    BY DEF QueuedFor
  <2>4. CASE f \in LocalFieldsOf(ev)
    <3>1. node'[d][f] = changes + 1
      <4>1. (k = "update" /\ f = "title") \/ (k = "move" /\ f = "move")
        BY <1>3, <2>1, <2>2, <2>4 DEF Contents, ev, LocalFieldsOf
      <4> QED  BY <1>2, <1>9, <4>1 DEF NodeRec
    <3>2. QueuedFor(d, f)' = QueuedFor(d, f) \cup {n + 1}
      BY <1>15, <2>4
    <3>3. \A i \in QueuedFor(d, f)' : n + 1 <= i => i = n + 1
      BY <1>2, <2>3, <3>2
    <3> QED  BY <1>7, <3>1, <3>2, <3>3 DEF ev
  <2>5. CASE f \notin LocalFieldsOf(ev)
    <3>1. node'[d][f] = node[d][f] /\ node[d].in
      BY <1>2, <1>3, <1>5, <1>9, <2>1, <2>2, <2>5 DEF Contents, ev, LocalFieldsOf, NodeRec
    <3>2. QueuedFor(d, f)' = QueuedFor(d, f)
      BY <1>15, <2>5
    <3>3. \A i \in QueuedFor(d, f) : queued'[d][i] = queued[d][i]
      BY <1>7, <2>3
    <3> QED  BY <1>1, <1>12, <2>1, <3>1, <3>2, <3>3 DEF DeviceInv, Showing
  <2> QED  BY <2>4, <2>5
<1>22. DeviceInv(d)'
  BY <1>16, <1>17, <1>18, <1>19, <1>20, <1>21 DEF DeviceInv
<1>23. \A e \in Devices \ {d} : DeviceInv(e)'
  BY <1>1, <1>5, <1>6, <1>8, <1>11, <1>13, Others
<1> QED  BY <1>22, <1>23

LEMMA CaptureDevices ==
  ASSUME ConvInv, NEW d \in Devices, Capture(d)
  PROVE  \A e \in Devices : DeviceInv(e)'
<1> DEFINE ev == Head(queued[d])
           op == Op(d, ev.val, clock[d] + 1, ev.kind)
           n == Len(queued[d])
           taken == mapped[d] /\ (ev.kind = "delete" \/ node[d].in)
<1>1. TypeOK /\ DeviceInv(d) /\ \A e \in Devices : DeviceInv(e)
  BY DEF ConvInv
<1>2. /\ clock[d] \in Nat /\ n \in Nat /\ made[d] \in SUBSET OpRecord
      /\ outbox[d] \in Seq(OpRecord) /\ mapped[d] \in BOOLEAN
      /\ states[d] \in [Fields -> OpRecord \cup {NoState}]
  BY <1>1, DeviceTypes
<1>3. /\ op \in OpRecord /\ op.id = ev.val /\ op.dev = d /\ op.lam = clock[d] + 1
      /\ op.kind = ev.kind /\ ev.kind \in {"update", "move", "delete"}
      /\ n >= 1 /\ ev = queued[d][1] /\ Len(queued'[d]) = n - 1
      /\ \A i \in 1 .. n - 1 : queued'[d][i] = queued[d][i + 1]
      /\ \A e \in Devices \ {d} : queued'[e] = queued[e]
  BY <1>1, CaptureFacts
<1>4. UNCHANGED <<states, node, at, todo, log, mixed>>
  BY DEF Capture, server
<1>5. IF taken
        THEN /\ clock' = [clock EXCEPT ![d] = @ + 1]
             /\ mapped' = [mapped EXCEPT ![d] = ev.kind # "delete"]
             /\ outbox' = [outbox EXCEPT ![d] = Append(@, op)]
             /\ made' = [made EXCEPT ![d] = @ \union {op}]
        ELSE UNCHANGED <<clock, mapped, outbox, made>>
  BY DEF Capture
<1> HIDE DEF op, ev, taken
<1>6. /\ taken => /\ clock'[d] = clock[d] + 1 /\ mapped'[d] = (ev.kind # "delete")
                  /\ outbox'[d] = Append(outbox[d], op) /\ made'[d] = made[d] \cup {op}
      /\ ~taken => /\ clock'[d] = clock[d] /\ mapped'[d] = mapped[d]
                   /\ outbox'[d] = outbox[d] /\ made'[d] = made[d]
      /\ \A e \in Devices \ {d} : /\ clock'[e] = clock[e] /\ mapped'[e] = mapped[e]
                                  /\ outbox'[e] = outbox[e] /\ made'[e] = made[e]
  BY <1>1, <1>5 DEF TypeOK
<1>7. /\ taken => Own(d)' = Own(d) \cup {op}
      /\ ~taken => Own(d)' = Own(d)
      /\ \A e \in Devices \ {d} : Own(e)' = Own(e)
  <2>1. CASE taken
    BY <1>1, <1>3, <1>4, <1>5, <2>1, NewOps
  <2>2. CASE ~taken
    BY <1>4, <1>5, <2>2, SameOps
  <2> QED  BY <2>1, <2>2
<1>8. Own(d) \in SUBSET OpRecord /\ made[d] \subseteq Own(d) /\ \A x \in Own(d) : x.lam <= clock[d]
  BY <1>1, RowFacts DEF Own, DeviceInv, Clocked
<1>9. op \notin Own(d) /\ op \notin made[d]
  <2>1. ~(op.lam <= clock[d])
    BY <1>2, <1>3
  <2> QED  BY <1>8, <2>1
<1>10. Seen(d)' = Seen(d)
  <2>1. Own(d)' \ made'[d] = Own(d) \ made[d]
    BY <1>6, <1>7, <1>9
  <2> QED  BY <1>4, <2>1 DEF Seen, Upto
<1>11. \A f : Clean(d, f)' = Clean(d, f)
  BY <1>4 DEF Clean
<1>12. ASSUME NEW f
       PROVE  /\ f \in LocalFieldsOf(op) <=> f \in LocalFieldsOf(ev)
              /\ f \in LocalFieldsOf(ev) <=> 1 \in QueuedFor(d, f)
              /\ \A i \in 1 .. n - 1 : i \in QueuedFor(d, f)' <=> i + 1 \in QueuedFor(d, f)
              /\ QueuedFor(d, f)' \subseteq 1 .. n - 1
              /\ QueuedFor(d, f) \subseteq 1 .. n
  <2>1. f \in LocalFieldsOf(op) <=> f \in LocalFieldsOf(ev)
    BY <1>3 DEF LocalFieldsOf, FieldsOf
  <2>2. f \in LocalFieldsOf(ev) <=> 1 \in QueuedFor(d, f)
    BY <1>2, <1>3 DEF QueuedFor
  <2>3. \A i \in 1 .. n - 1 : i \in QueuedFor(d, f)' <=> i + 1 \in QueuedFor(d, f)
    <3>1. \A i \in 1 .. n - 1 : i + 1 \in 1 .. n
      BY <1>2
    <3> QED  BY <1>3, <3>1 DEF QueuedFor
  <2> QED  BY <1>3, <2>1, <2>2, <2>3 DEF QueuedFor
<1>13. ASSUME NEW f, QueuedFor(d, f) = {}
       PROVE  QueuedFor(d, f)' = {} /\ MadeFor(d, f)' = MadeFor(d, f)
  <2>1. QueuedFor(d, f)' = {}
    BY <1>12, <1>13
  <2>2. f \notin LocalFieldsOf(op)
    BY <1>12, <1>13
  <2> QED  BY <1>6, <2>1, <2>2 DEF MadeFor
<1>14. Clocked(d)'
  <2>1. \A f \in Fields : states[d][f] # NoState => states[d][f].lam <= clock[d]
    BY <1>1 DEF DeviceInv, Clocked
  <2>2. \A f \in Fields : states[d][f] # NoState => states[d][f].lam \in Nat
    BY <1>2 DEF OpRecord
  <2>3. \A x \in Own(d) : x.lam \in Nat
    BY <1>8 DEF OpRecord
  <2>4. \A i \in 1 .. Len(outbox[d]) : outbox[d][i].dev = d
    BY <1>1 DEF DeviceInv, Clocked
  <2>5. \A i \in 1 .. Len(outbox'[d]) : outbox'[d][i].dev = d
    <3>1. CASE taken
      <4>1. /\ Len(outbox'[d]) = Len(outbox[d]) + 1 /\ outbox'[d][Len(outbox[d]) + 1] = op
            /\ \A i \in 1 .. Len(outbox[d]) : outbox'[d][i] = outbox[d][i]
        BY <1>2, <1>3, <1>6, <3>1, RangeAppend
      <4>2. Len(outbox[d]) \in Nat
        BY <1>2, LenProperties
      <4>3. \A i \in 1 .. Len(outbox[d]) + 1 : i \in 1 .. Len(outbox[d]) \/ i = Len(outbox[d]) + 1
        BY <4>2
      <4>4. op.dev = d
        BY <1>3
      <4>5. SUFFICES ASSUME NEW i \in 1 .. Len(outbox[d]) + 1
                     PROVE  outbox'[d][i].dev = d
        BY <4>1
      <4>6. CASE i \in 1 .. Len(outbox[d])
        BY <2>4, <4>1, <4>6
      <4>7. CASE i = Len(outbox[d]) + 1
        BY <4>1, <4>4, <4>7
      <4> QED  BY <4>3, <4>6, <4>7
    <3>2. CASE ~taken
      BY <1>6, <2>4, <3>2
    <3> QED  BY <3>1, <3>2
  <2>6. made'[d] \subseteq Own(d)'
    BY <1>6, <1>7, <1>8
  <2>7. \A x \in Own(d)' : x.lam <= clock'[d]
    BY <1>2, <1>3, <1>6, <1>7, <1>8, <2>3
  <2>8. \A f \in Fields : states'[d][f] # NoState => states'[d][f].lam <= clock'[d]
    BY <1>2, <1>4, <1>6, <2>1, <2>2
  <2> QED  BY <2>5, <2>6, <2>7, <2>8 DEF Clocked
<1>15. Winning(d)'
  BY <1>1, <1>4, <1>10, <1>11 DEF DeviceInv, Winning, Contents
<1>16. Deleting(d)'
  BY <1>1, <1>4, <1>10, <1>11 DEF DeviceInv, Deleting
<1>17. Due(d)'
  <2>1. Due(d)
    BY <1>1 DEF DeviceInv
  <2> QED  BY <1>4, <1>11, <1>13, <2>1 DEF Due
<1>18. Living(d)'
  <2>1. SUFFICES ASSUME Clean(d, "liveness"), node[d].in
                 PROVE  /\ mapped'[d]
                        /\ IsLive(states[d]) \/ DeleteDue(d)
                        /\ QueuedFor(d, "liveness")' = {}
                        /\ \A x \in MadeFor(d, "liveness")' : ~Deletes(x)
    BY <1>4, <1>11 DEF Living, DeleteDue
  <2>2. /\ mapped[d] /\ (IsLive(states[d]) \/ DeleteDue(d)) /\ QueuedFor(d, "liveness") = {}
        /\ \A x \in MadeFor(d, "liveness") : ~Deletes(x)
    BY <1>1, <2>1 DEF DeviceInv, Living
  <2>3. ev.kind # "delete"
    <3>1. "liveness" \notin LocalFieldsOf(ev)
      BY <1>12, <2>2
    <3> QED  BY <3>1 DEF LocalFieldsOf, FieldsOf
  <2>4. mapped'[d]
    BY <1>6, <2>2, <2>3
  <2> QED  BY <1>13, <2>2, <2>4
<1>19. Showing(d)'
  <2>1. SUFFICES ASSUME NEW f \in Contents, Clean(d, f), Clean(d, "liveness"), node[d].in
                 PROVE  /\ \A i \in QueuedFor(d, f)' :
                             (\A j \in QueuedFor(d, f)' : j <= i) => node[d][f] = queued'[d][i].val
                        /\ QueuedFor(d, f)' = {} /\ ~(todo[d] # Idle /\ f \in todo[d].wins) =>
                             \A x \in MadeFor(d, f)' \cup {states[d][f]} :
                               (\A y \in MadeFor(d, f)' : y = x \/ Beats(x, y)) /\ (x = states[d][f] \/ Beats(x, states[d][f]))
                                 => node[d][f] = x.id
    BY <1>4, <1>11 DEF Showing
  <2>2. taken
    BY <1>1, <2>1 DEF taken, DeviceInv, Living
  <2>3. /\ \A i \in QueuedFor(d, f) :
             (\A j \in QueuedFor(d, f) : j <= i) => node[d][f] = queued[d][i].val
        /\ QueuedFor(d, f) = {} /\ ~(todo[d] # Idle /\ f \in todo[d].wins) =>
             \A x \in MadeFor(d, f) \cup {states[d][f]} :
               (\A y \in MadeFor(d, f) : y = x \/ Beats(x, y)) /\ (x = states[d][f] \/ Beats(x, states[d][f]))
                 => node[d][f] = x.id
    BY <1>1, <2>1 DEF DeviceInv, Showing
  <2>4. ASSUME NEW i \in QueuedFor(d, f)', \A j \in QueuedFor(d, f)' : j <= i
        PROVE  node[d][f] = queued'[d][i].val
    <3>1. i \in 1 .. n - 1 /\ i + 1 \in QueuedFor(d, f) /\ queued'[d][i] = queued[d][i + 1]
      BY <1>3, <1>12, <2>4
    <3>2. ASSUME NEW j \in QueuedFor(d, f) PROVE j <= i + 1
      <4>1. j \in 1 .. n
        BY <1>12
      <4>2. CASE j = 1
        BY <1>2, <3>1, <4>2
      <4>3. CASE j # 1
        <5>1. j - 1 \in 1 .. n - 1 /\ (j - 1) + 1 = j
          BY <1>2, <4>1, <4>3
        <5>2. j - 1 \in QueuedFor(d, f)'
          BY <1>12, <5>1
        <5>3. j - 1 <= i
          BY <2>4, <5>2
        <5> QED  BY <1>2, <3>1, <4>1, <5>3
      <4> QED  BY <4>2, <4>3
    <3> QED  BY <2>3, <3>1, <3>2
  <2>5. ASSUME QueuedFor(d, f)' = {}, ~(todo[d] # Idle /\ f \in todo[d].wins),
               NEW x \in MadeFor(d, f)' \cup {states[d][f]},
               \A y \in MadeFor(d, f)' : y = x \/ Beats(x, y),
               x = states[d][f] \/ Beats(x, states[d][f])
        PROVE  node[d][f] = x.id
    <3>1. CASE 1 \in QueuedFor(d, f)
      <4>1. \A j \in QueuedFor(d, f) : j <= 1
        <5>1. SUFFICES ASSUME NEW j \in QueuedFor(d, f), j # 1 PROVE FALSE
          BY <1>2
        <5>2. j \in 1 .. n
          BY <1>12
        <5>3. j - 1 \in 1 .. n - 1 /\ (j - 1) + 1 = j
          BY <1>2, <5>1, <5>2
        <5>4. j - 1 \in QueuedFor(d, f)'
          BY <1>12, <5>1, <5>3
        <5> QED  BY <2>5, <5>4
      <4>2. node[d][f] = op.id
        BY <1>3, <2>3, <3>1, <4>1
      <4>3. op \in MadeFor(d, f)'
        BY <1>6, <1>12, <2>2, <3>1 DEF MadeFor
      <4>4. f \in Fields /\ states[d][f] \in Seen(d)
        BY <1>1, <2>1 DEF DeviceInv, Winning, Contents, Fields
      <4>5. states[d][f] \in OpRecord /\ states[d][f] # NoState
        BY <1>1, <4>4, DeviceTypes, RowFacts, MarkersAssumption
      <4>6. x = op \/ (x \in OpRecord /\ x.lam <= clock[d])
        <5>1. states[d][f].lam <= clock[d]
          BY <1>1, <4>4, <4>5 DEF DeviceInv, Clocked
        <5>2. CASE x = states[d][f]
          BY <4>5, <5>1, <5>2
        <5>3. CASE x \in MadeFor(d, f)'
          BY <1>2, <1>6, <1>8, <2>2, <5>3 DEF MadeFor
        <5> QED  BY <2>5, <5>2, <5>3
      <4>7. x # op => ~Beats(x, op)
        BY <1>2, <1>3, <4>6 DEF Beats, OpRecord
      <4> QED  BY <2>5, <4>2, <4>3, <4>7
    <3>2. CASE 1 \notin QueuedFor(d, f)
      <4>1. QueuedFor(d, f) = {}
        <5>1. SUFFICES ASSUME NEW j \in QueuedFor(d, f) PROVE FALSE
          OBVIOUS
        <5>2. j \in 1 .. n /\ j # 1
          BY <1>12, <3>2
        <5>3. j - 1 \in 1 .. n - 1 /\ (j - 1) + 1 = j
          BY <1>2, <5>2
        <5>4. j - 1 \in QueuedFor(d, f)'
          BY <1>12, <5>1, <5>3
        <5> QED  BY <2>5, <5>4
      <4>2. MadeFor(d, f)' = MadeFor(d, f)
        BY <1>13, <4>1
      <4> QED  BY <2>3, <2>5, <4>1, <4>2
    <3> QED  BY <3>1, <3>2
  <2> QED  BY <2>4, <2>5
<1>20. DeviceInv(d)'
  BY <1>14, <1>15, <1>16, <1>17, <1>18, <1>19 DEF DeviceInv
<1>21. mixed \subseteq mixed' /\ \A e \in Devices \ {d} :
         /\ states'[e] = states[e] /\ node'[e] = node[e] /\ at'[e] = at[e] /\ todo'[e] = todo[e]
  BY <1>4
<1>22. \A e \in Devices \ {d} : DeviceInv(e)'
  BY <1>1, <1>3, <1>4, <1>6, <1>7, <1>21, Others
<1> QED  BY <1>20, <1>22

\* Two operations that are not the same are ordered.
LEMMA Ordered ==
  ASSUME TypeOK, Numbered, NEW x \in AllOps, NEW y \in AllOps
  PROVE  x \in OpRecord /\ y \in OpRecord /\ (x = y \/ Beats(x, y) \/ Beats(y, x))
BY RowFacts, BeatsOrder DEF Numbered

LEMMA RecordDevices ==
  ASSUME ConvInv, NEW d \in Devices, Record(d)
  PROVE  \A e \in Devices : DeviceInv(e)'
<1>1. TypeOK /\ Numbered /\ DeviceInv(d) /\ \A e \in Devices : DeviceInv(e)
  BY DEF ConvInv
<1>2. PICK op \in made[d] :
        /\ states' = [states EXCEPT ![d] = Recorded(@, op)]
        /\ made' = [made EXCEPT ![d] = @ \ {op}]
        /\ Mixes(d, {f \in LocalFieldsOf(op) : states[d][f] # NoState /\ Beats(states[d][f], op)})
        /\ UNCHANGED <<clock, node, mapped, queued, outbox, at, todo, server,
                       changes, restores, folds>>
  BY DEF Record
<1>3. UNCHANGED <<clock, node, mapped, queued, outbox, at, todo, log>>
  BY <1>2 DEF server
<1>4. /\ clock[d] \in Nat /\ made[d] \in SUBSET OpRecord /\ Seen(d) \in SUBSET AllOps
      /\ states[d] \in [Fields -> OpRecord \cup {NoState}]
  BY <1>1, DeviceTypes
<1>5. op \in OpRecord /\ op \in Own(d) /\ op \in AllOps /\ op # NoState
  BY <1>1, <1>2, <1>4, MarkersAssumption DEF DeviceInv, Clocked, Own
<1>6. made'[d] = made[d] \ {op} /\ \A e \in Devices \ {d} : made'[e] = made[e]
  BY <1>1, <1>2 DEF TypeOK
<1>7. states'[d] = Recorded(states[d], op) /\ \A e \in Devices \ {d} : states'[e] = states[e]
  BY <1>1, <1>2 DEF TypeOK
<1>8. \A f \in Fields : /\ f \in LocalFieldsOf(op) => states'[d][f] = op
                        /\ f \notin LocalFieldsOf(op) => states'[d][f] = states[d][f]
  BY <1>7, RecordedField
<1>9. \A e \in Devices : Own(e)' = Own(e)
  BY <1>3, SameOps
<1>10. Seen(d)' = Seen(d) \cup {op}
  <2>1. {log'[i] : i \in 1 .. Upto(d)'} = {log[i] : i \in 1 .. Upto(d)}
    BY <1>3 DEF Upto
  <2> QED  BY <1>3, <1>5, <1>6, <1>9, <2>1 DEF Seen
<1>11. /\ mixed \subseteq mixed'
       /\ \A f \in LocalFieldsOf(op) : states[d][f] # NoState /\ Beats(states[d][f], op) => ~Clean(d, f)'
       /\ \A f : Clean(d, f)' => Clean(d, f)
  BY <1>2 DEF Mixes, Clean
<1>12. ASSUME NEW f \in LocalFieldsOf(op), Clean(d, f)', states[d][f] \in Seen(d)
       PROVE  states[d][f] \in OpRecord /\ (op = states[d][f] \/ Beats(op, states[d][f]))
  <2>1. states[d][f] \in AllOps
    BY <1>4, <1>12
  <2>2. states[d][f] \in OpRecord /\ (op = states[d][f] \/ Beats(op, states[d][f]) \/ Beats(states[d][f], op))
    BY <1>1, <1>5, <2>1, Ordered
  <2> QED  BY <1>11, <1>12, <2>2, MarkersAssumption
<1>13. \A f : QueuedFor(d, f)' = QueuedFor(d, f) /\ MadeFor(d, f)' = MadeFor(d, f) \ {op}
  BY <1>3, <1>6 DEF QueuedFor, MadeFor
<1>14. \A x \in Seen(d) : x \in OpRecord
  BY <1>1, <1>4, RowFacts
<1>15. Clocked(d)'
  BY <1>1, <1>3, <1>5, <1>6, <1>8, <1>9 DEF DeviceInv, Clocked
<1>16. Winning(d)'
  <2>1. SUFFICES ASSUME NEW f \in Contents, Clean(d, f)'
                 PROVE  /\ states'[d][f] \in Seen(d)' /\ f \in LocalFieldsOf(states'[d][f])
                        /\ \A x \in Seen(d)' : f \in LocalFieldsOf(x) =>
                             x = states'[d][f] \/ Beats(states'[d][f], x)
    BY DEF Winning
  <2>2. /\ f \in Fields /\ states[d][f] \in Seen(d) /\ f \in LocalFieldsOf(states[d][f])
        /\ \A x \in Seen(d) : f \in LocalFieldsOf(x) => x = states[d][f] \/ Beats(states[d][f], x)
    BY <1>1, <1>11, <2>1 DEF DeviceInv, Winning, Contents, Fields
  <2>3. CASE f \in LocalFieldsOf(op)
    <3>1. states'[d][f] = op
      BY <1>8, <2>2, <2>3
    <3>2. states[d][f] \in OpRecord /\ (op = states[d][f] \/ Beats(op, states[d][f]))
      BY <1>12, <2>1, <2>2, <2>3
    <3>3. ASSUME NEW x \in Seen(d), f \in LocalFieldsOf(x) PROVE x = op \/ Beats(op, x)
      BY <1>5, <1>14, <2>2, <3>2, <3>3, BeatsTransitive
    <3> QED  BY <1>10, <2>3, <3>1, <3>3
  <2>4. CASE f \notin LocalFieldsOf(op)
    BY <1>8, <1>10, <2>2, <2>4
  <2> QED  BY <2>3, <2>4
<1>17. Deleting(d)'
  <2>1. SUFFICES ASSUME Clean(d, "liveness")'
                 PROVE  /\ states'[d]["liveness"] \in Seen(d)'
                        /\ \A e \in Seen(d)' : Deletes(e) =>
                             \/ e = states'[d]["liveness"]
                             \/ \E y \in Seen(d)' : y.kind # "move" /\ Beats(y, e)
    BY DEF Deleting
  <2>2. /\ "liveness" \in Fields /\ states[d]["liveness"] \in Seen(d)
        /\ \A e \in Seen(d) : Deletes(e) =>
             \/ e = states[d]["liveness"]
             \/ \E y \in Seen(d) : y.kind # "move" /\ Beats(y, e)
    BY <1>1, <1>11, <2>1 DEF DeviceInv, Deleting, Fields
  <2>3. CASE "liveness" \in LocalFieldsOf(op)
    <3>1. states'[d]["liveness"] = op /\ op.kind # "move"
      BY <1>8, <2>2, <2>3 DEF LocalFieldsOf
    <3>2. op = states[d]["liveness"] \/ Beats(op, states[d]["liveness"])
      BY <1>12, <2>1, <2>2, <2>3
    <3> QED  BY <1>10, <2>2, <3>1, <3>2
  <2>4. CASE "liveness" \notin LocalFieldsOf(op)
    <3>1. ~Deletes(op)
      BY <2>4 DEF Deletes, LocalFieldsOf, FieldsOf
    <3> QED  BY <1>8, <1>10, <2>2, <2>4, <3>1
  <2> QED  BY <2>3, <2>4
<1>18. Due(d)'
  <2>1. SUFFICES ASSUME todo[d] # Idle
                 PROVE  /\ todo[d].op = NoOp => \A f \in Fields : ~Clean(d, f)'
                        /\ todo[d].op # NoOp =>
                             /\ todo[d].wins \subseteq FieldsOf(todo[d].op)
                             /\ \A f \in FieldsOf(todo[d].op) : Clean(d, f)' =>
                                  /\ QueuedFor(d, f)' = {} /\ MadeFor(d, f)' \subseteq {todo[d].op}
                                  /\ f \in todo[d].wins => states'[d][f] = todo[d].op
                             /\ Opens(todo[d].op) /\ Clean(d, "liveness")' =>
                                  todo[d].wins = {} \/ (todo[d].wins = Fields /\ ~node[d].in)
    BY <1>3 DEF Due
  <2>2. /\ todo[d].op = NoOp => \A f \in Fields : ~Clean(d, f)
        /\ todo[d].op # NoOp =>
             /\ todo[d].wins \subseteq FieldsOf(todo[d].op)
             /\ \A f \in FieldsOf(todo[d].op) : Clean(d, f) =>
                  /\ QueuedFor(d, f) = {} /\ MadeFor(d, f) \subseteq {todo[d].op}
                  /\ f \in todo[d].wins => states[d][f] = todo[d].op
             /\ Opens(todo[d].op) /\ Clean(d, "liveness") =>
                  todo[d].wins = {} \/ (todo[d].wins = Fields /\ ~node[d].in)
    BY <1>1, <2>1 DEF DeviceInv, Due
  <2>3. ASSUME todo[d].op # NoOp, NEW f \in FieldsOf(todo[d].op), Clean(d, f)', f \in todo[d].wins
        PROVE  states'[d][f] = todo[d].op
    <3>1. f \in Fields
      BY <1>1, <2>3, DeviceTypes DEF TodoRec
    <3>2. CASE f \in LocalFieldsOf(op)
      <4>1. op \in MadeFor(d, f)
        BY <3>2 DEF MadeFor
      <4>2. op = todo[d].op
        BY <1>11, <2>2, <2>3, <4>1
      <4> QED  BY <1>8, <3>1, <3>2, <4>2
    <3>3. CASE f \notin LocalFieldsOf(op)
      BY <1>8, <1>11, <2>2, <2>3, <3>1, <3>3
    <3> QED  BY <3>2, <3>3
  <2> QED  BY <1>11, <1>13, <2>2, <2>3
<1>19. Living(d)'
  <2>1. SUFFICES ASSUME Clean(d, "liveness")', node[d].in
                 PROVE  /\ mapped[d]
                        /\ IsLive(states'[d]) \/ DeleteDue(d)
                        /\ QueuedFor(d, "liveness")' = {}
                        /\ \A x \in MadeFor(d, "liveness")' : ~Deletes(x)
    BY <1>3 DEF Living, DeleteDue, IsLive
  <2>2. /\ mapped[d] /\ (IsLive(states[d]) \/ DeleteDue(d)) /\ QueuedFor(d, "liveness") = {}
        /\ \A x \in MadeFor(d, "liveness") : ~Deletes(x)
    BY <1>1, <1>11, <2>1 DEF DeviceInv, Living
  <2>3. IsLive(states'[d]) \/ DeleteDue(d)
    <3>1. CASE "liveness" \in LocalFieldsOf(op)
      <4>1. ~Deletes(op)
        BY <2>2, <3>1 DEF MadeFor
      <4> QED  BY <1>5, <1>8, <3>1, <4>1 DEF IsLive, Fields
    <3>2. CASE "liveness" \notin LocalFieldsOf(op)
      BY <1>8, <2>2, <3>2 DEF IsLive, Fields
    <3> QED  BY <3>1, <3>2
  <2> QED  BY <1>13, <2>2, <2>3
<1>20. Showing(d)'
  <2>1. SUFFICES ASSUME NEW f \in Contents, Clean(d, f)', Clean(d, "liveness")', node[d].in
                 PROVE  /\ \A i \in QueuedFor(d, f) :
                             (\A j \in QueuedFor(d, f) : j <= i) => node[d][f] = queued[d][i].val
                        /\ QueuedFor(d, f) = {} /\ ~(todo[d] # Idle /\ f \in todo[d].wins) =>
                             \A x \in (MadeFor(d, f) \ {op}) \cup {states'[d][f]} :
                               (\A y \in MadeFor(d, f) \ {op} : y = x \/ Beats(x, y)) /\ (x = states'[d][f] \/ Beats(x, states'[d][f]))
                                 => node[d][f] = x.id
    BY <1>3, <1>13 DEF Showing
  <2>2. /\ \A i \in QueuedFor(d, f) :
             (\A j \in QueuedFor(d, f) : j <= i) => node[d][f] = queued[d][i].val
        /\ QueuedFor(d, f) = {} /\ ~(todo[d] # Idle /\ f \in todo[d].wins) =>
             \A x \in MadeFor(d, f) \cup {states[d][f]} :
               (\A y \in MadeFor(d, f) : y = x \/ Beats(x, y)) /\ (x = states[d][f] \/ Beats(x, states[d][f]))
                 => node[d][f] = x.id
    BY <1>1, <1>11, <2>1 DEF DeviceInv, Showing
  <2>3. f \in Fields /\ states[d][f] \in Seen(d)
    BY <1>1, <1>11, <2>1 DEF DeviceInv, Winning, Contents, Fields
  <2>4. CASE f \in LocalFieldsOf(op)
    <3>1. states'[d][f] = op /\ op \in MadeFor(d, f)
      BY <1>8, <2>3, <2>4 DEF MadeFor
    <3>2. states[d][f] \in OpRecord /\ (op = states[d][f] \/ Beats(op, states[d][f]))
      BY <1>12, <2>1, <2>3, <2>4
    <3>3. ASSUME NEW x \in (MadeFor(d, f) \ {op}) \cup {op}, x = op \/ Beats(x, op)
          PROVE  x \in MadeFor(d, f) /\ (x = states[d][f] \/ Beats(x, states[d][f]))
      <4>1. x \in MadeFor(d, f) /\ x \in OpRecord
        BY <1>4, <3>1 DEF MadeFor
      <4> QED  BY <1>5, <3>2, <3>3, <4>1, BeatsTransitive
    <3> QED  BY <2>2, <3>1, <3>3
  <2>5. CASE f \notin LocalFieldsOf(op)
    <3>1. states'[d][f] = states[d][f] /\ MadeFor(d, f) \ {op} = MadeFor(d, f)
      BY <1>8, <2>3, <2>5 DEF MadeFor
    <3> QED  BY <2>2, <3>1
  <2> QED  BY <2>4, <2>5
<1>21. DeviceInv(d)'
  BY <1>15, <1>16, <1>17, <1>18, <1>19, <1>20 DEF DeviceInv
<1>22. \A e \in Devices \ {d} : DeviceInv(e)'
  BY <1>1, <1>3, <1>6, <1>7, <1>9, <1>11, Others
<1> QED  BY <1>21, <1>22

LEMMA RestoreDevices ==
  ASSUME ConvInv, NEW d \in Devices, Restore(d)
  PROVE  \A e \in Devices : DeviceInv(e)'
<1> DEFINE op == Op(d, MaxChanges + restores', clock[d] + 1, "restore")
           w == Wins(states[d], op)
<1>1. TypeOK /\ Numbered /\ DeviceInv(d) /\ \A e \in Devices : DeviceInv(e)
  BY DEF ConvInv
<1>2. op \in OpRecord /\ op.dev = d /\ op.lam = clock[d] + 1 /\ op.kind = "restore"
  BY <1>1, RestoreFacts
<1>3. /\ clock[d] \in Nat /\ at[d] \in Nat /\ outbox[d] \in Seq(OpRecord)
      /\ states[d] \in [Fields -> OpRecord \cup {NoState}]
      /\ Seen(d) \in SUBSET AllOps /\ AllOps \in SUBSET OpRecord
  BY <1>1, DeviceTypes, RowFacts
<1>4. /\ ~node[d].in /\ queued[d] = << >> /\ made[d] = {} /\ todo[d] = Idle
      /\ UNCHANGED <<node, mapped, queued, made, at, log, mixed>>
      /\ clock' = [clock EXCEPT ![d] = clock[d] + 1]
      /\ outbox' = [outbox EXCEPT ![d] = Append(@, op)]
      /\ states' = [states EXCEPT ![d] = Resolved(states[d], op)]
      /\ todo' = [todo EXCEPT ![d] = [op |-> op, wins |-> w, next |-> at[d]]]
  BY DEF Restore, server
<1> HIDE DEF op
<1>5. op # NoOp /\ op # NoState
  BY <1>2, MarkersAssumption
<1>6. FieldsOf(op) = Fields /\ LocalFieldsOf(op) = Fields /\ Opens(op)
  BY <1>2 DEF FieldsOf, LocalFieldsOf, Opens
<1>7. \A f \in Fields : states[d][f] # NoState =>
        states[d][f] \in OpRecord /\ states[d][f].lam <= clock[d]
  BY <1>1, <1>3 DEF DeviceInv, Clocked
<1>8. \A f \in Fields : states[d][f] # NoState => Beats(op, states[d][f])
  BY <1>2, <1>3, <1>7 DEF Beats, OpRecord
<1>9. w = Fields
  <2>1. \A f \in Fields : Takes(f, states[d][f], op)
    BY <1>2, <1>8 DEF Takes
  <2> QED  BY <1>6, <2>1 DEF Wins
<1> HIDE DEF w
<1>10. states'[d] = Resolved(states[d], op) /\ \A e \in Devices \ {d} : states'[e] = states[e]
  BY <1>1, <1>4 DEF TypeOK
<1>11. \A f \in Fields : states'[d][f] = op
  <2>1. \A f \in Fields : Resolved(states[d], op)[f] = op
    BY <1>9, ResolvedField DEF w
  <2> QED  BY <1>10, <2>1
<1>12. /\ clock'[d] = clock[d] + 1 /\ outbox'[d] = Append(outbox[d], op)
       /\ \A e \in Devices \ {d} :
            clock'[e] = clock[e] /\ outbox'[e] = outbox[e] /\ todo'[e] = todo[e]
  BY <1>1, <1>4 DEF TypeOK
<1>13. /\ todo'[d] = [op |-> op, wins |-> w, next |-> at[d]] /\ todo'[d].op = op /\ todo'[d].wins = Fields
       /\ todo'[d].next = at[d] /\ todo'[d] # Idle
  <2>1. todo'[d] = [op |-> op, wins |-> w, next |-> at[d]]
    BY <1>1, <1>4 DEF TypeOK
  <2> QED  BY <1>5, <1>9, <2>1, IdleType
<1>14. Own(d)' = Own(d) \cup {op} /\ \A e \in Devices \ {d} : Own(e)' = Own(e)
  BY <1>1, <1>2, <1>4, NewOps
<1>15. Seen(d)' = Seen(d) \cup {op}
  <2>1. Upto(d)' = at[d] /\ Upto(d) = at[d]
    BY <1>4, <1>13 DEF Upto
  <2> QED  BY <1>4, <1>14, <2>1 DEF Seen
<1>16. \A f : /\ QueuedFor(d, f)' = {} /\ MadeFor(d, f)' = {} /\ (Clean(d, f)' = Clean(d, f))
  BY <1>4 DEF QueuedFor, MadeFor, Clean
<1>17. Clocked(d)'
  <2>1. /\ Own(d) \in SUBSET OpRecord /\ \A x \in Own(d) : x.lam <= clock[d]
        /\ \A i \in 1 .. Len(outbox[d]) : outbox[d][i].dev = d
    BY <1>1, <1>3 DEF Own, DeviceInv, Clocked
  <2>2. \A x \in Own(d)' : x.lam <= clock'[d]
    BY <1>2, <1>3, <1>12, <1>14, <2>1 DEF OpRecord
  <2>3. \A i \in 1 .. Len(outbox'[d]) : outbox'[d][i].dev = d
    <3>1. /\ Len(outbox'[d]) = Len(outbox[d]) + 1 /\ outbox'[d][Len(outbox[d]) + 1] = op
          /\ \A i \in 1 .. Len(outbox[d]) : outbox'[d][i] = outbox[d][i]
      BY <1>2, <1>3, <1>12, RangeAppend
    <3>2. Len(outbox[d]) \in Nat
      BY <1>3, LenProperties
    <3>3. \A i \in 1 .. Len(outbox[d]) + 1 : i \in 1 .. Len(outbox[d]) \/ i = Len(outbox[d]) + 1
      BY <3>2
    <3> QED  BY <1>2, <2>1, <3>1, <3>3
  <2>4. \A f \in Fields : states'[d][f].lam <= clock'[d]
    BY <1>2, <1>3, <1>11, <1>12
  <2> QED  BY <1>4, <2>2, <2>3, <2>4 DEF Clocked
<1>18. Winning(d)'
  <2>1. SUFFICES ASSUME NEW f \in Contents, Clean(d, f)
                 PROVE  \A x \in Seen(d) : f \in LocalFieldsOf(x) => Beats(op, x)
    BY <1>6, <1>11, <1>15, <1>16 DEF Winning, Contents, Fields
  <2>2. /\ f \in Fields /\ states[d][f] \in Seen(d)
        /\ \A x \in Seen(d) : f \in LocalFieldsOf(x) => x = states[d][f] \/ Beats(states[d][f], x)
    BY <1>1, <2>1 DEF DeviceInv, Winning, Contents, Fields
  <2>3. states[d][f] \in OpRecord /\ Beats(op, states[d][f])
    BY <1>3, <1>8, <2>2, MarkersAssumption
  <2>4. \A x \in Seen(d) : x \in OpRecord
    BY <1>3
  <2> QED  BY <1>2, <2>2, <2>3, <2>4, BeatsTransitive
<1>19. Deleting(d)'
  <2>1. SUFFICES ASSUME Clean(d, "liveness")
                 PROVE  \A e \in Seen(d) : Deletes(e) =>
                          \E y \in Seen(d) \cup {op} : y.kind # "move" /\ Beats(y, e)
    BY <1>2, <1>11, <1>15, <1>16 DEF Deleting, Fields
  <2>2. /\ states[d]["liveness"] \in Seen(d)
        /\ \A e \in Seen(d) : Deletes(e) =>
             \/ e = states[d]["liveness"]
             \/ \E y \in Seen(d) : y.kind # "move" /\ Beats(y, e)
    BY <1>1, <2>1 DEF DeviceInv, Deleting
  <2>3. Beats(op, states[d]["liveness"])
    BY <1>3, <1>8, <2>2, MarkersAssumption DEF Fields
  <2> QED  BY <1>2, <2>2, <2>3
<1>20. Due(d)'
  BY <1>4, <1>5, <1>6, <1>11, <1>13, <1>16 DEF Due
<1>21. Living(d)' /\ Showing(d)'
  BY <1>4 DEF Living, Showing
<1>22. DeviceInv(d)'
  BY <1>17, <1>18, <1>19, <1>20, <1>21 DEF DeviceInv
<1>23. mixed \subseteq mixed' /\ \A e \in Devices \ {d} :
         /\ node'[e] = node[e] /\ at'[e] = at[e] /\ mapped'[e] = mapped[e]
         /\ queued'[e] = queued[e] /\ made'[e] = made[e]
  BY <1>4
<1>24. \A e \in Devices \ {d} : DeviceInv(e)'
  BY <1>1, <1>4, <1>10, <1>12, <1>14, <1>23, Others
<1> QED  BY <1>22, <1>24

LEMMA UploadDevices ==
  ASSUME ConvInv, NEW d \in Devices, Upload(d)
  PROVE  \A e \in Devices : DeviceInv(e)'
<1> SUFFICES ASSUME NEW e \in Devices PROVE DeviceInv(e)'
  OBVIOUS
<1>1. TypeOK /\ DeviceInv(e) /\ DeviceInv(d)
  BY DEF ConvInv
<1>2. UNCHANGED <<clock, states, node, mapped, queued, made, at, todo, mixed>>
  BY DEF Upload
<1>3. Own(e)' = Own(e)
  BY <1>1, UploadOps DEF Own
<1>4. Upto(e)' = Upto(e) /\ Upto(e) \in 0 .. Len(log) /\ Len(log) \in Nat
  BY <1>1, <1>2, DeviceTypes, RowFacts DEF Upto
<1>5. Seen(e)' = Seen(e)
  <2>1. \A i \in 1 .. Upto(e) : log'[i] = log[i]
    BY <1>1, <1>4, UploadOps
  <2> QED  BY <1>2, <1>3, <1>4, <2>1 DEF Seen
<1>6. \A i \in 1 .. Len(outbox'[e]) : outbox'[e][i].dev = e
  <2>1. CASE e # d
    <3>1. outbox'[e] = outbox[e]
      BY <1>1, <2>1 DEF Upload, TypeOK
    <3> QED  BY <1>1, <3>1 DEF DeviceInv, Clocked
  <2>2. CASE e = d
    <3>1. outbox'[d] = Tail(outbox[d]) /\ outbox[d] \in Seq(OpRecord) /\ outbox[d] # << >>
      BY <1>1, DeviceTypes DEF Upload, TypeOK
    <3>2. /\ Len(outbox[d]) \in Nat /\ Len(outbox'[d]) = Len(outbox[d]) - 1
          /\ \A i \in 1 .. Len(outbox[d]) - 1 : outbox'[d][i] = outbox[d][i + 1]
      BY <3>1, RangeTail
    <3>3. \A i \in 1 .. Len(outbox[d]) - 1 : i + 1 \in 1 .. Len(outbox[d])
      BY <3>2
    <3> QED  BY <1>1, <2>2, <3>2, <3>3 DEF DeviceInv, Clocked
  <2> QED  BY <2>1, <2>2
<1>7. \A f : Clean(e, f)' => Clean(e, f)
  BY <1>2 DEF Clean
<1> QED  BY <1>1, <1>2, <1>3, <1>5, <1>6, <1>7, OtherDevice

LEMMA CompactDevices ==
  ASSUME ConvInv, Compact
  PROVE  \A e \in Devices : DeviceInv(e)'
<1> SUFFICES ASSUME NEW e \in Devices PROVE DeviceInv(e)'
  OBVIOUS
<1>1. DeviceInv(e)
  BY DEF ConvInv
<1>2. UNCHANGED <<clock, states, node, mapped, queued, made, outbox, at, todo, log, mixed>>
  BY DEF Compact, device
<1>3. Own(e)' = Own(e)
  BY <1>2, SameOps
<1>4. Seen(e)' = Seen(e)
  BY <1>2, <1>3 DEF Seen, Upto
<1>5. \A f : Clean(e, f)' => Clean(e, f)
  BY <1>2 DEF Clean
<1>6. \A i \in 1 .. Len(outbox'[e]) : outbox'[e][i].dev = e
  BY <1>1, <1>2 DEF DeviceInv, Clocked
<1> QED  BY <1>1, <1>2, <1>3, <1>4, <1>5, <1>6, OtherDevice

LEMMA ReceiveDevices ==
  ASSUME ConvInv, NEW d \in Devices, Receive(d)
  PROVE  \A e \in Devices : DeviceInv(e)'
<1> DEFINE n == at[d] + 1
           op == log[n]
           w == Wins(states[d], op)
<1>1. TypeOK /\ Numbered /\ DeviceInv(d) /\ \A e \in Devices : DeviceInv(e)
  BY DEF ConvInv
<1>2. /\ clock[d] \in Nat /\ at[d] \in Nat /\ Len(log) \in Nat
      /\ states[d] \in [Fields -> OpRecord \cup {NoState}] /\ queued[d] \in Seq(Change)
      /\ Seen(d) \in SUBSET AllOps /\ AllOps \in SUBSET OpRecord
  BY <1>1, DeviceTypes, RowFacts
<1>3. n \in 1 .. Len(log)
  BY <1>2 DEF Receive
<1>4. op \in AllOps /\ op \in OpRecord
  BY <1>1, <1>2, <1>3, RowFacts DEF AllOps
<1>5. /\ todo[d] = Idle
      /\ UNCHANGED <<node, mapped, queued, made, outbox, at, log>>
      /\ clock' = [clock EXCEPT ![d] = Larger(clock[d], op.lam) + 1]
      /\ states' = [states EXCEPT ![d] = Resolved(states[d], op)]
      /\ todo' = [todo EXCEPT ![d] = [op |-> op, wins |-> w, next |-> n]]
      /\ Mixes(d, IF Opens(op) /\ w # {} /\ (w # Fields \/ node[d].in)
                  THEN Fields ELSE Crossed(d, op))
  BY DEF Receive, server
<1>6. \A i : i \in 1 .. n <=> i \in 1 .. at[d] \/ i = n
  BY <1>2
<1>7. {log[i] : i \in 1 .. n} = {log[i] : i \in 1 .. at[d]} \cup {op}
  BY <1>6
<1> HIDE DEF op, n
<1>8. op # NoOp /\ op # NoState /\ op.lam \in Nat
  BY <1>4, MarkersAssumption DEF OpRecord
<1>9. w \subseteq FieldsOf(op) /\ FieldsOf(op) \subseteq Fields /\ "liveness" \in FieldsOf(op)
  BY <1>4, WinsFields, FieldFacts DEF OpRecord
<1>10. \A f \in Fields : /\ f \in w => Resolved(states[d], op)[f] = op
                         /\ f \notin w => Resolved(states[d], op)[f] = states[d][f]
  BY ResolvedField
<1>11. /\ clock'[d] = Larger(clock[d], op.lam) + 1 /\ states'[d] = Resolved(states[d], op)
       /\ todo'[d] = [op |-> op, wins |-> w, next |-> n]
       /\ \A e \in Devices \ {d} :
            clock'[e] = clock[e] /\ states'[e] = states[e] /\ todo'[e] = todo[e]
  BY <1>1, <1>5 DEF TypeOK
<1>12. \A f \in FieldsOf(op) : f \in w <=> Takes(f, states[d][f], op)
  BY DEF Wins
<1> HIDE DEF w
<1>13. /\ todo'[d].op = op /\ todo'[d].wins = w /\ todo'[d].next = n /\ todo'[d] # Idle
  BY <1>8, <1>11, IdleType
<1>14. \A f \in Fields : /\ f \in w => states'[d][f] = op
                         /\ f \notin w => states'[d][f] = states[d][f]
  BY <1>10, <1>11
<1>15. \A e \in Devices : Own(e)' = Own(e)
  BY <1>5, SameOps
<1>16. Seen(d)' = Seen(d) \cup {op}
  <2>1. Upto(d)' = n /\ Upto(d) = at[d]
    BY <1>5, <1>13 DEF Upto
  <2> QED  BY <1>5, <1>7, <1>15, <2>1 DEF Seen
<1>17. /\ mixed \subseteq mixed'
       /\ \A f : Clean(d, f)' => Clean(d, f)
       /\ Opens(op) /\ w # {} /\ (w # Fields \/ node[d].in) => \A f \in Fields : ~Clean(d, f)'
       /\ \A f \in FieldsOf(op) : Clean(d, f)' => f \notin Crossed(d, op)
  BY <1>5, <1>9 DEF Mixes, Clean
<1>18. \A f : QueuedFor(d, f)' = QueuedFor(d, f) /\ MadeFor(d, f)' = MadeFor(d, f)
  BY <1>5 DEF QueuedFor, MadeFor
<1>19. ASSUME NEW f \in FieldsOf(op), f \notin Crossed(d, op)
       PROVE  QueuedFor(d, f) = {} /\ MadeFor(d, f) \subseteq {op}
  <2>1. \A c \in Range(queued[d]) \cup (made[d] \ {op}) : f \notin LocalFieldsOf(c)
    BY <1>19 DEF Crossed
  <2>2. \A i \in 1 .. Len(queued[d]) : queued[d][i] \in Range(queued[d])
    BY <1>2, LenProperties DEF Range
  <2> QED  BY <2>1, <2>2 DEF QueuedFor, MadeFor
<1>20. ASSUME NEW f \in Fields, states[d][f] \in Seen(d)
       PROVE  /\ states[d][f] \in OpRecord /\ states[d][f] # NoState
              /\ op = states[d][f] \/ Beats(op, states[d][f]) \/ Beats(states[d][f], op)
  BY <1>1, <1>2, <1>4, <1>20, Ordered, MarkersAssumption
<1>21. Clocked(d)'
  <2>1. clock'[d] \in Nat /\ clock[d] <= clock'[d] /\ op.lam <= clock'[d]
    BY <1>2, <1>8, <1>11 DEF Larger
  <2>2. /\ made[d] \subseteq Own(d) /\ \A x \in Own(d) : x.lam <= clock[d] /\ x.lam \in Nat
        /\ \A i \in 1 .. Len(outbox[d]) : outbox[d][i].dev = d
    BY <1>1, <1>2 DEF DeviceInv, Clocked, Own, OpRecord
  <2>3. \A f \in Fields : states[d][f] # NoState =>
          states[d][f].lam <= clock[d] /\ states[d][f].lam \in Nat
    BY <1>1, <1>2 DEF DeviceInv, Clocked, OpRecord
  <2>4. \A x \in Own(d) : x.lam <= clock'[d]
    BY <1>2, <2>1, <2>2
  <2>5. \A f \in Fields : states'[d][f] # NoState => states'[d][f].lam <= clock'[d]
    BY <1>2, <1>14, <2>1, <2>3
  <2> QED  BY <1>5, <1>15, <2>2, <2>4, <2>5 DEF Clocked
<1>22. Winning(d)'
  <2>1. SUFFICES ASSUME NEW f \in Contents, Clean(d, f)'
                 PROVE  /\ states'[d][f] \in Seen(d)' /\ f \in LocalFieldsOf(states'[d][f])
                        /\ \A x \in Seen(d)' : f \in LocalFieldsOf(x) =>
                             x = states'[d][f] \/ Beats(states'[d][f], x)
    BY DEF Winning
  <2>2. /\ f \in Fields /\ states[d][f] \in Seen(d) /\ f \in LocalFieldsOf(states[d][f])
        /\ \A x \in Seen(d) : f \in LocalFieldsOf(x) => x = states[d][f] \/ Beats(states[d][f], x)
    BY <1>1, <1>17, <2>1 DEF DeviceInv, Winning, Contents, Fields
  <2>3. /\ states[d][f] \in OpRecord /\ states[d][f] # NoState
        /\ op = states[d][f] \/ Beats(op, states[d][f]) \/ Beats(states[d][f], op)
    BY <1>20, <2>2
  <2>4. f \in FieldsOf(op) <=> f \in LocalFieldsOf(op)
    BY <1>4, ContentFields DEF OpRecord
  <2>5. CASE f \in w
    <3>1. f \in LocalFieldsOf(op) /\ states'[d][f] = op
      BY <1>9, <1>14, <2>2, <2>4, <2>5
    <3>2. Beats(op, states[d][f])
      BY <1>9, <1>12, <2>3, <2>5, ContentTakes
    <3>3. \A x \in Seen(d) : x \in OpRecord
      BY <1>2
    <3>4. \A x \in Seen(d) : f \in LocalFieldsOf(x) => Beats(op, x)
      BY <1>4, <2>2, <2>3, <3>2, <3>3, BeatsTransitive
    <3> QED  BY <1>16, <3>1, <3>4
  <2>6. CASE f \notin w
    <3>1. states'[d][f] = states[d][f]
      BY <1>14, <2>2, <2>6
    <3>2. f \in LocalFieldsOf(op) => op = states[d][f] \/ Beats(states[d][f], op)
      BY <1>12, <2>3, <2>4, <2>6, ContentTakes
    <3> QED  BY <1>16, <2>2, <3>1, <3>2
  <2> QED  BY <2>5, <2>6
<1>23. Deleting(d)'
  <2> DEFINE st == states[d]["liveness"]
  <2>1. SUFFICES ASSUME Clean(d, "liveness")'
                 PROVE  /\ states'[d]["liveness"] \in Seen(d)'
                        /\ \A e \in Seen(d)' : Deletes(e) =>
                             \/ e = states'[d]["liveness"]
                             \/ \E y \in Seen(d)' : y.kind # "move" /\ Beats(y, e)
    BY DEF Deleting
  <2>2. /\ st \in Seen(d)
        /\ \A e \in Seen(d) : Deletes(e) =>
             e = st \/ \E y \in Seen(d) : y.kind # "move" /\ Beats(y, e)
    BY <1>1, <1>17, <2>1 DEF DeviceInv, Deleting
  <2>3. st # NoState /\ (op = st \/ Beats(op, st) \/ Beats(st, op))
    BY <1>20, <2>2 DEF Fields
  <2>4. "liveness" \in w <=> Takes("liveness", st, op)
    BY <1>9, <1>12
  <2>5. "liveness" \in Fields
    BY DEF Fields
  <2> HIDE DEF st
  <2>6. CASE "liveness" \in w
    <3>1. states'[d]["liveness"] = op
      BY <1>14, <2>5, <2>6
    <3>2. Deletes(st) => op.kind # "move" /\ Beats(op, st)
      BY <2>3, <2>4, <2>6 DEF Takes, Deletes
    <3> QED  BY <1>16, <2>2, <3>1, <3>2
  <2>7. CASE "liveness" \notin w
    <3>1. states'[d]["liveness"] = st
      BY <1>14, <2>5, <2>7 DEF st
    <3>2. Deletes(op) => op = st \/ (st.kind # "move" /\ Beats(st, op))
      BY <2>3, <2>4, <2>7 DEF Takes, Deletes
    <3> QED  BY <1>16, <2>2, <3>1, <3>2
  <2> QED  BY <2>6, <2>7
<1>24. Due(d)'
  <2>1. SUFFICES /\ \A f \in FieldsOf(op) : Clean(d, f)' =>
                      /\ QueuedFor(d, f) = {} /\ MadeFor(d, f) \subseteq {op}
                      /\ f \in w => states'[d][f] = op
                 /\ Opens(op) /\ Clean(d, "liveness")' =>
                      w = {} \/ (w = Fields /\ ~node[d].in)
    BY <1>5, <1>8, <1>9, <1>13, <1>18 DEF Due
  <2>2. \A f \in FieldsOf(op) : Clean(d, f)' =>
          /\ QueuedFor(d, f) = {} /\ MadeFor(d, f) \subseteq {op}
          /\ f \in w => states'[d][f] = op
    BY <1>9, <1>14, <1>17, <1>19
  <2>3. Opens(op) /\ Clean(d, "liveness")' => w = {} \/ (w = Fields /\ ~node[d].in)
    BY <1>17 DEF Fields
  <2> QED  BY <2>2, <2>3
<1>25. Living(d)'
  <2>1. SUFFICES ASSUME Clean(d, "liveness")', node[d].in
                 PROVE  /\ mapped[d]
                        /\ IsLive(states'[d]) \/ DeleteDue(d)'
                        /\ QueuedFor(d, "liveness") = {}
                        /\ \A x \in MadeFor(d, "liveness") : ~Deletes(x)
    BY <1>5, <1>18 DEF Living, IsLive
  <2>2. /\ mapped[d] /\ IsLive(states[d]) /\ QueuedFor(d, "liveness") = {}
        /\ \A x \in MadeFor(d, "liveness") : ~Deletes(x)
    BY <1>1, <1>5, <1>17, <2>1 DEF DeviceInv, Living, DeleteDue
  <2>3. IsLive(states'[d]) \/ DeleteDue(d)'
    <3>1. CASE "liveness" \in w
      <4>1. CASE Deletes(op)
        BY <1>8, <1>13, <3>1, <4>1 DEF DeleteDue
      <4>2. CASE ~Deletes(op)
        BY <1>8, <1>14, <3>1, <4>2 DEF IsLive, Fields
      <4> QED  BY <4>1, <4>2
    <3>2. CASE "liveness" \notin w
      BY <1>14, <2>2, <3>2 DEF IsLive, Fields
    <3> QED  BY <3>1, <3>2
  <2> QED  BY <2>2, <2>3
<1>26. Showing(d)'
  <2>1. SUFFICES ASSUME NEW f \in Contents, Clean(d, f)', Clean(d, "liveness")', node[d].in
                 PROVE  /\ \A i \in QueuedFor(d, f) :
                             (\A j \in QueuedFor(d, f) : j <= i) => node[d][f] = queued[d][i].val
                        /\ QueuedFor(d, f) = {} /\ f \notin w =>
                             \A x \in MadeFor(d, f) \cup {states'[d][f]} :
                               (\A y \in MadeFor(d, f) : y = x \/ Beats(x, y)) /\ (x = states'[d][f] \/ Beats(x, states'[d][f]))
                                 => node[d][f] = x.id
    BY <1>5, <1>13, <1>18 DEF Showing
  <2>2. /\ \A i \in QueuedFor(d, f) :
             (\A j \in QueuedFor(d, f) : j <= i) => node[d][f] = queued[d][i].val
        /\ QueuedFor(d, f) = {} =>
             \A x \in MadeFor(d, f) \cup {states[d][f]} :
               (\A y \in MadeFor(d, f) : y = x \/ Beats(x, y)) /\ (x = states[d][f] \/ Beats(x, states[d][f]))
                 => node[d][f] = x.id
    BY <1>1, <1>5, <1>17, <2>1 DEF DeviceInv, Showing
  <2>3. f \notin w => states'[d][f] = states[d][f]
    BY <1>14 DEF Contents, Fields
  <2> QED  BY <2>2, <2>3
<1>27. DeviceInv(d)'
  BY <1>21, <1>22, <1>23, <1>24, <1>25, <1>26 DEF DeviceInv
<1>28. \A e \in Devices \ {d} : DeviceInv(e)'
  BY <1>1, <1>5, <1>11, <1>15, <1>17, Others
<1> QED  BY <1>27, <1>28

LEMMA ResyncDevices ==
  ASSUME ConvInv, NEW d \in Devices, Resync(d)
  PROVE  \A e \in Devices : DeviceInv(e)'
<1> DEFINE lam == Larger(clock[d], IF Listed = NoOp THEN 0 ELSE Listed.lam) + 1
           op == SyntheticSnapshotOp(lam)
           w == IF op = NoOp THEN {} ELSE FieldsOf(op)
           st == IF op = NoOp THEN Blank ELSE Resolved(Blank, op)
<1>1. TypeOK /\ Numbered /\ DeviceInv(d) /\ \A e \in Devices : DeviceInv(e)
  BY DEF ConvInv
<1>2. /\ lam \in Nat /\ clock[d] <= lam /\ (op # NoOp => op.lam <= lam)
      /\ clock' = [clock EXCEPT ![d] = lam]
      /\ states' = [states EXCEPT ![d] = st]
      /\ todo' = [todo EXCEPT ![d] = [op |-> op, wins |-> w, next |-> Len(log)]]
  BY <1>1, ResyncFacts
<1> HIDE DEF lam, op
<1>3. \A f \in Fields : st[f] # NoState => op # NoOp /\ st[f] = op
  BY DEF Blank, Resolved, Put
<1>4. w = IF op = NoOp THEN {} ELSE FieldsOf(op)
  OBVIOUS
<1> HIDE DEF w, st
<1>5. UNCHANGED <<node, mapped, queued, made, outbox, at, log>>
  BY DEF Resync, server
<1>6. /\ clock'[d] = lam /\ states'[d] = st /\ todo'[d] = [op |-> op, wins |-> w, next |-> Len(log)]
      /\ \A e \in Devices \ {d} :
           clock'[e] = clock[e] /\ states'[e] = states[e] /\ todo'[e] = todo[e]
  BY <1>1, <1>2 DEF TypeOK
<1>7. todo'[d].op = op /\ todo'[d].wins = w
  BY <1>6
<1>8. mixed \subseteq mixed' /\ \A f \in Fields : ~Clean(d, f)'
  BY DEF Resync, Mixes, Clean
<1>9. "title" \in Fields /\ "move" \in Fields /\ "liveness" \in Fields
  BY DEF Fields
<1>10. \A e \in Devices : Own(e)' = Own(e)
  BY <1>5, SameOps
<1>11. Clocked(d)'
  <2>1. /\ made[d] \subseteq Own(d) /\ \A x \in Own(d) : x.lam <= clock[d]
        /\ \A i \in 1 .. Len(outbox[d]) : outbox[d][i].dev = d
    BY <1>1 DEF DeviceInv, Clocked
  <2>2. \A x \in Own(d) : x.lam \in Nat
    BY <1>1, RowFacts DEF Own, OpRecord
  <2>3. clock[d] \in Nat
    BY <1>1, DeviceTypes
  <2>4. \A x \in Own(d) : x.lam <= clock'[d]
    BY <1>2, <1>6, <2>1, <2>2, <2>3
  <2>5. \A f \in Fields : states'[d][f] # NoState => states'[d][f].lam <= clock'[d]
    BY <1>2, <1>3, <1>6
  <2> QED  BY <1>5, <1>10, <2>1, <2>4, <2>5 DEF Clocked
<1>12. Winning(d)' /\ Deleting(d)' /\ Living(d)' /\ Showing(d)'
  BY <1>8, <1>9 DEF Winning, Deleting, Living, Showing, Contents
<1>13. Due(d)'
  <2>1. op # NoOp => op \in OpRecord
    BY <1>1, ResyncFacts DEF op, lam
  <2>2. op # NoOp => FieldsOf(op) \subseteq Fields
    BY <2>1, WinsFields
  <2> QED  BY <1>4, <1>7, <1>8, <1>9, <2>2 DEF Due
<1>14. DeviceInv(d)'
  BY <1>11, <1>12, <1>13 DEF DeviceInv
<1>15. \A e \in Devices \ {d} : DeviceInv(e)'
  BY <1>1, <1>5, <1>6, <1>8, <1>10, Others
<1> QED  BY <1>14, <1>15

LEMMA MutateDevices ==
  ASSUME ConvInv, NEW d \in Devices, Mutate(d)
  PROVE  \A e \in Devices : DeviceInv(e)'
<1> DEFINE op == todo[d].op
           w == todo[d].wins
<1>1. TypeOK /\ DeviceInv(d) /\ \A e \in Devices : DeviceInv(e)
  BY DEF ConvInv
<1>2. /\ todo[d] # Idle /\ UNCHANGED <<clock, states, queued, made, outbox, log, mixed>>
      /\ node' = [node EXCEPT ![d] = Shown(d, op, w)]
      /\ at' = [at EXCEPT ![d] = todo[d].next]
      /\ todo' = [todo EXCEPT ![d] = Idle]
      /\ mapped' = [mapped EXCEPT ![d] =
           IF "liveness" \in w /\ Opens(op) THEN TRUE
           ELSE IF "liveness" \in w /\ Deletes(op) THEN FALSE
           ELSE @]
  BY DEF Mutate, server
<1>3. /\ node[d] \in NodeRec /\ op \in OpRecord \cup {NoOp}
  BY <1>1, DeviceTypes DEF TodoRec
<1>4. /\ node'[d] = Shown(d, op, w) /\ at'[d] = todo[d].next /\ todo'[d] = Idle
      /\ mapped'[d] = IF "liveness" \in w /\ Opens(op) THEN TRUE
                      ELSE IF "liveness" \in w /\ Deletes(op) THEN FALSE
                      ELSE mapped[d]
      /\ \A e \in Devices \ {d} :
           node'[e] = node[e] /\ at'[e] = at[e] /\ todo'[e] = todo[e] /\ mapped'[e] = mapped[e]
  <2> HIDE DEF op, w
  <2> QED  BY <1>1, <1>2 DEF TypeOK
<1>5. \A e \in Devices : Own(e)' = Own(e)
  BY <1>2, SameOps
<1>6. Seen(d)' = Seen(d)
  BY <1>2, <1>4, <1>5 DEF Seen, Upto
<1>7. \A f : /\ QueuedFor(d, f)' = QueuedFor(d, f) /\ MadeFor(d, f)' = MadeFor(d, f)
             /\ Clean(d, f)' = Clean(d, f)
  BY <1>2 DEF QueuedFor, MadeFor, Clean
<1>8. /\ op = NoOp => \A f \in Fields : ~Clean(d, f)
      /\ op # NoOp =>
           /\ w \subseteq FieldsOf(op)
           /\ \A f \in FieldsOf(op) : Clean(d, f) =>
                /\ QueuedFor(d, f) = {} /\ MadeFor(d, f) \subseteq {op}
                /\ f \in w => states[d][f] = op
           /\ Opens(op) /\ Clean(d, "liveness") => w = {} \/ (w = Fields /\ ~node[d].in)
  BY <1>1, <1>2 DEF DeviceInv, Due
<1>9. DeleteDue(d) => Deletes(op) /\ "liveness" \in w
  BY DEF DeleteDue
<1> HIDE DEF op, w
<1>10. ASSUME Clean(d, "liveness"), node'[d].in
       PROVE  /\ op \in OpRecord /\ op # NoOp /\ op # NoState
              /\ op.kind \in {"create", "restore", "update", "move", "delete"}
              /\ FieldsOf(op) \subseteq Fields
              /\ ~(Deletes(op) /\ "liveness" \in w)
              /\ Opens(op) /\ "liveness" \in w =>
                   w = Fields /\ Shown(d, op, w) = [in |-> TRUE, title |-> op.id, move |-> op.id]
              /\ ~(Opens(op) /\ "liveness" \in w) => node[d].in /\ ~DeleteDue(d)
  <2>1. op # NoOp
    BY <1>8, <1>10 DEF Fields
  <2>2. /\ op \in OpRecord /\ op # NoState /\ FieldsOf(op) \subseteq Fields
        /\ op.kind \in {"create", "restore", "update", "move", "delete"}
    BY <1>3, <2>1, MarkersAssumption, WinsFields DEF OpRecord
  <2>3. ~(Deletes(op) /\ "liveness" \in w)
    <3> SUFFICES ASSUME Deletes(op), "liveness" \in w PROVE FALSE
      OBVIOUS
    <3>1. Shown(d, op, w) = [node[d] EXCEPT !.in = FALSE]
      BY <2>2, ShownCases DEF Deletes
    <3> QED  BY <1>3, <1>4, <1>10, <3>1 DEF NodeRec
  <2>4. Opens(op) /\ "liveness" \in w =>
          w = Fields /\ Shown(d, op, w) = [in |-> TRUE, title |-> op.id, move |-> op.id]
    BY <1>8, <1>10, <2>1, <2>2, ShownCases
  <2>5. ASSUME ~(Opens(op) /\ "liveness" \in w) PROVE node[d].in /\ ~DeleteDue(d)
    <3>1. Shown(d, op, w) \in
            {node[d], [node[d] EXCEPT !.title = op.id], [node[d] EXCEPT !.move = op.id]}
      <4>1. CASE Opens(op)
        BY <2>2, <2>5, <4>1, ShownCases
      <4>2. CASE op.kind = "update"
        BY <2>2, <4>2, ShownCases
      <4>3. CASE op.kind = "move"
        BY <2>2, <4>3, ShownCases
      <4>4. CASE op.kind = "delete"
        BY <2>2, <2>3, <4>4, ShownCases DEF Deletes
      <4> QED  BY <2>2, <4>1, <4>2, <4>3, <4>4 DEF Opens
    <3>2. node[d].in
      BY <1>3, <1>4, <1>10, <3>1 DEF NodeRec
    <3> QED  BY <1>9, <2>3, <3>2
  <2> QED  BY <2>1, <2>2, <2>3, <2>4, <2>5
<1>11. Clocked(d)'
  BY <1>1, <1>2, <1>5 DEF DeviceInv, Clocked
<1>12. Winning(d)'
  BY <1>1, <1>2, <1>6, <1>7 DEF DeviceInv, Winning, Contents
<1>13. Deleting(d)'
  BY <1>1, <1>2, <1>6, <1>7 DEF DeviceInv, Deleting
<1>14. Due(d)'
  BY <1>4 DEF Due
<1>15. Living(d)'
  <2>1. SUFFICES ASSUME Clean(d, "liveness"), node'[d].in
                 PROVE  /\ mapped'[d] /\ IsLive(states[d])
                        /\ QueuedFor(d, "liveness") = {}
                        /\ \A x \in MadeFor(d, "liveness") : ~Deletes(x)
    BY <1>2, <1>7 DEF Living, IsLive
  <2>2. CASE Opens(op) /\ "liveness" \in w
    <3>1. mapped'[d]
      BY <1>4, <2>2
    <3>2. "liveness" \in FieldsOf(op) /\ op # NoOp /\ op # NoState
      BY <1>8, <1>10, <2>1, <2>2
    <3>3. /\ states[d]["liveness"] = op /\ QueuedFor(d, "liveness") = {}
          /\ MadeFor(d, "liveness") \subseteq {op}
      BY <1>8, <2>1, <2>2, <3>2
    <3>4. ~Deletes(op)
      BY <2>2 DEF Opens, Deletes
    <3> QED  BY <3>1, <3>2, <3>3, <3>4 DEF IsLive
  <2>3. CASE ~(Opens(op) /\ "liveness" \in w)
    <3>1. node[d].in /\ ~DeleteDue(d) /\ ~(Deletes(op) /\ "liveness" \in w)
      BY <1>10, <2>1, <2>3
    <3>2. mapped'[d] = mapped[d]
      BY <1>4, <2>3, <3>1
    <3> QED  BY <1>1, <2>1, <3>1, <3>2 DEF DeviceInv, Living
  <2> QED  BY <2>2, <2>3
<1>16. Showing(d)'
  <2>1. SUFFICES ASSUME NEW f \in Contents, Clean(d, f), Clean(d, "liveness"), node'[d].in
                 PROVE  /\ \A i \in QueuedFor(d, f) :
                             (\A j \in QueuedFor(d, f) : j <= i) => node'[d][f] = queued[d][i].val
                        /\ QueuedFor(d, f) = {} =>
                             \A x \in MadeFor(d, f) \cup {states[d][f]} :
                               (\A y \in MadeFor(d, f) : y = x \/ Beats(x, y)) /\ (x = states[d][f] \/ Beats(x, states[d][f]))
                                 => node'[d][f] = x.id
    BY <1>2, <1>4, <1>7 DEF Showing
  <2>2. /\ op \in OpRecord /\ op # NoOp
        /\ op.kind \in {"create", "restore", "update", "move", "delete"}
    BY <1>10, <2>1
  <2>3. /\ "title" \in FieldsOf(op) <=> op.kind \in {"create", "restore", "update"}
        /\ "move" \in FieldsOf(op) <=> op.kind \in {"create", "restore", "move"}
    BY <2>2, FieldFacts
  \* The field is won: nothing local is on its way and the value is shown.
  <2>4. CASE f \in w
    <3>1. /\ QueuedFor(d, f) = {} /\ MadeFor(d, f) \subseteq {op} /\ states[d][f] = op
      BY <1>8, <2>1, <2>2, <2>4
    <3>2. node'[d][f] = op.id
      <4>1. CASE Opens(op) /\ "liveness" \in w
        BY <1>4, <1>10, <2>1, <4>1 DEF Contents
      <4>2. CASE ~(Opens(op) /\ "liveness" \in w)
        <5>1. node[d].in /\ ~DeleteDue(d)
          BY <1>10, <2>1, <4>2
        <5>2. mapped[d] /\ IsLive(states[d])
          BY <1>1, <2>1, <5>1 DEF DeviceInv, Living
        <5>3. ~Opens(op)
          <6>1. Opens(op) => w = Fields
            BY <1>8, <2>1, <2>2, <2>4
          <6> QED  BY <4>2, <6>1 DEF Fields
        <5>4. (op.kind = "update" /\ f = "title") \/ (op.kind = "move" /\ f = "move")
          BY <1>8, <2>1, <2>2, <2>3, <2>4, <5>3 DEF Contents, Opens
        <5>5. CASE op.kind = "update" /\ f = "title"
          <6>1. Shown(d, op, w) = [node[d] EXCEPT !.title = op.id]
            BY <2>2, <2>4, <5>2, <5>5, ShownCases
          <6> QED  BY <1>3, <1>4, <5>5, <6>1 DEF NodeRec
        <5>6. CASE op.kind = "move" /\ f = "move"
          <6>1. Shown(d, op, w) = [node[d] EXCEPT !.move = op.id]
            BY <2>2, <2>4, <5>2, <5>6, ShownCases
          <6> QED  BY <1>3, <1>4, <5>6, <6>1 DEF NodeRec
        <5> QED  BY <5>4, <5>5, <5>6
      <4> QED  BY <4>1, <4>2
    <3> QED  BY <3>1, <3>2
  \* The field is not won: what is shown stays.
  <2>5. CASE f \notin w
    <3>1. ~(Opens(op) /\ "liveness" \in w)
      BY <1>10, <2>1, <2>5 DEF Contents, Fields
    <3>2. node[d].in
      BY <1>10, <2>1, <3>1
    <3>3. node'[d][f] = node[d][f]
      <4>1. CASE Opens(op)
        BY <1>4, <2>2, <3>1, <4>1, ShownCases
      <4>2. CASE op.kind = "update"
        <5>1. Shown(d, op, w) = IF "title" \in w /\ mapped[d] THEN [node[d] EXCEPT !.title = op.id] ELSE node[d]
          BY <2>2, <4>2, ShownCases
        <5> QED  BY <1>3, <1>4, <2>1, <2>5, <5>1 DEF Contents, NodeRec
      <4>3. CASE op.kind = "move"
        <5>1. Shown(d, op, w) \in {node[d], [node[d] EXCEPT !.move = op.id]}
          BY <2>2, <4>3, ShownCases
        <5>2. "move" \notin w => Shown(d, op, w) = node[d]
          BY <2>2, <4>3, ShownCases
        <5> QED  BY <1>3, <1>4, <2>1, <2>5, <5>1, <5>2 DEF Contents, NodeRec
      <4>4. CASE op.kind = "delete"
        <5>1. Shown(d, op, w) = node[d]
          BY <1>10, <2>1, <2>2, <4>4, ShownCases DEF Deletes
        <5> QED  BY <1>4, <5>1
      <4> QED  BY <2>2, <4>1, <4>2, <4>3, <4>4 DEF Opens
    <3>4. ~(todo[d] # Idle /\ f \in todo[d].wins)
      BY <2>5 DEF w
    <3> QED  BY <1>1, <2>1, <3>2, <3>3, <3>4 DEF DeviceInv, Showing
  <2> QED  BY <2>4, <2>5
<1>17. DeviceInv(d)'
  BY <1>11, <1>12, <1>13, <1>14, <1>15, <1>16 DEF DeviceInv
<1>18. mixed \subseteq mixed' /\ \A e \in Devices \ {d} :
         /\ clock'[e] = clock[e] /\ states'[e] = states[e] /\ queued'[e] = queued[e]
         /\ made'[e] = made[e] /\ outbox'[e] = outbox[e]
  BY <1>2
<1>19. \A e \in Devices \ {d} : DeviceInv(e)'
  BY <1>1, <1>2, <1>4, <1>5, <1>18, Others
<1> QED  BY <1>17, <1>19
-------------------------------------------------------------------------------
(***************************************************************************)
(* The inductive invariant.                                                *)
(***************************************************************************)
LEMMA InitInv == Init => ConvInv
<1> SUFFICES ASSUME Init PROVE ConvInv
  OBVIOUS
<1>1. AllOps = {First}
  <2>1. Rows = {First}
    BY DEF Rows, Init
  <2>2. \A e \in Devices : Range(outbox[e]) = {}
    BY DEF Init, Range
  <2> QED  BY <2>1, <2>2 DEF AllOps
<1>2. \A d \in Devices : queued[d] = << >>
  BY DEF Init
<1>3. Numbered
  BY <1>1, <1>2, FirstType DEF Numbered, Init
<1> QED  BY <1>3, TypeInit, InitDevices DEF ConvInv

LEMMA StepInv == ConvInv /\ [Next]_vars => ConvInv'
<1> SUFFICES ASSUME ConvInv, [Next]_vars PROVE ConvInv'
  OBVIOUS
<1>1. TypeOK /\ Numbered /\ \A d \in Devices : DeviceInv(d)
  BY DEF ConvInv
<1>2. ASSUME NEW d \in Devices, NEW k \in Kinds, UserChange(d, k) PROVE ConvInv'
  BY <1>1, <1>2, UserChangeType, UserChangeNumbered, UserChangeDevices DEF ConvInv
<1>3. ASSUME NEW d \in Devices, Capture(d) PROVE ConvInv'
  BY <1>1, <1>3, CaptureType, CaptureNumbered, CaptureDevices DEF ConvInv
<1>4. ASSUME NEW d \in Devices, Record(d) PROVE ConvInv'
  <2>1. outbox' = outbox /\ log' = log /\ UNCHANGED <<queued, changes, restores>>
    BY <1>4 DEF Record, server
  <2>2. Numbered'
    BY <1>1, <2>1, SameOps, SameNumbers
  <2> QED  BY <1>1, <1>4, <2>2, RecordType, RecordDevices DEF ConvInv
<1>5. ASSUME NEW d \in Devices, Restore(d) PROVE ConvInv'
  BY <1>1, <1>5, RestoreType, RestoreNumbered, RestoreDevices DEF ConvInv
<1>6. ASSUME NEW d \in Devices, Upload(d) PROVE ConvInv'
  <2>1. Numbered'
    BY <1>1, <1>6, UploadOps, SameNumbers DEF Upload
  <2> QED  BY <1>1, <1>6, <2>1, UploadType, UploadDevices DEF ConvInv
<1>7. ASSUME NEW d \in Devices, Receive(d) PROVE ConvInv'
  <2>1. outbox' = outbox /\ log' = log /\ UNCHANGED <<queued, changes, restores>>
    BY <1>7 DEF Receive, server
  <2>2. Numbered'
    BY <1>1, <2>1, SameOps, SameNumbers
  <2> QED  BY <1>1, <1>7, <2>2, ReceiveType, ReceiveDevices DEF ConvInv
<1>8. ASSUME NEW d \in Devices, Resync(d) PROVE ConvInv'
  <2>1. outbox' = outbox /\ log' = log /\ UNCHANGED <<queued, changes, restores>>
    BY <1>8 DEF Resync, server
  <2>2. Numbered'
    BY <1>1, <2>1, SameOps, SameNumbers
  <2> QED  BY <1>1, <1>8, <2>2, ResyncType, ResyncDevices DEF ConvInv
<1>9. ASSUME NEW d \in Devices, Mutate(d) PROVE ConvInv'
  <2>1. outbox' = outbox /\ log' = log /\ UNCHANGED <<queued, changes, restores>>
    BY <1>9 DEF Mutate, server
  <2>2. Numbered'
    BY <1>1, <2>1, SameOps, SameNumbers
  <2> QED  BY <1>1, <1>9, <2>2, MutateType, MutateDevices DEF ConvInv
<1>10. CASE Compact
  <2>1. outbox' = outbox /\ log' = log /\ UNCHANGED <<queued, changes, restores>>
    BY <1>10 DEF Compact, device
  <2>2. Numbered'
    BY <1>1, <2>1, SameOps, SameNumbers
  <2> QED  BY <1>1, <1>10, <2>2, CompactType, CompactDevices DEF ConvInv
<1>11. CASE UNCHANGED vars
  <2>1. /\ UNCHANGED <<clock, states, node, mapped, queued, made, outbox, at, todo>>
        /\ UNCHANGED <<log, folded, base, tomb, changes, restores, mixed>>
    BY <1>11 DEF vars, device, server
  <2>2. TypeOK'
    BY <1>1, <2>1 DEF TypeOK
  <2>3. Numbered'
    BY <1>1, <2>1, SameOps, SameNumbers
  <2>4. ASSUME NEW e \in Devices PROVE DeviceInv(e)'
    <3>1. Own(e)' = Own(e)
      BY <2>1, SameOps
    <3>2. Seen(e)' = Seen(e)
      BY <2>1, <3>1 DEF Seen, Upto
    <3>3. \A f : Clean(e, f)' => Clean(e, f)
      BY <2>1 DEF Clean
    <3>4. \A i \in 1 .. Len(outbox'[e]) : outbox'[e][i].dev = e
      BY <1>1, <2>1 DEF DeviceInv, Clocked
    <3> QED  BY <1>1, <2>1, <3>1, <3>2, <3>3, <3>4, OtherDevice
  <2> QED  BY <2>2, <2>3, <2>4 DEF ConvInv
<1> QED  BY <1>2, <1>3, <1>4, <1>5, <1>6, <1>7, <1>8, <1>9, <1>10, <1>11 DEF Next

\* The operations, the queues and the states of a device belong together in every
\* reachable state: keys, ids, winners and what the browser shows.
THEOREM DevicesConsistent == Spec => []ConvInv
BY InitInv, StepInv, PTL DEF Spec
-------------------------------------------------------------------------------
(***************************************************************************)
(* When everything is delivered, every device has seen every row.          *)
(***************************************************************************)
LEMMA QuietSeen ==
  ASSUME TypeOK, Quiet, NEW d \in Devices
  PROVE  /\ Seen(d) = Rows /\ Rows \in SUBSET OpRecord
         /\ todo[d] = Idle /\ \A f : QueuedFor(d, f) = {} /\ MadeFor(d, f) = {}
<1>1. /\ queued[d] = << >> /\ made[d] = {} /\ todo[d] = Idle /\ at[d] = Len(log)
      /\ \A e \in Devices : outbox[e] = << >>
  BY DEF Quiet
<1>2. AllOps = Rows
  <2>1. \A e \in Devices : Range(outbox[e]) = {}
    BY <1>1 DEF Range
  <2> QED  BY <2>1 DEF AllOps
<1>3. Rows = {log[i] : i \in 1 .. Len(log)} /\ Rows \in SUBSET OpRecord
  BY RowFacts
<1>4. Seen(d) = Rows
  BY <1>1, <1>2, <1>3 DEF Seen, Upto, Own
<1>5. \A f : QueuedFor(d, f) = {} /\ MadeFor(d, f) = {}
  BY <1>1 DEF QueuedFor, MadeFor
<1> QED  BY <1>1, <1>3, <1>4, <1>5

LEMMA WinnerInv == ConvInv => WinnerEverywhere
<1> SUFFICES ASSUME ConvInv, Quiet, NEW d \in Devices, NEW f \in {"title", "move"},
                    <<d, f>> \notin mixed
             PROVE  LET winner == Top({op \in Rows : f \in LocalFieldsOf(op)})
                    IN  /\ states[d][f] = winner
                        /\ node[d].in /\ <<d, "liveness">> \notin mixed => node[d][f] = winner.id
  BY DEF WinnerEverywhere
<1> DEFINE S == {op \in Rows : f \in LocalFieldsOf(op)}
<1>1. TypeOK /\ DeviceInv(d) /\ f \in Contents /\ Clean(d, f)
  BY DEF ConvInv, Contents, Clean
<1>2. /\ Seen(d) = Rows /\ Rows \in SUBSET OpRecord
      /\ todo[d] = Idle /\ QueuedFor(d, f) = {} /\ MadeFor(d, f) = {}
  BY <1>1, QuietSeen
<1>3. IsTop(states[d][f], S)
  BY <1>1, <1>2 DEF DeviceInv, Winning, IsTop
<1>4. Top(S) = states[d][f]
  <2>1. S \in SUBSET OpRecord
    BY <1>2
  <2> HIDE DEF S
  <2> QED  BY <1>3, <2>1, TopIs
<1>5. ASSUME node[d].in, <<d, "liveness">> \notin mixed PROVE node[d][f] = states[d][f].id
  BY <1>1, <1>2, <1>5 DEF DeviceInv, Showing, Clean
<1> QED  BY <1>4, <1>5

LEMMA DeleteInv == ConvInv => DeleteWins
<1> SUFFICES ASSUME ConvInv, Quiet, NEW del \in Rows, Deletes(del),
                    \A op \in Rows \ {del} : op.kind = "move" \/ Beats(del, op),
                    NEW d \in Devices, <<d, "liveness">> \notin mixed, node[d].in
             PROVE  FALSE
  BY DEF DeleteWins
<1>1. TypeOK /\ DeviceInv(d) /\ Clean(d, "liveness")
  BY DEF ConvInv, Clean
<1>2. Seen(d) = Rows /\ Rows \in SUBSET OpRecord /\ todo[d] = Idle
  BY <1>1, QuietSeen
<1>3. IsLive(states[d])
  BY <1>1, <1>2 DEF DeviceInv, Living, DeleteDue
<1>4. PICK y \in Rows : y.kind # "move" /\ Beats(y, del)
  BY <1>1, <1>2, <1>3 DEF DeviceInv, Deleting, IsLive
<1>5. y \in OpRecord /\ del \in OpRecord
  BY <1>2
<1> QED  BY <1>4, <1>5, BeatsOrder

\* Devices agree (arbitrateField, resolveFields, applyRemote): for any number of
\* devices, changes, restores and snapshots, when everything is delivered every
\* field no crossing touched has the highest key of all that wrote it on every
\* device and in its browser, and a delete that only moves overtook is honoured.
THEOREM ConvergesHolds == Spec => []Converges
<1>1. ConvInv => Converges
  BY WinnerInv, DeleteInv DEF Converges
<1> QED  BY <1>1, DevicesConsistent, PTL
-------------------------------------------------------------------------------
(***************************************************************************)
(* The snapshot.                                                           *)
(***************************************************************************)
SnapInv == Tombed /\ base \in Rows \cup {NoOp}

LEMMA SnapInit == Init => SnapInv
<1> SUFFICES ASSUME Init PROVE SnapInv
  OBVIOUS
<1>1. log = <<First>> /\ base = NoOp
  BY DEF Init
<1>2. \A i \in 1 .. Len(log) : log[i] = First
  BY <1>1
<1> QED  BY <1>1, <1>2, FirstType DEF SnapInv, Tombed, Deletes

LEMMA SnapStep == ConvInv /\ SnapInv /\ [Next]_vars => SnapInv'
<1> SUFFICES ASSUME ConvInv, SnapInv, [Next]_vars PROVE SnapInv'
  OBVIOUS
<1>1. TypeOK /\ Numbered /\ Len(log) \in Nat
  BY RowFacts DEF ConvInv
<1>2. ASSUME NEW d \in Devices, Upload(d) PROVE SnapInv'
  <2> DEFINE op == Head(outbox[d])
             n == Len(log)
  <2>1. /\ Rows' = Rows \cup {op} /\ Len(log') = n + 1 /\ log'[n + 1] = op
        /\ \A i \in 1 .. n : log'[i] = log[i]
    BY <1>1, <1>2, UploadOps
  <2>2. /\ tomb' = IF Deletes(op) THEN [op |-> op, active |-> TRUE]
                   ELSE IF op.kind = "restore" THEN [tomb EXCEPT !.active = FALSE]
                   ELSE tomb
        /\ base' = base
    BY <1>2 DEF Upload
  <2> HIDE DEF op
  <2>3. ASSUME NEW i \in 1 .. n + 1, Deletes(log'[i]),
               \A j \in 1 .. n + 1 : j > i => log'[j].kind \notin {"delete", "restore"}
        PROVE  tomb'.active /\ tomb'.op = log'[i]
    <3>1. CASE i = n + 1
      BY <2>1, <2>2, <2>3, <3>1
    <3>2. CASE i \in 1 .. n
      <4>1. n + 1 > i /\ n + 1 \in 1 .. n + 1 /\ \A j \in 1 .. n : j \in 1 .. n + 1
        BY <1>1, <3>2
      <4>2. op.kind \notin {"delete", "restore"}
        BY <2>1, <2>3, <4>1
      <4>3. tomb' = tomb
        BY <2>2, <4>2 DEF Deletes
      <4>4. \A j \in 1 .. n : j > i => log[j].kind \notin {"delete", "restore"}
        BY <2>1, <2>3, <4>1
      <4> QED  BY <2>1, <2>3, <3>2, <4>3, <4>4 DEF SnapInv, Tombed
    <3> QED  BY <1>1, <3>1, <3>2
  <2>4. Tombed'
    BY <2>1, <2>3 DEF Tombed
  <2> QED  BY <2>1, <2>2, <2>4 DEF SnapInv
<1>3. CASE Compact
  <2>1. UNCHANGED <<log, tomb>> /\ base' = Listed
    BY <1>3 DEF Compact
  <2>2. Rows' = Rows /\ (Tombed' <=> Tombed)
    BY <2>1 DEF Rows, Tombed
  <2> QED  BY <1>1, <2>1, <2>2, ListedFacts DEF SnapInv
<1>4. CASE UNCHANGED <<log, base, tomb>>
  BY <1>4 DEF SnapInv, Rows, Tombed
<1>5. ASSUME NEW d \in Devices,
             \/ \E k \in Kinds : UserChange(d, k)
             \/ Capture(d) \/ Record(d) \/ Restore(d)
             \/ Receive(d) \/ Resync(d) \/ Mutate(d)
      PROVE  UNCHANGED <<log, base, tomb>>
  BY <1>5 DEF UserChange, Capture, Record, Restore, Receive, Resync, Mutate, server
<1>6. UNCHANGED vars => UNCHANGED <<log, base, tomb>>
  BY DEF vars, server
<1> QED  BY <1>2, <1>3, <1>4, <1>5, <1>6 DEF Next

LEMMA SnapHonours == ConvInv /\ SnapInv => SnapshotHonoursDelete
<1> SUFFICES ASSUME ConvInv, SnapInv, NEW i \in DOMAIN log, Deletes(log[i]), log[i] = Top(Rows),
                    \A j \in DOMAIN log : j > i => log[j].kind \notin {"delete", "restore"}
             PROVE  Listed = NoOp
  BY DEF SnapshotHonoursDelete
<1>1. /\ TypeOK /\ Numbered /\ Len(log) \in Nat /\ DOMAIN log = 1 .. Len(log)
      /\ Rows = {log[j] : j \in 1 .. Len(log)} /\ Rows \in SUBSET OpRecord
  BY RowFacts DEF ConvInv
<1>2. tomb.active /\ tomb.op = log[i]
  BY <1>1 DEF SnapInv, Tombed
<1>3. IsTop(log[i], Rows)
  <2>1. 0 < Len(log) /\ 0 \in Nat /\ 0 + 1 = 1
    BY <1>1
  <2> QED  BY <1>1, <2>1, TopOfRows
<1>4. Combined \in Rows \cup {NoOp}
  BY <1>1, ListedFacts DEF SnapInv
<1>5. CASE Combined = NoOp
  BY <1>5 DEF Listed
<1>6. CASE Combined # NoOp /\ Combined = log[i]
  BY <1>6 DEF Listed
<1>7. CASE Combined # NoOp /\ Combined # log[i]
  <2>1. Combined \in Rows /\ Beats(log[i], Combined)
    BY <1>3, <1>4, <1>7 DEF IsTop
  <2>2. ~Beats(Combined, log[i])
    BY <1>1, <2>1, BeatsOrder
  <2> QED  BY <1>2, <2>2 DEF Listed
<1> QED  BY <1>5, <1>6, <1>7

\* A compacted delete still hides the bookmark (tombstone upsert, combine_object,
\* filter_tombstoned): however many rows were folded and however late older changes
\* arrive, a snapshot does not list what the newest operation deletes.
THEOREM SnapshotHonoursDeleteHolds == Spec => []SnapshotHonoursDelete
BY InitInv, StepInv, SnapInit, SnapStep, SnapHonours, PTL DEF Spec
===============================================================================
