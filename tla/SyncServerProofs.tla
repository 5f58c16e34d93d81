--------------------------- MODULE SyncServerProofs ---------------------------
(***************************************************************************)
(* Proofs about SyncServer, for every set of operations and devices and    *)
(* every value of the limits.                                              *)
(***************************************************************************)
EXTENDS SyncServer, FunctionTheorems, FiniteSetTheorems, SequenceTheorems,
        WellFoundedInduction, TLAPS

(***************************************************************************)
(* Facts about data.                                                       *)
(***************************************************************************)
\* A nonempty set of naturals has a least element.
LEMMA NatMin ==
  ASSUME NEW T \in SUBSET Nat, T # {}
  PROVE  \E x \in T : \A y \in T : x <= y
<1>1. IsWellFoundedOn(OpToRel(<, Nat), Nat)
  BY NatLessThanWellFounded
<1>2. PICK x \in T : \A y \in T : <<y, x>> \notin OpToRel(<, Nat)
  BY <1>1, WFMin
<1>3. \A y \in T : x <= y
  <2>1. TAKE y \in T
  <2>2. <<y, x>> \notin OpToRel(<, Nat)
    BY <1>2
  <2>3. ~(y < x)
    BY <2>2 DEF OpToRel
  <2> QED  BY <2>3
<1> QED  BY <1>3

\* A nonempty set of positions of a sequence has a greatest element.
LEMMA PositionMax ==
  ASSUME NEW n \in Nat, NEW S \in SUBSET (1 .. n), S # {}
  PROVE  \E x \in S : \A y \in S : y <= x
<1> DEFINE T == {n - i : i \in S}
<1>1. \A i \in S : i \in Nat /\ n - i \in Nat
  OBVIOUS
<1>2. T \in SUBSET Nat /\ T # {}
  BY <1>1
<1> HIDE DEF T
<1>3. PICK t \in T : \A y \in T : t <= y
  BY <1>2, NatMin
<1>4. PICK x \in S : t = n - x
  BY DEF T
<1>5. \A y \in S : y <= x
  <2>1. TAKE y \in S
  <2>2. n - x <= n - y
    BY <1>3, <1>4 DEF T
  <2> QED  BY <1>1, <2>2
<1> QED  BY <1>5

\* A function on 1 .. n is a sequence of length n.
LEMMA FunctionIsSeq ==
  ASSUME NEW S, NEW n \in Nat, NEW f \in [1 .. n -> S]
  PROVE  f \in Seq(S) /\ Len(f) = n /\ DOMAIN f = 1 .. n
BY IsASeq, LenProperties

\* The objects of finitely many operations are finitely many.
LEMMA KeysFinite == IsFiniteSet(Keys)
<1> DEFINE f == [op \in Ops |-> Key(op)]
<1>1. f \in Surjection(Ops, Keys)
  BY DEF Surjection, Keys
<1> QED  BY <1>1, FS_Surjection, OpsAssumption

\* The number of objects picked from Keys is a natural number.
LEMMA KeyCount ==
  ASSUME NEW S \in SUBSET Keys
  PROVE  Cardinality(S) \in Nat
BY KeysFinite, FS_Subset, FS_CardinalityType

\* The counters a step adds to are natural numbers.
LEMMA NumberFacts ==
  ASSUME TypeOK
  PROVE  /\ alloc \in Nat
         /\ stats.bytes \in Nat
         /\ snap.cursor \in Nat
         /\ job.upto \in Nat
<1>1. alloc \in Nat
  BY DEF TypeOK
<1>2. stats \in [bookmarks : Nat, tabs : Nat, bytes : Nat, visits : Nat]
  BY DEF TypeOK
<1>3. snap \in [cursor : Nat, objs : {snap.objs}]
  BY DEF TypeOK
<1>4. job \in [pc : {"idle", "build", "built", "prune"}, upto : Nat,
               objs : {job.objs}, keep : SUBSET Nat, total : Nat]
  BY DEF TypeOK
<1> QED  BY <1>1, <1>2, <1>3, <1>4

\* An open upload holds a verdict for each operation of its batch.
LEMMA TxFacts ==
  ASSUME TypeOK, NEW d \in Devices
  PROVE  /\ tx[d].batch \in Seq(Ops) /\ Len(tx[d].batch) \in Nat
         /\ tx[d].out \in Seq(Verdicts) /\ Len(tx[d].out) = Len(tx[d].batch)
<1>1. tx \in [Devices -> [batch : Seq(Ops), out : Seq(Verdicts)]]
  BY DEF TypeOK
<1>2. tx[d].batch \in Seq(Ops) /\ tx[d].out \in Seq(Verdicts)
  BY <1>1
<1>3. Len(tx[d].batch) \in Nat
  BY <1>2, LenProperties
<1>4. Len(tx[d].out) = Len(tx[d].batch)
  BY DEF TypeOK
<1> QED  BY <1>2, <1>3, <1>4
-------------------------------------------------------------------------------
(***************************************************************************)
(* What a commit does.                                                     *)
(***************************************************************************)
\* The commit of device d's open upload with the accepted positions v, whose
\* operations are a.
CommitEffect(d, n, v, a) ==
  /\ IsAcceptedIndices(v, tx[d].out)
  /\ \A k \in 1 .. n : a[k] = tx[d].batch[v[k]]
  /\ alloc' = alloc + n
  /\ log' \in [1 .. (alloc + n) -> Ops]
  /\ \A c \in 1 .. alloc : log'[c] = log[c]
  /\ \A c \in (alloc + 1) .. (alloc + n) : log'[c] = a[c - alloc]
  /\ stored' = stored \cup ((alloc + 1) .. (alloc + n))
  /\ ledger' = ledger \cup LedgerRows(a)
  /\ tomb' = TombWith(a)
  /\ stats' = StatsWith(a)
  /\ lastSeq' = [lastSeq EXCEPT ![d] = a[n].seq]

LEMMA CommitCases ==
  ASSUME TypeOK, LogGapFree, NEW d \in Devices, CommitBatch(d)
  PROVE  /\ tx' = [tx EXCEPT ![d] = NoTx]
         /\ UNCHANGED otherVars
         /\ \/ UNCHANGED logVars
            \/ \E n \in Nat \ {0} : \E v \in [1 .. n -> 1 .. Len(tx[d].batch)],
                                       a \in [1 .. n -> Ops] : CommitEffect(d, n, v, a)
<1>1. tx' = [tx EXCEPT ![d] = NoTx] /\ UNCHANGED otherVars
  BY DEF CommitBatch
<1>2. PICK n \in 0 .. Len(tx[d].batch) : \E v \in [1 .. n -> 1 .. Len(tx[d].batch)] :
        /\ IsAcceptedIndices(v, tx[d].out)
        /\ LET a == [k \in 1 .. n |-> tx[d].batch[v[k]]]
           IN  IF n = 0
                 THEN UNCHANGED logVars
                 ELSE /\ alloc' = EndCursor(n)
                      /\ log' = LogWith(a)
                      /\ stored' = stored \cup (StartCursor(n) .. EndCursor(n))
                      /\ ledger' = ledger \cup LedgerRows(a)
                      /\ tomb' = TombWith(a)
                      /\ stats' = StatsWith(a)
                      /\ lastSeq' = [lastSeq EXCEPT ![d] = a[n].seq]
  BY DEF CommitBatch
<1>3. CASE n = 0
  BY <1>1, <1>2, <1>3
<1>4. CASE n # 0
  <2>1. PICK v \in [1 .. n -> 1 .. Len(tx[d].batch)] :
          /\ IsAcceptedIndices(v, tx[d].out)
          /\ LET a == [k \in 1 .. n |-> tx[d].batch[v[k]]]
             IN  /\ alloc' = EndCursor(n)
                 /\ log' = LogWith(a)
                 /\ stored' = stored \cup (StartCursor(n) .. EndCursor(n))
                 /\ ledger' = ledger \cup LedgerRows(a)
                 /\ tomb' = TombWith(a)
                 /\ stats' = StatsWith(a)
                 /\ lastSeq' = [lastSeq EXCEPT ![d] = a[n].seq]
    BY <1>2, <1>4
  <2> DEFINE a == [k \in 1 .. n |-> tx[d].batch[v[k]]]
  <2>2. n \in Nat \ {0} /\ alloc \in Nat /\ log \in Seq(Ops) /\ DOMAIN log = 1 .. alloc
    <3>1. Len(tx[d].batch) \in Nat
      BY TxFacts
    <3> QED  BY <1>4, <3>1 DEF TypeOK, LogGapFree
  <2>3. a \in [1 .. n -> Ops]
    <3>1. tx[d].batch \in Seq(Ops)
      BY TxFacts
    <3>2. \A i \in 1 .. Len(tx[d].batch) : tx[d].batch[i] \in Ops
      BY <3>1, ElementOfSeq
    <3> QED  BY <3>2
  <2>4. Len(a) = n
    BY <2>2, <2>3, FunctionIsSeq
  <2>5. \A k \in 1 .. n : a[k] = tx[d].batch[v[k]]
    OBVIOUS
  <2>6. /\ alloc' = EndCursor(n)
        /\ log' = LogWith(a)
        /\ stored' = stored \cup (StartCursor(n) .. EndCursor(n))
        /\ ledger' = ledger \cup LedgerRows(a)
        /\ tomb' = TombWith(a)
        /\ stats' = StatsWith(a)
        /\ lastSeq' = [lastSeq EXCEPT ![d] = a[n].seq]
    BY <2>1
  <2> HIDE DEF a
  <2>7. EndCursor(n) = alloc + n /\ StartCursor(n) = alloc + 1
    BY <2>2 DEF EndCursor, StartCursor
  <2>8. log' = [c \in 1 .. (alloc + n) |-> IF c >= alloc + 1 THEN a[c - alloc] ELSE log[c]]
    <3>1. DOMAIN log \cup ((alloc + 1) .. (alloc + n)) = 1 .. (alloc + n)
      BY <2>2
    <3>2. \A c \in 1 .. (alloc + n) : c - (alloc + 1) + 1 = c - alloc
      BY <2>2
    <3> QED  BY <2>4, <2>6, <2>7, <3>1, <3>2 DEF LogWith
  <2>9. log' \in [1 .. (alloc + n) -> Ops]
    <3>1. ASSUME NEW c \in 1 .. (alloc + n)
          PROVE  (IF c >= alloc + 1 THEN a[c - alloc] ELSE log[c]) \in Ops
      <4>1. CASE c >= alloc + 1
        <5>1. c - alloc \in 1 .. n
          BY <2>2, <4>1
        <5> QED  BY <2>3, <4>1, <5>1
      <4>2. CASE ~(c >= alloc + 1)
        <5>1. c \in 1 .. alloc
          BY <2>2, <4>2
        <5> QED  BY <2>2, <4>2, <5>1, ElementOfSeq, LenProperties
      <4> QED  BY <4>1, <4>2
    <3> QED  BY <2>8, <3>1
  <2>10. \A c \in 1 .. alloc : log'[c] = log[c]
    BY <2>2, <2>8
  <2>11. \A c \in (alloc + 1) .. (alloc + n) : log'[c] = a[c - alloc]
    BY <2>2, <2>8
  <2>12. CommitEffect(d, n, v, a)
    BY <2>1, <2>5, <2>6, <2>7, <2>9, <2>10, <2>11 DEF CommitEffect
  <2> QED  BY <1>1, <2>2, <2>3, <2>12
<1> QED  BY <1>3, <1>4
-------------------------------------------------------------------------------
(***************************************************************************)
(* Type correctness, and the log without gaps.                             *)
(***************************************************************************)
\* What the statistics of a commit are made of.
LEMMA StatsType ==
  ASSUME TypeOK, NEW n \in Nat, NEW a \in [1 .. n -> Ops]
  PROVE  StatsWith(a) \in [bookmarks : Nat, tabs : Nat, bytes : Nat, visits : Nat]
<1>1. DOMAIN a = 1 .. n /\ Len(a) = n
  BY FunctionIsSeq
<1>2. \A k \in DOMAIN a : Key(a[k]) \in Keys
  BY <1>1 DEF Keys
<1>3. LedgerRows(a) \subseteq Keys /\ Restored(a) \subseteq Keys /\ Deleted(a) \subseteq Keys
  BY <1>2 DEF LedgerRows, Restored, Deleted
<1>4. ASSUME NEW m \in Nat, NEW types PROVE CountWith(m, a, types) \in Nat
  <2>1. /\ Born(a, types) \in SUBSET Keys
        /\ Raised(a, types) \in SUBSET Keys
        /\ Buried(a, types) \in SUBSET Keys
    BY <1>3 DEF Born, Raised, Buried
  <2>2. /\ Cardinality(Born(a, types)) \in Nat
        /\ Cardinality(Raised(a, types)) \in Nat
        /\ Cardinality(Buried(a, types)) \in Nat
    BY <2>1, KeyCount
  <2> QED  BY <2>2 DEF CountWith, AtLeastZero
<1>5. Cardinality({k \in DOMAIN a : a[k].type = "historyVisit"}) \in Nat
  <2>1. IsFiniteSet(1 .. n)
    BY FS_Interval
  <2> QED  BY <1>1, <2>1, FS_Subset, FS_CardinalityType
<1>6. stats \in [bookmarks : Nat, tabs : Nat, bytes : Nat, visits : Nat]
  BY DEF TypeOK
<1>7. /\ CountWith(stats.bookmarks, a, {"bookmark", "bookmarkFolder"}) \in Nat
      /\ CountWith(stats.tabs, a, {"tab"}) \in Nat
  BY <1>4, <1>6
<1> QED  BY <1>1, <1>5, <1>6, <1>7 DEF StatsWith

LEMMA TombType ==
  ASSUME TypeOK, NEW n \in Nat, NEW a \in [1 .. n -> Ops]
  PROVE  TombWith(a) \in [Keys -> [active : BOOLEAN, op : OpOrNone]]
<1> SUFFICES ASSUME NEW k \in Keys
             PROVE  [ active |-> IF k \in Restored(a) THEN FALSE
                                 ELSE k \in Deleted(a) \/ tomb[k].active,
                      op     |-> IF k \in Deleted(a) THEN LastDelete(a, k) ELSE tomb[k].op ]
                    \in [active : BOOLEAN, op : OpOrNone]
  BY DEF TombWith
<1>1. tomb[k] \in [active : BOOLEAN, op : OpOrNone]
  BY DEF TypeOK
<1>2. ASSUME k \in Deleted(a) PROVE LastDelete(a, k) \in OpOrNone
  <2> DEFINE P == {j \in DOMAIN a : IsTerminal(a[j]) /\ Key(a[j]) = k}
  <2>1. P \in SUBSET (1 .. n) /\ P # {}
    BY <1>2 DEF Deleted
  <2>2. \E j \in P : \A i \in P : i <= j
    <3> HIDE DEF P
    <3> QED  BY <2>1, PositionMax
  <2>3. (CHOOSE j \in P : \A i \in P : i <= j) \in 1 .. n
    <3> HIDE DEF P
    <3> QED  BY <2>1, <2>2
  <2> QED  BY <2>3 DEF LastDelete, OpOrNone
<1>3. (IF k \in Restored(a) THEN FALSE ELSE k \in Deleted(a) \/ tomb[k].active) \in BOOLEAN
  BY <1>1
<1>4. (IF k \in Deleted(a) THEN LastDelete(a, k) ELSE tomb[k].op) \in OpOrNone
  BY <1>1, <1>2
<1> QED  BY <1>3, <1>4

\* The part of TypeOK about open uploads, and that ending one keeps it.
TxTyped ==
  /\ tx \in [Devices -> [batch : Seq(Ops), out : Seq(Verdicts)]]
  /\ \A d \in Devices : /\ Len(tx[d].out) = Len(tx[d].batch)
                       /\ \A i \in 1 .. Len(tx[d].batch) : tx[d].batch[i].dev = d

LEMMA NoTxType ==
  /\ NoTx \in [batch : Seq(Ops), out : Seq(Verdicts)]
  /\ Len(NoTx.out) = 0 /\ Len(NoTx.batch) = 0
BY EmptySeq DEF NoTx

LEMMA TxCleared ==
  ASSUME TypeOK, NEW d \in Devices, tx' = [tx EXCEPT ![d] = NoTx]
  PROVE  TxTyped'
<1>1. tx \in [Devices -> [batch : Seq(Ops), out : Seq(Verdicts)]]
  BY DEF TypeOK
<1>2. tx' \in [Devices -> [batch : Seq(Ops), out : Seq(Verdicts)]]
  BY <1>1, NoTxType
<1>3. ASSUME NEW e \in Devices
      PROVE  /\ Len(tx'[e].out) = Len(tx'[e].batch)
             /\ \A i \in 1 .. Len(tx'[e].batch) : tx'[e].batch[i].dev = e
  <2>1. CASE e = d
    <3>1. tx'[e] = NoTx
      BY <1>1, <2>1
    <3> QED  BY <3>1, NoTxType
  <2>2. CASE e # d
    <3>1. tx'[e] = tx[e]
      BY <1>1, <2>2
    <3> QED  BY <3>1 DEF TypeOK
  <2> QED  BY <2>1, <2>2
<1> QED  BY <1>2, <1>3 DEF TxTyped

LEMMA TypeCommit ==
  ASSUME TypeOK, LogGapFree, NEW d \in Devices, CommitBatch(d)
  PROVE  TypeOK' /\ LogGapFree'
<1>1. tx' = [tx EXCEPT ![d] = NoTx] /\ UNCHANGED otherVars
  BY CommitCases
<1>2. TxTyped'
  BY <1>1, TxCleared
<1>3. CASE UNCHANGED logVars
  BY <1>1, <1>2, <1>3 DEF TypeOK, LogGapFree, TxTyped, logVars, otherVars
<1>4. ASSUME NEW n \in Nat \ {0}, NEW v \in [1 .. n -> 1 .. Len(tx[d].batch)],
             NEW a \in [1 .. n -> Ops], CommitEffect(d, n, v, a)
      PROVE  TypeOK' /\ LogGapFree'
  <2>1. alloc' = alloc + n /\ alloc + n \in Nat /\ alloc' \in Nat
    <3>1. alloc' = alloc + n
      BY <1>4 DEF CommitEffect
    <3> QED  BY <3>1, NumberFacts
  <2>2. log' \in Seq(Ops) /\ DOMAIN log' = 1 .. alloc'
    <3>1. log' \in [1 .. (alloc + n) -> Ops]
      BY <1>4 DEF CommitEffect
    <3> QED  BY <2>1, <3>1, FunctionIsSeq
  <2>3. stored' \subseteq DOMAIN log'
    <3>1. stored \subseteq 1 .. alloc
      BY DEF TypeOK, LogGapFree
    <3>2. alloc \in Nat /\ alloc' = alloc + n /\ stored' = stored \cup ((alloc + 1) .. (alloc + n))
      BY <1>4, NumberFacts DEF CommitEffect
    <3>3. (1 .. alloc) \cup ((alloc + 1) .. (alloc + n)) \subseteq 1 .. (alloc + n)
      BY <3>2
    <3> QED  BY <2>2, <3>1, <3>2, <3>3
  <2>4. lastSeq' \in [Devices -> Nat]
    <3>1. a[n].seq \in Nat
      BY OpsAssumption DEF OpRecord
    <3> QED  BY <1>4, <3>1 DEF CommitEffect, TypeOK
  <2>5. ledger' \subseteq Keys
    <3>1. LedgerRows(a) \subseteq Keys
      BY DEF LedgerRows, Keys
    <3> QED  BY <1>4, <3>1 DEF CommitEffect, TypeOK
  <2>6. tomb' \in [Keys -> [active : BOOLEAN, op : OpOrNone]]
    BY <1>4, TombType DEF CommitEffect
  <2>7. stats' \in [bookmarks : Nat, tabs : Nat, bytes : Nat, visits : Nat]
    BY <1>4, StatsType DEF CommitEffect
  <2>8. /\ ack' \in [Devices -> Nat]
        /\ lapsed' \subseteq Lapsable
        /\ snap' \in [cursor : Nat, objs : {snap.objs}']
        /\ DOMAIN snap'.objs = Keys
        /\ req' \in [Devices -> [pc : {"idle", "bounded", "sized"}, from : Nat,
                                 next : Nat, more : BOOLEAN]]
        /\ job' \in [pc : {"idle", "build", "built", "prune"}, upto : Nat,
                     objs : {job.objs}', keep : SUBSET Nat, total : Nat]
        /\ DOMAIN job'.objs = Keys
    BY <1>1 DEF otherVars, TypeOK
  <2> QED  BY <1>2, <2>1, <2>2, <2>3, <2>4, <2>5, <2>6, <2>7, <2>8
           DEF TypeOK, LogGapFree, TxTyped
<1> QED  BY <1>3, <1>4, CommitCases

LEMMA TypeValidate ==
  ASSUME TypeOK, LogGapFree, NEW d \in Devices, NEW b \in BatchesOf(d), ValidateBatch(d, b)
  PROVE  TypeOK' /\ LogGapFree'
<1>1. PICK n \in 1 .. MaxBatch : b \in [1 .. n -> {op \in Ops : op.dev = d}]
  BY DEF BatchesOf
<1>2. b \in Seq(Ops) /\ Len(b) = n /\ n \in Nat /\ \A i \in 1 .. n : b[i].dev = d
  <2>1. n \in Nat /\ b \in [1 .. n -> Ops]
    BY <1>1, BoundsAssumption
  <2> QED  BY <1>1, <2>1, FunctionIsSeq
<1>3. PICK out \in [1 .. Len(b) -> Verdicts] :
        tx' = [tx EXCEPT ![d] = [batch |-> b, out |-> out]]
  BY DEF ValidateBatch
<1>4. out \in Seq(Verdicts) /\ Len(out) = Len(b)
  BY <1>2, FunctionIsSeq
<1>5. TxTyped'
  <2>1. tx \in [Devices -> [batch : Seq(Ops), out : Seq(Verdicts)]]
    BY DEF TypeOK
  <2>2. ASSUME NEW e \in Devices
        PROVE  /\ Len(tx'[e].out) = Len(tx'[e].batch)
               /\ \A i \in 1 .. Len(tx'[e].batch) : tx'[e].batch[i].dev = e
    <3>1. CASE e = d
      <4>1. tx'[e] = [batch |-> b, out |-> out]
        BY <1>3, <2>1, <3>1
      <4> QED  BY <1>2, <1>4, <3>1, <4>1
    <3>2. CASE e # d
      <4>1. tx'[e] = tx[e]
        BY <1>3, <2>1, <3>2
      <4> QED  BY <4>1 DEF TypeOK
    <3> QED  BY <3>1, <3>2
  <2>3. tx' \in [Devices -> [batch : Seq(Ops), out : Seq(Verdicts)]]
    BY <1>2, <1>3, <1>4, <2>1
  <2> QED  BY <2>2, <2>3 DEF TxTyped
<1>6. UNCHANGED <<logVars, otherVars>>
  BY DEF ValidateBatch
<1> QED  BY <1>5, <1>6 DEF TypeOK, LogGapFree, TxTyped, logVars, otherVars

\* Rows of the log are counted by natural numbers.
LEMMA RowCount ==
  ASSUME TypeOK, LogGapFree, NEW S \in SUBSET stored
  PROVE  IsFiniteSet(S) /\ Cardinality(S) \in Nat
<1>1. IsFiniteSet(1 .. alloc)
  <2>1. 1 \in Int /\ alloc \in Int
    BY DEF TypeOK
  <2> QED  BY <2>1, FS_Interval
<1>2. S \subseteq 1 .. alloc
  BY DEF TypeOK, LogGapFree
<1> QED  BY <1>1, <1>2, FS_Subset, FS_CardinalityType

\* The part of TypeOK about the compaction job.
JobType ==
  /\ job \in [pc : {"idle", "build", "built", "prune"}, upto : Nat,
              objs : {job.objs}, keep : SUBSET Nat, total : Nat]
  /\ DOMAIN job.objs = Keys

\* One step of any other action keeps the types.
LEMMA TypeStep ==
  ASSUME TypeOK, LogGapFree, [Next]_vars
  PROVE  TypeOK' /\ LogGapFree'
<1> USE BoundsAssumption
<1>1. ASSUME NEW d \in Devices, AbortBatch(d) PROVE TypeOK' /\ LogGapFree'
  <2>1. TxTyped'
    BY <1>1, TxCleared DEF AbortBatch
  <2> QED  BY <1>1, <2>1 DEF AbortBatch, TypeOK, LogGapFree, TxTyped, logVars, otherVars
<1>2. ASSUME NEW d \in Devices, NEW c \in CursorsOf, DownloadBounds(d, c)
      PROVE  TypeOK' /\ LogGapFree'
  <2>1. c \in Nat
    BY DEF CursorsOf, TypeOK
  <2>2. ack' \in [Devices -> Nat]
    BY <1>2, <2>1 DEF DownloadBounds, AckWith, TypeOK
  <2>3. NoReq \in [pc : {"idle", "bounded", "sized"}, from : Nat, next : Nat, more : BOOLEAN]
    BY DEF NoReq
  <2>4. AfterCursor(c) \in [pc : {"idle", "bounded", "sized"}, from : Nat, next : Nat,
                            more : BOOLEAN]
    BY <2>1 DEF AfterCursor, NoReq
  <2>5. req' \in [Devices -> [pc : {"idle", "bounded", "sized"}, from : Nat,
                              next : Nat, more : BOOLEAN]]
    BY <1>2, <2>3, <2>4 DEF DownloadBounds, TypeOK
  <2>6. UNCHANGED <<logVars, lapsed, snap, tx, job>>
    BY <1>2 DEF DownloadBounds
  <2> QED  BY <2>2, <2>5, <2>6 DEF TypeOK, LogGapFree, logVars
<1>3. ASSUME NEW d \in Devices, SizePage(d) PROVE TypeOK' /\ LogGapFree'
  <2> DEFINE R == [pc : {"idle", "bounded", "sized"}, from : Nat, next : Nat, more : BOOLEAN]
  <2>1. stored \subseteq Nat
    <3>1. alloc \in Nat /\ stored \subseteq 1 .. alloc
      BY DEF TypeOK, LogGapFree
    <3> QED  BY <3>1
  <2>2. req \in [Devices -> R] /\ req[d].from \in Nat
    BY DEF TypeOK
  <2>3. req' \in [Devices -> R]
    <3> DEFINE newer == {x \in stored : x > req[d].from}
    <3>1. CASE req' = [req EXCEPT ![d].pc = "sized", ![d].next = req[d].from]
      BY <2>2, <3>1
    <3>2. ASSUME NEW x \in newer,
                 req' = [req EXCEPT ![d] = [pc |-> "sized", from |-> req[d].from, next |-> x,
                                            more |-> \E y \in newer : y > x]]
          PROVE  req' \in [Devices -> R]
      <4>1. x \in Nat
        BY <2>1
      <4>2. [pc |-> "sized", from |-> req[d].from, next |-> x,
             more |-> \E y \in newer : y > x] \in R
        <5> HIDE DEF newer
        <5> QED  BY <2>2, <4>1
      <4> HIDE DEF R, newer
      <4> QED  BY <2>2, <3>2, <4>2
    <3> QED  BY <1>3, <3>1, <3>2 DEF SizePage
  <2>4. UNCHANGED <<logVars, ack, lapsed, snap, tx, job>>
    BY <1>3 DEF SizePage
  <2> QED  BY <2>3, <2>4 DEF TypeOK, LogGapFree, logVars
<1>4. ASSUME NEW d \in Devices, FetchRows(d) \/ DropRequest(d) PROVE TypeOK' /\ LogGapFree'
  <2>1. NoReq \in [pc : {"idle", "bounded", "sized"}, from : Nat, next : Nat, more : BOOLEAN]
    BY DEF NoReq
  <2>2. /\ req' = [req EXCEPT ![d] = NoReq]
        /\ UNCHANGED <<logVars, ack, lapsed, snap, tx, job>>
    BY <1>4 DEF FetchRows, DropRequest
  <2> QED  BY <2>1, <2>2 DEF TypeOK, LogGapFree, logVars
<1>5. ASSUME NEW d \in Devices, Touch(d) \/ Lapse(d) PROVE TypeOK' /\ LogGapFree'
  BY <1>5 DEF Touch, Lapse, TypeOK, LogGapFree, logVars
<1>6. NoJob \in [pc : {"idle", "build", "built", "prune"}, upto : Nat,
                 objs : {NoJob.objs}, keep : SUBSET Nat, total : Nat]
      /\ DOMAIN NoJob.objs = Keys
  BY DEF NoJob
<1>7. stored \subseteq Nat /\ snap.cursor \in Nat /\ job.upto \in Nat
  <2>1. stored \subseteq 1 .. alloc
    BY DEF TypeOK, LogGapFree
  <2> QED  BY <2>1, NumberFacts
<1>8. CASE BeginCompaction
  <2>1. PICK m \in stored \cup {0} : \E b \in 0 .. m :
          \/ job' = [NoJob EXCEPT !.pc = "build", !.upto = b]
          \/ \E r \in 0 .. snap.cursor :
               job' = [NoJob EXCEPT !.pc = "prune", !.upto = snap.cursor,
                                    !.keep = Survivors(snap.cursor, r)]
    BY <1>8 DEF BeginCompaction
  <2>2. 0 .. m \subseteq Nat
    BY <1>7
  <2>3. JobType'
    <3>1. ASSUME NEW b \in 0 .. m, job' = [NoJob EXCEPT !.pc = "build", !.upto = b]
          PROVE  JobType'
      BY <1>6, <2>2, <3>1 DEF JobType, NoJob
    <3>2. ASSUME NEW r, job' = [NoJob EXCEPT !.pc = "prune", !.upto = snap.cursor,
                                             !.keep = Survivors(snap.cursor, r)]
          PROVE  JobType'
      <4>1. Survivors(snap.cursor, r) \in SUBSET Nat
        BY <1>7 DEF Survivors
      <4> QED  BY <1>6, <1>7, <3>2, <4>1 DEF JobType, NoJob
    <3> QED  BY <2>1, <3>1, <3>2
  <2> QED  BY <1>8, <2>3 DEF BeginCompaction, JobType, TypeOK, LogGapFree, logVars
<1>9. CASE BuildSnapshot
  <2>1. JobType'
    BY <1>9 DEF BuildSnapshot, JobType, Live, TypeOK
  <2> QED  BY <1>9, <2>1 DEF BuildSnapshot, JobType, TypeOK, LogGapFree, logVars
<1>10. CASE CommitSnapshot
  <2>1. JobType'
    <3>1. PICK r : job' = [NoJob EXCEPT !.pc = "prune", !.upto = job.upto,
                                         !.keep = Survivors(job.upto, r)]
      BY <1>10 DEF CommitSnapshot
    <3>2. Survivors(job.upto, r) \in SUBSET Nat
      BY <1>7 DEF Survivors
    <3> QED  BY <1>6, <1>7, <3>1, <3>2 DEF JobType, NoJob
  <2>2. snap' \in [cursor : Nat, objs : {snap'.objs}] /\ DOMAIN snap'.objs = Keys
    BY <1>7, <1>10 DEF CommitSnapshot, TypeOK
  <2>3. ASSUME NEW objs, NEW types PROVE CountOf(objs, types) \in Nat
    BY KeyCount DEF CountOf
  <2>4. stats' \in [bookmarks : Nat, tabs : Nat, bytes : Nat, visits : Nat]
    BY <1>10, <2>3 DEF CommitSnapshot, TypeOK
  <2>5. ledger' \subseteq Keys
    BY <1>10 DEF CommitSnapshot, TypeOK
  <2> QED  BY <1>10, <2>1, <2>2, <2>4, <2>5 DEF CommitSnapshot, JobType, TypeOK, LogGapFree
<1>11. CASE PruneChunk
  <2>1. PICK del \in SUBSET {x \in stored : x <= job.upto /\ x \notin job.keep} :
          /\ stored' = stored \ del
          /\ stats' = [stats EXCEPT !.bytes = AtLeastZero(@, Cardinality(del))]
          /\ job' = IF \/ Cardinality(del) < ChunkSize
                       \/ job.total + Cardinality(del) >= MaxPruned
                      THEN NoJob
                      ELSE [job EXCEPT !.total = @ + Cardinality(del)]
    BY <1>11 DEF PruneChunk
  <2>2. Cardinality(del) \in Nat
    BY RowCount
  <2>3. AtLeastZero(stats.bytes, Cardinality(del)) \in Nat
    BY <2>2, NumberFacts DEF AtLeastZero
  <2>4. JobType'
    <3>1. CASE job' = NoJob
      BY <1>6, <3>1 DEF JobType
    <3>2. CASE job' = [job EXCEPT !.total = @ + Cardinality(del)]
      <4>1. job \in [pc : {"idle", "build", "built", "prune"}, upto : Nat,
                     objs : {job.objs}, keep : SUBSET Nat, total : Nat]
            /\ DOMAIN job.objs = Keys
        BY DEF TypeOK
      <4>2. job.total + Cardinality(del) \in Nat
        BY <2>2, <4>1
      <4> QED  BY <3>2, <4>1, <4>2 DEF JobType
    <3> QED  BY <2>1, <3>1, <3>2
  <2>5. stats' \in [bookmarks : Nat, tabs : Nat, bytes : Nat, visits : Nat]
    BY <2>1, <2>3 DEF TypeOK
  <2> QED  BY <1>11, <2>1, <2>4, <2>5 DEF PruneChunk, JobType, TypeOK, LogGapFree
<1>12. CASE Restart
  <2>1. JobType'
    BY <1>6, <1>12 DEF Restart, JobType
  <2>2. TxTyped'
    BY <1>12, NoTxType DEF Restart, TxTyped
  <2>3. req' \in [Devices -> [pc : {"idle", "bounded", "sized"}, from : Nat,
                              next : Nat, more : BOOLEAN]]
    BY <1>12 DEF Restart, NoReq
  <2> QED  BY <1>12, <2>1, <2>2, <2>3 DEF Restart, JobType, TxTyped, TypeOK, LogGapFree, logVars
<1>13. CASE UNCHANGED vars
  BY <1>13 DEF vars, TypeOK, LogGapFree
<1> QED  BY <1>1, <1>2, <1>3, <1>4, <1>5, <1>8, <1>9, <1>10, <1>11, <1>12, <1>13,
            TypeCommit, TypeValidate DEF Next

LEMMA TypeInit == Init => TypeOK /\ LogGapFree
<1> SUFFICES ASSUME Init PROVE TypeOK /\ LogGapFree
  OBVIOUS
<1>1. log \in Seq(Ops) /\ DOMAIN log = 1 .. alloc
  BY EmptySeq DEF Init
<1>2. TxTyped
  BY NoTxType DEF Init, TxTyped
<1>3. JobType
  BY DEF Init, JobType, NoJob
<1>4. tomb \in [Keys -> [active : BOOLEAN, op : OpOrNone]]
  BY DEF Init, OpOrNone
<1> QED  BY <1>1, <1>2, <1>3, <1>4
         DEF Init, TypeOK, LogGapFree, TxTyped, JobType, NoReq, NoStats

\* Every variable keeps its type in every behaviour of the server: process_batch,
\* download and compact_user never leave the tables in a state they cannot read.
THEOREM TypeCorrect == Spec => []TypeOK
<1>1. TypeOK /\ LogGapFree /\ [Next]_vars => (TypeOK /\ LogGapFree)'
  BY TypeStep
<1> QED  BY <1>1, TypeInit, PTL DEF Spec

\* The cursors process_batch hands out are exactly 1 .. alloc, whatever uploads,
\* compaction steps and restarts interleave.
THEOREM NoGaps == Spec => []LogGapFree
<1>1. TypeOK /\ LogGapFree /\ [Next]_vars => (TypeOK /\ LogGapFree)'
  BY TypeStep
<1> QED  BY <1>1, TypeInit, PTL DEF Spec

--------------------------------------------------------------------------------
(***************************************************************************)
(* A device's operations are stored once each, in the order of their       *)
(* sequences, and so the server implements the abstract log.               *)
(*                                                                         *)
(* DeviceOrder is not inductive: between validation and COMMIT the verdict *)
(* of an upload must stay true, and last_device_sequence must bound the    *)
(* rows also when they have been pruned.                                   *)
(***************************************************************************)
\* last_device_sequence bounds the sequences of the device's rows.
SeqBelow == \A c \in DOMAIN log : log[c].seq <= lastSeq[log[c].dev]

\* An accepted operation is still ahead of its device's last sequence when it
\* commits, and of the accepted operations before it.
TxOrdered ==
  \A d \in Devices : \A i \in 1 .. Len(tx[d].batch) :
    tx[d].out[i] = "accept" =>
      /\ lastSeq[d] < tx[d].batch[i].seq
      /\ \A j \in 1 .. (i - 1) :
           tx[d].out[j] = "accept" => tx[d].batch[j].seq < tx[d].batch[i].seq

OrderInv == SeqBelow /\ TxOrdered /\ DeviceOrder
-------------------------------------------------------------------------------
\* A step that leaves the log, its allocator and the sequences alone, and
\* starts no upload.
Quiet ==
  /\ UNCHANGED <<log, alloc, lastSeq>>
  /\ \A d \in Devices : tx'[d] = tx[d] \/ tx'[d] = NoTx

LEMMA StepCases ==
  ASSUME TypeOK, [Next]_vars
  PROVE  \/ \E d \in Devices : \E b \in BatchesOf(d) : ValidateBatch(d, b)
         \/ \E d \in Devices : CommitBatch(d)
         \/ Quiet
<1>1. tx \in [Devices -> [batch : Seq(Ops), out : Seq(Verdicts)]]
  BY DEF TypeOK
<1>2. ASSUME NEW d \in Devices, AbortBatch(d) PROVE Quiet
  BY <1>1, <1>2 DEF AbortBatch, Quiet, logVars
<1>3. ASSUME NEW d \in Devices, NEW c, DownloadBounds(d, c) PROVE Quiet
  BY <1>3 DEF DownloadBounds, Quiet, logVars
<1>4. ASSUME NEW d \in Devices, \/ SizePage(d) \/ FetchRows(d) \/ DropRequest(d)
                                \/ Touch(d) \/ Lapse(d)
      PROVE  Quiet
  BY <1>4 DEF SizePage, FetchRows, DropRequest, Touch, Lapse, Quiet, logVars
<1>5. ASSUME BeginCompaction \/ BuildSnapshot \/ CommitSnapshot \/ PruneChunk PROVE Quiet
  BY <1>5 DEF BeginCompaction, BuildSnapshot, CommitSnapshot, PruneChunk, Quiet, logVars
<1>6. ASSUME Restart PROVE Quiet
  BY <1>6 DEF Restart, Quiet, logVars
<1>7. ASSUME UNCHANGED vars PROVE Quiet
  BY <1>7 DEF vars, Quiet
<1> QED  BY <1>2, <1>3, <1>4, <1>5, <1>6, <1>7 DEF Next

\* What the validation loop has established about an operation it accepts.
LEMMA Accepted ==
  ASSUME NEW d \in Devices, NEW b, NEW out, NEW i, Verdict(d, b, out, i) = "accept"
  PROVE  /\ ~(IsBulkHistoryImport(b[i])
              /\ (Key(b[i]) \in ledger \/ OriginatedBefore(b, out, i, Key(b[i]))))
         /\ ShapeOk(b[i])
         /\ ~(b[i].seq < 1)
         /\ ~(b[i].seq <= lastSeq[d])
         /\ \A j \in 1 .. (i - 1) : out[j] = "accept" => ~(b[i].seq <= b[j].seq)
         /\ ~NotOwned(b, out, i)
         /\ ~QuotaExceeded
BY DEF Verdict, PersistedSequence

\* The verdicts of an upload that has just been validated.
LEMMA Validated ==
  ASSUME TypeOK, NEW d \in Devices, NEW b \in BatchesOf(d), ValidateBatch(d, b)
  PROVE  \E out \in [1 .. Len(b) -> Verdicts] :
           /\ tx'[d] = [batch |-> b, out |-> out]
           /\ \A e \in Devices \ {d} : tx'[e] = tx[e]
           /\ \A i \in 1 .. Len(b) : out[i] = Verdict(d, b, out, i)
           /\ UNCHANGED <<logVars, otherVars>>
           /\ b \in Seq(Ops)
<1>1. tx \in [Devices -> [batch : Seq(Ops), out : Seq(Verdicts)]]
  BY DEF TypeOK
<1>2. PICK n \in 1 .. MaxBatch : b \in [1 .. n -> {op \in Ops : op.dev = d}]
  BY DEF BatchesOf
<1>3. b \in Seq(Ops)
  <2>1. n \in Nat /\ b \in [1 .. n -> Ops]
    BY <1>2, BoundsAssumption
  <2> QED  BY <2>1, FunctionIsSeq
<1> QED  BY <1>1, <1>3 DEF ValidateBatch

\* The operations a commit appends: all of the uploading device, each ahead of
\* the last sequence and of the ones before it.
LEMMA CommitRows ==
  ASSUME TypeOK, TxOrdered, NEW d \in Devices, NEW n \in Nat \ {0},
         NEW v \in [1 .. n -> 1 .. Len(tx[d].batch)], NEW a \in [1 .. n -> Ops],
         CommitEffect(d, n, v, a)
  PROVE  \A k \in 1 .. n :
           /\ a[k].dev = d
           /\ lastSeq[d] < a[k].seq
           /\ \A l \in 1 .. n : k < l => a[k].seq < a[l].seq
<1> SUFFICES ASSUME NEW k \in 1 .. n
             PROVE  /\ a[k].dev = d
                    /\ lastSeq[d] < a[k].seq
                    /\ \A l \in 1 .. n : k < l => a[k].seq < a[l].seq
  OBVIOUS
<1>1. v \in Seq(1 .. Len(tx[d].batch)) /\ Len(v) = n
  BY FunctionIsSeq
<1>2. \A l \in 1 .. n : /\ v[l] \in 1 .. Len(tx[d].batch)
                        /\ a[l] = tx[d].batch[v[l]]
                        /\ tx[d].out[v[l]] = "accept"
  BY <1>1 DEF CommitEffect, IsAcceptedIndices
<1>3. a[k].dev = d
  <2>1. \A i \in 1 .. Len(tx[d].batch) : tx[d].batch[i].dev = d
    BY DEF TypeOK
  <2> QED  BY <1>2, <2>1
<1>4. lastSeq[d] < a[k].seq
  BY <1>2 DEF TxOrdered
<1>5. ASSUME NEW l \in 1 .. n, k < l PROVE a[k].seq < a[l].seq
  <2>1. v[k] < v[l]
    BY <1>1, <1>5 DEF CommitEffect, IsAcceptedIndices
  <2>2. v[k] \in 1 .. (v[l] - 1)
    <3>1. Len(tx[d].batch) \in Nat
      BY TxFacts
    <3> QED  BY <1>2, <2>1, <3>1
  <2> QED  BY <1>2, <2>2 DEF TxOrdered
<1> QED  BY <1>3, <1>4, <1>5
-------------------------------------------------------------------------------
LEMMA OrderValidate ==
  ASSUME TypeOK, OrderInv, NEW d \in Devices, NEW b \in BatchesOf(d), ValidateBatch(d, b)
  PROVE  OrderInv'
<1>1. PICK out \in [1 .. Len(b) -> Verdicts] :
        /\ tx'[d] = [batch |-> b, out |-> out]
        /\ \A e \in Devices \ {d} : tx'[e] = tx[e]
        /\ \A i \in 1 .. Len(b) : out[i] = Verdict(d, b, out, i)
        /\ UNCHANGED <<logVars, otherVars>>
        /\ b \in Seq(Ops)
  BY Validated
<1>2. UNCHANGED <<log, lastSeq>>
  BY <1>1 DEF logVars
<1>3. SeqBelow' /\ DeviceOrder'
  BY <1>2 DEF OrderInv, SeqBelow, DeviceOrder
<1>4. TxOrdered'
  <2> SUFFICES ASSUME NEW e \in Devices, NEW i \in 1 .. Len(tx'[e].batch),
                      tx'[e].out[i] = "accept"
               PROVE  /\ lastSeq[e] < tx'[e].batch[i].seq
                      /\ \A j \in 1 .. (i - 1) :
                           tx'[e].out[j] = "accept" => tx'[e].batch[j].seq < tx'[e].batch[i].seq
    BY <1>2 DEF TxOrdered
  <2>1. CASE e # d
    BY <1>1, <2>1 DEF OrderInv, TxOrdered
  <2>2. CASE e = d
    <3>1. tx'[e].batch = b /\ tx'[e].out = out /\ i \in 1 .. Len(b)
      BY <1>1, <2>2
    <3>2. Verdict(d, b, out, i) = "accept"
      BY <1>1, <3>1
    <3>3. /\ ~(b[i].seq <= lastSeq[d])
          /\ \A j \in 1 .. (i - 1) : out[j] = "accept" => ~(b[i].seq <= b[j].seq)
      BY <3>2, Accepted
    <3>4. \A j \in 1 .. Len(b) : b[j].seq \in Nat
      BY <1>1, ElementOfSeq, OpsAssumption DEF OpRecord
    <3>5. lastSeq[d] \in Nat /\ Len(b) \in Nat
      BY <1>1, LenProperties DEF TypeOK
    <3>6. \A j \in 1 .. (i - 1) : j \in 1 .. Len(b)
      BY <3>1, <3>5
    <3> QED  BY <2>2, <3>1, <3>3, <3>4, <3>5, <3>6
  <2> QED  BY <2>1, <2>2
<1> QED  BY <1>3, <1>4 DEF OrderInv

\* Ending uploads keeps the invariant.
LEMMA OrderQuiet ==
  ASSUME OrderInv, Quiet
  PROVE  OrderInv'
<1>1. SeqBelow' /\ DeviceOrder'
  BY DEF OrderInv, SeqBelow, DeviceOrder, Quiet
<1>2. ASSUME NEW d \in Devices, NEW i \in 1 .. Len(tx'[d].batch), tx'[d].out[i] = "accept"
      PROVE  tx'[d] = tx[d]
  BY <1>2, NoTxType DEF Quiet
<1>3. TxOrdered'
  BY <1>2 DEF OrderInv, TxOrdered, Quiet
<1> QED  BY <1>1, <1>3 DEF OrderInv

LEMMA OrderCommit ==
  ASSUME TypeOK, LogGapFree, OrderInv, NEW d \in Devices, CommitBatch(d)
  PROVE  OrderInv'
<1>1. tx \in [Devices -> [batch : Seq(Ops), out : Seq(Verdicts)]]
  BY DEF TypeOK
<1>2. tx' = [tx EXCEPT ![d] = NoTx]
  BY CommitCases
<1>3. tx'[d] = NoTx /\ \A e \in Devices \ {d} : tx'[e] = tx[e]
  BY <1>1, <1>2
<1>4. CASE UNCHANGED logVars
  <2>1. Quiet
    BY <1>3, <1>4 DEF Quiet, logVars
  <2> QED  BY <2>1, OrderQuiet
<1>5. ASSUME NEW n \in Nat \ {0}, NEW v \in [1 .. n -> 1 .. Len(tx[d].batch)],
             NEW a \in [1 .. n -> Ops], CommitEffect(d, n, v, a)
      PROVE  OrderInv'
  <2>1. \A k \in 1 .. n : /\ a[k].dev = d
                          /\ lastSeq[d] < a[k].seq
                          /\ \A l \in 1 .. n : k < l => a[k].seq < a[l].seq
    BY <1>5, CommitRows DEF OrderInv
  <2>2. alloc \in Nat /\ DOMAIN log = 1 .. alloc /\ DOMAIN log' = 1 .. (alloc + n)
    BY <1>5 DEF CommitEffect, TypeOK, LogGapFree
  <2>3. \A c \in 1 .. alloc : log'[c] = log[c]
    BY <1>5 DEF CommitEffect
  <2>4. \A c \in (alloc + 1) .. (alloc + n) : log'[c] = a[c - alloc] /\ c - alloc \in 1 .. n
    BY <1>5, <2>2 DEF CommitEffect
  <2>5. \A c \in 1 .. (alloc + n) : c \in 1 .. alloc \/ c \in (alloc + 1) .. (alloc + n)
    BY <2>2
  <2>6. lastSeq' = [lastSeq EXCEPT ![d] = a[n].seq] /\ lastSeq \in [Devices -> Nat]
    BY <1>5 DEF CommitEffect, TypeOK
  <2>7. /\ \A c \in 1 .. alloc : log[c] \in OpRecord
        /\ \A k \in 1 .. n : a[k] \in OpRecord
    BY <2>2, OpsAssumption, ElementOfSeq, LenProperties DEF TypeOK
  <2>8. /\ \A c \in 1 .. alloc : log[c].dev \in Devices /\ log[c].seq \in Nat
        /\ \A k \in 1 .. n : a[k].seq \in Nat
    BY <2>7 DEF OpRecord
  <2>9. /\ lastSeq'[d] = a[n].seq /\ lastSeq[d] < a[n].seq
        /\ \A e \in Devices \ {d} : lastSeq'[e] = lastSeq[e]
    BY <2>1, <2>6
  <2>10. SeqBelow'
    <3> SUFFICES ASSUME NEW c \in 1 .. (alloc + n)
                 PROVE  log'[c].seq <= lastSeq'[log'[c].dev]
      BY <2>2 DEF SeqBelow
    <3>1. CASE c \in 1 .. alloc
      <4>1. log[c].seq <= lastSeq[log[c].dev]
        BY <2>2, <3>1 DEF OrderInv, SeqBelow
      <4>2. log'[c] = log[c] /\ log[c].dev \in Devices /\ log[c].seq \in Nat
        BY <2>3, <2>8, <3>1
      <4>3. CASE log[c].dev = d
        BY <2>6, <2>8, <2>9, <4>1, <4>2, <4>3
      <4>4. CASE log[c].dev # d
        BY <2>9, <4>1, <4>2, <4>4
      <4> QED  BY <4>3, <4>4
    <3>2. CASE c \in (alloc + 1) .. (alloc + n)
      <4>1. log'[c] = a[c - alloc] /\ c - alloc \in 1 .. n
        BY <2>4, <3>2
      <4>2. a[c - alloc].dev = d
        BY <2>1, <4>1
      <4>3. a[c - alloc].seq <= a[n].seq
        <5>1. CASE c - alloc = n
          BY <2>8, <5>1
        <5>2. CASE c - alloc # n
          <6>1. c - alloc < n
            BY <4>1, <5>2
          <6> QED  BY <2>1, <2>8, <4>1, <6>1
        <5> QED  BY <5>1, <5>2
      <4> QED  BY <2>9, <4>1, <4>2, <4>3
    <3> QED  BY <2>5, <3>1, <3>2
  <2>11. TxOrdered'
    <3> SUFFICES ASSUME NEW e \in Devices, NEW i \in 1 .. Len(tx'[e].batch),
                        tx'[e].out[i] = "accept"
                 PROVE  /\ lastSeq'[e] < tx'[e].batch[i].seq
                        /\ \A j \in 1 .. (i - 1) :
                             tx'[e].out[j] = "accept" => tx'[e].batch[j].seq < tx'[e].batch[i].seq
      BY DEF TxOrdered
    <3>1. e # d
      BY <1>3, NoTxType
    <3> QED  BY <1>3, <2>9, <3>1 DEF OrderInv, TxOrdered
  <2>12. DeviceOrder'
    <3> SUFFICES ASSUME NEW c \in 1 .. (alloc + n), NEW e \in 1 .. (alloc + n),
                        c < e, log'[c].dev = log'[e].dev
                 PROVE  log'[c].seq < log'[e].seq
      BY <2>2 DEF DeviceOrder
    <3>1. CASE e \in 1 .. alloc
      <4>1. c \in 1 .. alloc
        BY <2>2, <3>1
      <4> QED  BY <2>2, <2>3, <3>1, <4>1 DEF OrderInv, DeviceOrder
    <3>2. CASE c \in 1 .. alloc /\ e \in (alloc + 1) .. (alloc + n)
      <4>1. log'[e] = a[e - alloc] /\ e - alloc \in 1 .. n /\ log'[c] = log[c]
        BY <2>3, <2>4, <3>2
      <4>2. log[c].dev = d /\ lastSeq[d] < a[e - alloc].seq
        BY <2>1, <4>1
      <4>3. log[c].seq <= lastSeq[d]
        BY <2>2, <3>2, <4>2 DEF OrderInv, SeqBelow
      <4> QED  BY <2>6, <2>8, <3>2, <4>1, <4>2, <4>3
    <3>3. CASE c \in (alloc + 1) .. (alloc + n) /\ e \in (alloc + 1) .. (alloc + n)
      <4>1. /\ log'[c] = a[c - alloc] /\ c - alloc \in 1 .. n
            /\ log'[e] = a[e - alloc] /\ e - alloc \in 1 .. n
            /\ c - alloc < e - alloc
        BY <2>2, <2>4, <3>3
      <4> QED  BY <2>1, <4>1
    <3> QED  BY <2>5, <3>1, <3>2, <3>3
  <2> QED  BY <2>10, <2>11, <2>12 DEF OrderInv
<1> QED  BY <1>4, <1>5, CommitCases

LEMMA OrderInit == Init => OrderInv
<1> SUFFICES ASSUME Init PROVE OrderInv
  OBVIOUS
<1>1. DOMAIN log = {}
  BY EmptySeq DEF Init
<1>2. \A d \in Devices : Len(tx[d].batch) = 0
  BY NoTxType DEF Init
<1> QED  BY <1>1, <1>2 DEF OrderInv, SeqBelow, TxOrdered, DeviceOrder

LEMMA OrderStep ==
  ASSUME TypeOK, LogGapFree, OrderInv, [Next]_vars
  PROVE  OrderInv'
BY StepCases, OrderValidate, OrderCommit, OrderQuiet

\* process_batch stores a device's operations once each and in the order of
\* their sequences, for any mix of retries, concurrent devices, compaction
\* passes that delete rows, and restarts.
THEOREM DeviceOrderHolds == Spec => []DeviceOrder
<1>1. TypeOK /\ LogGapFree /\ OrderInv /\ [Next]_vars => (TypeOK /\ LogGapFree /\ OrderInv)'
  BY TypeStep, OrderStep
<1>2. Init => TypeOK /\ LogGapFree /\ OrderInv
  BY TypeInit, OrderInit
<1>3. OrderInv => DeviceOrder
  BY DEF OrderInv
<1> QED  BY <1>1, <1>2, <1>3, PTL DEF Spec
-------------------------------------------------------------------------------
(***************************************************************************)
(* Refinement.                                                             *)
(***************************************************************************)
\* A step of the server appends one device's run to the log or leaves it alone.
LEMMA RefineStep ==
  ASSUME TypeOK, LogGapFree, OrderInv, [Next]_vars
  PROVE  [AbstractLog!Next]_log
<1>1. ASSUME NEW d \in Devices, NEW b \in BatchesOf(d), ValidateBatch(d, b)
      PROVE  UNCHANGED log
  BY <1>1 DEF ValidateBatch, logVars
<1>2. ASSUME Quiet PROVE UNCHANGED log
  BY <1>2 DEF Quiet
<1>3. ASSUME NEW d \in Devices, NEW n \in Nat \ {0},
             NEW v \in [1 .. n -> 1 .. Len(tx[d].batch)],
             NEW a \in [1 .. n -> Ops], CommitEffect(d, n, v, a)
      PROVE  AbstractLog!AppendRun
  <2>1. \A k \in 1 .. n : /\ a[k].dev = d
                          /\ lastSeq[d] < a[k].seq
                          /\ \A l \in 1 .. n : k < l => a[k].seq < a[l].seq
    BY <1>3, CommitRows DEF OrderInv
  <2>2. alloc \in Nat /\ DOMAIN log = 1 .. alloc /\ log \in Seq(Ops)
    BY DEF TypeOK, LogGapFree
  <2>3. Len(log) = alloc
    BY <2>2, LenProperties
  <2>4. log' \in Seq(Ops) /\ Len(log') = alloc + n
    <3>1. alloc + n \in Nat /\ log' \in [1 .. (alloc + n) -> Ops]
      BY <1>3, <2>2 DEF CommitEffect
    <3> QED  BY <3>1, FunctionIsSeq
  <2>5. \A c \in 1 .. alloc : log'[c] = log[c]
    BY <1>3 DEF CommitEffect
  <2>6. ASSUME NEW c \in (alloc + 1) .. (alloc + n)
        PROVE  /\ log'[c].dev = d
               /\ \A x \in 1 .. alloc : log[x].dev = log'[c].dev => log[x].seq < log'[c].seq
               /\ \A e \in (alloc + 1) .. (c - 1) : log'[e].seq < log'[c].seq
    <3>1. log'[c] = a[c - alloc] /\ c - alloc \in 1 .. n
      BY <1>3, <2>2 DEF CommitEffect
    <3>2. log'[c].dev = d /\ lastSeq[d] < log'[c].seq
      BY <2>1, <3>1
    <3>3. ASSUME NEW x \in 1 .. alloc, log[x].dev = log'[c].dev
          PROVE  log[x].seq < log'[c].seq
      <4>1. log[x].seq <= lastSeq[d]
        BY <2>2, <3>2, <3>3 DEF OrderInv, SeqBelow
      <4>2. log[x] \in OpRecord /\ log'[c] \in OpRecord /\ lastSeq[d] \in Nat
        BY <2>2, <2>3, <3>1, OpsAssumption, ElementOfSeq DEF TypeOK
      <4>3. log[x].seq \in Nat /\ log'[c].seq \in Nat
        BY <4>2 DEF OpRecord
      <4> QED  BY <3>2, <4>1, <4>2, <4>3
    <3>4. ASSUME NEW e \in (alloc + 1) .. (c - 1) PROVE log'[e].seq < log'[c].seq
      <4>1. e \in (alloc + 1) .. (alloc + n) /\ e - alloc \in 1 .. n /\ e - alloc < c - alloc
        BY <2>2
      <4>2. log'[e] = a[e - alloc]
        BY <1>3, <4>1 DEF CommitEffect
      <4> QED  BY <2>1, <3>1, <4>1, <4>2
    <3> QED  BY <3>2, <3>3, <3>4
  <2>7. d \in {op.dev : op \in Ops}
    <3>1. a[n] \in Ops /\ a[n].dev = d
      BY <2>1
    <3> QED  BY <3>1
  <2>8. Len(log) < Len(log')
    BY <2>2, <2>3, <2>4
  <2> QED  BY <2>3, <2>4, <2>5, <2>6, <2>7, <2>8 DEF AbstractLog!AppendRun, AbstractLog!After
<1>4. ASSUME NEW d \in Devices, CommitBatch(d)
      PROVE  AbstractLog!AppendRun \/ UNCHANGED log
  BY <1>3, <1>4, CommitCases DEF logVars
<1> QED  BY <1>1, <1>2, <1>4, StepCases DEF AbstractLog!Next

\* The server implements DurableLog: every behaviour of uploads, downloads,
\* compaction and restarts is, for the log, a behaviour that only appends runs of
\* one device's new operations.
THEOREM ServerImplementsDurableLog == Spec => ImplementsDurableLog
<1>1. TypeOK /\ LogGapFree /\ OrderInv /\ [Next]_vars => (TypeOK /\ LogGapFree /\ OrderInv)'
  BY TypeStep, OrderStep
<1>2. Init => TypeOK /\ LogGapFree /\ OrderInv
  BY TypeInit, OrderInit
<1>3. Init => AbstractLog!Init
  BY DEF Init, AbstractLog!Init
<1>4. TypeOK /\ LogGapFree /\ OrderInv /\ [Next]_vars => [AbstractLog!Next]_log
  BY RefineStep
<1> QED  BY <1>1, <1>2, <1>3, <1>4, PTL DEF Spec, ImplementsDurableLog, AbstractLog!Spec

--------------------------------------------------------------------------------
(***************************************************************************)
(* What uploads and compaction keep true between the tables: the ledger,   *)
(* the rows that were pruned, the snapshot and the acknowledged cursors.   *)
(***************************************************************************)
\* The ownership an accepted operation was granted at validation: its object
\* was originated by itself, by the ledger or earlier in its batch.
TxOwned ==
  \A d \in Devices : \A i \in 1 .. Len(tx[d].batch) :
    tx[d].out[i] = "accept" =>
      /\ ShapeOk(tx[d].batch[i])
      /\ \/ IsOrigination(tx[d].batch[i])
         \/ Key(tx[d].batch[i]) \in ledger
         \/ OriginatedBefore(tx[d].batch, tx[d].out, i, Key(tx[d].batch[i]))

\* o and p are bulk imports of the same chunk.
SameBulk(o, p) == IsBulkHistoryImport(o) /\ IsBulkHistoryImport(p) /\ Key(o) = Key(p)

\* An accepted bulk import is not in the log and not earlier in its batch.
TxFresh ==
  \A d \in Devices : \A i \in 1 .. Len(tx[d].batch) :
    tx[d].out[i] = "accept" =>
      /\ \A c \in DOMAIN log : ~SameBulk(log[c], tx[d].batch[i])
      /\ \A j \in 1 .. (i - 1) :
           tx[d].out[j] = "accept" => ~SameBulk(tx[d].batch[j], tx[d].batch[i])

OwnInv == TxOwned /\ TxFresh /\ LedgerComplete /\ BulkCountedOnce

\* The job never prunes above the committed snapshot and never replaces it by
\* an older one.
JobCovered ==
  /\ job.pc = "prune" => job.upto <= snap.cursor
  /\ job.pc \in {"build", "built"} => snap.cursor <= job.upto

\* The snapshot and the job stay below what every device that cannot lapse has
\* acknowledged.
AckCovered ==
  \A d \in Devices \ Lapsable :
    snap.cursor <= ack[d] /\ (job.pc # "idle" => job.upto <= ack[d])

CoverInv == PrunedCovered /\ JobCovered /\ AckCovered
-------------------------------------------------------------------------------
(***************************************************************************)
(* Ledger.                                                                 *)
(***************************************************************************)
LEMMA LedgerGrows ==
  ASSUME TypeOK, LogGapFree, [Next]_vars
  PROVE  ledger \subseteq ledger'
<1>1. ASSUME NEW d \in Devices, CommitBatch(d) PROVE ledger \subseteq ledger'
  BY <1>1, CommitCases DEF CommitEffect, logVars
<1>2. ASSUME CommitSnapshot PROVE ledger \subseteq ledger'
  BY <1>2 DEF CommitSnapshot
<1>3. ASSUME NEW d \in Devices, NEW b, ValidateBatch(d, b) \/ AbortBatch(d)
      PROVE  ledger \subseteq ledger'
  BY <1>3 DEF ValidateBatch, AbortBatch, logVars
<1>4. ASSUME NEW d \in Devices, NEW c, \/ DownloadBounds(d, c) \/ SizePage(d) \/ FetchRows(d)
                                       \/ DropRequest(d) \/ Touch(d) \/ Lapse(d)
      PROVE  ledger \subseteq ledger'
  BY <1>4 DEF DownloadBounds, SizePage, FetchRows, DropRequest, Touch, Lapse, logVars
<1>5. ASSUME BeginCompaction \/ BuildSnapshot \/ PruneChunk \/ Restart
      PROVE  ledger \subseteq ledger'
  BY <1>5 DEF BeginCompaction, BuildSnapshot, PruneChunk, Restart, logVars
<1>6. ASSUME UNCHANGED vars PROVE ledger \subseteq ledger'
  BY <1>6 DEF vars
<1> QED  BY <1>1, <1>2, <1>3, <1>4, <1>5, <1>6 DEF Next

\* A bulk import originates its object, and LedgerComplete puts it in the ledger.
LEMMA BulkFacts ==
  ASSUME NEW o, IsBulkHistoryImport(o)
  PROVE  IsOrigination(o) /\ o.type = "historyVisit" /\ o.kind # "visit"
BY DEF IsBulkHistoryImport, IsOrigination

LEMMA OwnValidate ==
  ASSUME TypeOK, OwnInv, NEW d \in Devices, NEW b \in BatchesOf(d), ValidateBatch(d, b)
  PROVE  OwnInv'
<1>1. PICK out \in [1 .. Len(b) -> Verdicts] :
        /\ tx'[d] = [batch |-> b, out |-> out]
        /\ \A e \in Devices \ {d} : tx'[e] = tx[e]
        /\ \A i \in 1 .. Len(b) : out[i] = Verdict(d, b, out, i)
        /\ UNCHANGED <<logVars, otherVars>>
        /\ b \in Seq(Ops)
  BY Validated
<1>2. UNCHANGED <<log, ledger>>
  BY <1>1 DEF logVars
<1>3. LedgerComplete' /\ BulkCountedOnce'
  BY <1>2 DEF OwnInv, LedgerComplete, BulkCountedOnce
<1>4. ASSUME NEW i \in 1 .. Len(b), out[i] = "accept"
      PROVE  /\ ShapeOk(b[i])
             /\ \/ IsOrigination(b[i])
                \/ Key(b[i]) \in ledger
                \/ OriginatedBefore(b, out, i, Key(b[i]))
             /\ \A c \in DOMAIN log : ~SameBulk(log[c], b[i])
             /\ \A j \in 1 .. (i - 1) : out[j] = "accept" => ~SameBulk(b[j], b[i])
  <2>1. Verdict(d, b, out, i) = "accept"
    BY <1>1, <1>4
  <2>2. /\ ~(IsBulkHistoryImport(b[i])
             /\ (Key(b[i]) \in ledger \/ OriginatedBefore(b, out, i, Key(b[i]))))
        /\ ShapeOk(b[i]) /\ ~NotOwned(b, out, i)
    BY <2>1, Accepted
  <2>3. ASSUME NEW c \in DOMAIN log, SameBulk(log[c], b[i]) PROVE FALSE
    <3>1. Key(log[c]) \in ledger
      BY <2>3, BulkFacts DEF SameBulk, OwnInv, LedgerComplete
    <3> QED  BY <2>2, <2>3, <3>1 DEF SameBulk
  <2>4. ASSUME NEW j \in 1 .. (i - 1), out[j] = "accept", SameBulk(b[j], b[i]) PROVE FALSE
    <3>1. OriginatedBefore(b, out, i, Key(b[i]))
      BY <2>4, BulkFacts DEF SameBulk, OriginatedBefore
    <3> QED  BY <2>2, <2>4, <3>1 DEF SameBulk
  <2> QED  BY <2>2, <2>3, <2>4 DEF NotOwned
<1>5. TxOwned'
  <2> SUFFICES ASSUME NEW e \in Devices, NEW i \in 1 .. Len(tx'[e].batch),
                      tx'[e].out[i] = "accept"
               PROVE  /\ ShapeOk(tx'[e].batch[i])
                      /\ \/ IsOrigination(tx'[e].batch[i])
                         \/ Key(tx'[e].batch[i]) \in ledger
                         \/ OriginatedBefore(tx'[e].batch, tx'[e].out, i, Key(tx'[e].batch[i]))
    BY <1>2 DEF TxOwned, ShapeOk, OriginatedBefore
  <2>1. CASE e # d
    BY <1>1, <2>1 DEF OwnInv, TxOwned
  <2>2. CASE e = d
    BY <1>1, <1>4, <2>2
  <2> QED  BY <2>1, <2>2
<1>6. TxFresh'
  <2> SUFFICES ASSUME NEW e \in Devices, NEW i \in 1 .. Len(tx'[e].batch),
                      tx'[e].out[i] = "accept"
               PROVE  /\ \A c \in DOMAIN log : ~SameBulk(log[c], tx'[e].batch[i])
                      /\ \A j \in 1 .. (i - 1) :
                           tx'[e].out[j] = "accept" => ~SameBulk(tx'[e].batch[j], tx'[e].batch[i])
    BY <1>2 DEF TxFresh, SameBulk
  <2>1. CASE e # d
    BY <1>1, <2>1 DEF OwnInv, TxFresh
  <2>2. CASE e = d
    BY <1>1, <1>4, <2>2
  <2> QED  BY <2>1, <2>2
<1> QED  BY <1>3, <1>5, <1>6 DEF OwnInv

LEMMA OwnQuiet ==
  ASSUME OwnInv, Quiet, ledger \subseteq ledger'
  PROVE  OwnInv'
<1>1. LedgerComplete' /\ BulkCountedOnce'
  BY DEF OwnInv, LedgerComplete, BulkCountedOnce, Quiet
<1>2. ASSUME NEW d \in Devices, NEW i \in 1 .. Len(tx'[d].batch), tx'[d].out[i] = "accept"
      PROVE  tx'[d] = tx[d]
  BY <1>2, NoTxType DEF Quiet
<1>3. TxOwned'
  <2> SUFFICES ASSUME NEW d \in Devices, NEW i \in 1 .. Len(tx'[d].batch),
                      tx'[d].out[i] = "accept"
               PROVE  /\ ShapeOk(tx'[d].batch[i])
                      /\ \/ IsOrigination(tx'[d].batch[i])
                         \/ Key(tx'[d].batch[i]) \in ledger'
                         \/ OriginatedBefore(tx'[d].batch, tx'[d].out, i, Key(tx'[d].batch[i]))
    BY DEF TxOwned, ShapeOk, OriginatedBefore
  <2> QED  BY <1>2 DEF OwnInv, TxOwned
<1>4. TxFresh'
  BY <1>2 DEF OwnInv, TxFresh, Quiet
<1> QED  BY <1>1, <1>3, <1>4 DEF OwnInv

LEMMA OwnCommit ==
  ASSUME TypeOK, LogGapFree, OrderInv, OwnInv, NEW d \in Devices, CommitBatch(d)
  PROVE  OwnInv'
<1>1. tx \in [Devices -> [batch : Seq(Ops), out : Seq(Verdicts)]]
  BY DEF TypeOK
<1>2. tx' = [tx EXCEPT ![d] = NoTx]
  BY CommitCases
<1>3. tx'[d] = NoTx /\ \A e \in Devices \ {d} : tx'[e] = tx[e]
  BY <1>1, <1>2
<1>4. CASE UNCHANGED logVars
  <2>1. Quiet /\ ledger \subseteq ledger'
    BY <1>3, <1>4 DEF Quiet, logVars
  <2> QED  BY <2>1, OwnQuiet
<1>5. ASSUME NEW n \in Nat \ {0}, NEW v \in [1 .. n -> 1 .. Len(tx[d].batch)],
             NEW a \in [1 .. n -> Ops], CommitEffect(d, n, v, a)
      PROVE  OwnInv'
  <2>1. alloc \in Nat /\ DOMAIN log = 1 .. alloc /\ DOMAIN log' = 1 .. (alloc + n)
    BY <1>5 DEF CommitEffect, TypeOK, LogGapFree
  <2>2. \A c \in 1 .. alloc : log'[c] = log[c]
    BY <1>5 DEF CommitEffect
  <2>3. \A c \in (alloc + 1) .. (alloc + n) : log'[c] = a[c - alloc] /\ c - alloc \in 1 .. n
    BY <1>5, <2>1 DEF CommitEffect
  <2>4. \A c \in 1 .. (alloc + n) : c \in 1 .. alloc \/ c \in (alloc + 1) .. (alloc + n)
    BY <2>1
  <2>5. ledger' = ledger \cup LedgerRows(a)
    BY <1>5 DEF CommitEffect
  <2>6. v \in Seq(1 .. Len(tx[d].batch)) /\ Len(v) = n
    BY FunctionIsSeq
  <2>7. \A k \in 1 .. n : /\ v[k] \in 1 .. Len(tx[d].batch)
                          /\ a[k] = tx[d].batch[v[k]]
                          /\ tx[d].out[v[k]] = "accept"
    BY <1>5, <2>6 DEF CommitEffect, IsAcceptedIndices
  <2>8. \A k, l \in 1 .. n : k < l => v[k] < v[l]
    BY <1>5, <2>6 DEF CommitEffect, IsAcceptedIndices
  <2>9. \A k \in 1 .. n : a[k].dev = d
    BY <1>5, CommitRows DEF OrderInv
  <2>10. ASSUME NEW k \in 1 .. n, IsOrigination(a[k]),
                a[k].type # "historyVisit" \/ IsBulkHistoryImport(a[k])
         PROVE  Key(a[k]) \in LedgerRows(a)
    BY <2>10 DEF LedgerRows
  <2>11. ASSUME NEW k \in 1 .. n
         PROVE  Key(a[k]) \in ledger' \/ (a[k].type = "historyVisit" /\ a[k].kind = "visit")
    <3>1. ShapeOk(a[k])
      BY <2>7 DEF OwnInv, TxOwned
    <3>2. CASE a[k].type = "historyVisit"
      <4>1. a[k].kind \in {"visit", "bulkImport"}
        BY <3>1, <3>2 DEF ShapeOk, AllowedOperationTypes
      <4>2. CASE a[k].kind = "bulkImport"
        <5>1. IsBulkHistoryImport(a[k])
          BY <3>2, <4>2 DEF IsBulkHistoryImport
        <5> QED  BY <2>5, <2>10, <5>1, BulkFacts
      <4> QED  BY <3>2, <4>1, <4>2
    <3>3. CASE a[k].type # "historyVisit"
      <4>1. CASE IsOrigination(a[k])
        BY <2>5, <2>10, <3>3, <4>1
      <4>2. CASE Key(a[k]) \in ledger
        BY <2>5, <4>2
      <4>3. CASE OriginatedBefore(tx[d].batch, tx[d].out, v[k], Key(a[k]))
        <5>1. PICK j \in 1 .. (v[k] - 1) :
                /\ tx[d].out[j] = "accept"
                /\ IsOrigination(tx[d].batch[j])
                /\ Key(tx[d].batch[j]) = Key(a[k])
          BY <4>3 DEF OriginatedBefore
        <5>2. j \in 1 .. Len(tx[d].batch) /\ j \in DOMAIN tx[d].out
          <6>1. /\ Len(tx[d].batch) \in Nat /\ v[k] \in 1 .. Len(tx[d].batch)
                /\ tx[d].out \in Seq(Verdicts) /\ Len(tx[d].out) = Len(tx[d].batch)
            BY <2>7, TxFacts
          <6>2. j \in 1 .. Len(tx[d].batch)
            BY <6>1
          <6> QED  BY <6>1, <6>2, LenProperties
        <5>3. PICK l \in 1 .. n : v[l] = j
          BY <1>5, <2>6, <5>1, <5>2 DEF CommitEffect, IsAcceptedIndices
        <5>4. a[l] = tx[d].batch[j]
          BY <2>7, <5>3
        <5>5. a[l].type # "historyVisit"
          BY <3>3, <5>1, <5>4 DEF Key
        <5> QED  BY <2>5, <2>10, <5>1, <5>4, <5>5
      <4> QED  BY <2>7, <4>1, <4>2, <4>3 DEF OwnInv, TxOwned
    <3> QED  BY <3>2, <3>3
  <2>12. LedgerComplete'
    <3> SUFFICES ASSUME NEW c \in 1 .. (alloc + n)
                 PROVE  \/ Key(log'[c]) \in ledger'
                        \/ log'[c].type = "historyVisit" /\ log'[c].kind = "visit"
      BY <2>1 DEF LedgerComplete
    <3>1. CASE c \in 1 .. alloc
      BY <2>1, <2>2, <2>5, <3>1 DEF OwnInv, LedgerComplete
    <3>2. CASE c \in (alloc + 1) .. (alloc + n)
      BY <2>3, <2>11, <3>2
    <3> QED  BY <2>4, <3>1, <3>2
  <2>13. \A c \in 1 .. alloc, k \in 1 .. n : ~SameBulk(log[c], a[k])
    BY <2>1, <2>7 DEF OwnInv, TxFresh
  <2>14. ASSUME NEW k \in 1 .. n, NEW l \in 1 .. n, k < l PROVE ~SameBulk(a[k], a[l])
    <3>1. v[k] < v[l] /\ Len(tx[d].batch) \in Nat
      BY <2>8, <2>14, TxFacts
    <3>2. v[k] \in 1 .. (v[l] - 1)
      BY <2>7, <3>1
    <3> QED  BY <2>7, <3>2 DEF OwnInv, TxFresh
  <2>15. BulkCountedOnce'
    <3>1. ASSUME NEW c \in 1 .. (alloc + n), NEW e \in 1 .. (alloc + n), c < e
          PROVE  ~SameBulk(log'[c], log'[e])
      <4>1. CASE e \in 1 .. alloc
        <5>1. c \in 1 .. alloc /\ c # e
          BY <2>1, <3>1, <4>1
        <5> QED  BY <2>1, <2>2, <4>1, <5>1 DEF OwnInv, BulkCountedOnce, SameBulk
      <4>2. CASE c \in 1 .. alloc /\ e \in (alloc + 1) .. (alloc + n)
        BY <2>2, <2>3, <2>13, <4>2
      <4>3. CASE c \in (alloc + 1) .. (alloc + n) /\ e \in (alloc + 1) .. (alloc + n)
        <5>1. c - alloc < e - alloc
          BY <2>1, <3>1
        <5> QED  BY <2>3, <2>14, <4>3, <5>1
      <4> QED  BY <2>4, <4>1, <4>2, <4>3
    <3>2. \A c, e \in 1 .. (alloc + n) : c = e \/ c < e \/ e < c
      BY <2>1
    <3>3. \A o, p : SameBulk(o, p) => SameBulk(p, o)
      BY DEF SameBulk
    <3>4. \A c, e \in 1 .. (alloc + n) : SameBulk(log'[c], log'[e]) => c = e
      BY <3>1, <3>2, <3>3
    <3> QED  BY <2>1, <3>4 DEF BulkCountedOnce, SameBulk
  <2>16. ASSUME NEW e \in Devices, NEW i \in 1 .. Len(tx'[e].batch), tx'[e].out[i] = "accept"
         PROVE  e # d /\ tx'[e] = tx[e]
    BY <1>3, <2>16, NoTxType
  <2>17. TxOwned'
    <3> SUFFICES ASSUME NEW e \in Devices, NEW i \in 1 .. Len(tx'[e].batch),
                        tx'[e].out[i] = "accept"
                 PROVE  /\ ShapeOk(tx'[e].batch[i])
                        /\ \/ IsOrigination(tx'[e].batch[i])
                           \/ Key(tx'[e].batch[i]) \in ledger'
                           \/ OriginatedBefore(tx'[e].batch, tx'[e].out, i, Key(tx'[e].batch[i]))
      BY DEF TxOwned, ShapeOk, OriginatedBefore
    <3>1. tx'[e] = tx[e] /\ ledger \subseteq ledger'
      BY <2>5, <2>16
    <3> QED  BY <3>1 DEF OwnInv, TxOwned
  <2>18. TxFresh'
    <3> SUFFICES ASSUME NEW e \in Devices, NEW i \in 1 .. Len(tx'[e].batch),
                        tx'[e].out[i] = "accept"
                 PROVE  /\ \A c \in 1 .. (alloc + n) : ~SameBulk(log'[c], tx'[e].batch[i])
                        /\ \A j \in 1 .. (i - 1) :
                             tx'[e].out[j] = "accept" => ~SameBulk(tx'[e].batch[j], tx'[e].batch[i])
      BY <2>1 DEF TxFresh, SameBulk
    <3>1. e # d /\ tx'[e] = tx[e]
      BY <2>16
    <3>2. tx[e].batch[i] \in Ops /\ tx[e].batch[i].dev = e
      <4>1. tx[e].batch \in Seq(Ops)
        BY <1>1
      <4>2. \A k \in 1 .. Len(tx[e].batch) : tx[e].batch[k].dev = e
        BY DEF TypeOK
      <4> QED  BY <3>1, <4>1, <4>2, ElementOfSeq
    <3>3. \A k \in 1 .. n : ~SameBulk(a[k], tx[e].batch[i])
      BY <2>9, <3>1, <3>2, BulkAssumption DEF SameBulk
    <3>4. \A c \in 1 .. alloc : ~SameBulk(log[c], tx[e].batch[i])
      BY <2>1, <3>1 DEF OwnInv, TxFresh
    <3>5. \A c \in 1 .. (alloc + n) : ~SameBulk(log'[c], tx[e].batch[i])
      BY <2>2, <2>3, <2>4, <3>3, <3>4
    <3> QED  BY <3>1, <3>5 DEF OwnInv, TxFresh
  <2> QED  BY <2>12, <2>15, <2>17, <2>18 DEF OwnInv
<1> QED  BY <1>4, <1>5, CommitCases

LEMMA OwnInit == Init => OwnInv
<1> SUFFICES ASSUME Init PROVE OwnInv
  OBVIOUS
<1>1. DOMAIN log = {}
  BY EmptySeq DEF Init
<1>2. \A d \in Devices : Len(tx[d].batch) = 0
  BY NoTxType DEF Init
<1> QED  BY <1>1, <1>2 DEF OwnInv, TxOwned, TxFresh, LedgerComplete, BulkCountedOnce

LEMMA OwnStep ==
  ASSUME TypeOK, LogGapFree, OrderInv, OwnInv, [Next]_vars
  PROVE  OwnInv'
BY StepCases, LedgerGrows, OwnValidate, OwnCommit, OwnQuiet

\* process_batch never stores an operation about an object it has no ledger row
\* for, single visits aside: compaction can delete any row without making a
\* later update read object_not_found.
THEOREM LedgerCompleteHolds == Spec => []LedgerComplete
<1>1. TypeOK /\ LogGapFree /\ OrderInv /\ OwnInv /\ [Next]_vars
        => (TypeOK /\ LogGapFree /\ OrderInv /\ OwnInv)'
  BY TypeStep, OrderStep, OwnStep
<1>2. Init => TypeOK /\ LogGapFree /\ OrderInv /\ OwnInv
  BY TypeInit, OrderInit, OwnInit
<1>3. OwnInv => LedgerComplete
  BY DEF OwnInv
<1> QED  BY <1>1, <1>2, <1>3, PTL DEF Spec

\* A bulk history chunk is stored once: a retry under a new device sequence is
\* found in the ledger, also after compaction deleted the row.
THEOREM BulkCountedOnceHolds == Spec => []BulkCountedOnce
<1>1. TypeOK /\ LogGapFree /\ OrderInv /\ OwnInv /\ [Next]_vars
        => (TypeOK /\ LogGapFree /\ OrderInv /\ OwnInv)'
  BY TypeStep, OrderStep, OwnStep
<1>2. Init => TypeOK /\ LogGapFree /\ OrderInv /\ OwnInv
  BY TypeInit, OrderInit, OwnInit
<1>3. OwnInv => BulkCountedOnce
  BY DEF OwnInv
<1> QED  BY <1>1, <1>2, <1>3, PTL DEF Spec
-------------------------------------------------------------------------------
(***************************************************************************)
(* Pruning.                                                                *)
(***************************************************************************)
\* A step that leaves the job, the snapshot, the rows and the acknowledged
\* cursors alone.
LEMMA CoverUnchanged ==
  ASSUME CoverInv, UNCHANGED <<log, stored, ack, snap, job>>
  PROVE  CoverInv'
BY DEF CoverInv, PrunedCovered, JobCovered, AckCovered

LEMMA CoverCommit ==
  ASSUME TypeOK, LogGapFree, CoverInv, NEW d \in Devices, CommitBatch(d)
  PROVE  CoverInv'
<1>1. UNCHANGED <<ack, snap, job>>
  BY CommitCases DEF otherVars
<1>2. CASE UNCHANGED logVars
  BY <1>1, <1>2, CoverUnchanged DEF logVars
<1>3. ASSUME NEW n \in Nat \ {0}, NEW v \in [1 .. n -> 1 .. Len(tx[d].batch)],
             NEW a \in [1 .. n -> Ops], CommitEffect(d, n, v, a)
      PROVE  CoverInv'
  <2>1. /\ alloc \in Nat /\ DOMAIN log = 1 .. alloc /\ DOMAIN log' = 1 .. (alloc + n)
        /\ stored' = stored \cup ((alloc + 1) .. (alloc + n))
    BY <1>3 DEF CommitEffect, TypeOK, LogGapFree
  <2>2. \A c \in DOMAIN log' \ stored' : c \in DOMAIN log \ stored
    BY <2>1
  <2> QED  BY <1>1, <2>2 DEF CoverInv, PrunedCovered, JobCovered, AckCovered
<1> QED  BY <1>2, <1>3, CommitCases

LEMMA CoverDownload ==
  ASSUME TypeOK, CoverInv, NEW d \in Devices, NEW c \in CursorsOf, DownloadBounds(d, c)
  PROVE  CoverInv' /\ \A e \in Devices : ack[e] <= ack'[e]
<1>1. c \in Nat /\ alloc \in Nat /\ ack \in [Devices -> Nat]
  BY DEF CursorsOf, TypeOK
<1>2. ack' \in [Devices -> Nat] /\ \A e \in Devices : ack[e] <= ack'[e]
  BY <1>1 DEF DownloadBounds, AckWith
<1>3. UNCHANGED <<log, stored, snap, job>>
  BY DEF DownloadBounds, logVars
<1>4. snap.cursor \in Nat /\ job.upto \in Nat
  BY DEF TypeOK
<1>5. AckCovered'
  BY <1>1, <1>2, <1>3, <1>4 DEF CoverInv, AckCovered
<1> QED  BY <1>2, <1>3, <1>5 DEF CoverInv, PrunedCovered, JobCovered

\* The boundary is at or below what every device that cannot lapse has
\* acknowledged, and a build starts at or above the snapshot it replaces.
LEMMA CoverBegin ==
  ASSUME TypeOK, LogGapFree, CoverInv, BeginCompaction
  PROVE  CoverInv'
<1>1. PICK m \in stored \cup {0} : \E b \in 0 .. m :
        /\ IsBoundary(b, m) /\ b > 0
        /\ IF snap.cursor > 0 /\ b < snap.cursor + MinNewOps
             THEN \E r \in 0 .. snap.cursor :
                    job' = [NoJob EXCEPT !.pc = "prune", !.upto = snap.cursor,
                                         !.keep = Survivors(snap.cursor, r)]
             ELSE job' = [NoJob EXCEPT !.pc = "build", !.upto = b]
  BY DEF BeginCompaction
<1>2. alloc \in Nat /\ stored \subseteq 1 .. alloc
  BY DEF TypeOK, LogGapFree
<1>3. m \in Nat
  BY <1>2
<1>4. PICK b \in 0 .. m :
        /\ IsBoundary(b, m) /\ b > 0
        /\ IF snap.cursor > 0 /\ b < snap.cursor + MinNewOps
             THEN \E r \in 0 .. snap.cursor :
                    job' = [NoJob EXCEPT !.pc = "prune", !.upto = snap.cursor,
                                         !.keep = Survivors(snap.cursor, r)]
             ELSE job' = [NoJob EXCEPT !.pc = "build", !.upto = b]
  BY <1>1
<1>5. b \in Nat /\ snap.cursor \in Nat /\ MinNewOps \in Nat /\ ack \in [Devices -> Nat]
  BY <1>3, BoundsAssumption DEF TypeOK
<1>6. \A d \in Devices \ Lapsable : b <= ack[d]
  <2> SUFFICES ASSUME NEW d \in Devices \ Lapsable PROVE b <= ack[d]
    OBVIOUS
  <2>1. d \in Devices \ lapsed
    BY DEF TypeOK
  <2>2. \A e \in {ack[x] : x \in Devices \ lapsed} \cup {m} : b <= e
    BY <1>4 DEF IsBoundary
  <2> QED  BY <2>1, <2>2
<1>7. UNCHANGED <<log, stored, ack, snap>>
  BY DEF BeginCompaction, logVars
<1>8. \/ job'.pc = "prune" /\ job'.upto = snap.cursor
      \/ job'.pc = "build" /\ job'.upto = b /\ snap.cursor <= b
  <2>1. CASE snap.cursor > 0 /\ b < snap.cursor + MinNewOps
    BY <1>4, <2>1 DEF NoJob
  <2>2. CASE ~(snap.cursor > 0 /\ b < snap.cursor + MinNewOps)
    <3>1. job' = [NoJob EXCEPT !.pc = "build", !.upto = b]
      BY <1>4, <2>2
    <3>2. snap.cursor <= b
      BY <1>5, <2>2
    <3> QED  BY <3>1, <3>2 DEF NoJob
  <2> QED  BY <2>1, <2>2
<1>9. JobCovered'
  BY <1>5, <1>7, <1>8 DEF JobCovered
<1>10. AckCovered'
  BY <1>5, <1>6, <1>7, <1>8 DEF CoverInv, AckCovered
<1> QED  BY <1>7, <1>9, <1>10 DEF CoverInv, PrunedCovered

LEMMA CoverCompact ==
  ASSUME TypeOK, LogGapFree, CoverInv,
         BuildSnapshot \/ CommitSnapshot \/ PruneChunk \/ Restart
  PROVE  CoverInv' /\ snap.cursor <= snap'.cursor
<1>1. /\ snap.cursor \in Nat /\ job.upto \in Nat /\ ack \in [Devices -> Nat]
      /\ alloc \in Nat /\ stored \subseteq 1 .. alloc /\ DOMAIN log = 1 .. alloc
  BY DEF TypeOK, LogGapFree
<1>2. CASE BuildSnapshot
  <2>1. job.pc = "build" /\ job'.pc = "built" /\ job'.upto = job.upto
    BY <1>2 DEF BuildSnapshot, TypeOK
  <2>2. UNCHANGED <<log, stored, ack, snap>>
    BY <1>2 DEF BuildSnapshot, logVars
  <2> QED  BY <1>1, <2>1, <2>2 DEF CoverInv, PrunedCovered, JobCovered, AckCovered
<1>3. CASE CommitSnapshot
  <2>1. /\ job.pc = "built" /\ job'.pc = "prune" /\ job'.upto = job.upto
        /\ snap'.cursor = job.upto
    BY <1>3 DEF CommitSnapshot, NoJob
  <2>2. UNCHANGED <<log, stored, ack>>
    BY <1>3 DEF CommitSnapshot
  <2>3. snap.cursor <= job.upto
    BY <2>1 DEF CoverInv, JobCovered
  <2>4. PrunedCovered'
    BY <1>1, <2>1, <2>2, <2>3 DEF CoverInv, PrunedCovered
  <2>5. AckCovered'
    BY <2>1, <2>2 DEF CoverInv, AckCovered
  <2>6. JobCovered'
    BY <1>1, <2>1 DEF JobCovered
  <2> QED  BY <2>1, <2>3, <2>4, <2>5, <2>6 DEF CoverInv
<1>4. CASE PruneChunk
  <2>1. /\ job.pc = "prune"
        /\ \A x \in stored \ stored' : x <= job.upto
        /\ job' = NoJob \/ (job'.pc = job.pc /\ job'.upto = job.upto)
    BY <1>4 DEF PruneChunk, TypeOK
  <2>2. UNCHANGED <<log, ack, snap>>
    BY <1>4 DEF PruneChunk
  <2>3. PrunedCovered'
    <3> SUFFICES ASSUME NEW c \in DOMAIN log \ stored' PROVE c <= snap.cursor
      BY <2>2 DEF PrunedCovered
    <3>1. CASE c \in stored
      BY <1>1, <2>1, <3>1 DEF CoverInv, JobCovered
    <3>2. CASE c \notin stored
      BY <3>2 DEF CoverInv, PrunedCovered
    <3> QED  BY <3>1, <3>2
  <2>4. NoJob.pc = "idle"
    BY DEF NoJob
  <2> QED  BY <1>1, <2>1, <2>2, <2>3, <2>4 DEF CoverInv, JobCovered, AckCovered
<1>5. CASE Restart
  <2>1. UNCHANGED <<log, stored, ack, snap>> /\ job'.pc = "idle"
    BY <1>5 DEF Restart, NoJob, logVars
  <2> QED  BY <1>1, <2>1 DEF CoverInv, PrunedCovered, JobCovered, AckCovered
<1> QED  BY <1>2, <1>3, <1>4, <1>5

LEMMA CoverStep ==
  ASSUME TypeOK, LogGapFree, CoverInv, [Next]_vars
  PROVE  CoverInv'
<1>1. ASSUME NEW d \in Devices, NEW b, ValidateBatch(d, b) \/ AbortBatch(d) PROVE CoverInv'
  BY <1>1, CoverUnchanged DEF ValidateBatch, AbortBatch, logVars, otherVars
<1>2. ASSUME NEW d \in Devices, \/ SizePage(d) \/ FetchRows(d) \/ DropRequest(d)
                                \/ Touch(d) \/ Lapse(d)
      PROVE  CoverInv'
  BY <1>2, CoverUnchanged DEF SizePage, FetchRows, DropRequest, Touch, Lapse, logVars
<1>3. ASSUME UNCHANGED vars PROVE CoverInv'
  BY <1>3, CoverUnchanged DEF vars
<1> QED  BY <1>1, <1>2, <1>3, CoverCommit, CoverDownload, CoverBegin, CoverCompact DEF Next

LEMMA CoverInit == Init => CoverInv
<1> SUFFICES ASSUME Init PROVE CoverInv
  OBVIOUS
<1>1. DOMAIN log = {}
  BY EmptySeq DEF Init
<1> QED  BY <1>1 DEF Init, NoJob, CoverInv, PrunedCovered, JobCovered, AckCovered

\* prune_compacted_operations deletes a row only under a committed snapshot that
\* covers it, across chunks, passes, restarts and concurrent uploads.
THEOREM PrunedCoveredHolds == Spec => []PrunedCovered
<1>1. TypeOK /\ LogGapFree /\ CoverInv /\ [Next]_vars => (TypeOK /\ LogGapFree /\ CoverInv)'
  BY TypeStep, CoverStep
<1>2. Init => TypeOK /\ LogGapFree /\ CoverInv
  BY TypeInit, CoverInit
<1>3. CoverInv => PrunedCovered
  BY DEF CoverInv
<1> QED  BY <1>1, <1>2, <1>3, PTL DEF Spec

\* A row that compaction deleted was acknowledged by every device that has not
\* stayed away past the grace periods, however late the chunk is deleted.
THEOREM PrunedAcknowledgedHolds == Spec => []PrunedAcknowledged
<1>1. TypeOK /\ LogGapFree /\ CoverInv /\ [Next]_vars => (TypeOK /\ LogGapFree /\ CoverInv)'
  BY TypeStep, CoverStep
<1>2. Init => TypeOK /\ LogGapFree /\ CoverInv
  BY TypeInit, CoverInit
<1>3. TypeOK /\ LogGapFree /\ CoverInv => PrunedAcknowledged
  <2> SUFFICES ASSUME TypeOK, LogGapFree, CoverInv,
                      NEW d \in Devices \ Lapsable, NEW c \in DOMAIN log \ stored
               PROVE  c <= ack[d]
    BY DEF PrunedAcknowledged
  <2>1. c \in Nat /\ snap.cursor \in Nat /\ ack[d] \in Nat
    BY DEF TypeOK, LogGapFree
  <2>2. c <= snap.cursor /\ snap.cursor <= ack[d]
    BY DEF CoverInv, PrunedCovered, AckCovered
  <2> QED  BY <2>1, <2>2
<1> QED  BY <1>1, <1>2, <1>3, PTL DEF Spec

\* Compaction deletes only what a committed snapshot covers and every device
\* that has not stayed away has acknowledged.
THEOREM PruningSafeHolds == Spec => []PruningSafe
<1>1. PrunedCovered /\ PrunedAcknowledged => PruningSafe
  BY DEF PruningSafe
<1> QED  BY <1>1, PrunedCoveredHolds, PrunedAcknowledgedHolds, PTL
-------------------------------------------------------------------------------
(***************************************************************************)
(* Storage accounting.                                                     *)
(***************************************************************************)
LEMMA BytesCommit ==
  ASSUME TypeOK, LogGapFree, BytesMatchLog, NEW d \in Devices, CommitBatch(d)
  PROVE  BytesMatchLog'
<1>1. CASE UNCHANGED logVars
  BY <1>1 DEF logVars, BytesMatchLog
<1>2. ASSUME NEW n \in Nat \ {0}, NEW v \in [1 .. n -> 1 .. Len(tx[d].batch)],
             NEW a \in [1 .. n -> Ops], CommitEffect(d, n, v, a)
      PROVE  BytesMatchLog'
  <2> DEFINE block == (alloc + 1) .. (alloc + n)
  <2>1. alloc \in Nat /\ stored \subseteq 1 .. alloc
    BY DEF TypeOK, LogGapFree
  <2>2. IsFiniteSet(block) /\ Cardinality(block) = n
    <3>1. alloc + 1 \in Int /\ alloc + n \in Int
      BY <2>1
    <3>2. IsFiniteSet(block)
          /\ Cardinality(block) = IF alloc + 1 > alloc + n THEN 0
                                  ELSE (alloc + n) - (alloc + 1) + 1
      BY <3>1, FS_Interval
    <3> QED  BY <2>1, <3>2
  <2>3. IsFiniteSet(stored) /\ Cardinality(stored) \in Nat
    BY RowCount
  <2>4. stored \cap block = {}
    BY <2>1
  <2>5. stored' = stored \cup block /\ stats' = StatsWith(a)
    BY <1>2 DEF CommitEffect
  <2> HIDE DEF block
  <2>6. Cardinality(stored \cup block) = Cardinality(stored) + n
    <3>1. Cardinality(stored \cup block)
            = Cardinality(stored) + Cardinality(block) - Cardinality(stored \cap block)
      BY <2>2, <2>3, FS_Union
    <3>2. Cardinality(stored \cap block) = 0
      BY <2>4, FS_EmptySet
    <3> QED  BY <2>2, <2>3, <3>1, <3>2
  <2>7. stats'.bytes = stats.bytes + n
    <3>1. Len(a) = n
      BY FunctionIsSeq
    <3> QED  BY <2>5, <3>1 DEF StatsWith
  <2> QED  BY <2>5, <2>6, <2>7 DEF BytesMatchLog
<1> QED  BY <1>1, <1>2, CommitCases

LEMMA BytesPrune ==
  ASSUME TypeOK, LogGapFree, BytesMatchLog, PruneChunk
  PROVE  BytesMatchLog'
<1>1. PICK del \in SUBSET stored :
        /\ stored' = stored \ del
        /\ stats' = [stats EXCEPT !.bytes = AtLeastZero(@, Cardinality(del))]
  BY DEF PruneChunk
<1>2. /\ IsFiniteSet(stored) /\ Cardinality(stored) \in Nat
      /\ IsFiniteSet(del) /\ Cardinality(del) \in Nat
  BY RowCount
<1>3. Cardinality(del) <= Cardinality(stored)
  BY <1>2, FS_Subset
<1>4. Cardinality(stored \ del) = Cardinality(stored) - Cardinality(del)
  <2>1. stored \cap del = del
    OBVIOUS
  <2>2. Cardinality(stored \ del) = Cardinality(stored) - Cardinality(stored \cap del)
    BY <1>2, FS_Difference
  <2> QED  BY <2>1, <2>2
<1>5. stats'.bytes = AtLeastZero(stats.bytes, Cardinality(del))
  BY <1>1 DEF TypeOK
<1>6. stats'.bytes = Cardinality(stored) - Cardinality(del)
  BY <1>2, <1>3, <1>5 DEF AtLeastZero, BytesMatchLog
<1> QED  BY <1>1, <1>4, <1>6 DEF BytesMatchLog

LEMMA BytesStep ==
  ASSUME TypeOK, LogGapFree, BytesMatchLog, [Next]_vars
  PROVE  BytesMatchLog'
<1>1. ASSUME NEW d \in Devices, NEW b, ValidateBatch(d, b) \/ AbortBatch(d)
      PROVE  BytesMatchLog'
  BY <1>1 DEF ValidateBatch, AbortBatch, logVars, BytesMatchLog
<1>2. ASSUME NEW d \in Devices, NEW c, \/ DownloadBounds(d, c) \/ SizePage(d) \/ FetchRows(d)
                                       \/ DropRequest(d) \/ Touch(d) \/ Lapse(d)
      PROVE  BytesMatchLog'
  BY <1>2 DEF DownloadBounds, SizePage, FetchRows, DropRequest, Touch, Lapse, logVars,
              BytesMatchLog
<1>3. ASSUME BeginCompaction \/ BuildSnapshot \/ Restart PROVE BytesMatchLog'
  BY <1>3 DEF BeginCompaction, BuildSnapshot, Restart, logVars, BytesMatchLog
<1>4. ASSUME CommitSnapshot PROVE BytesMatchLog'
  <2>1. stored' = stored /\ stats'.bytes = stats.bytes
    BY <1>4 DEF CommitSnapshot, TypeOK
  <2> QED  BY <2>1 DEF BytesMatchLog
<1>5. ASSUME UNCHANGED vars PROVE BytesMatchLog'
  BY <1>5 DEF vars, BytesMatchLog
<1> QED  BY <1>1, <1>2, <1>3, <1>4, <1>5, BytesCommit, BytesPrune DEF Next

\* The stored-bytes counter the quota check reads equals the size of the rows in
\* sync_operations, however uploads and prune chunks interleave; the clamp at
\* zero in the prune's credit is never needed.
THEOREM BytesMatchLogHolds == Spec => []BytesMatchLog
<1>1. TypeOK /\ LogGapFree /\ BytesMatchLog /\ [Next]_vars
        => (TypeOK /\ LogGapFree /\ BytesMatchLog)'
  BY TypeStep, BytesStep
<1>2. Init => TypeOK /\ LogGapFree /\ BytesMatchLog
  BY TypeInit, FS_EmptySet DEF Init, NoStats, BytesMatchLog
<1> QED  BY <1>1, <1>2, PTL DEF Spec
-------------------------------------------------------------------------------
(***************************************************************************)
(* What no step takes back.                                                *)
(***************************************************************************)
LEMMA ForwardStep ==
  ASSUME TypeOK, LogGapFree, OrderInv, CoverInv, [Next]_vars
  PROVE  Forward
<1>1. /\ alloc \in Nat /\ ack \in [Devices -> Nat] /\ lastSeq \in [Devices -> Nat]
      /\ snap.cursor \in Nat
  BY DEF TypeOK
<1>2. ledger \subseteq ledger'
  BY LedgerGrows
<1>3. ASSUME NEW d \in Devices, NEW b, ValidateBatch(d, b) \/ AbortBatch(d) PROVE Forward
  BY <1>1, <1>2, <1>3 DEF ValidateBatch, AbortBatch, logVars, otherVars, Forward
<1>4. ASSUME NEW d \in Devices, CommitBatch(d) PROVE Forward
  <2>1. UNCHANGED <<ack, snap>>
    BY <1>4, CommitCases DEF otherVars
  <2>2. CASE UNCHANGED logVars
    BY <1>1, <1>2, <2>1, <2>2 DEF logVars, Forward
  <2>3. ASSUME NEW n \in Nat \ {0}, NEW v \in [1 .. n -> 1 .. Len(tx[d].batch)],
               NEW a \in [1 .. n -> Ops], CommitEffect(d, n, v, a)
        PROVE  Forward
    <3>1. lastSeq[d] < a[n].seq /\ a[n] \in OpRecord
      BY <2>3, CommitRows, OpsAssumption DEF OrderInv
    <3>2. a[n].seq \in Nat
      BY <3>1 DEF OpRecord
    <3>3. \A e \in Devices : lastSeq[e] <= lastSeq'[e]
      BY <1>1, <2>3, <3>1, <3>2 DEF CommitEffect
    <3>4. \A c \in DOMAIN log : c \in DOMAIN log' /\ log'[c] = log[c]
      BY <1>1, <2>3 DEF CommitEffect, LogGapFree
    <3>5. alloc <= alloc'
      BY <1>1, <2>3 DEF CommitEffect
    <3> QED  BY <1>1, <1>2, <2>1, <3>3, <3>4, <3>5 DEF Forward
  <2> QED  BY <1>4, <2>2, <2>3, CommitCases
<1>5. ASSUME NEW d \in Devices, NEW c \in CursorsOf, DownloadBounds(d, c) PROVE Forward
  <2>1. \A e \in Devices : ack[e] <= ack'[e]
    BY <1>5, CoverDownload
  <2>2. UNCHANGED <<log, alloc, lastSeq, snap>>
    BY <1>5 DEF DownloadBounds, logVars
  <2> QED  BY <1>1, <1>2, <2>1, <2>2 DEF Forward
<1>6. ASSUME NEW d \in Devices, \/ SizePage(d) \/ FetchRows(d) \/ DropRequest(d)
                                \/ Touch(d) \/ Lapse(d)
      PROVE  Forward
  BY <1>1, <1>2, <1>6 DEF SizePage, FetchRows, DropRequest, Touch, Lapse, logVars, Forward
<1>7. ASSUME BeginCompaction PROVE Forward
  <2>1. UNCHANGED <<log, alloc, lastSeq, ack, snap>>
    BY <1>7 DEF BeginCompaction, logVars
  <2> QED  BY <1>1, <1>2, <2>1 DEF Forward
<1>8. ASSUME BuildSnapshot \/ CommitSnapshot \/ PruneChunk \/ Restart PROVE Forward
  <2>1. snap.cursor <= snap'.cursor
    BY <1>8, CoverCompact
  <2>2. UNCHANGED <<log, alloc, lastSeq, ack>>
    BY <1>8 DEF BuildSnapshot, CommitSnapshot, PruneChunk, Restart, logVars
  <2> QED  BY <1>1, <1>2, <2>1, <2>2 DEF Forward
<1>9. ASSUME UNCHANGED vars PROVE Forward
  BY <1>1, <1>2, <1>9 DEF vars, Forward
<1> QED  BY <1>3, <1>4, <1>5, <1>6, <1>7, <1>8, <1>9 DEF Next

\* No step of the server rewrites a stored operation or takes back a cursor, an
\* acknowledgement, a device's sequence or a snapshot.
THEOREM OnlyForwardHolds == Spec => OnlyForward
<1>1. /\ TypeOK /\ LogGapFree /\ OrderInv /\ CoverInv /\ [Next]_vars
      => (TypeOK /\ LogGapFree /\ OrderInv /\ CoverInv)'
  BY TypeStep, OrderStep, CoverStep
<1>2. Init => TypeOK /\ LogGapFree /\ OrderInv /\ CoverInv
  BY TypeInit, OrderInit, CoverInit
<1>3. TypeOK /\ LogGapFree /\ OrderInv /\ CoverInv /\ [Next]_vars => [Forward]_vars
  BY ForwardStep
<1>4. Spec => [][Forward]_vars
  BY <1>1, <1>2, <1>3, PTL DEF Spec
<1> QED  BY <1>4 DEF OnlyForward

-------------------------------------------------------------------------------
(***************************************************************************)
(* What a snapshot holds, and how far the quota can be overshot.           *)
(*                                                                         *)
(* NeverDeletedSurvives is not inductive: the snapshot being built must    *)
(* have the property before it is committed, and an object must not be     *)
(* hidden by a tombstone, or won by a delete, that no row of the log       *)
(* explains.  The log here is every row ever inserted, so this also covers *)
(* rows that were pruned.                                                  *)
(***************************************************************************)
\* A row of the log deleted object k.
WasDeleted(k) == \E e \in DOMAIN log : Key(log[e]) = k /\ IsTerminal(log[e])

\* A tombstone is active only where a delete was stored.
TombFromLog == \A k \in Keys : tomb[k].active => WasDeleted(k)

\* The object k of a snapshot is a stored operation about k.
RowOf(o, k) == \E c \in DOMAIN log : log[c] = o /\ Key(log[c]) = k
FromLog(objs) == \A k \in Keys : objs[k] = NoOp \/ RowOf(objs[k], k)

\* objs has every object that was touched up to cursor upto and never deleted.
Covers(objs, upto) ==
  \A c \in DOMAIN log :
    c <= upto /\ log[c].type # "historyVisit" /\ ~WasDeleted(Key(log[c]))
      => objs[Key(log[c])] # NoOp

SnapSurvives == snap.cursor <= alloc /\ FromLog(snap.objs) /\ Covers(snap.objs, snap.cursor)
JobSurvives  ==
  /\ job.pc # "idle" => job.upto <= alloc
  /\ job.pc = "built" => FromLog(job.objs) /\ Covers(job.objs, job.upto)

SurviveInv == TombFromLog /\ SnapSurvives /\ JobSurvives
-------------------------------------------------------------------------------
(***************************************************************************)
(* The latest of some rows exists.                                         *)
(***************************************************************************)
LEMMA KeyLessTransitive ==
  ASSUME NEW o \in OpRecord, NEW p \in OpRecord, NEW q \in OpRecord,
         KeyLess(o, p), KeyLess(p, q)
  PROVE  KeyLess(o, q)
<1>1. /\ o.lam \in Nat /\ p.lam \in Nat /\ q.lam \in Nat
      /\ o.seq \in Nat /\ p.seq \in Nat /\ q.seq \in Nat
      /\ DevRank[o.dev] \in Nat /\ DevRank[p.dev] \in Nat /\ DevRank[q.dev] \in Nat
  BY DevicesAssumption DEF OpRecord
<1> QED  BY <1>1 DEF KeyLess

\* Two rows of the log are the same operation or one is later: the ordering keys
\* of different devices differ in the device, those of one in the sequence.
LEMMA RowsComparable ==
  ASSUME TypeOK, LogGapFree, DeviceOrder, NEW c \in DOMAIN log, NEW e \in DOMAIN log
  PROVE  log[c] = log[e] \/ KeyLess(log[c], log[e]) \/ KeyLess(log[e], log[c])
<1>1. log[c] \in OpRecord /\ log[e] \in OpRecord
  BY OpsAssumption, ElementOfSeq, LenProperties DEF TypeOK
<1>2. /\ log[c].lam \in Nat /\ log[e].lam \in Nat
      /\ log[c].dev \in Devices /\ log[e].dev \in Devices
      /\ DevRank[log[c].dev] \in Nat /\ DevRank[log[e].dev] \in Nat
  BY <1>1, DevicesAssumption DEF OpRecord
<1>3. c \in Nat /\ e \in Nat
  BY DEF TypeOK, LogGapFree
<1>4. CASE log[c].dev # log[e].dev
  <2>1. DevRank[log[c].dev] # DevRank[log[e].dev]
    BY <1>2, <1>4, DevicesAssumption
  <2> QED  BY <1>2, <2>1 DEF KeyLess
<1>5. CASE log[c].dev = log[e].dev
  <2>1. c = e \/ log[c].seq < log[e].seq \/ log[e].seq < log[c].seq
    BY <1>3, <1>5 DEF DeviceOrder
  <2> QED  BY <1>2, <1>5, <2>1 DEF KeyLess
<1> QED  BY <1>4, <1>5

\* By the least cursor up to which it fails.
LEMMA LatestRow ==
  ASSUME TypeOK, LogGapFree, DeviceOrder, NEW R \in SUBSET (DOMAIN log), R # {}
  PROVE  Latest({log[x] : x \in R}) \in {log[x] : x \in R}
<1> DEFINE Upto(m) == {x \in R : x <= m}
           Tops(o, m) == \A p \in Upto(m) : log[p] = log[o] \/ KeyLess(log[p], log[o])
           Bad == {m \in 1 .. alloc : Upto(m) # {} /\ ~\E o \in Upto(m) : Tops(o, m)}
<1>1. alloc \in Nat /\ R \subseteq 1 .. alloc /\ DOMAIN log = 1 .. alloc
  BY DEF TypeOK, LogGapFree
<1>2. \A x \in R : log[x] \in OpRecord
  BY OpsAssumption, ElementOfSeq, LenProperties DEF TypeOK
<1>3. Bad = {}
  <2> SUFFICES ASSUME Bad # {} PROVE FALSE
    OBVIOUS
  <2>1. Bad \in SUBSET Nat
    BY <1>1
  <2>2. PICK m \in Bad : \A y \in Bad : m <= y
    <3> HIDE DEF Bad
    <3> QED  BY <2>1, NatMin
  <2>3. m \in 1 .. alloc /\ Upto(m) # {} /\ ~\E o \in Upto(m) : Tops(o, m)
    OBVIOUS
  <2>4. m - 1 \notin Bad
    BY <2>1, <2>2
  <2>5. Upto(m - 1) = Upto(m) \ {m}
    <3>1. m \in Nat /\ \A x \in R : x \in Nat
      BY <1>1, <2>3
    <3>2. \A x \in R : x <= m - 1 <=> x <= m /\ x # m
      <4> HIDE DEF Bad
      <4> QED  BY <3>1
    <3> QED  BY <3>2
  <2>6. m \in R
    <3> SUFFICES ASSUME m \notin R PROVE FALSE
      OBVIOUS
    <3>1. Upto(m - 1) = Upto(m)
      BY <2>5
    <3>2. m - 1 \in 1 .. alloc
      BY <1>1, <2>3, <3>1
    <3> QED  BY <2>3, <2>4, <3>1, <3>2
  <2>7. m \in Upto(m)
    BY <1>1, <2>6
  <2>8. CASE Upto(m - 1) = {}
    <3>1. Tops(m, m)
      BY <2>5, <2>8
    <3> QED  BY <2>3, <2>7, <3>1
  <2>9. CASE Upto(m - 1) # {}
    <3>1. m - 1 \in 1 .. alloc
      BY <1>1, <2>3, <2>9
    <3>2. PICK o \in Upto(m - 1) : Tops(o, m - 1)
      BY <2>4, <2>9, <3>1
    <3>3. o \in Upto(m) /\ o \in R
      BY <2>5
    <3>4. log[o] = log[m] \/ KeyLess(log[o], log[m]) \/ KeyLess(log[m], log[o])
      BY <2>6, <3>3, RowsComparable
    <3>5. CASE log[o] = log[m] \/ KeyLess(log[m], log[o])
      <4>1. Tops(o, m)
        BY <2>5, <3>2, <3>5
      <4> QED  BY <2>3, <3>3, <4>1
    <3>6. CASE KeyLess(log[o], log[m])
      <4>1. ASSUME NEW p \in Upto(m) PROVE log[p] = log[m] \/ KeyLess(log[p], log[m])
        <5>1. CASE p = m
          BY <5>1
        <5>2. CASE p # m
          <6>1. log[p] = log[o] \/ KeyLess(log[p], log[o])
            BY <2>5, <3>2, <5>2
          <6> QED  BY <1>2, <2>6, <3>3, <3>6, <6>1, KeyLessTransitive
        <5> QED  BY <5>1, <5>2
      <4> QED  BY <2>3, <2>7, <4>1
    <3> QED  BY <3>4, <3>5, <3>6
  <2> QED  BY <2>8, <2>9
<1>4. Upto(alloc) = R
  BY <1>1
<1>5. alloc \in 1 .. alloc
  BY <1>1
<1>6. PICK o \in R : \A p \in R : log[p] = log[o] \/ KeyLess(log[p], log[o])
  BY <1>3, <1>4, <1>5
<1> QED  BY <1>6 DEF Latest
-------------------------------------------------------------------------------
(***************************************************************************)
(* Snapshots.                                                              *)
(***************************************************************************)
\* The fold up to `upto`, which lies at or above the snapshot's cursor, holds
\* every object the snapshot or a later row has.
LEMMA FoldCovers ==
  ASSUME TypeOK, LogGapFree, DeviceOrder, PrunedCovered, SnapSurvives,
         NEW upto \in Nat, NEW h \in Nat
  PROVE  FromLog(Fold(snap, upto, h)) /\ Covers(Fold(snap, upto, h), upto)
<1> DEFINE F == Fold(snap, upto, h)
           rows(k) == { x \in stored : /\ snap.cursor < x /\ x <= upto
                                       /\ Key(log[x]) = k
                                       /\ ~(k[1] = "historyVisit" /\ x <= h) }
<1>1. \A k \in Keys : rows(k) \in SUBSET (DOMAIN log) /\ rows(k) \subseteq stored
  BY DEF TypeOK
<1>2. \A c \in DOMAIN log : log[c] \in Ops /\ c \in Nat
  BY ElementOfSeq, LenProperties DEF TypeOK, LogGapFree
<1>3. ASSUME NEW k \in Keys, rows(k) # {}
      PROVE  F[k] \in {log[x] : x \in rows(k)}
  <2>1. F[k] = Latest({log[x] : x \in rows(k)})
    BY <1>3 DEF Fold
  <2> HIDE DEF F, rows
  <2> QED  BY <1>1, <1>3, <2>1, LatestRow
<1>4. ASSUME NEW k \in Keys, rows(k) = {}
      PROVE  /\ F[k] = NoOp \/ F[k] = snap.objs[k]
             /\ k[1] # "historyVisit" => F[k] = snap.objs[k]
  BY <1>4 DEF Fold
<1>5. \A k \in Keys : \A x \in rows(k) : Key(log[x]) = k
  OBVIOUS
<1> HIDE DEF F
<1>6. FromLog(F)
  <2> SUFFICES ASSUME NEW k \in Keys PROVE F[k] = NoOp \/ RowOf(F[k], k)
    BY DEF FromLog
  <2>1. CASE rows(k) # {}
    <3>1. PICK x \in rows(k) : F[k] = log[x]
      BY <1>3, <2>1
    <3> QED  BY <1>1, <1>5, <3>1 DEF RowOf
  <2>2. CASE rows(k) = {}
    BY <1>4, <2>2 DEF SnapSurvives, FromLog
  <2> QED  BY <2>1, <2>2
<1>7. Covers(F, upto)
  <2> SUFFICES ASSUME NEW c \in DOMAIN log, c <= upto, log[c].type # "historyVisit",
                      ~WasDeleted(Key(log[c]))
               PROVE  F[Key(log[c])] # NoOp
    BY DEF Covers
  <2>1. PICK k \in Keys : k = Key(log[c]) /\ k[1] # "historyVisit"
    BY <1>2 DEF Keys, Key
  <2>2. CASE rows(k) # {}
    <3>1. PICK x \in rows(k) : F[k] = log[x]
      BY <1>3, <2>2
    <3> QED  BY <1>1, <1>2, <2>1, <3>1, OpsAssumption
  <2>3. CASE rows(k) = {}
    <3>1. c <= snap.cursor
      <4>1. CASE c \in stored
        <5>1. snap.cursor \in Nat /\ c \in Nat
          BY <1>2, NumberFacts
        <5> QED  BY <2>1, <2>3, <4>1, <5>1
      <4>2. CASE c \notin stored
        BY <4>2 DEF PrunedCovered
      <4> QED  BY <4>1, <4>2
    <3>2. snap.objs[k] # NoOp
      BY <2>1, <3>1 DEF SnapSurvives, Covers
    <3> QED  BY <1>4, <2>1, <2>3, <3>2
  <2> QED  BY <2>2, <2>3
<1> QED  BY <1>6, <1>7 DEF F

\* filter_tombstoned hides no object that was never deleted.
LEMMA LiveCovers ==
  ASSUME TypeOK, LogGapFree, TombFromLog, NEW objs, NEW upto,
         FromLog(objs), Covers(objs, upto)
  PROVE  FromLog(Live(objs)) /\ Covers(Live(objs), upto)
<1>1. \A k \in Keys : Live(objs)[k] = NoOp \/ Live(objs)[k] = objs[k]
  BY DEF Live
<1>2. FromLog(Live(objs))
  BY <1>1 DEF FromLog
<1>3. ASSUME NEW c \in DOMAIN log, c <= upto, log[c].type # "historyVisit",
             ~WasDeleted(Key(log[c]))
      PROVE  Live(objs)[Key(log[c])] # NoOp
  <2>1. PICK k \in Keys : k = Key(log[c])
    BY ElementOfSeq, LenProperties DEF TypeOK, Keys
  <2>2. objs[k] # NoOp
    BY <1>3, <2>1 DEF Covers
  <2>3. ~tomb[k].active
    BY <1>3, <2>1 DEF TombFromLog
  <2>4. ~IsTerminal(objs[k])
    BY <1>3, <2>1, <2>2 DEF FromLog, RowOf, WasDeleted
  <2>5. Live(objs)[k] = objs[k]
    BY <2>3, <2>4 DEF Live
  <2> QED  BY <2>1, <2>2, <2>5
<1> QED  BY <1>2, <1>3 DEF Covers

LEMMA SurviveUnchanged ==
  ASSUME SurviveInv, UNCHANGED <<log, alloc, tomb, snap, job>>
  PROVE  SurviveInv'
BY DEF SurviveInv, TombFromLog, SnapSurvives, JobSurvives, FromLog, RowOf, Covers, WasDeleted

\* An upload appends above the allocator, so above both snapshots, and an active
\* tombstone comes from a delete it appends or was active before.
LEMMA SurviveCommit ==
  ASSUME TypeOK, LogGapFree, SurviveInv, NEW d \in Devices, CommitBatch(d)
  PROVE  SurviveInv'
<1>1. UNCHANGED <<snap, job>>
  BY CommitCases DEF otherVars
<1>2. CASE UNCHANGED logVars
  BY <1>1, <1>2, SurviveUnchanged DEF logVars
<1>3. ASSUME NEW n \in Nat \ {0}, NEW v \in [1 .. n -> 1 .. Len(tx[d].batch)],
             NEW a \in [1 .. n -> Ops], CommitEffect(d, n, v, a)
      PROVE  SurviveInv'
  <2>1. /\ alloc \in Nat /\ snap.cursor \in Nat /\ job.upto \in Nat
        /\ DOMAIN log = 1 .. alloc /\ DOMAIN log' = 1 .. (alloc + n) /\ alloc' = alloc + n
    BY <1>3, NumberFacts DEF CommitEffect, LogGapFree
  <2>2. \A c \in DOMAIN log : c \in DOMAIN log' /\ log'[c] = log[c]
    BY <1>3, <2>1 DEF CommitEffect
  <2>3. \A c \in DOMAIN log' : c \notin DOMAIN log => c > alloc
    BY <2>1
  <2>4. \A c \in DOMAIN log' : c <= alloc => c \in DOMAIN log
    BY <2>1
  <2>5. \A k : WasDeleted(k) => WasDeleted(k)'
    BY <2>2 DEF WasDeleted
  <2>6. ASSUME NEW objs, FromLog(objs)
        PROVE  \A k \in Keys : \/ objs[k] = NoOp
                               \/ \E c \in DOMAIN log' : log'[c] = objs[k] /\ Key(log'[c]) = k
    BY <2>2, <2>6 DEF FromLog, RowOf
  <2>7. TombFromLog'
    <3> SUFFICES ASSUME NEW k \in Keys, tomb'[k].active
                 PROVE  \E e \in DOMAIN log' : Key(log'[e]) = k /\ IsTerminal(log'[e])
      BY DEF TombFromLog, WasDeleted
    <3>1. tomb' = TombWith(a)
      BY <1>3 DEF CommitEffect
    <3>2. k \in Deleted(a) \/ tomb[k].active
      BY <3>1 DEF TombWith
    <3>3. CASE tomb[k].active
      BY <2>2, <3>3 DEF SurviveInv, TombFromLog, WasDeleted
    <3>4. CASE k \in Deleted(a)
      <4>1. PICK j \in 1 .. n : IsTerminal(a[j]) /\ Key(a[j]) = k
        BY <3>4 DEF Deleted
      <4>2. alloc + j \in (alloc + 1) .. (alloc + n) /\ alloc + j \in DOMAIN log'
            /\ (alloc + j) - alloc = j
        BY <2>1
      <4>3. log'[alloc + j] = a[j]
        BY <1>3, <4>2 DEF CommitEffect
      <4> QED  BY <4>1, <4>2, <4>3
    <3> QED  BY <3>2, <3>3, <3>4
  <2>8. ASSUME NEW c \in DOMAIN log', c <= alloc, log'[c].type # "historyVisit",
               ~WasDeleted(Key(log[c]))'
        PROVE  /\ c \in DOMAIN log /\ log'[c] = log[c]
               /\ log[c].type # "historyVisit" /\ ~WasDeleted(Key(log[c]))
    <3>1. c \in DOMAIN log /\ log'[c] = log[c]
      BY <2>2, <2>4, <2>8
    <3>2. ~WasDeleted(Key(log[c]))
      BY <2>2, <2>5, <2>8, <3>1
    <3> QED  BY <2>8, <3>1, <3>2
  <2>9. SnapSurvives'
    <3>1. snap'.cursor <= alloc'
      <4>1. snap.cursor <= alloc /\ snap' = snap
        BY <1>1 DEF SurviveInv, SnapSurvives
      <4>2. n \in Nat
        OBVIOUS
      <4> QED  BY <2>1, <4>1, <4>2
    <3>2. FromLog(snap.objs)'
      <4>1. FromLog(snap.objs) /\ snap' = snap
        BY <1>1 DEF SurviveInv, SnapSurvives
      <4> QED  BY <2>6, <4>1 DEF FromLog, RowOf
    <3>3. Covers(snap.objs, snap.cursor)'
      <4> SUFFICES ASSUME NEW c \in DOMAIN log', c <= snap'.cursor,
                          log'[c].type # "historyVisit", ~WasDeleted(Key(log[c]))'
                   PROVE  snap'.objs[Key(log'[c])] # NoOp
        BY DEF Covers
      <4>1. c <= alloc /\ c <= snap.cursor
        BY <1>1, <2>1 DEF SurviveInv, SnapSurvives
      <4> QED  BY <1>1, <2>8, <4>1 DEF SurviveInv, SnapSurvives, Covers
    <3> QED  BY <3>1, <3>2, <3>3 DEF SnapSurvives
  <2>10. JobSurvives'
    <3>1. ASSUME job'.pc # "idle" PROVE job'.upto <= alloc'
      BY <1>1, <2>1, <3>1 DEF SurviveInv, JobSurvives
    <3>2. ASSUME job'.pc = "built" PROVE FromLog(job.objs)'
      <4>1. FromLog(job.objs) /\ job' = job
        BY <1>1, <3>2 DEF SurviveInv, JobSurvives
      <4> QED  BY <2>6, <4>1 DEF FromLog, RowOf
    <3>3. ASSUME job'.pc = "built" PROVE Covers(job.objs, job.upto)'
      <4> SUFFICES ASSUME NEW c \in DOMAIN log', c <= job'.upto,
                          log'[c].type # "historyVisit", ~WasDeleted(Key(log[c]))'
                   PROVE  job'.objs[Key(log'[c])] # NoOp
        BY DEF Covers
      <4>1. c <= alloc /\ c <= job.upto
        BY <1>1, <2>1, <3>3 DEF SurviveInv, JobSurvives
      <4> QED  BY <1>1, <2>8, <3>3, <4>1 DEF SurviveInv, JobSurvives, Covers
    <3> QED  BY <3>1, <3>2, <3>3 DEF JobSurvives
  <2> QED  BY <2>7, <2>9, <2>10 DEF SurviveInv
<1> QED  BY <1>2, <1>3, CommitCases

LEMMA SurviveCompact ==
  ASSUME TypeOK, LogGapFree, DeviceOrder, CoverInv, SurviveInv,
         BeginCompaction \/ BuildSnapshot \/ CommitSnapshot \/ PruneChunk \/ Restart
  PROVE  SurviveInv'
<1>1. UNCHANGED <<log, alloc, tomb>>
  BY DEF BeginCompaction, BuildSnapshot, CommitSnapshot, PruneChunk, Restart, logVars
<1>2. alloc \in Nat /\ stored \subseteq 1 .. alloc /\ snap.cursor \in Nat /\ job.upto \in Nat
  BY NumberFacts DEF TypeOK, LogGapFree
<1>3. TombFromLog'
  BY <1>1 DEF SurviveInv, TombFromLog, WasDeleted
<1>4. ASSUME UNCHANGED snap PROVE SnapSurvives'
  BY <1>1, <1>4 DEF SurviveInv, SnapSurvives, FromLog, RowOf, Covers, WasDeleted
<1>5. CASE BeginCompaction
  <2>1. PICK m \in stored \cup {0} : \E b \in 0 .. m :
          \/ job'.pc = "prune" /\ job'.upto = snap.cursor
          \/ job'.pc = "build" /\ job'.upto = b
    BY <1>5 DEF BeginCompaction, NoJob
  <2>2. m \in Nat /\ m <= alloc
    BY <1>2
  <2>3. job'.upto <= alloc /\ job'.pc # "built"
    BY <1>2, <2>1, <2>2 DEF SurviveInv, SnapSurvives
  <2>4. JobSurvives'
    BY <1>1, <2>3 DEF JobSurvives
  <2> QED  BY <1>3, <1>4, <1>5, <2>4 DEF BeginCompaction, SurviveInv
<1>6. CASE BuildSnapshot
  <2>1. PICK h \in 0 .. alloc :
          /\ job.pc = "build" /\ job'.upto = job.upto
          /\ job'.objs = Live(Fold(snap, job.upto, h))
    BY <1>6 DEF BuildSnapshot, TypeOK
  <2>2. h \in Nat
    BY <1>2
  <2>3. /\ FromLog(Fold(snap, job.upto, h)) /\ Covers(Fold(snap, job.upto, h), job.upto)
    BY <1>2, <2>2, FoldCovers DEF CoverInv, SurviveInv
  <2>4. /\ FromLog(Live(Fold(snap, job.upto, h)))
        /\ Covers(Live(Fold(snap, job.upto, h)), job.upto)
    BY <2>3, LiveCovers DEF SurviveInv
  <2>5. FromLog(job'.objs) /\ Covers(job'.objs, job'.upto)
    BY <2>1, <2>4
  <2>6. FromLog(job.objs)' /\ Covers(job.objs, job.upto)'
    BY <1>1, <2>5 DEF FromLog, RowOf, Covers, WasDeleted
  <2>7. job'.upto <= alloc'
    BY <1>1, <2>1 DEF SurviveInv, JobSurvives
  <2>8. JobSurvives'
    BY <2>6, <2>7 DEF JobSurvives
  <2> QED  BY <1>3, <1>4, <1>6, <2>8 DEF BuildSnapshot, SurviveInv
<1>7. CASE CommitSnapshot
  <2>1. /\ job.pc = "built" /\ job'.pc = "prune" /\ job'.upto = job.upto
        /\ snap'.cursor = job.upto /\ snap'.objs = job.objs
    BY <1>7 DEF CommitSnapshot, NoJob
  <2>2. job.upto <= alloc /\ FromLog(job.objs) /\ Covers(job.objs, job.upto)
    BY <2>1 DEF SurviveInv, JobSurvives
  <2>3. SnapSurvives'
    BY <1>1, <2>1, <2>2 DEF SnapSurvives, FromLog, RowOf, Covers, WasDeleted
  <2>4. JobSurvives'
    BY <1>1, <2>1, <2>2 DEF JobSurvives
  <2> QED  BY <1>3, <2>3, <2>4 DEF SurviveInv
<1>8. CASE PruneChunk
  <2>1. job.pc = "prune" /\ (job'.pc = "idle" \/ (job'.pc = "prune" /\ job'.upto = job.upto))
    BY <1>8 DEF PruneChunk, NoJob, TypeOK
  <2>2. JobSurvives'
    BY <1>1, <2>1 DEF SurviveInv, JobSurvives
  <2> QED  BY <1>3, <1>4, <1>8, <2>2 DEF PruneChunk, SurviveInv
<1>9. CASE Restart
  <2>1. job'.pc = "idle"
    BY <1>9 DEF Restart, NoJob
  <2> QED  BY <1>3, <1>4, <1>9, <2>1 DEF Restart, SurviveInv, JobSurvives
<1> QED  BY <1>5, <1>6, <1>7, <1>8, <1>9

LEMMA SurviveStep ==
  ASSUME TypeOK, LogGapFree, OrderInv, CoverInv, SurviveInv, [Next]_vars
  PROVE  SurviveInv'
<1>1. ASSUME NEW d \in Devices, NEW b, ValidateBatch(d, b) \/ AbortBatch(d)
      PROVE  SurviveInv'
  BY <1>1, SurviveUnchanged DEF ValidateBatch, AbortBatch, logVars, otherVars
<1>2. ASSUME NEW d \in Devices, NEW c, \/ DownloadBounds(d, c) \/ SizePage(d) \/ FetchRows(d)
                                       \/ DropRequest(d) \/ Touch(d) \/ Lapse(d)
      PROVE  SurviveInv'
  BY <1>2, SurviveUnchanged
     DEF DownloadBounds, SizePage, FetchRows, DropRequest, Touch, Lapse, logVars
<1>3. ASSUME UNCHANGED vars PROVE SurviveInv'
  BY <1>3, SurviveUnchanged DEF vars
<1>4. DeviceOrder
  BY DEF OrderInv
<1> QED  BY <1>1, <1>2, <1>3, <1>4, SurviveCommit, SurviveCompact DEF Next

LEMMA SurviveInit == Init => SurviveInv
<1> SUFFICES ASSUME Init PROVE SurviveInv
  OBVIOUS
<1>1. DOMAIN log = {}
  BY EmptySeq DEF Init
<1>2. \A k \in Keys : ~tomb[k].active /\ snap.objs[k] = NoOp
  BY DEF Init
<1>3. snap.cursor = 0 /\ alloc = 0 /\ job.pc = "idle"
  BY DEF Init, NoJob
<1> QED  BY <1>1, <1>2, <1>3 DEF SurviveInv, TombFromLog, SnapSurvives, JobSurvives,
                                 FromLog, Covers

\* Compaction never loses an object: what was touched at or before the cursor of
\* the committed snapshot and never deleted is in it, however uploads, prune
\* chunks, retention and restarts interleave with the build.
THEOREM NeverDeletedSurvivesHolds == Spec => []NeverDeletedSurvives
<1> DEFINE Inv == TypeOK /\ LogGapFree /\ OrderInv /\ CoverInv /\ SurviveInv
<1>1. Inv /\ [Next]_vars => Inv'
  BY TypeStep, OrderStep, CoverStep, SurviveStep
<1>2. Init => Inv
  BY TypeInit, OrderInit, CoverInit, SurviveInit
<1>3. SurviveInv => NeverDeletedSurvives
  BY DEF SurviveInv, SnapSurvives, Covers, WasDeleted, NeverDeletedSurvives
<1>4. Inv => NeverDeletedSurvives
  BY <1>3
<1> HIDE DEF Inv
<1> QED  BY <1>1, <1>2, <1>4, PTL DEF Spec
-------------------------------------------------------------------------------
(***************************************************************************)
(* Quota.  Each open upload that accepted something reserves a batch.      *)
(***************************************************************************)
\* The uploads that were validated below the quota and will store something.
Armed == {d \in Devices : \E i \in 1 .. Len(tx[d].batch) : tx[d].out[i] = "accept"}

TxBounded == \A d \in Devices : Len(tx[d].batch) <= MaxBatch
Reserved  == stats.bytes + MaxBatch * Cardinality(Armed) < Quota + MaxBatch * Cardinality(Devices)
QuotaInv  == TxBounded /\ Reserved

LEMMA BatchesMonotonic ==
  ASSUME NEW i \in Nat, NEW j \in Nat, i <= j
  PROVE  MaxBatch * i \in Nat /\ MaxBatch * i <= MaxBatch * j
BY BoundsAssumption

LEMMA OneBatchLess ==
  ASSUME NEW i \in Nat, i > 0
  PROVE  MaxBatch * (i - 1) = MaxBatch * i - MaxBatch /\ MaxBatch * (i - 1) \in Nat
BY BoundsAssumption

LEMMA SomeDevices ==
  ASSUME NEW S \in SUBSET Devices
  PROVE  /\ IsFiniteSet(S) /\ Cardinality(S) \in Nat
         /\ Cardinality(Devices) \in Nat /\ Cardinality(S) <= Cardinality(Devices)
BY DevicesAssumption, FS_Subset, FS_CardinalityType

\* A step that arms no upload and stores no bytes.
LEMMA QuotaShrinks ==
  ASSUME TypeOK, TypeOK', QuotaInv, stats'.bytes <= stats.bytes,
         \A d \in Devices : tx'[d] = tx[d] \/ tx'[d] = NoTx
  PROVE  QuotaInv'
<1>1. TxBounded'
  BY NoTxType, BoundsAssumption DEF QuotaInv, TxBounded
<1>2. Armed' \in SUBSET Armed /\ Armed \in SUBSET Devices
  BY NoTxType DEF Armed
<1>3. /\ IsFiniteSet(Armed) /\ Cardinality(Armed) \in Nat
      /\ IsFiniteSet(Armed') /\ Cardinality(Armed') \in Nat
      /\ Cardinality(Devices) \in Nat
  BY <1>2, SomeDevices
<1>4. Cardinality(Armed') <= Cardinality(Armed)
  BY <1>2, <1>3, FS_Subset
<1>5. /\ MaxBatch * Cardinality(Armed) \in Nat /\ MaxBatch * Cardinality(Armed') \in Nat
      /\ MaxBatch * Cardinality(Armed') <= MaxBatch * Cardinality(Armed)
      /\ MaxBatch * Cardinality(Devices) \in Nat
  BY <1>3, <1>4, BatchesMonotonic
<1>6. stats.bytes \in Nat /\ stats'.bytes \in Nat /\ Quota \in Nat
  BY BoundsAssumption DEF TypeOK
<1>7. Reserved'
  BY <1>5, <1>6 DEF QuotaInv, Reserved
<1> QED  BY <1>1, <1>7 DEF QuotaInv

LEMMA QuotaValidate ==
  ASSUME TypeOK, TypeOK', QuotaInv, NEW d \in Devices, NEW b \in BatchesOf(d),
         ValidateBatch(d, b)
  PROVE  QuotaInv'
<1>1. PICK out \in [1 .. Len(b) -> Verdicts] :
        /\ tx'[d] = [batch |-> b, out |-> out]
        /\ \A e \in Devices \ {d} : tx'[e] = tx[e]
        /\ \A i \in 1 .. Len(b) : out[i] = Verdict(d, b, out, i)
        /\ UNCHANGED <<logVars, otherVars>>
        /\ b \in Seq(Ops)
  BY Validated
<1>2. Len(b) \in 1 .. MaxBatch /\ MaxBatch \in Nat /\ Quota \in Nat
  BY BoundsAssumption DEF ValidateBatch
<1>3. TxBounded'
  BY <1>1, <1>2 DEF QuotaInv, TxBounded
<1>4. stats' = stats /\ stats.bytes \in Nat
  BY <1>1, NumberFacts DEF logVars
<1>5. Armed \in SUBSET Devices /\ Armed' \in SUBSET Devices
  BY DEF Armed
<1>6. CASE \E i \in 1 .. Len(b) : out[i] = "accept"
  <2>1. ~(stats.bytes >= Quota)
    BY <1>1, <1>6, Accepted DEF QuotaExceeded
  <2>2. MaxBatch * Cardinality(Armed') <= MaxBatch * Cardinality(Devices)
        /\ MaxBatch * Cardinality(Armed') \in Nat /\ MaxBatch * Cardinality(Devices) \in Nat
    BY <1>5, SomeDevices, BatchesMonotonic
  <2>3. Reserved'
    BY <1>2, <1>4, <2>1, <2>2 DEF Reserved
  <2> QED  BY <1>3, <2>3 DEF QuotaInv
<1>7. CASE ~\E i \in 1 .. Len(b) : out[i] = "accept"
  <2>1. Armed' \in SUBSET Armed
    <3>1. \A e \in Devices : e \in Armed' => e # d
      BY <1>1, <1>7 DEF Armed
    <3> QED  BY <1>1, <3>1 DEF Armed
  <2>2. /\ IsFiniteSet(Armed) /\ Cardinality(Armed) \in Nat
        /\ IsFiniteSet(Armed') /\ Cardinality(Armed') \in Nat
        /\ Cardinality(Devices) \in Nat
    BY <1>5, SomeDevices
  <2>3. Cardinality(Armed') <= Cardinality(Armed)
    BY <2>1, <2>2, FS_Subset
  <2>4. /\ MaxBatch * Cardinality(Armed) \in Nat /\ MaxBatch * Cardinality(Armed') \in Nat
        /\ MaxBatch * Cardinality(Armed') <= MaxBatch * Cardinality(Armed)
        /\ MaxBatch * Cardinality(Devices) \in Nat
    BY <2>2, <2>3, BatchesMonotonic
  <2>5. Reserved'
    BY <1>2, <1>4, <2>4 DEF QuotaInv, Reserved
  <2> QED  BY <1>3, <2>5 DEF QuotaInv
<1> QED  BY <1>6, <1>7

\* A commit stores at most the batch it had reserved, and gives it up.
LEMMA QuotaCommit ==
  ASSUME TypeOK, TypeOK', LogGapFree, QuotaInv, NEW d \in Devices, CommitBatch(d)
  PROVE  QuotaInv'
<1>1. tx \in [Devices -> [batch : Seq(Ops), out : Seq(Verdicts)]]
  BY DEF TypeOK
<1>2. tx'[d] = NoTx /\ \A e \in Devices \ {d} : tx'[e] = tx[e]
  BY <1>1, CommitCases
<1>3. stats.bytes \in Nat /\ stats'.bytes \in Nat /\ Quota \in Nat /\ MaxBatch \in Nat
  BY BoundsAssumption DEF TypeOK
<1>4. CASE UNCHANGED logVars
  <2>1. stats'.bytes <= stats.bytes
    BY <1>3, <1>4 DEF logVars
  <2> QED  BY <1>2, <2>1, QuotaShrinks
<1>5. ASSUME NEW n \in Nat \ {0}, NEW v \in [1 .. n -> 1 .. Len(tx[d].batch)],
             NEW a \in [1 .. n -> Ops], CommitEffect(d, n, v, a)
      PROVE  QuotaInv'
  <2>1. v \in Seq(1 .. Len(tx[d].batch)) /\ Len(v) = n /\ Len(tx[d].batch) \in Nat
    BY FunctionIsSeq, TxFacts
  <2>2. n <= Len(tx[d].batch)
    <3>1. \A k, l \in 1 .. n : k < l => v[k] < v[l]
      BY <1>5, <2>1 DEF CommitEffect, IsAcceptedIndices
    <3>2. \A k \in 1 .. n : v[k] \in Nat
      BY <2>1
    <3>3. \A k, l \in 1 .. n : v[k] = v[l] => k = l
      <4> SUFFICES ASSUME NEW k \in 1 .. n, NEW l \in 1 .. n, v[k] = v[l], k # l PROVE FALSE
        OBVIOUS
      <4>1. k < l \/ l < k
        OBVIOUS
      <4> QED  BY <3>1, <3>2, <4>1
    <3>4. v \in Injection(1 .. n, 1 .. Len(tx[d].batch))
      BY <3>3, Fun_IsInj
    <3>5. /\ IsFiniteSet(1 .. n) /\ Cardinality(1 .. n) = n
          /\ IsFiniteSet(1 .. Len(tx[d].batch))
          /\ Cardinality(1 .. Len(tx[d].batch)) = Len(tx[d].batch)
      BY <2>1, FS_Interval
    <3> QED  BY <3>4, <3>5, FS_Injection
  <2>3. n <= MaxBatch
    BY <1>3, <2>1, <2>2 DEF QuotaInv, TxBounded
  <2>4. stats'.bytes = stats.bytes + n
    <3>1. stats' = StatsWith(a) /\ Len(a) = n
      BY <1>5, FunctionIsSeq DEF CommitEffect
    <3> QED  BY <3>1 DEF StatsWith
  <2>5. d \in Armed
    <3>1. 1 \in 1 .. n /\ v[1] \in 1 .. Len(tx[d].batch)
      OBVIOUS
    <3>2. tx[d].out[v[1]] = "accept"
      BY <1>5, <2>1, <3>1 DEF CommitEffect, IsAcceptedIndices
    <3> QED  BY <3>1, <3>2 DEF Armed
  <2>6. Armed' = Armed \ {d}
    <3>1. \A e \in Devices : e \in Armed' => e # d
      BY <1>2, NoTxType DEF Armed
    <3>2. \A e \in Devices \ {d} : e \in Armed' <=> e \in Armed
      BY <1>2 DEF Armed
    <3>3. Armed \in SUBSET Devices /\ Armed' \in SUBSET Devices
      BY DEF Armed
    <3> QED  BY <3>1, <3>2, <3>3
  <2>7. /\ IsFiniteSet(Armed) /\ Cardinality(Armed) \in Nat /\ Cardinality(Devices) \in Nat
        /\ Cardinality(Armed') \in Nat
    <3>1. Armed \in SUBSET Devices /\ Armed' \in SUBSET Devices
      BY DEF Armed
    <3> QED  BY <3>1, SomeDevices
  <2>8. Cardinality(Armed') = Cardinality(Armed) - 1
    BY <2>5, <2>6, <2>7, FS_RemoveElement
  <2>9. /\ MaxBatch * Cardinality(Armed') = MaxBatch * Cardinality(Armed) - MaxBatch
        /\ MaxBatch * Cardinality(Armed) \in Nat
        /\ MaxBatch * Cardinality(Devices) \in Nat
    <3>1. Cardinality(Armed) > 0
      BY <2>7, <2>8
    <3> QED  BY <2>7, <2>8, <3>1, OneBatchLess, BatchesMonotonic
  <2>10. Reserved'
    BY <1>3, <2>3, <2>4, <2>9 DEF QuotaInv, Reserved
  <2>11. TxBounded'
    <3>1. Len(tx'[d].batch) <= MaxBatch
      BY <1>2, <1>3, NoTxType
    <3>2. \A e \in Devices \ {d} : Len(tx'[e].batch) <= MaxBatch
      BY <1>2 DEF QuotaInv, TxBounded
    <3> QED  BY <3>1, <3>2 DEF TxBounded
  <2> QED  BY <2>10, <2>11 DEF QuotaInv
<1> QED  BY <1>4, <1>5, CommitCases

LEMMA QuotaStep ==
  ASSUME TypeOK, LogGapFree, TypeOK', QuotaInv, [Next]_vars
  PROVE  QuotaInv'
<1>1. stats.bytes \in Nat /\ stats \in [bookmarks : Nat, tabs : Nat, bytes : Nat, visits : Nat]
  BY DEF TypeOK
<1>2. tx \in [Devices -> [batch : Seq(Ops), out : Seq(Verdicts)]]
  BY DEF TypeOK
<1>3. ASSUME NEW d \in Devices, AbortBatch(d) PROVE QuotaInv'
  BY <1>1, <1>2, <1>3, QuotaShrinks DEF AbortBatch, logVars
<1>4. ASSUME NEW d \in Devices, NEW c, \/ DownloadBounds(d, c) \/ SizePage(d) \/ FetchRows(d)
                                       \/ DropRequest(d) \/ Touch(d) \/ Lapse(d)
      PROVE  QuotaInv'
  BY <1>1, <1>4, QuotaShrinks
     DEF DownloadBounds, SizePage, FetchRows, DropRequest, Touch, Lapse, logVars
<1>5. ASSUME BeginCompaction \/ BuildSnapshot \/ Restart PROVE QuotaInv'
  <2>1. stats' = stats
    BY <1>5 DEF BeginCompaction, BuildSnapshot, Restart, logVars
  <2>2. \A d \in Devices : tx'[d] = tx[d] \/ tx'[d] = NoTx
    BY <1>5 DEF BeginCompaction, BuildSnapshot, Restart
  <2>3. stats'.bytes <= stats.bytes
    BY <1>1, <2>1
  <2> QED  BY <2>2, <2>3, QuotaShrinks
<1>6. ASSUME CommitSnapshot PROVE QuotaInv'
  <2>1. stats'.bytes <= stats.bytes /\ tx' = tx
    BY <1>1, <1>6 DEF CommitSnapshot
  <2> QED  BY <2>1, QuotaShrinks
<1>7. ASSUME PruneChunk PROVE QuotaInv'
  <2>1. PICK del \in SUBSET stored :
          stats' = [stats EXCEPT !.bytes = AtLeastZero(@, Cardinality(del))]
    BY <1>7 DEF PruneChunk
  <2>2. Cardinality(del) \in Nat
    BY RowCount
  <2>3. stats'.bytes = AtLeastZero(stats.bytes, Cardinality(del))
    BY <1>1, <2>1
  <2>4. stats'.bytes <= stats.bytes
    BY <1>1, <2>2, <2>3 DEF AtLeastZero
  <2>5. tx' = tx
    BY <1>7 DEF PruneChunk
  <2> QED  BY <2>4, <2>5, QuotaShrinks
<1>8. ASSUME UNCHANGED vars PROVE QuotaInv'
  BY <1>1, <1>8, QuotaShrinks DEF vars
<1> QED  BY <1>3, <1>4, <1>5, <1>6, <1>7, <1>8, QuotaValidate, QuotaCommit DEF Next

LEMMA QuotaInit == Init => QuotaInv
<1> SUFFICES ASSUME Init PROVE QuotaInv
  OBVIOUS
<1>1. Armed = {} /\ TxBounded
  BY NoTxType, BoundsAssumption DEF Init, Armed, TxBounded
<1>2. Cardinality(Armed) = 0
  BY <1>1, FS_EmptySet
<1>3. Cardinality(Devices) \in Nat /\ Cardinality(Devices) > 0
  BY DevicesAssumption, FS_CardinalityType, FS_EmptySet
<1>4. MaxBatch * Cardinality(Devices) > 0 /\ MaxBatch * Cardinality(Devices) \in Nat
  BY <1>3, BoundsAssumption
<1>5. MaxBatch * 0 = 0 /\ Quota \in Nat
  BY BoundsAssumption
<1>6. Reserved
  BY <1>2, <1>4, <1>5 DEF Init, NoStats, Reserved
<1> QED  BY <1>1, <1>6 DEF QuotaInv

\* Validation reads the stored bytes without a lock, so uploads of several
\* devices can pass the quota check together; the account is still never more
\* than one batch per device above its quota.
THEOREM QuotaOvershootBoundedHolds == Spec => []QuotaOvershootBounded
<1> DEFINE Inv == TypeOK /\ LogGapFree /\ QuotaInv
<1>1. Inv /\ [Next]_vars => Inv'
  BY TypeStep, QuotaStep
<1>2. Init => Inv
  BY TypeInit, QuotaInit
<1>3. Inv => QuotaOvershootBounded
  <2> SUFFICES ASSUME TypeOK, QuotaInv PROVE QuotaOvershootBounded
    OBVIOUS
  <2>1. Armed \in SUBSET Devices
    BY DEF Armed
  <2>2. MaxBatch * Cardinality(Armed) \in Nat /\ MaxBatch * Cardinality(Devices) \in Nat
    BY <2>1, SomeDevices, BatchesMonotonic
  <2>3. stats.bytes \in Nat /\ Quota \in Nat
    BY NumberFacts, BoundsAssumption
  <2> QED  BY <2>2, <2>3 DEF QuotaInv, Reserved, QuotaOvershootBounded
<1> HIDE DEF Inv
<1> QED  BY <1>1, <1>2, <1>3, PTL DEF Spec
===============================================================================
