----------------------------- MODULE UploadProofs -----------------------------
(***************************************************************************)
(* Upload end to end: who owns a row in flight, what the server is sent,   *)
(* and why an operation is never lost without having been refused.         *)
(*                                                                         *)
(* A step of the server in UploadProtocol is a step of SyncServer as well, *)
(* except for the bound on open requests, so the lemmas about its actions  *)
(* are used one by one.                                                    *)
(***************************************************************************)
EXTENDS UploadProtocol, SyncServerProofs

\* The operations of device d that pass through its queue.
LocalOps(d) == {op \in Ops : op.dev = d /\ ~IsBulkHistoryImport(op)}

Phases == {"idle", "picked", "sent", "serving", "answered", "judged"}

CallRecord ==
  [pc : Phases, batch : Seq(Ops), read : Seq(Nat), full : BOOLEAN, out : Seq(Verdicts)]

Ascending(b) == \A i, j \in 1 .. Len(b) : i < j => b[i].seq < b[j].seq

\* b is a batch the server can be sent by device d.
Request(d, b) ==
  /\ b \in Seq(Ops) /\ Len(b) \in 1 .. MaxBatch
  /\ \A i \in 1 .. Len(b) : b[i].dev = d
  /\ Ascending(b)

\* No chunk of the import is ever refused as unknown: it originates its object.
Answers(k) ==
  /\ Len(k.out) = Len(k.batch)
  /\ \A i \in 1 .. Len(k.batch) :
       k.out[i] = "object_not_found" => ~IsBulkHistoryImport(k.batch[i])

CallOk(d, k) ==
  /\ k \in CallRecord
  /\ k.pc = "idle" => k = Queue!NoCall
  /\ k.pc # "idle" => Request(d, k.batch)
  /\ k.pc = "picked" => \A i \in 1 .. Len(k.batch) : ~IsBulkHistoryImport(k.batch[i])
  /\ \/ Len(k.read) = Len(k.batch)
     \/ \A i \in 1 .. Len(k.batch) : IsBulkHistoryImport(k.batch[i])
  /\ k.pc \in {"answered", "judged"} => Answers(k)

CallsOk ==
  /\ call \in [Devices -> [Callers -> CallRecord]]
  /\ \A d \in Devices, c \in Callers : CallOk(d, call[d][c])

StraysOk ==
  /\ stray \in [Devices -> [pc : {"idle", "sent", "serving"}, batch : Seq(Ops)]]
  /\ \A d \in Devices : stray[d].pc # "idle" => Request(d, stray[d].batch)

\* The rows and counters of the client.
RowsOk ==
  /\ drafts \in [Devices -> SUBSET (SUBSET Ops)]
  /\ queue \in [Devices -> SUBSET Ops]
  /\ flight \in [Devices -> SUBSET Ops]
  /\ \A d \in Devices : /\ queue[d] \subseteq LocalOps(d)
                        /\ flight[d] \subseteq LocalOps(d)
                        /\ \A run \in drafts[d] : run \subseteq LocalOps(d)
CountersOk ==
  /\ seqno \in [Devices -> Nat]
  /\ tries \in [Ops -> Nat]
  /\ skip \in [Devices -> [Callers -> SUBSET Ops]]
  /\ drained \in [Devices -> BOOLEAN]
  /\ done \in [Devices -> SUBSET Ops]
  /\ dropped \in [Devices -> SUBSET Ops]

\* The request the server is working on is the one of the call that waits for
\* it, or the one nobody waits for, and there is one at a time.
ServingOk ==
  \A d \in Devices :
    /\ \A c \in Callers : call[d][c].pc = "serving" =>
         /\ tx[d] # NoTx /\ tx[d].batch = call[d][c].batch
         /\ stray[d].pc # "serving"
         /\ \A e \in Callers : call[d][e].pc = "serving" => e = c
    /\ stray[d].pc = "serving" => tx[d] # NoTx /\ tx[d].batch = stray[d].batch

\* A validated upload ascends, and refuses no operation that originates.
TxOk ==
  \A d \in Devices :
    /\ Ascending(tx[d].batch)
    /\ \A i \in 1 .. Len(tx[d].batch) :
         /\ tx[d].out[i] # "sequence_out_of_order"
         /\ tx[d].out[i] = "object_not_found" => ~IsOrigination(tx[d].batch[i])

\* The import waits for its chunk to be sent with no call open.
DrainedOk ==
  \A d \in Devices : drained[d] /\ "import" \in Callers => call[d]["import"] = Queue!NoCall

UploadInv ==
  /\ TypeOK /\ LogGapFree
  /\ CallsOk /\ StraysOk /\ RowsOk /\ CountersOk
  /\ ServingOk /\ TxOk /\ DrainedOk
  /\ InFlightOwned

(***************************************************************************)
(* A device on which only the capture and the cycle have run.              *)
(***************************************************************************)
InLog(op)     == \E c \in DOMAIN log : log[c] = op
Explained(op) == InLog(op) \/ op \in refused

\* The operations of the device's requests, of each open call, of the one nobody
\* waits for and of the one at the server; the operations the device still
\* holds; and both.
Asked(d) ==
  {Queue!Elements(call[d][c].batch) : c \in Callers}
    \cup {Queue!Elements(stray[d].batch), Queue!Elements(tx[d].batch)}
Alive(d) ==
  {op \in Ops : \/ op \in queue[d] \cup flight[d]
                \/ \E c \in Callers : op \in Queue!Elements(call[d][c].batch)}
Seen(d)  == Alive(d) \cup UNION Asked(d)

\* Nothing but the cycle uploads.
Alone(d) == ~drained[d] /\ \A c \in Callers \ {"cycle"} : call[d][c] = Queue!NoCall

\* The device's operations have sequences of their own, those of the one batch
\* being created the highest, and none is a chunk of the import.
Numbered(d) ==
  /\ \A x \in Seen(d) : ~IsBulkHistoryImport(x) /\ x.seq <= seqno[d]
  /\ \A x, y \in Seen(d) : x.seq = y.seq => x = y
  /\ lastSeq[d] <= seqno[d]
  /\ \A run, other \in drafts[d] : run = other
  /\ \A run \in drafts[d] : /\ \A x, y \in run : x.seq = y.seq => x = y
                            /\ \A x \in run : /\ lastSeq[d] < x.seq /\ x.seq <= seqno[d]
                                              /\ \A y \in Seen(d) : y.seq < x.seq

\* What a request passes over was refused: getPendingOperations takes the lowest
\* sequences, and skips only what was refused in the same call.
Front(d, B) == \A x \in Alive(d), y \in B : x.seq < y.seq /\ x \notin B => x \in refused
Fronts(d) ==
  /\ \A B \in Asked(d) : Front(d, B)
  /\ \A c \in Callers : skip[d][c] \subseteq refused

\* The device's sequence at the server passed an operation only if it was stored
\* or refused, so the replay check takes no other for a duplicate.
Valid(op) == ShapeOk(op) /\ op.seq >= 1
Passed(d) == \A x \in Alive(d) : x.seq <= lastSeq[d] /\ Valid(x) => Explained(x)

\* What the verdicts of the upload being committed rest on.
TxRests(d) ==
  \A i \in 1 .. Len(tx[d].batch) :
    /\ tx[d].out[i] = "duplicate" =>
         InLog(tx[d].batch[i]) \/ (tx[d].batch[i].seq <= lastSeq[d] /\ Valid(tx[d].batch[i]))
    /\ tx[d].out[i] \in {"malformed", "invalid_device_sequence"} => ~Valid(tx[d].batch[i])
    /\ tx[d].out[i] = "storage_quota_exceeded" =>
         \A j \in 1 .. Len(tx[d].batch) : tx[d].out[j] # "accept"

\* An answer says what happened.
Answered(d) ==
  \A c \in Callers : call[d][c].pc \in {"answered", "judged"} =>
    \A i \in 1 .. Len(call[d][c].batch) :
      /\ call[d][c].out[i] \in {"accept", "duplicate"} => Explained(call[d][c].batch[i])
      /\ call[d][c].out[i] = "object_not_found" => call[d][c].batch[i] \in refused

LossInv(d) ==
  /\ Alone(d) /\ Numbered(d) /\ Fronts(d) /\ Passed(d) /\ TxRests(d) /\ Answered(d)
  /\ \A op \in done[d] : Explained(op)

AllLossInv == MaxProducers = 1 => \A d \in Devices \ ran : LossInv(d)
-------------------------------------------------------------------------------
LEMMA Idle == Queue!NoCall \in CallRecord /\ \A d \in Devices : CallOk(d, Queue!NoCall)
BY EmptySeq DEF Queue!NoCall, CallRecord, Phases, CallOk

LEMMA SameCardinality == \A S : Queue!Cardinality(S) = Cardinality(S)
BY DEF Queue!Cardinality, Cardinality

LEMMA SameImport == \A op : Queue!IsBulkHistoryImport(op) <=> IsBulkHistoryImport(op)
BY DEF Queue!IsBulkHistoryImport, IsBulkHistoryImport

LEMMA RequestIsBatch ==
  ASSUME NEW d \in Devices, NEW b, Request(d, b)
  PROVE  b \in BatchesOf(d)
<1>1. b \in Seq(Ops) /\ Len(b) \in 1 .. MaxBatch
  BY DEF Request
<1>2. b \in [1 .. Len(b) -> {op \in Ops : op.dev = d}]
  BY <1>1, LenProperties, ElementOfSeq DEF Request
<1> QED  BY <1>1, <1>2 DEF BatchesOf


LEMMA OpFacts == \A op \in Ops : op.seq \in Nat /\ op.dev \in Devices
BY OpsAssumption DEF OpRecord

LEMMA ElementFacts ==
  ASSUME NEW S, NEW b \in Seq(S)
  PROVE  /\ Queue!Elements(b) \subseteq S /\ Len(b) \in Nat
         /\ \A i \in 1 .. Len(b) : b[i] \in S /\ b[i] \in Queue!Elements(b)
BY ElementOfSeq, LenProperties DEF Queue!Elements

\* An ascending batch holds an operation once.
LEMMA Distinct ==
  ASSUME NEW b \in Seq(Ops), Ascending(b), NEW i \in 1 .. Len(b), NEW j \in 1 .. Len(b),
         b[i] = b[j]
  PROVE  i = j
<1>1. b[i].seq \in Nat /\ b[j].seq \in Nat /\ i \in Nat /\ j \in Nat
  BY ElementFacts, OpsAssumption DEF OpRecord
<1>2. i < j \/ j < i \/ i = j
  BY <1>1
<1> QED  BY <1>1, <1>2 DEF Ascending

\* The effect on the calls of setting one of them to k.
Sets(d, c, k) ==
  /\ call' \in [Devices -> [Callers -> CallRecord]]
  /\ call'[d][c] = k
  /\ \A e \in Callers \ {c} : call'[d][e] = call[d][e]
  /\ \A f \in Devices \ {d} : call'[f] = call[f]

LEMMA SetsOne ==
  ASSUME CallsOk, NEW d \in Devices, NEW c \in Callers, NEW k \in CallRecord,
         call' = [call EXCEPT ![d][c] = k]
  PROVE  Sets(d, c, k)
BY DEF CallsOk, Sets

\* Call k works on operation op, which is in flight.
Owns(k, op) ==
  \E i \in 1 .. Len(k.batch) :
    /\ k.batch[i] = op
    /\ k.pc # "picked"
    /\ k.pc = "judged" => k.out[i] \notin {"accept", "duplicate"}

LEMMA OwnedAgain ==
  ASSUME InFlightOwned, RowsOk, NEW d \in Devices, NEW c \in Callers, NEW k, Sets(d, c, k),
         \A f \in Devices \ {d} : flight'[f] = flight[f],
         \A op \in flight'[d] : (op \in flight[d] /\ ~Owns(call[d][c], op)) \/ Owns(k, op)
  PROVE  InFlightOwned'
<1> SUFFICES ASSUME NEW f \in Devices, NEW op \in flight'[f]
             PROVE  \E e \in Callers : Owns(call'[f][e], op)
  BY DEF InFlightOwned, Owns
<1>1. CASE f # d
  <2>1. \E e \in Callers : Owns(call[f][e], op)
    BY <1>1 DEF InFlightOwned, Owns
  <2> QED  BY <1>1, <2>1 DEF Sets
<1>2. CASE f = d /\ Owns(k, op)
  BY <1>2 DEF Sets
<1>3. CASE f = d /\ op \in flight[d] /\ ~Owns(call[d][c], op)
  <2>1. PICK e \in Callers : Owns(call[d][e], op)
    BY <1>3 DEF InFlightOwned, Owns
  <2> QED  BY <1>3, <2>1 DEF Sets
<1> QED  BY <1>1, <1>2, <1>3

\* The parts of the invariant that a step of one call leaves alone.
LEMMA CallStepKeeps ==
  ASSUME UploadInv, NEW d \in Devices, NEW c \in Callers, NEW k, CallOk(d, k),
         k.pc # "serving", Sets(d, c, k), UNCHANGED <<vars, stray>>
  PROVE  TypeOK' /\ LogGapFree' /\ CallsOk' /\ StraysOk' /\ ServingOk' /\ TxOk'
<1>1. UNCHANGED <<tx, stray>>
  BY DEF vars
<1>2. TypeOK' /\ LogGapFree'
  BY TypeStep DEF UploadInv
<1>3. CallsOk'
  BY DEF UploadInv, CallsOk, Sets
<1>4. StraysOk' /\ TxOk'
  BY <1>1 DEF UploadInv, StraysOk, TxOk
<1>5. ServingOk'
  <2>1. \A f \in Devices, e \in Callers :
          call'[f][e].pc = "serving" => call'[f][e] = call[f][e] /\ <<f, e>> # <<d, c>>
    BY DEF Sets
  <2>2. \A f \in Devices : stray'[f] = stray[f] /\ tx'[f] = tx[f]
    BY <1>1
  <2> QED  BY <2>1, <2>2 DEF UploadInv, ServingOk
<1> QED  BY <1>2, <1>3, <1>4, <1>5
-------------------------------------------------------------------------------
(***************************************************************************)
(* Steps of a call.                                                        *)
(***************************************************************************)
\* Writing rows back keeps the attempts numbers.
LEMMA WriteBackType ==
  ASSUME CountersOk, NEW d \in Devices, NEW k, CallOk(d, k), NEW more \in Nat,
         NEW rows \in SUBSET Queue!Elements(k.batch),
         \A op \in rows : ~IsBulkHistoryImport(op)
  PROVE  Queue!WriteBack(k, rows, more) \in [Ops -> Nat]
<1>1. tries \in [Ops -> Nat] /\ k.read \in Seq(Nat) /\ k.batch \in Seq(Ops)
  BY DEF CountersOk, CallOk, CallRecord
<1>2. ASSUME NEW op \in rows
      PROVE  k.read[CHOOSE i \in 1 .. Len(k.batch) : k.batch[i] = op] + more \in Nat
  <2>1. \E i \in 1 .. Len(k.batch) : k.batch[i] = op
    BY DEF Queue!Elements
  <2>2. PICK j \in 1 .. Len(k.batch) :
          j = CHOOSE i \in 1 .. Len(k.batch) : k.batch[i] = op
    BY <2>1
  <2>3. Len(k.read) = Len(k.batch)
    BY <1>2, <2>1 DEF CallOk
  <2>4. k.read[j] \in Nat
    BY <1>1, <2>3, ElementOfSeq
  <2> QED  BY <2>2, <2>4
<1> QED  BY <1>1, <1>2 DEF Queue!WriteBack

LEMMA PickCases ==
  ASSUME UploadInv, NEW d \in Devices, NEW c \in Callers, Queue!PickBatch(d, c)
  PROVE  \E k \in CallRecord :
           /\ Sets(d, c, k) /\ CallOk(d, k) /\ k.pc = "picked"
           /\ Queue!IsPendingBatch(k.batch, Queue!Pending(d, c))
<1>1. PICK n \in 1 .. MaxBatch : \E b \in [1 .. n -> Queue!Pending(d, c)] :
        /\ Queue!IsPendingBatch(b, Queue!Pending(d, c))
        /\ call' = [call EXCEPT ![d][c] =
                      [pc |-> "picked", batch |-> b, read |-> [i \in 1 .. n |-> tries[b[i]]],
                       full |-> n = MaxBatch, out |-> << >>]]
  BY DEF Queue!PickBatch
<1>2. PICK b \in [1 .. n -> Queue!Pending(d, c)] :
        /\ Queue!IsPendingBatch(b, Queue!Pending(d, c))
        /\ call' = [call EXCEPT ![d][c] =
                      [pc |-> "picked", batch |-> b, read |-> [i \in 1 .. n |-> tries[b[i]]],
                       full |-> n = MaxBatch, out |-> << >>]]
  BY <1>1
<1> DEFINE k == [pc |-> "picked", batch |-> b, read |-> [i \in 1 .. n |-> tries[b[i]]],
                 full |-> n = MaxBatch, out |-> << >>]
<1>3. n \in Nat /\ \A i \in 1 .. n : b[i] \in LocalOps(d)
  BY BoundsAssumption DEF UploadInv, RowsOk, Queue!Pending
<1>4. b \in Seq(Ops) /\ Len(b) = n
  <2>1. b \in [1 .. n -> Ops]
    BY <1>3 DEF LocalOps
  <2> QED  BY <1>3, <2>1, FunctionIsSeq
<1>5. k.read \in Seq(Nat) /\ Len(k.read) = n
  <2>1. [i \in 1 .. n |-> tries[b[i]]] \in [1 .. n -> Nat]
    BY <1>3 DEF UploadInv, CountersOk, LocalOps
  <2> QED  BY <1>3, <2>1, FunctionIsSeq
<1>6. Request(d, b)
  BY <1>2, <1>3, <1>4 DEF Request, Ascending, LocalOps, Queue!IsPendingBatch
<1>7. CallOk(d, k)
  BY <1>3, <1>4, <1>5, <1>6, EmptySeq DEF CallOk, CallRecord, Phases, LocalOps
<1>8. Sets(d, c, k)
  BY <1>2, <1>7, SetsOne DEF UploadInv, CallOk
<1>9. k \in CallRecord /\ k.pc = "picked" /\ k.batch = b
  BY <1>7 DEF CallOk
<1> HIDE DEF k
<1> QED  BY <1>2, <1>7, <1>8, <1>9

LEMMA PickInv ==
  ASSUME UploadInv, NEW d \in Devices, NEW c \in Callers, Queue!PickBatch(d, c),
         UNCHANGED <<vars, stray>>
  PROVE  UploadInv'
<1>1. PICK k \in CallRecord : Sets(d, c, k) /\ CallOk(d, k) /\ k.pc = "picked"
  BY PickCases
<1>2. TypeOK' /\ LogGapFree' /\ CallsOk' /\ StraysOk' /\ ServingOk' /\ TxOk'
  BY <1>1, CallStepKeeps
<1>3. UNCHANGED <<seqno, drafts, queue, flight, tries, skip, drained, done, dropped>>
  BY DEF Queue!PickBatch
<1>4. call[d][c] = Queue!NoCall /\ (~drained[d] \/ c # "import")
  BY DEF Queue!PickBatch
<1>5. InFlightOwned'
  <2>1. \A op : ~Owns(call[d][c], op)
    BY <1>4, EmptySeq DEF Owns, Queue!NoCall
  <2> QED  BY <1>1, <1>3, <2>1, OwnedAgain DEF UploadInv
<1>6. DrainedOk'
  BY <1>1, <1>3, <1>4 DEF UploadInv, DrainedOk, Sets
<1>7. RowsOk' /\ CountersOk'
  BY <1>3 DEF UploadInv, RowsOk, CountersOk
<1> QED  BY <1>2, <1>5, <1>6, <1>7 DEF UploadInv

\* A call that returns has ended, and so has whatever it skipped.
LEMMA ReturnsKeeps ==
  ASSUME UploadInv, NEW d \in Devices, NEW c \in Callers, Queue!Returns(d, c),
         Sets(d, c, Queue!NoCall)
  PROVE  /\ skip' \in [Devices -> [Callers -> SUBSET Ops]]
         /\ drained' \in [Devices -> BOOLEAN]
         /\ DrainedOk'
<1>1. skip \in [Devices -> [Callers -> SUBSET Ops]] /\ drained \in [Devices -> BOOLEAN]
  BY DEF UploadInv, CountersOk
<1>2. skip' \in [Devices -> [Callers -> SUBSET Ops]]
  BY <1>1 DEF Queue!Returns
<1>3. drained' \in [Devices -> BOOLEAN]
  BY <1>1 DEF Queue!Returns
<1>4. \A f \in Devices : drained'[f] => drained[f] \/ (f = d /\ c = "import")
  BY <1>1 DEF Queue!Returns
<1>5. DrainedOk'
  BY <1>4 DEF UploadInv, DrainedOk, Sets
<1> QED  BY <1>2, <1>3, <1>5

LEMMA IdleStepInv ==
  ASSUME UploadInv, NEW d \in Devices, NEW c \in Callers,
         Queue!EndCycle(d, c) \/ Queue!FindNothing(d, c), UNCHANGED <<vars, stray>>
  PROVE  UploadInv'
<1>1. /\ call[d][c] = Queue!NoCall
      /\ UNCHANGED <<seqno, drafts, queue, flight, tries, call, done, dropped>>
  BY DEF Queue!EndCycle, Queue!FindNothing
<1>2. Sets(d, c, Queue!NoCall)
  BY <1>1 DEF UploadInv, CallsOk, Sets
<1>3. TypeOK' /\ LogGapFree' /\ CallsOk' /\ StraysOk' /\ ServingOk' /\ TxOk'
  <2>1. Queue!NoCall.pc # "serving"
    BY DEF Queue!NoCall
  <2> QED  BY <1>2, <2>1, Idle, CallStepKeeps
<1>4. InFlightOwned' /\ RowsOk'
  BY <1>1 DEF UploadInv, RowsOk, InFlightOwned
<1>5. /\ skip' \in [Devices -> [Callers -> SUBSET Ops]]
      /\ drained' \in [Devices -> BOOLEAN]
      /\ DrainedOk'
  <2>1. CASE Queue!FindNothing(d, c)
    BY <1>2, <2>1, ReturnsKeeps DEF Queue!FindNothing
  <2>2. CASE Queue!EndCycle(d, c)
    BY <1>1, <2>2 DEF Queue!EndCycle, UploadInv, CountersOk, DrainedOk
  <2> QED  BY <2>1, <2>2
<1> QED  BY <1>1, <1>3, <1>4, <1>5 DEF UploadInv, CountersOk

\* What a call sends of the batch it picked: the positions v.
Starts(d, c, n, v, sent) ==
  /\ Queue!IsRetryable(v, call[d][c])
  /\ \A i \in 1 .. n : sent[i] = call[d][c].batch[v[i]]
  /\ queue' = [queue EXCEPT ![d] = @ \ Queue!Elements(call[d][c].batch)]
  /\ flight' = [flight EXCEPT ![d] = (@ \ Queue!Stuck(call[d][c])) \cup Queue!Elements(sent)]
  /\ dropped' = [dropped EXCEPT ![d] = @ \cup Queue!Stuck(call[d][c])]
  /\ tries' = Queue!WriteBack(call[d][c], Queue!Elements(sent), 0)
  /\ \/ /\ n > 0
        /\ call' = [call EXCEPT ![d][c] =
                      [call[d][c] EXCEPT !.pc = "sent", !.batch = sent,
                                         !.read = [i \in 1 .. n |-> @[v[i]]]]]
        /\ UNCHANGED <<skip, drained>>
     \/ /\ n = 0
        /\ call' = [call EXCEPT ![d][c] = Queue!NoCall]
        /\ UNCHANGED <<skip, drained>> \/ Queue!Returns(d, c)

LEMMA StartCases ==
  ASSUME UploadInv, NEW d \in Devices, NEW c \in Callers, Queue!StartUpload(d, c)
  PROVE  /\ call[d][c].pc = "picked" /\ CallOk(d, call[d][c])
         /\ call[d][c].batch \in Seq(Ops) /\ Ascending(call[d][c].batch)
         /\ Len(call[d][c].batch) \in 1 .. MaxBatch
         /\ UNCHANGED <<seqno, drafts, done>>
         /\ \E n \in 0 .. Len(call[d][c].batch) :
              \E v \in [1 .. n -> 1 .. Len(call[d][c].batch)], sent \in [1 .. n -> Ops] :
                /\ Starts(d, c, n, v, sent)
                /\ n \in Nat /\ v \in Seq(1 .. Len(call[d][c].batch)) /\ Len(v) = n
                /\ sent \in Seq(Ops) /\ Len(sent) = n
                /\ Queue!Elements(sent) \subseteq Queue!Elements(call[d][c].batch)
                /\ \A i, j \in 1 .. n : i < j => v[i] < v[j]
<1>1. call[d][c].pc = "picked" /\ UNCHANGED <<seqno, drafts, done>>
  BY DEF Queue!StartUpload
<1>2. CallOk(d, call[d][c])
  BY DEF UploadInv, CallsOk
<1>3. Request(d, call[d][c].batch)
  BY <1>1, <1>2 DEF CallOk
<1>4. /\ call[d][c].batch \in Seq(Ops) /\ Ascending(call[d][c].batch)
      /\ Len(call[d][c].batch) \in 1 .. MaxBatch
  BY <1>3 DEF Request
<1>5. PICK n \in 0 .. Len(call[d][c].batch) :
        \E v \in [1 .. n -> 1 .. Len(call[d][c].batch)] :
          Starts(d, c, n, v, [i \in 1 .. n |-> call[d][c].batch[v[i]]])
  BY DEF Queue!StartUpload, Starts
<1>6. PICK v \in [1 .. n -> 1 .. Len(call[d][c].batch)] :
        Starts(d, c, n, v, [i \in 1 .. n |-> call[d][c].batch[v[i]]])
  BY <1>5
<1> DEFINE sent == [i \in 1 .. n |-> call[d][c].batch[v[i]]]
<1>7. n \in Nat /\ \A i \in 1 .. Len(call[d][c].batch) : call[d][c].batch[i] \in Ops
  BY <1>4, ElementFacts
<1>8. sent \in [1 .. n -> Ops]
  BY <1>7
<1>9. v \in Seq(1 .. Len(call[d][c].batch)) /\ Len(v) = n /\ sent \in Seq(Ops) /\ Len(sent) = n
  BY <1>7, <1>8, FunctionIsSeq
<1>10. Queue!Elements(sent) \subseteq Queue!Elements(call[d][c].batch)
  BY <1>9 DEF Queue!Elements
<1>11. \A i, j \in 1 .. n : i < j => v[i] < v[j]
  BY <1>6, <1>9 DEF Starts, Queue!IsRetryable
<1>12. Starts(d, c, n, v, sent)
  BY <1>6
<1> HIDE DEF sent
<1> QED  BY <1>1, <1>2, <1>4, <1>7, <1>8, <1>9, <1>10, <1>11, <1>12

LEMMA StartInv ==
  ASSUME UploadInv, NEW d \in Devices, NEW c \in Callers, Queue!StartUpload(d, c),
         UNCHANGED <<vars, stray>>
  PROVE  UploadInv'
<1>1. /\ call[d][c].pc = "picked" /\ CallOk(d, call[d][c])
      /\ call[d][c].batch \in Seq(Ops) /\ Ascending(call[d][c].batch)
      /\ Len(call[d][c].batch) \in 1 .. MaxBatch
      /\ UNCHANGED <<seqno, drafts, done>>
  BY StartCases
<1>2. PICK n \in 0 .. Len(call[d][c].batch) :
        \E v \in [1 .. n -> 1 .. Len(call[d][c].batch)], sent \in [1 .. n -> Ops] :
          /\ Starts(d, c, n, v, sent)
          /\ n \in Nat /\ v \in Seq(1 .. Len(call[d][c].batch)) /\ Len(v) = n
          /\ sent \in Seq(Ops) /\ Len(sent) = n
          /\ Queue!Elements(sent) \subseteq Queue!Elements(call[d][c].batch)
          /\ \A i, j \in 1 .. n : i < j => v[i] < v[j]
  BY StartCases
<1>3. PICK v \in [1 .. n -> 1 .. Len(call[d][c].batch)], sent \in [1 .. n -> Ops] :
        /\ Starts(d, c, n, v, sent)
        /\ n \in Nat /\ v \in Seq(1 .. Len(call[d][c].batch)) /\ Len(v) = n
        /\ sent \in Seq(Ops) /\ Len(sent) = n
        /\ Queue!Elements(sent) \subseteq Queue!Elements(call[d][c].batch)
        /\ \A i, j \in 1 .. n : i < j => v[i] < v[j]
  BY <1>2
<1>4. \A op \in Queue!Elements(call[d][c].batch) : ~IsBulkHistoryImport(op) /\ op \in LocalOps(d)
  <2>1. \A i \in 1 .. Len(call[d][c].batch) :
          call[d][c].batch[i] \in Ops /\ call[d][c].batch[i].dev = d
          /\ ~IsBulkHistoryImport(call[d][c].batch[i])
    BY <1>1, ElementFacts DEF CallOk, Request
  <2> QED  BY <2>1 DEF Queue!Elements, LocalOps
<1>5. tries' \in [Ops -> Nat]
  <2>1. \A op \in Queue!Elements(sent) : ~IsBulkHistoryImport(op)
    BY <1>3, <1>4
  <2>2. Queue!WriteBack(call[d][c], Queue!Elements(sent), 0) \in [Ops -> Nat]
    BY <1>1, <1>3, <2>1, WriteBackType DEF UploadInv
  <2> QED  BY <1>3, <2>2 DEF Starts
<1>6. /\ queue' \in [Devices -> SUBSET Ops] /\ flight' \in [Devices -> SUBSET Ops]
      /\ queue'[d] \subseteq queue[d]
      /\ flight'[d] = (flight[d] \ Queue!Stuck(call[d][c])) \cup Queue!Elements(sent)
      /\ \A f \in Devices \ {d} : queue'[f] = queue[f] /\ flight'[f] = flight[f]
  <2>1. queue \in [Devices -> SUBSET Ops] /\ flight \in [Devices -> SUBSET Ops]
    BY DEF UploadInv, RowsOk
  <2>2. Queue!Elements(sent) \subseteq Ops
    BY <1>3, <1>4 DEF LocalOps
  <2> QED  BY <1>3, <2>1, <2>2 DEF Starts
<1>7. RowsOk'
  <2>1. flight'[d] \subseteq LocalOps(d)
    BY <1>3, <1>4, <1>6 DEF UploadInv, RowsOk
  <2> QED  BY <1>1, <1>6, <2>1 DEF UploadInv, RowsOk
<1>8. dropped' \in [Devices -> SUBSET Ops]
  <2>1. Queue!Stuck(call[d][c]) \subseteq Ops
    BY <1>1, ElementFacts DEF Queue!Stuck
  <2> QED  BY <1>3, <2>1 DEF Starts, UploadInv, CountersOk
<1>9. CASE n > 0
  <2> DEFINE k == [call[d][c] EXCEPT !.pc = "sent", !.batch = sent,
                                     !.read = [i \in 1 .. n |-> @[v[i]]]]
  <2>1. call' = [call EXCEPT ![d][c] = k] /\ UNCHANGED <<skip, drained>>
    BY <1>3, <1>9 DEF Starts
  <2>2. call[d][c] \in CallRecord /\ Len(call[d][c].read) = Len(call[d][c].batch)
    BY <1>1 DEF CallOk
  <2>3. [i \in 1 .. n |-> call[d][c].read[v[i]]] \in Seq(Nat)
        /\ Len([i \in 1 .. n |-> call[d][c].read[v[i]]]) = n
    <3>1. call[d][c].read \in Seq(Nat)
      BY <2>2 DEF CallRecord
    <3>2. \A i \in 1 .. Len(call[d][c].batch) : call[d][c].read[i] \in Nat
      BY <2>2, <3>1, ElementOfSeq
    <3>3. [i \in 1 .. n |-> call[d][c].read[v[i]]] \in [1 .. n -> Nat]
      BY <3>2
    <3>4. n \in Nat
      BY <1>3
    <3> QED  BY <3>3, <3>4, FunctionIsSeq
  <2>4. /\ k \in CallRecord /\ k.pc = "sent" /\ k.batch = sent
        /\ k.read = [i \in 1 .. n |-> call[d][c].read[v[i]]]
    BY <1>3, <2>2, <2>3 DEF CallRecord, Phases
  <2>5. Request(d, sent)
    <3>1. n \in 1 .. MaxBatch
      BY <1>1, <1>3, <1>9, BoundsAssumption
    <3>2. \A i \in 1 .. n : sent[i] = call[d][c].batch[v[i]] /\ v[i] \in 1 .. Len(call[d][c].batch)
      BY <1>3 DEF Starts
    <3>3. \A i \in 1 .. n : sent[i].dev = d
      BY <1>1, <3>2 DEF CallOk, Request
    <3>4. Ascending(sent)
      BY <1>1, <1>3, <3>2 DEF Ascending
    <3> QED  BY <1>3, <3>1, <3>3, <3>4 DEF Request
  <2> HIDE DEF k
  <2>6. CallOk(d, k)
    BY <1>3, <2>3, <2>4, <2>5 DEF CallOk
  <2>7. Sets(d, c, k)
    BY <2>1, <2>4, SetsOne DEF UploadInv
  <2>8. TypeOK' /\ LogGapFree' /\ CallsOk' /\ StraysOk' /\ ServingOk' /\ TxOk'
    BY <2>4, <2>6, <2>7, CallStepKeeps
  <2>9. InFlightOwned'
    <3>1. \A op \in Queue!Elements(sent) : Owns(k, op)
      BY <1>3, <2>4 DEF Owns, Queue!Elements
    <3>2. \A op : ~Owns(call[d][c], op)
      BY <1>1 DEF Owns
    <3> QED  BY <1>6, <2>7, <3>1, <3>2, OwnedAgain DEF UploadInv
  <2>10. DrainedOk'
    <3>1. ~(drained[d] /\ c = "import")
      BY <1>1 DEF UploadInv, DrainedOk, Queue!NoCall
    <3> QED  BY <2>1, <2>7, <3>1 DEF UploadInv, DrainedOk, Sets
  <2> QED  BY <1>1, <1>5, <1>7, <1>8, <2>1, <2>8, <2>9, <2>10 DEF UploadInv, CountersOk
<1>10. CASE n = 0
  <2>1. /\ call' = [call EXCEPT ![d][c] = Queue!NoCall]
        /\ UNCHANGED <<skip, drained>> \/ Queue!Returns(d, c)
    BY <1>3, <1>10 DEF Starts
  <2>2. Sets(d, c, Queue!NoCall)
    BY <2>1, Idle, SetsOne DEF UploadInv
  <2>3. TypeOK' /\ LogGapFree' /\ CallsOk' /\ StraysOk' /\ ServingOk' /\ TxOk'
    <3>1. Queue!NoCall.pc # "serving"
      BY DEF Queue!NoCall
    <3> QED  BY <2>2, <3>1, Idle, CallStepKeeps
  <2>4. InFlightOwned'
    <3>1. \A op : ~Owns(call[d][c], op)
      BY <1>1 DEF Owns
    <3>2. Queue!Elements(sent) = {}
      BY <1>3, <1>10 DEF Queue!Elements
    <3> QED  BY <1>6, <2>2, <3>1, <3>2, OwnedAgain DEF UploadInv
  <2>5. /\ skip' \in [Devices -> [Callers -> SUBSET Ops]]
        /\ drained' \in [Devices -> BOOLEAN]
        /\ DrainedOk'
    <3>1. CASE Queue!Returns(d, c)
      BY <2>2, <3>1, ReturnsKeeps
    <3>2. CASE UNCHANGED <<skip, drained>>
      <4>1. DrainedOk'
        BY <2>2, <3>2 DEF UploadInv, DrainedOk, Sets
      <4> QED  BY <3>2, <4>1 DEF UploadInv, CountersOk
    <3> QED  BY <2>1, <3>1, <3>2
  <2> QED  BY <1>1, <1>5, <1>7, <1>8, <2>3, <2>4, <2>5 DEF UploadInv, CountersOk
<1> QED  BY <1>3, <1>9, <1>10

LEMMA JudgedFacts ==
  ASSUME NEW d \in Devices, NEW c \in Callers, call[d][c].batch \in Seq(Ops), NEW vs
  PROVE  /\ Queue!Judged(d, c, vs) \subseteq Queue!Elements(call[d][c].batch)
         /\ Queue!Judged(d, c, vs) \subseteq Ops
         /\ \A op : op \in Queue!Judged(d, c, vs) <=>
              \E i \in 1 .. Len(call[d][c].batch) :
                call[d][c].batch[i] = op /\ call[d][c].out[i] \in vs
<1>1. Queue!Judged(d, c, vs) \subseteq Queue!Elements(call[d][c].batch)
  BY DEF Queue!Judged, Queue!Elements
<1>2. \A op : op \in Queue!Judged(d, c, vs) <=>
              \E i \in 1 .. Len(call[d][c].batch) :
                call[d][c].batch[i] = op /\ call[d][c].out[i] \in vs
  BY DEF Queue!Judged
<1> QED  BY <1>1, <1>2, ElementFacts

LEMMA ReceiveInv ==
  ASSUME UploadInv, NEW d \in Devices, NEW c \in Callers, Queue!ReceiveAnswer(d, c),
         UNCHANGED <<vars, stray>>
  PROVE  UploadInv'
<1> DEFINE k == [call[d][c] EXCEPT !.pc = "judged"]
<1>1. /\ call[d][c].pc = "answered" /\ CallOk(d, call[d][c])
      /\ UNCHANGED <<seqno, drafts, tries, skip, drained, dropped>>
  BY DEF Queue!ReceiveAnswer, UploadInv, CallsOk
<1>2. call[d][c] \in CallRecord
  BY <1>1 DEF CallOk
<1>3. /\ k \in CallRecord /\ k.pc = "judged" /\ k.batch = call[d][c].batch
      /\ k.read = call[d][c].read /\ k.out = call[d][c].out
  BY <1>2 DEF CallRecord, Phases
<1>4. call' = [call EXCEPT ![d][c] = k]
  BY <1>2 DEF Queue!ReceiveAnswer, UploadInv, CallsOk
<1> HIDE DEF k
<1>5. CallOk(d, k)
  BY <1>1, <1>3 DEF CallOk, Answers
<1>6. Sets(d, c, k)
  BY <1>3, <1>4, SetsOne DEF UploadInv
<1>7. TypeOK' /\ LogGapFree' /\ CallsOk' /\ StraysOk' /\ ServingOk' /\ TxOk'
  BY <1>3, <1>5, <1>6, CallStepKeeps
<1>8. call[d][c].batch \in Seq(Ops)
  BY <1>2 DEF CallRecord
<1>9. /\ queue' = [queue EXCEPT ![d] = @ \ Queue!Resolved(d, c)]
      /\ flight' = [flight EXCEPT ![d] = @ \ Queue!Resolved(d, c)]
      /\ done' = [done EXCEPT ![d] = @ \cup Queue!Resolved(d, c)]
  BY DEF Queue!ReceiveAnswer
<1>10. RowsOk'
  BY <1>1, <1>9 DEF UploadInv, RowsOk
<1>11. CountersOk'
  <2>1. Queue!Resolved(d, c) \subseteq Ops
    BY <1>8, JudgedFacts DEF Queue!Resolved
  <2> QED  BY <1>1, <1>9, <2>1 DEF UploadInv, CountersOk
<1>12. InFlightOwned'
  <2>1. \A op : op \in Queue!Resolved(d, c) <=>
          \E i \in 1 .. Len(call[d][c].batch) :
            call[d][c].batch[i] = op /\ call[d][c].out[i] \in {"accept", "duplicate"}
    BY <1>8, JudgedFacts DEF Queue!Resolved
  <2>2. \A op : Owns(call[d][c], op) /\ op \notin Queue!Resolved(d, c) => Owns(k, op)
    BY <1>3, <2>1 DEF Owns
  <2>3. /\ flight'[d] = flight[d] \ Queue!Resolved(d, c)
        /\ \A f \in Devices \ {d} : flight'[f] = flight[f]
    BY <1>9 DEF UploadInv, RowsOk
  <2> QED  BY <1>6, <2>2, <2>3, OwnedAgain DEF UploadInv
<1>13. DrainedOk'
  <2>1. ~(drained[d] /\ c = "import")
    BY <1>1 DEF UploadInv, DrainedOk, Queue!NoCall
  <2> QED  BY <1>1, <1>6, <2>1 DEF UploadInv, DrainedOk, Sets
<1> QED  BY <1>7, <1>10, <1>11, <1>12, <1>13 DEF UploadInv

\* What is requeued or re-sent is no chunk of the import.
LEMMA WaitingFacts ==
  ASSUME UploadInv, NEW d \in Devices, NEW c \in Callers, call[d][c].pc = "judged"
  PROVE  /\ call[d][c].batch \in Seq(Ops) /\ Ascending(call[d][c].batch)
         /\ Queue!Waiting(d, c) \subseteq LocalOps(d)
         /\ Queue!Waiting(d, c) \subseteq Queue!Elements(call[d][c].batch)
         /\ Queue!ToRemove(d, c) \subseteq Ops
<1>1. CallOk(d, call[d][c])
  BY DEF UploadInv, CallsOk
<1>2. Request(d, call[d][c].batch) /\ Answers(call[d][c])
  BY <1>1 DEF CallOk
<1>3. call[d][c].batch \in Seq(Ops) /\ Ascending(call[d][c].batch)
  BY <1>2 DEF Request
<1>4. \A op \in Queue!NotFound(d, c) :
        \E i \in 1 .. Len(call[d][c].batch) :
          call[d][c].batch[i] = op /\ call[d][c].out[i] = "object_not_found"
  BY <1>3, JudgedFacts DEF Queue!NotFound
<1>5. Queue!Waiting(d, c) \subseteq Queue!NotFound(d, c)
  BY DEF Queue!Waiting
<1>6. \A i \in 1 .. Len(call[d][c].batch) :
        call[d][c].batch[i] \in Ops /\ call[d][c].batch[i].dev = d
  BY <1>2, <1>3, ElementFacts DEF Request
<1>7. Queue!NotFound(d, c) \subseteq LocalOps(d)
  BY <1>2, <1>4, <1>6 DEF LocalOps, Answers
<1>8. Queue!NotFound(d, c) \subseteq Queue!Elements(call[d][c].batch)
  BY <1>4 DEF Queue!Elements
<1>9. Queue!ToRemove(d, c) \subseteq Ops
  BY <1>3, ElementFacts DEF Queue!ToRemove
<1> QED  BY <1>3, <1>5, <1>7, <1>8, <1>9

LEMMA SettleInv ==
  ASSUME UploadInv, NEW d \in Devices, NEW c \in Callers, NEW new \in SUBSET Unmade(d),
         Queue!SettleRejected(d, c, new), UNCHANGED <<vars, stray>>
  PROVE  UploadInv'
<1>1. call[d][c].pc = "judged" /\ UNCHANGED <<drafts, done>>
  BY DEF Queue!SettleRejected
<1>2. /\ call[d][c].batch \in Seq(Ops) /\ Ascending(call[d][c].batch)
      /\ Queue!Waiting(d, c) \subseteq LocalOps(d)
      /\ Queue!Waiting(d, c) \subseteq Queue!Elements(call[d][c].batch)
      /\ Queue!ToRemove(d, c) \subseteq Ops
  BY <1>1, WaitingFacts
<1>3. new \subseteq LocalOps(d) /\ Cardinality(new) \in Nat
  <2>1. \A op \in new : op.kind = "create"
    BY DEF Queue!SettleRejected, Queue!Reissues
  <2>2. new \subseteq LocalOps(d)
    BY <2>1 DEF Unmade, LocalOps, IsBulkHistoryImport
  <2>3. IsFiniteSet(new)
    BY <2>2, OpsAssumption, FS_Subset DEF LocalOps
  <2> QED  BY <2>2, <2>3, FS_CardinalityType
<1>4. Sets(d, c, Queue!NoCall)
  BY Idle, SetsOne DEF Queue!SettleRejected, UploadInv
<1>5. TypeOK' /\ LogGapFree' /\ CallsOk' /\ StraysOk' /\ ServingOk' /\ TxOk'
  <2>1. Queue!NoCall.pc # "serving"
    BY DEF Queue!NoCall
  <2> QED  BY <1>4, <2>1, Idle, CallStepKeeps
<1>6. /\ queue' = [queue EXCEPT ![d] = (@ \ (Queue!Restores(d, c) \cup Queue!ToRemove(d, c)))
                                          \cup Queue!Waiting(d, c) \cup new]
      /\ flight' = [flight EXCEPT ![d] =
                      @ \ (Queue!Elements(call[d][c].batch) \ Queue!Resolved(d, c))]
      /\ seqno' = [seqno EXCEPT ![d] = @ + Cardinality(new)]
      /\ tries' = Queue!AfterAttempt(call[d][c], Queue!Waiting(d, c))
      /\ dropped' = [dropped EXCEPT ![d] = @ \cup Queue!ToRemove(d, c)]
  BY SameCardinality DEF Queue!SettleRejected
<1>7. RowsOk'
  <2>1. /\ queue \in [Devices -> SUBSET Ops] /\ flight \in [Devices -> SUBSET Ops]
        /\ queue[d] \subseteq LocalOps(d) /\ flight[d] \subseteq LocalOps(d)
        /\ LocalOps(d) \subseteq Ops
    BY DEF UploadInv, RowsOk, LocalOps
  <2>2. /\ queue'[d] \subseteq queue[d] \cup Queue!Waiting(d, c) \cup new
        /\ \A f \in Devices \ {d} : queue'[f] = queue[f]
        /\ queue' \in [Devices -> SUBSET Ops]
    BY <1>2, <1>3, <1>6, <2>1
  <2>3. /\ flight'[d] \subseteq flight[d] /\ \A f \in Devices \ {d} : flight'[f] = flight[f]
        /\ flight' \in [Devices -> SUBSET Ops]
    BY <1>6, <2>1
  <2> QED  BY <1>1, <1>2, <1>3, <2>1, <2>2, <2>3 DEF UploadInv, RowsOk
<1>8. tries' \in [Ops -> Nat]
  <2>1. CallOk(d, call[d][c])
    BY DEF UploadInv, CallsOk
  <2>2. \A op \in Queue!Waiting(d, c) : ~IsBulkHistoryImport(op)
    BY <1>2 DEF LocalOps
  <2>3. Queue!WriteBack(call[d][c], Queue!Waiting(d, c), 1) \in [Ops -> Nat]
    BY <1>2, <2>1, <2>2, WriteBackType DEF UploadInv
  <2> QED  BY <1>6, <2>3 DEF Queue!AfterAttempt
<1>9. /\ skip' \in [Devices -> [Callers -> SUBSET Ops]]
      /\ drained' \in [Devices -> BOOLEAN]
      /\ DrainedOk'
  <2>1. CASE Queue!Returns(d, c)
    BY <1>4, <2>1, ReturnsKeeps
  <2>2. CASE /\ UNCHANGED drained
             /\ UNCHANGED skip \/ skip' = [skip EXCEPT ![d][c] = @ \cup Queue!Waiting(d, c)]
    <3>1. DrainedOk'
      BY <1>4, <2>2 DEF UploadInv, DrainedOk, Sets
    <3>2. Queue!Waiting(d, c) \subseteq Ops
      BY <1>2 DEF LocalOps
    <3>3. skip' \in [Devices -> [Callers -> SUBSET Ops]]
      <4>1. skip \in [Devices -> [Callers -> SUBSET Ops]]
        BY DEF UploadInv, CountersOk
      <4>2. CASE skip' = [skip EXCEPT ![d][c] = @ \cup Queue!Waiting(d, c)]
        BY <3>2, <4>1, <4>2
      <4> QED  BY <2>2, <4>1, <4>2
    <3> QED  BY <2>2, <3>1, <3>3 DEF UploadInv, CountersOk
  <2> QED  BY <2>1, <2>2 DEF Queue!SettleRejected
<1>10. CountersOk'
  <2>1. seqno' \in [Devices -> Nat]
    BY <1>3, <1>6 DEF UploadInv, CountersOk
  <2>2. dropped' \in [Devices -> SUBSET Ops]
    BY <1>2, <1>6 DEF UploadInv, CountersOk
  <2> QED  BY <1>1, <1>8, <1>9, <2>1, <2>2 DEF UploadInv, CountersOk
<1>11. InFlightOwned'
  <2>1. ASSUME NEW op, Owns(call[d][c], op)
        PROVE  op \in Queue!Elements(call[d][c].batch) \ Queue!Resolved(d, c)
    <3>1. PICK i \in 1 .. Len(call[d][c].batch) :
            call[d][c].batch[i] = op /\ call[d][c].out[i] \notin {"accept", "duplicate"}
      BY <1>1, <2>1 DEF Owns
    <3>2. \A j \in 1 .. Len(call[d][c].batch) : call[d][c].batch[j] = op => j = i
      BY <1>2, <3>1, Distinct
    <3>3. op \notin Queue!Resolved(d, c)
      BY <1>2, <3>1, <3>2, JudgedFacts DEF Queue!Resolved
    <3> QED  BY <3>1, <3>3 DEF Queue!Elements
  <2>2. /\ flight'[d] = flight[d] \ (Queue!Elements(call[d][c].batch) \ Queue!Resolved(d, c))
        /\ \A f \in Devices \ {d} : flight'[f] = flight[f]
    BY <1>6 DEF UploadInv, RowsOk
  <2> QED  BY <1>4, <2>1, <2>2, OwnedAgain DEF UploadInv
<1> QED  BY <1>5, <1>7, <1>9, <1>10, <1>11 DEF UploadInv
-------------------------------------------------------------------------------
(***************************************************************************)
(* Steps of a producer.                                                    *)
(***************************************************************************)
LEMMA ProducerKeeps ==
  ASSUME UploadInv, UNCHANGED <<vars, stray, call, flight>>
  PROVE  /\ TypeOK' /\ LogGapFree' /\ CallsOk' /\ StraysOk' /\ ServingOk' /\ TxOk'
         /\ InFlightOwned'
<1>1. tx' = tx
  BY DEF vars
<1>2. TypeOK' /\ LogGapFree'
  BY TypeStep DEF UploadInv
<1>3. CallsOk' /\ StraysOk' /\ TxOk'
  BY <1>1 DEF UploadInv, CallsOk, StraysOk, TxOk
<1>4. ServingOk' /\ InFlightOwned'
  BY <1>1 DEF UploadInv, ServingOk, InFlightOwned
<1> QED  BY <1>2, <1>3, <1>4

\* The sizes of the sets of operations that take sequences.
LEMMA OpCount ==
  ASSUME NEW S \in SUBSET Ops
  PROVE  IsFiniteSet(S) /\ Cardinality(S) \in Nat
BY OpsAssumption, FS_Subset, FS_CardinalityType

LEMMA ReserveInv ==
  ASSUME UploadInv, NEW d \in Devices, NEW run \in SUBSET Unmade(d), Queue!Reserve(d, run),
         UNCHANGED <<vars, stray>>
  PROVE  UploadInv'
<1>1. /\ UNCHANGED <<queue, flight, tries, skip, call, drained, done, dropped>>
      /\ seqno' = [seqno EXCEPT ![d] = @ + Cardinality(run)]
      /\ drafts' = [drafts EXCEPT ![d] = @ \cup {run}]
      /\ \A op \in run : ~IsBulkHistoryImport(op)
  BY SameCardinality, SameImport DEF Queue!Reserve
<1>2. run \subseteq LocalOps(d) /\ run \subseteq Ops
  BY <1>1 DEF Unmade, LocalOps
<1>3. Cardinality(run) \in Nat
  BY <1>2, OpCount
<1>4. CountersOk' /\ DrainedOk'
  BY <1>1, <1>3 DEF UploadInv, CountersOk, DrainedOk
<1>5. RowsOk'
  <2>1. drafts \in [Devices -> SUBSET (SUBSET Ops)]
    BY DEF UploadInv, RowsOk
  <2>2. /\ drafts' \in [Devices -> SUBSET (SUBSET Ops)] /\ drafts'[d] = drafts[d] \cup {run}
        /\ \A f \in Devices \ {d} : drafts'[f] = drafts[f]
    BY <1>1, <1>2, <2>1
  <2>3. \A f \in Devices : \A r \in drafts'[f] : r \subseteq LocalOps(f)
    BY <1>2, <2>2 DEF UploadInv, RowsOk
  <2> QED  BY <1>1, <2>2, <2>3 DEF UploadInv, RowsOk
<1> QED  BY <1>1, <1>4, <1>5, ProducerKeeps DEF UploadInv

LEMMA EnqueueInv ==
  ASSUME UploadInv, NEW d \in Devices, NEW run, Queue!Enqueue(d, run),
         UNCHANGED <<vars, stray>>
  PROVE  UploadInv'
<1>1. /\ UNCHANGED <<seqno, flight, tries, skip, call, drained, done, dropped>>
      /\ run \in drafts[d]
      /\ drafts' = [drafts EXCEPT ![d] = @ \ {run}]
      /\ queue' = [queue EXCEPT ![d] = @ \cup run]
  BY DEF Queue!Enqueue
<1>2. run \subseteq LocalOps(d) /\ run \subseteq Ops
  BY <1>1 DEF UploadInv, RowsOk, LocalOps
<1>3. CountersOk' /\ DrainedOk'
  BY <1>1 DEF UploadInv, CountersOk, DrainedOk
<1>4. RowsOk'
  <2>1. drafts \in [Devices -> SUBSET (SUBSET Ops)] /\ queue \in [Devices -> SUBSET Ops]
    BY DEF UploadInv, RowsOk
  <2>2. /\ drafts' \in [Devices -> SUBSET (SUBSET Ops)] /\ queue' \in [Devices -> SUBSET Ops]
        /\ drafts'[d] = drafts[d] \ {run} /\ queue'[d] = queue[d] \cup run
        /\ \A f \in Devices \ {d} : drafts'[f] = drafts[f] /\ queue'[f] = queue[f]
    BY <1>1, <1>2, <2>1
  <2>3. \A f \in Devices : queue'[f] \subseteq LocalOps(f)
                           /\ \A r \in drafts'[f] : r \subseteq LocalOps(f)
    BY <1>2, <2>2 DEF UploadInv, RowsOk
  <2> QED  BY <1>1, <2>2, <2>3 DEF UploadInv, RowsOk
<1> QED  BY <1>1, <1>3, <1>4, ProducerKeeps DEF UploadInv

LEMMA ChunkInv ==
  ASSUME UploadInv, NEW d \in Devices, "import" \in Callers, NEW op \in Unmade(d),
         Queue!SendChunk(d, op), UNCHANGED <<vars, stray>>
  PROVE  UploadInv'
<1> DEFINE k == [Queue!NoCall EXCEPT !.pc = "sent", !.batch = <<op>>]
<1>1. /\ UNCHANGED <<drafts, queue, flight, tries, skip, done, dropped>>
      /\ drained[d] /\ IsBulkHistoryImport(op)
      /\ seqno' = [seqno EXCEPT ![d] = op.seq]
      /\ drained' = [drained EXCEPT ![d] = FALSE]
      /\ call' = [call EXCEPT ![d]["import"] = k]
  BY SameImport DEF Queue!SendChunk
<1>2. op \in Ops /\ op.dev = d /\ op.seq \in Nat
  BY OpsAssumption DEF Unmade, OpRecord
<1>3. <<op>> \in Seq(Ops) /\ Len(<<op>>) = 1 /\ <<op>>[1] = op
  BY <1>2
<1>4. /\ k \in CallRecord /\ k.pc = "sent" /\ k.batch = <<op>>
  BY <1>3, EmptySeq DEF Queue!NoCall, CallRecord, Phases
<1> HIDE DEF k
<1>5. Request(d, <<op>>)
  BY <1>2, <1>3, BoundsAssumption DEF Request, Ascending
<1>6. CallOk(d, k)
  BY <1>1, <1>3, <1>4, <1>5 DEF CallOk
<1>7. Sets(d, "import", k)
  BY <1>1, <1>4, SetsOne DEF UploadInv
<1>8. TypeOK' /\ LogGapFree' /\ CallsOk' /\ StraysOk' /\ ServingOk' /\ TxOk'
  BY <1>4, <1>6, <1>7, CallStepKeeps
<1>9. InFlightOwned'
  <2>1. call[d]["import"] = Queue!NoCall
    BY <1>1 DEF UploadInv, DrainedOk
  <2>2. \A o : ~Owns(call[d]["import"], o)
    BY <2>1, EmptySeq DEF Owns, Queue!NoCall
  <2> QED  BY <1>1, <1>7, <2>2, OwnedAgain DEF UploadInv
<1>10. DrainedOk'
  <2>1. \A f \in Devices : drained'[f] => f # d /\ drained[f]
    BY <1>1 DEF UploadInv, CountersOk
  <2> QED  BY <1>7, <2>1 DEF UploadInv, DrainedOk, Sets
<1>11. RowsOk' /\ CountersOk'
  BY <1>1, <1>2 DEF UploadInv, RowsOk, CountersOk
<1> QED  BY <1>8, <1>9, <1>10, <1>11 DEF UploadInv
-------------------------------------------------------------------------------
(***************************************************************************)
(* Failures of the client.                                                 *)
(***************************************************************************)
LEMMA FailKeeps ==
  ASSUME UploadInv, NEW d \in Devices, NEW c \in Callers, Queue!FailCall(d, c)
  PROVE  /\ Sets(d, c, Queue!NoCall) /\ Request(d, call[d][c].batch)
         /\ CallsOk' /\ RowsOk' /\ CountersOk' /\ DrainedOk' /\ InFlightOwned'
<1>1. /\ call[d][c].pc \in {"sent", "serving", "answered"}
      /\ queue' = [queue EXCEPT ![d] = @ \cup Queue!Requeued(d, c)]
      /\ flight' = [flight EXCEPT ![d] = @ \ Queue!Requeued(d, c)]
      /\ tries' = Queue!WriteBack(call[d][c], Queue!Requeued(d, c), 0)
      /\ skip' = [skip EXCEPT ![d][c] = {}]
      /\ call' = [call EXCEPT ![d][c] = Queue!NoCall]
      /\ UNCHANGED <<seqno, drafts, drained, done, dropped>>
  BY DEF Queue!FailCall
<1>2. CallOk(d, call[d][c])
  BY DEF UploadInv, CallsOk
<1>3. Request(d, call[d][c].batch)
  BY <1>1, <1>2 DEF CallOk
<1>4. Sets(d, c, Queue!NoCall)
  BY <1>1, Idle, SetsOne DEF UploadInv
<1>5. CallsOk'
  BY <1>4, Idle DEF UploadInv, CallsOk, Sets
<1>6. /\ Queue!Requeued(d, c) \subseteq LocalOps(d) /\ Queue!Requeued(d, c) \subseteq Ops
      /\ Queue!Requeued(d, c) \subseteq Queue!Elements(call[d][c].batch)
      /\ \A op \in Queue!Requeued(d, c) : ~IsBulkHistoryImport(op)
  <2>1. \A op \in Queue!Elements(call[d][c].batch) : op \in Ops /\ op.dev = d
    BY <1>3, ElementFacts DEF Request, Queue!Elements
  <2> QED  BY <2>1, SameImport DEF Queue!Requeued, LocalOps
<1>7. tries' \in [Ops -> Nat]
  <2>1. Queue!WriteBack(call[d][c], Queue!Requeued(d, c), 0) \in [Ops -> Nat]
    BY <1>2, <1>6, WriteBackType DEF UploadInv
  <2> QED  BY <1>1, <2>1
<1>8. CountersOk'
  <2>1. skip' \in [Devices -> [Callers -> SUBSET Ops]]
    BY <1>1 DEF UploadInv, CountersOk
  <2> QED  BY <1>1, <1>7, <2>1 DEF UploadInv, CountersOk
<1>9. /\ queue' \in [Devices -> SUBSET Ops] /\ flight' \in [Devices -> SUBSET Ops]
      /\ queue'[d] = queue[d] \cup Queue!Requeued(d, c)
      /\ flight'[d] = flight[d] \ Queue!Requeued(d, c)
      /\ \A f \in Devices \ {d} : queue'[f] = queue[f] /\ flight'[f] = flight[f]
  BY <1>1, <1>6 DEF UploadInv, RowsOk
<1>10. RowsOk'
  BY <1>1, <1>6, <1>9 DEF UploadInv, RowsOk
<1>11. DrainedOk'
  BY <1>1, <1>4 DEF UploadInv, DrainedOk, Sets
<1>12. InFlightOwned'
  <2>1. \A op \in flight[d] : Owns(call[d][c], op) => op \in Queue!Requeued(d, c)
    BY SameImport DEF UploadInv, RowsOk, LocalOps, Owns, Queue!Requeued, Queue!Elements
  <2> QED  BY <1>4, <1>9, <2>1, OwnedAgain DEF UploadInv
<1> QED  BY <1>3, <1>4, <1>5, <1>8, <1>10, <1>11, <1>12

\* What is left of a request its sender stopped waiting for.
LEMMA AbandonKeeps ==
  ASSUME UploadInv, NEW d \in Devices, NEW c \in Callers, Abandon(d, c), UNCHANGED vars,
         stray[d] = NoStray, CallsOk', call'[d][c] = Queue!NoCall,
         \A e \in Callers : call'[d][e] \in {call[d][e], Queue!NoCall},
         \A f \in Devices \ {d} : call'[f] = call[f]
  PROVE  TypeOK' /\ LogGapFree' /\ StraysOk' /\ ServingOk' /\ TxOk'
<1>1. tx' = tx
  BY DEF vars
<1>2. TypeOK' /\ LogGapFree'
  BY TypeStep DEF UploadInv
<1>3. TxOk'
  BY <1>1 DEF UploadInv, TxOk
<1>4. CallOk(d, call[d][c])
  BY DEF UploadInv, CallsOk
<1>5. /\ call[d][c].batch \in Seq(Ops)
      /\ call[d][c].pc \in {"sent", "serving"} => Request(d, call[d][c].batch)
  BY <1>4 DEF CallOk, CallRecord
<1>6. /\ \A f \in Devices \ {d} : stray'[f] = stray[f]
      /\ \/ stray'[d] = stray[d]
         \/ /\ call[d][c].pc \in {"sent", "serving"}
            /\ stray'[d] = [pc |-> call[d][c].pc, batch |-> call[d][c].batch]
      /\ stray' \in [Devices -> [pc : {"idle", "sent", "serving"}, batch : Seq(Ops)]]
  BY <1>5 DEF Abandon, UploadInv, StraysOk
<1>7. StraysOk'
  <2>1. ASSUME NEW f \in Devices, stray'[f].pc # "idle"
        PROVE  Request(f, stray'[f].batch)
    <3>1. stray[f].pc # "idle" => Request(f, stray[f].batch)
      BY DEF UploadInv, StraysOk
    <3>2. CASE stray'[f] = stray[f]
      BY <2>1, <3>1, <3>2
    <3>3. CASE f = d /\ call[d][c].pc \in {"sent", "serving"}
               /\ stray'[d] = [pc |-> call[d][c].pc, batch |-> call[d][c].batch]
      BY <1>5, <3>3
    <3> QED  BY <1>6, <3>2, <3>3
  <2> QED  BY <1>6, <2>1 DEF StraysOk
<1>8. ServingOk'
  <2> SUFFICES ASSUME NEW f \in Devices
               PROVE  /\ \A e \in Callers : call'[f][e].pc = "serving" =>
                           /\ tx[f] # NoTx /\ tx[f].batch = call'[f][e].batch
                           /\ stray'[f].pc # "serving"
                           /\ \A g \in Callers : call'[f][g].pc = "serving" => g = e
                      /\ stray'[f].pc = "serving" => tx[f] # NoTx /\ tx[f].batch = stray'[f].batch
    BY <1>1 DEF ServingOk
  <2>1. CASE f # d
    BY <1>6, <2>1 DEF UploadInv, ServingOk
  <2>2. CASE f = d
    <3>1. Queue!NoCall.pc # "serving" /\ stray[d].pc # "serving"
      BY DEF Queue!NoCall, NoStray
    <3>2. \A e \in Callers : call'[d][e].pc = "serving" => call'[d][e] = call[d][e] /\ e # c
      BY <3>1
    <3>3. \A e \in Callers : call[d][e].pc = "serving" =>
            /\ tx[d] # NoTx /\ tx[d].batch = call[d][e].batch
            /\ \A g \in Callers : call[d][g].pc = "serving" => g = e
      BY DEF UploadInv, ServingOk
    <3>4. stray'[d].pc = "serving" =>
            call[d][c].pc = "serving" /\ stray'[d].batch = call[d][c].batch
      BY <1>6, <3>1
    <3> QED  BY <2>2, <3>2, <3>3, <3>4
  <2> QED  BY <2>1, <2>2
<1> QED  BY <1>2, <1>3, <1>7, <1>8

LEMMA GiveUpInv ==
  ASSUME UploadInv, NEW d \in Devices, NEW c \in Callers, GiveUp(d, c)
  PROVE  UploadInv'
<1>1. stray[d] = NoStray /\ Queue!FailCall(d, c) /\ Abandon(d, c) /\ UNCHANGED vars
  BY DEF GiveUp
<1>2. /\ Sets(d, c, Queue!NoCall)
      /\ CallsOk' /\ RowsOk' /\ CountersOk' /\ DrainedOk' /\ InFlightOwned'
  BY <1>1, FailKeeps
<1>3. /\ call'[d][c] = Queue!NoCall
      /\ \A e \in Callers : call'[d][e] \in {call[d][e], Queue!NoCall}
      /\ \A f \in Devices \ {d} : call'[f] = call[f]
  BY <1>2 DEF Sets
<1>4. TypeOK' /\ LogGapFree' /\ StraysOk' /\ ServingOk' /\ TxOk'
  BY <1>1, <1>2, <1>3, AbandonKeeps
<1> QED  BY <1>2, <1>4 DEF UploadInv

LEMMA CrashInv ==
  ASSUME UploadInv, NEW d \in Devices, ClientCrash(d)
  PROVE  UploadInv'
<1>1. /\ stray[d] = NoStray /\ Queue!Crash(d) /\ UNCHANGED vars
  BY DEF ClientCrash
<1>2. PICK c \in Callers : Abandon(d, c)
  BY DEF ClientCrash
<1>3. /\ drafts' = [drafts EXCEPT ![d] = {}]
      /\ queue' = [queue EXCEPT ![d] = @ \cup flight[d]]
      /\ flight' = [flight EXCEPT ![d] = @ \ flight[d]]
      /\ skip' = [skip EXCEPT ![d] = [e \in Callers |-> {}]]
      /\ call' = [call EXCEPT ![d] = [e \in Callers |-> Queue!NoCall]]
      /\ drained' = [drained EXCEPT ![d] = FALSE]
      /\ UNCHANGED <<seqno, tries, done, dropped>>
  BY <1>1 DEF Queue!Crash, Queue!Recovered
<1>4. /\ call' \in [Devices -> [Callers -> CallRecord]]
      /\ \A e \in Callers : call'[d][e] = Queue!NoCall
      /\ \A f \in Devices \ {d} : call'[f] = call[f]
  BY <1>3, Idle DEF UploadInv, CallsOk
<1>5. CallsOk'
  BY <1>4, Idle DEF UploadInv, CallsOk
<1>6. TypeOK' /\ LogGapFree' /\ StraysOk' /\ ServingOk' /\ TxOk'
  BY <1>1, <1>2, <1>4, <1>5, AbandonKeeps
<1>7. /\ drafts' \in [Devices -> SUBSET (SUBSET Ops)] /\ drafts'[d] = {}
      /\ queue' \in [Devices -> SUBSET Ops] /\ queue'[d] = queue[d] \cup flight[d]
      /\ flight' \in [Devices -> SUBSET Ops] /\ flight'[d] = {}
      /\ \A f \in Devices \ {d} : /\ drafts'[f] = drafts[f]
                                  /\ queue'[f] = queue[f] /\ flight'[f] = flight[f]
  BY <1>3 DEF UploadInv, RowsOk
<1>8. RowsOk'
  BY <1>7 DEF UploadInv, RowsOk
<1>9. CountersOk'
  BY <1>3 DEF UploadInv, CountersOk
<1>10. DrainedOk'
  BY <1>3, <1>4 DEF UploadInv, CountersOk, DrainedOk
<1>11. InFlightOwned'
  <2>1. InFlightOwned
    BY DEF UploadInv
  <2>2. flight'[d] = {}
    BY <1>7
  <2>3. \A f \in Devices \ {d} : flight'[f] = flight[f] /\ call'[f] = call[f]
    BY <1>4, <1>7
  <2> QED  BY <2>1, <2>2, <2>3 DEF InFlightOwned
<1> QED  BY <1>5, <1>6, <1>8, <1>9, <1>10, <1>11 DEF UploadInv
-------------------------------------------------------------------------------
(***************************************************************************)
(* Steps of the server.                                                    *)
(***************************************************************************)
\* A step that leaves the client alone.
LEMMA QueueStays ==
  ASSUME UploadInv,
         UNCHANGED <<seqno, drafts, queue, flight, tries, skip, call, drained, done, dropped>>
  PROVE  CallsOk' /\ RowsOk' /\ CountersOk' /\ DrainedOk' /\ InFlightOwned'
<1>1. CallsOk' /\ DrainedOk'
  BY DEF UploadInv, CallsOk, DrainedOk
<1>2. RowsOk'
  BY DEF UploadInv, RowsOk
<1>3. CountersOk'
  BY DEF UploadInv, CountersOk
<1>4. InFlightOwned'
  BY DEF UploadInv, InFlightOwned
<1> QED  BY <1>1, <1>2, <1>3, <1>4

\* What the loop finds in an ascending batch.
LEMMA VerdictFacts ==
  ASSUME TypeOK, NEW d \in Devices, NEW b \in Seq(Ops), Ascending(b), NEW out,
         NEW i \in 1 .. Len(b), out[i] = Verdict(d, b, out, i)
  PROVE  /\ out[i] # "sequence_out_of_order"
         /\ out[i] = "object_not_found" => ~IsOrigination(b[i])
         /\ out[i] = "duplicate" /\ ~IsBulkHistoryImport(b[i]) =>
              \/ \E c \in stored : log[c] = b[i]
              \/ b[i].seq <= lastSeq[d] /\ ShapeOk(b[i]) /\ b[i].seq >= 1
         /\ out[i] \in {"malformed", "invalid_device_sequence"} =>
              ~(ShapeOk(b[i]) /\ b[i].seq >= 1)
         /\ out[i] = "storage_quota_exceeded" => QuotaExceeded
         /\ out[i] = "accept" => ~QuotaExceeded
<1>1. b[i].seq \in Nat /\ lastSeq[d] \in Nat
  <2>1. b[i] \in Ops
    BY ElementFacts
  <2> QED  BY <2>1, OpFacts DEF TypeOK
<1>2. \A j \in 1 .. (i - 1) : b[j].seq \in Nat /\ ~(b[i].seq <= b[j].seq)
  <2>1. \A j \in 1 .. (i - 1) : j \in 1 .. Len(b) /\ j < i
    BY ElementFacts
  <2>2. \A j \in 1 .. (i - 1) : b[j].seq \in Nat
    BY <2>1, ElementFacts, OpFacts
  <2> QED  BY <1>1, <2>1, <2>2 DEF Ascending
<1>3. ~\E j \in {l \in 1 .. (i - 1) : out[l] = "accept"} : b[i].seq <= b[j].seq
  BY <1>2
<1>4. /\ out[i] # "sequence_out_of_order"
      /\ out[i] = "object_not_found" => NotOwned(b, out, i)
      /\ out[i] = "duplicate" /\ ~IsBulkHistoryImport(b[i]) =>
           \/ \E c \in stored : log[c] = b[i]
           \/ b[i].seq <= lastSeq[d] /\ ShapeOk(b[i]) /\ ~(b[i].seq < 1)
      /\ out[i] \in {"malformed", "invalid_device_sequence"} => ~ShapeOk(b[i]) \/ b[i].seq < 1
      /\ out[i] = "storage_quota_exceeded" => QuotaExceeded
      /\ out[i] = "accept" => ~QuotaExceeded
  BY <1>3, Zenon DEF Verdict, PersistedSequence
<1> QED  BY <1>1, <1>4 DEF NotOwned

\* The device's transaction opens on the batch of a request.
LEMMA TakeKeeps ==
  ASSUME UploadInv, NEW d \in Devices, NEW b, Request(d, b), ValidateBatch(d, b)
  PROVE  /\ TypeOK' /\ LogGapFree' /\ TxOk'
         /\ tx[d] = NoTx /\ tx'[d] # NoTx /\ tx'[d].batch = b
         /\ \A f \in Devices \ {d} : tx'[f] = tx[f]
         /\ UNCHANGED <<logVars, otherVars>>
<1>1. b \in BatchesOf(d) /\ b \in Seq(Ops) /\ Ascending(b) /\ Len(b) \in 1 .. MaxBatch
  BY RequestIsBatch DEF Request
<1>2. TypeOK' /\ LogGapFree'
  BY <1>1, TypeValidate DEF UploadInv
<1>3. PICK out \in [1 .. Len(b) -> Verdicts] :
        /\ tx'[d] = [batch |-> b, out |-> out]
        /\ \A f \in Devices \ {d} : tx'[f] = tx[f]
        /\ \A i \in 1 .. Len(b) : out[i] = Verdict(d, b, out, i)
        /\ UNCHANGED <<logVars, otherVars>>
  BY <1>1, Validated DEF UploadInv
<1>4. tx'[d].batch = b /\ tx'[d].out = out
  BY <1>3
<1>5. tx[d] = NoTx /\ tx'[d] # NoTx
  <2>1. Len(b) # 0 /\ Len(NoTx.batch) = 0
    BY <1>1, NoTxType
  <2> QED  BY <1>4, <2>1 DEF ValidateBatch
<1>6. \A i \in 1 .. Len(b) :
        /\ out[i] # "sequence_out_of_order"
        /\ out[i] = "object_not_found" => ~IsOrigination(b[i])
  BY <1>1, <1>3, VerdictFacts DEF UploadInv
<1>7. TxOk'
  <2> SUFFICES ASSUME NEW f \in Devices
               PROVE  /\ Ascending(tx'[f].batch)
                      /\ \A i \in 1 .. Len(tx'[f].batch) :
                           /\ tx'[f].out[i] # "sequence_out_of_order"
                           /\ tx'[f].out[i] = "object_not_found" => ~IsOrigination(tx'[f].batch[i])
    BY DEF TxOk, Ascending
  <2>1. CASE f = d
    BY <1>1, <1>4, <1>6, <2>1
  <2>2. CASE f # d
    BY <1>3, <2>2 DEF UploadInv, TxOk
  <2> QED  BY <2>1, <2>2
<1> QED  BY <1>2, <1>3, <1>4, <1>5, <1>7

LEMMA TakeRequestInv ==
  ASSUME UploadInv, NEW d \in Devices, NEW c \in Callers, TakeRequest(d, c)
  PROVE  UploadInv'
<1> DEFINE k == [call[d][c] EXCEPT !.pc = "serving"]
<1>1. /\ call[d][c].pc = "sent" /\ ValidateBatch(d, call[d][c].batch)
      /\ call' = [call EXCEPT ![d][c].pc = "serving"]
      /\ UNCHANGED <<seqno, drafts, queue, flight, tries, skip, drained, done, dropped, stray>>
  BY DEF TakeRequest
<1>2. CallOk(d, call[d][c]) /\ call[d][c] \in CallRecord
  BY DEF UploadInv, CallsOk, CallOk
<1>3. Request(d, call[d][c].batch)
  BY <1>1, <1>2 DEF CallOk
<1>4. /\ TypeOK' /\ LogGapFree' /\ TxOk'
      /\ tx[d] = NoTx /\ tx'[d] # NoTx /\ tx'[d].batch = call[d][c].batch
      /\ \A f \in Devices \ {d} : tx'[f] = tx[f]
  BY <1>1, <1>3, TakeKeeps
<1>5. /\ k \in CallRecord /\ k.pc = "serving" /\ k.batch = call[d][c].batch
      /\ k.read = call[d][c].read /\ k.out = call[d][c].out
  BY <1>2 DEF CallRecord, Phases
<1>6. call' = [call EXCEPT ![d][c] = k]
  BY <1>1, <1>2 DEF UploadInv, CallsOk
<1> HIDE DEF k
<1>7. Sets(d, c, k)
  BY <1>5, <1>6, SetsOne DEF UploadInv
<1>8. CallOk(d, k)
  BY <1>1, <1>2, <1>5 DEF CallOk
<1>9. CallsOk'
  BY <1>7, <1>8 DEF UploadInv, CallsOk, Sets
<1>10. StraysOk' /\ RowsOk' /\ CountersOk'
  BY <1>1 DEF UploadInv, StraysOk, RowsOk, CountersOk
<1>11. ServingOk'
  <2>1. stray[d].pc # "serving" /\ \A e \in Callers : call[d][e].pc # "serving"
    BY <1>4 DEF UploadInv, ServingOk
  <2>2. \A e \in Callers : call'[d][e].pc = "serving" => e = c
    BY <1>7, <2>1 DEF Sets
  <2>3. call'[d][c].batch = tx'[d].batch /\ stray' = stray
    BY <1>1, <1>4, <1>5, <1>7 DEF Sets
  <2>4. \A f \in Devices \ {d} : call'[f] = call[f] /\ tx'[f] = tx[f]
    BY <1>4, <1>7 DEF Sets
  <2> QED  BY <1>4, <2>1, <2>2, <2>3, <2>4 DEF UploadInv, ServingOk
<1>12. InFlightOwned'
  <2>1. \A op : Owns(call[d][c], op) => Owns(k, op)
    BY <1>5 DEF Owns
  <2> QED  BY <1>1, <1>7, <2>1, OwnedAgain DEF UploadInv
<1>13. DrainedOk'
  <2>1. ~(drained[d] /\ c = "import")
    BY <1>1 DEF UploadInv, DrainedOk, Queue!NoCall
  <2> QED  BY <1>1, <1>7, <2>1 DEF UploadInv, DrainedOk, Sets
<1> QED  BY <1>4, <1>9, <1>10, <1>11, <1>12, <1>13 DEF UploadInv

LEMMA TakeStrayInv ==
  ASSUME UploadInv, NEW d \in Devices, TakeStray(d)
  PROVE  UploadInv'
<1>1. /\ stray[d].pc = "sent" /\ ValidateBatch(d, stray[d].batch)
      /\ stray' = [stray EXCEPT ![d].pc = "serving"]
      /\ UNCHANGED <<seqno, drafts, queue, flight, tries, skip, call, drained, done, dropped>>
  BY DEF TakeStray, queueVars
<1>2. Request(d, stray[d].batch)
  BY <1>1 DEF UploadInv, StraysOk
<1>3. /\ TypeOK' /\ LogGapFree' /\ TxOk'
      /\ tx[d] = NoTx /\ tx'[d] # NoTx /\ tx'[d].batch = stray[d].batch
      /\ \A f \in Devices \ {d} : tx'[f] = tx[f]
  BY <1>1, <1>2, TakeKeeps
<1>4. CallsOk' /\ RowsOk' /\ CountersOk' /\ DrainedOk' /\ InFlightOwned'
  BY <1>1, QueueStays
<1>5. /\ stray'[d].pc = "serving" /\ stray'[d].batch = stray[d].batch
      /\ \A f \in Devices \ {d} : stray'[f] = stray[f]
      /\ stray' \in [Devices -> [pc : {"idle", "sent", "serving"}, batch : Seq(Ops)]]
  BY <1>1 DEF UploadInv, StraysOk
<1>6. StraysOk'
  <2>1. \A f \in Devices : stray'[f].pc # "idle" => Request(f, stray'[f].batch)
    BY <1>2, <1>5 DEF UploadInv, StraysOk
  <2> QED  BY <1>5, <2>1 DEF StraysOk
<1>7. ServingOk'
  <2>1. \A e \in Callers : call[d][e].pc # "serving"
    BY <1>3 DEF UploadInv, ServingOk
  <2> QED  BY <1>1, <1>3, <1>5, <2>1 DEF UploadInv, ServingOk
<1> QED  BY <1>3, <1>4, <1>6, <1>7 DEF UploadInv

LEMMA LoseStrayInv ==
  ASSUME UploadInv, NEW d \in Devices, LoseStray(d)
  PROVE  UploadInv'
<1>1. /\ stray' = [stray EXCEPT ![d] = NoStray]
      /\ UNCHANGED <<vars, tx, seqno, drafts, queue, flight, tries, skip, call, drained, done,
                     dropped>>
  BY DEF LoseStray, queueVars, vars
<1>2. TypeOK' /\ LogGapFree'
  BY <1>1, TypeStep DEF UploadInv
<1>3. CallsOk' /\ RowsOk' /\ CountersOk' /\ DrainedOk' /\ InFlightOwned' /\ TxOk'
  BY <1>1, QueueStays DEF UploadInv, TxOk
<1>4. /\ stray'[d].pc = "idle"
      /\ \A f \in Devices \ {d} : stray'[f] = stray[f]
      /\ stray' \in [Devices -> [pc : {"idle", "sent", "serving"}, batch : Seq(Ops)]]
  BY <1>1, EmptySeq DEF UploadInv, StraysOk, NoStray
<1>5. StraysOk'
  <2>1. \A f \in Devices : stray'[f].pc # "idle" => Request(f, stray'[f].batch)
    BY <1>4 DEF UploadInv, StraysOk
  <2> QED  BY <1>4, <2>1 DEF StraysOk
<1>6. ServingOk'
  BY <1>1, <1>4 DEF UploadInv, ServingOk
<1> QED  BY <1>2, <1>3, <1>5, <1>6 DEF UploadInv

\* The device's transaction is closed.
LEMMA TxClosed ==
  ASSUME UploadInv, NEW d \in Devices, tx' = [tx EXCEPT ![d] = NoTx]
  PROVE  TxOk' /\ tx'[d] = NoTx /\ \A f \in Devices \ {d} : tx'[f] = tx[f]
<1>1. tx'[d] = NoTx /\ \A f \in Devices \ {d} : tx'[f] = tx[f]
  BY DEF UploadInv, TypeOK
<1>2. \A f \in Devices \ {d} : /\ Ascending(tx[f].batch)
        /\ \A i \in 1 .. Len(tx[f].batch) :
             /\ tx[f].out[i] # "sequence_out_of_order"
             /\ tx[f].out[i] = "object_not_found" => ~IsOrigination(tx[f].batch[i])
  BY DEF UploadInv, TxOk
<1>3. Ascending(NoTx.batch) /\ Len(NoTx.batch) = 0
  BY NoTxType DEF Ascending
<1> QED  BY <1>1, <1>2, <1>3 DEF TxOk

LEMMA ServerErrorInv ==
  ASSUME UploadInv, NEW d \in Devices, ServerError(d)
  PROVE  UploadInv'
<1>1. tx[d] # NoTx /\ tx' = [tx EXCEPT ![d] = NoTx] /\ UNCHANGED <<logVars, otherVars>>
  BY DEF ServerError, AbortBatch
<1>2. TxOk' /\ tx'[d] = NoTx /\ \A f \in Devices \ {d} : tx'[f] = tx[f]
  BY <1>1, TxClosed
<1>3. TypeOK' /\ LogGapFree'
  <2>1. AbortBatch(d)
    BY DEF ServerError
  <2>2. Next
    BY <2>1 DEF Next
  <2> QED  BY <2>2, TypeStep DEF UploadInv
<1>4. CASE \E c \in Callers : /\ call[d][c].pc = "serving"
                              /\ Queue!FailCall(d, c)
                              /\ UNCHANGED stray
  <2>1. PICK c \in Callers : call[d][c].pc = "serving" /\ Queue!FailCall(d, c) /\ UNCHANGED stray
    BY <1>4
  <2>2. /\ Sets(d, c, Queue!NoCall)
        /\ CallsOk' /\ RowsOk' /\ CountersOk' /\ DrainedOk' /\ InFlightOwned'
    BY <2>1, FailKeeps
  <2>3. StraysOk'
    BY <2>1 DEF UploadInv, StraysOk
  <2>4. ServingOk'
    <3>1. stray[d].pc # "serving" /\ \A e \in Callers : call[d][e].pc = "serving" => e = c
      BY <2>1 DEF UploadInv, ServingOk
    <3>2. \A e \in Callers : call'[d][e].pc # "serving"
      BY <2>2, <3>1 DEF Sets, Queue!NoCall
    <3>3. \A f \in Devices \ {d} : call'[f] = call[f]
      BY <2>2 DEF Sets
    <3> QED  BY <1>2, <2>1, <3>1, <3>2, <3>3 DEF UploadInv, ServingOk
  <2> QED  BY <1>2, <1>3, <2>2, <2>3, <2>4 DEF UploadInv
<1>5. CASE /\ stray[d].pc = "serving"
           /\ stray' = [stray EXCEPT ![d] = NoStray]
           /\ UNCHANGED queueVars
  <2>1. UNCHANGED <<seqno, drafts, queue, flight, tries, skip, call, drained, done, dropped>>
    BY <1>5 DEF queueVars
  <2>2. CallsOk' /\ RowsOk' /\ CountersOk' /\ DrainedOk' /\ InFlightOwned'
    BY <2>1, QueueStays
  <2>3. /\ stray'[d].pc = "idle"
        /\ \A f \in Devices \ {d} : stray'[f] = stray[f]
        /\ stray' \in [Devices -> [pc : {"idle", "sent", "serving"}, batch : Seq(Ops)]]
    BY <1>5, EmptySeq DEF UploadInv, StraysOk, NoStray
  <2>4. StraysOk'
    <3>1. \A f \in Devices : stray'[f].pc # "idle" => Request(f, stray'[f].batch)
      BY <2>3 DEF UploadInv, StraysOk
    <3> QED  BY <2>3, <3>1 DEF StraysOk
  <2>5. ServingOk'
    <3>1. \A e \in Callers : call[d][e].pc # "serving"
      BY <1>5 DEF UploadInv, ServingOk
    <3> QED  BY <1>2, <2>1, <2>3, <3>1 DEF UploadInv, ServingOk
  <2> QED  BY <1>2, <1>3, <2>2, <2>4, <2>5 DEF UploadInv
<1> QED  BY <1>4, <1>5 DEF ServerError

\* The calls that wait for the request being committed get its verdicts.
LEMMA AnswerEffect ==
  ASSUME UploadInv, NEW d \in Devices, FinishUpload(d)
  PROVE  /\ call' \in [Devices -> [Callers -> CallRecord]]
         /\ \A f \in Devices \ {d} : call'[f] = call[f]
         /\ \A c \in Callers :
              \/ call[d][c].pc # "serving" /\ call'[d][c] = call[d][c]
              \/ /\ call[d][c].pc = "serving" /\ call'[d][c].pc = "answered"
                 /\ call'[d][c].batch = call[d][c].batch /\ call'[d][c].read = call[d][c].read
                 /\ call'[d][c].out = tx[d].out /\ tx[d].batch = call[d][c].batch
<1>1. call \in [Devices -> [Callers -> CallRecord]] /\ tx[d].out \in Seq(Verdicts)
  BY TxFacts DEF UploadInv, CallsOk
<1> DEFINE now == [c \in Callers |->
                     IF call[d][c].pc = "serving"
                       THEN [call[d][c] EXCEPT !.pc = "answered", !.out = tx[d].out]
                       ELSE call[d][c]]
<1>2. call' = [call EXCEPT ![d] = now]
  BY <1>1 DEF FinishUpload
<1>3. ASSUME NEW c \in Callers
      PROVE  /\ now[c] \in CallRecord
             /\ \/ call[d][c].pc # "serving" /\ now[c] = call[d][c]
                \/ /\ call[d][c].pc = "serving" /\ now[c].pc = "answered"
                   /\ now[c].batch = call[d][c].batch /\ now[c].read = call[d][c].read
                   /\ now[c].out = tx[d].out
  <2>1. call[d][c] \in CallRecord
    BY <1>1
  <2> QED  BY <1>1, <2>1 DEF CallRecord, Phases
<1>4. now \in [Callers -> CallRecord]
  <2>1. \A c \in Callers : now[c] \in CallRecord
    BY <1>3
  <2> QED  BY <2>1
<1> HIDE DEF now
<1>5. /\ call' \in [Devices -> [Callers -> CallRecord]] /\ call'[d] = now
      /\ \A f \in Devices \ {d} : call'[f] = call[f]
  BY <1>1, <1>2, <1>4
<1>6. \A c \in Callers : call[d][c].pc = "serving" => tx[d].batch = call[d][c].batch
  BY DEF UploadInv, ServingOk
<1> QED  BY <1>3, <1>5, <1>6

LEMMA FinishInv ==
  ASSUME UploadInv, NEW d \in Devices, FinishUpload(d)
  PROVE  UploadInv'
<1>1. /\ CommitBatch(d)
      /\ stray' = IF stray[d].pc = "serving" THEN [stray EXCEPT ![d] = NoStray] ELSE stray
      /\ UNCHANGED <<seqno, drafts, queue, flight, tries, skip, drained, done, dropped>>
  BY DEF FinishUpload
<1>2. TypeOK' /\ LogGapFree'
  BY <1>1, TypeCommit DEF UploadInv
<1>3. tx' = [tx EXCEPT ![d] = NoTx]
  BY <1>1 DEF CommitBatch
<1>4. TxOk' /\ tx'[d] = NoTx /\ \A f \in Devices \ {d} : tx'[f] = tx[f]
  BY <1>3, TxClosed
<1>5. /\ call' \in [Devices -> [Callers -> CallRecord]]
      /\ \A f \in Devices \ {d} : call'[f] = call[f]
      /\ \A c \in Callers :
           \/ call[d][c].pc # "serving" /\ call'[d][c] = call[d][c]
           \/ /\ call[d][c].pc = "serving" /\ call'[d][c].pc = "answered"
              /\ call'[d][c].batch = call[d][c].batch /\ call'[d][c].read = call[d][c].read
              /\ call'[d][c].out = tx[d].out /\ tx[d].batch = call[d][c].batch
  BY AnswerEffect
<1>6. CallsOk'
  <2>1. ASSUME NEW c \in Callers PROVE CallOk(d, call'[d][c])
    <3>1. CallOk(d, call[d][c]) /\ call'[d][c] \in CallRecord
      BY <1>5 DEF UploadInv, CallsOk
    <3>2. CASE call'[d][c] = call[d][c]
      BY <3>1, <3>2
    <3>3. CASE /\ call[d][c].pc = "serving" /\ call'[d][c].pc = "answered"
               /\ call'[d][c].batch = call[d][c].batch /\ call'[d][c].read = call[d][c].read
               /\ call'[d][c].out = tx[d].out /\ tx[d].batch = call[d][c].batch
      <4>1. Len(tx[d].out) = Len(tx[d].batch)
        BY TxFacts DEF UploadInv
      <4>2. Answers(call'[d][c])
        BY <3>3, <4>1, BulkFacts DEF Answers, UploadInv, TxOk
      <4> QED  BY <3>1, <3>3, <4>2 DEF CallOk
    <3> QED  BY <1>5, <3>2, <3>3
  <2>2. \A f \in Devices, c \in Callers : CallOk(f, call'[f][c])
    BY <1>5, <2>1 DEF UploadInv, CallsOk
  <2> QED  BY <1>5, <2>2 DEF CallsOk
<1>7. /\ stray'[d].pc # "serving"
      /\ stray'[d].pc # "idle" => stray'[d] = stray[d]
      /\ \A f \in Devices \ {d} : stray'[f] = stray[f]
      /\ stray' \in [Devices -> [pc : {"idle", "sent", "serving"}, batch : Seq(Ops)]]
  BY <1>1, EmptySeq DEF UploadInv, StraysOk, NoStray
<1>8. StraysOk'
  <2>1. \A f \in Devices : stray'[f].pc # "idle" => Request(f, stray'[f].batch)
    BY <1>7 DEF UploadInv, StraysOk
  <2> QED  BY <1>7, <2>1 DEF StraysOk
<1>9. RowsOk' /\ CountersOk'
  BY <1>1 DEF UploadInv, RowsOk, CountersOk
<1>10. ServingOk'
  <2>1. \A c \in Callers : call'[d][c].pc # "serving"
    BY <1>5
  <2>2. \A f \in Devices \ {d} : call'[f] = call[f] /\ tx'[f] = tx[f] /\ stray'[f] = stray[f]
    BY <1>4, <1>5, <1>7
  <2>3. stray'[d].pc # "serving"
    BY <1>7
  <2> QED  BY <2>1, <2>2, <2>3 DEF UploadInv, ServingOk
<1>11. DrainedOk'
  <2>1. \A f \in Devices, c \in Callers : call[f][c] = Queue!NoCall => call'[f][c] = Queue!NoCall
    BY <1>5 DEF Queue!NoCall
  <2> QED  BY <1>1, <2>1 DEF UploadInv, DrainedOk
<1>12. InFlightOwned'
  <2> SUFFICES ASSUME NEW f \in Devices, NEW op \in flight[f]
               PROVE  \E c \in Callers : Owns(call'[f][c], op)
    BY <1>1 DEF InFlightOwned, Owns
  <2>1. PICK c \in Callers : Owns(call[f][c], op)
    BY DEF UploadInv, InFlightOwned, Owns
  <2>2. Owns(call'[f][c], op)
    BY <1>5, <2>1 DEF Owns
  <2> QED  BY <2>2
<1> QED  BY <1>2, <1>4, <1>6, <1>8, <1>9, <1>10, <1>11, <1>12 DEF UploadInv
-------------------------------------------------------------------------------
LEMMA UploadInit == ProtocolInit => UploadInv
<1> SUFFICES ASSUME ProtocolInit PROVE UploadInv
  OBVIOUS
<1>1. TypeOK /\ LogGapFree
  BY TypeInit DEF ProtocolInit
<1>2. /\ seqno = [d \in Devices |-> 0]
      /\ drafts = [d \in Devices |-> {}]
      /\ queue = [d \in Devices |-> {}]
      /\ flight = [d \in Devices |-> {}]
      /\ tries = [op \in Ops |-> 0]
      /\ skip = [d \in Devices |-> [c \in Callers |-> {}]]
      /\ call = [d \in Devices |-> [c \in Callers |-> Queue!NoCall]]
      /\ drained = [d \in Devices |-> FALSE]
      /\ done = [d \in Devices |-> {}]
      /\ dropped = [d \in Devices |-> {}]
      /\ stray = [d \in Devices |-> NoStray]
      /\ tx = [d \in Devices |-> NoTx]
  BY DEF ProtocolInit, Init, Queue!QueueInit
<1>3. CallsOk
  BY <1>2, Idle DEF CallsOk
<1>4. StraysOk
  BY <1>2, EmptySeq DEF StraysOk, NoStray
<1>5. RowsOk /\ CountersOk
  BY <1>2 DEF RowsOk, CountersOk
<1>6. ServingOk /\ DrainedOk /\ InFlightOwned
  BY <1>2 DEF ServingOk, DrainedOk, InFlightOwned, Queue!NoCall, NoStray
<1>7. TxOk
  <2>1. Ascending(NoTx.batch) /\ Len(NoTx.batch) = 0
    BY NoTxType DEF Ascending
  <2>2. \A d \in Devices : tx[d] = NoTx
    BY <1>2
  <2>3. \A d \in Devices : \A i \in 1 .. Len(tx[d].batch) : FALSE
    BY <2>1, <2>2
  <2>4. \A d \in Devices : Ascending(tx[d].batch)
    BY <2>1, <2>2
  <2> QED  BY <2>3, <2>4 DEF TxOk
<1> QED  BY <1>1, <1>3, <1>4, <1>5, <1>6, <1>7 DEF UploadInv

LEMMA UploadStep ==
  ASSUME UploadInv, [ProtocolNext]_protocolVars
  PROVE  UploadInv'
<1>1. CASE \E d \in Devices : ProducerStep(d)
  <2>1. PICK d \in Devices : ProducerStep(d)
    BY <1>1
  <2>2. UNCHANGED <<vars, stray>>
    BY <2>1 DEF ProducerStep, OnlyClient
  <2>3. CASE \E run \in SUBSET (Unmade(d) \cap Produced) : Queue!Reserve(d, run)
    BY <2>2, <2>3, ReserveInv
  <2>4. CASE \E run \in drafts[d] : Queue!Enqueue(d, run)
    BY <2>2, <2>4, EnqueueInv
  <2>5. CASE "import" \in Callers /\ \E op \in Unmade(d) \cap Produced : Queue!SendChunk(d, op)
    BY <2>2, <2>5, ChunkInv
  <2> QED  BY <2>1, <2>3, <2>4, <2>5 DEF ProducerStep
<1>2. CASE \E d \in Devices, c \in Callers : CallStep(d, c)
  <2>1. PICK d \in Devices, c \in Callers : CallStep(d, c)
    BY <1>2
  <2>2. UNCHANGED <<vars, stray>>
    BY <2>1 DEF CallStep, OnlyClient
  <2>3. CASE Queue!PickBatch(d, c)
    BY <2>2, <2>3, PickInv
  <2>4. CASE Queue!StartUpload(d, c)
    BY <2>2, <2>4, StartInv
  <2>5. CASE Queue!EndCycle(d, c) \/ Queue!FindNothing(d, c)
    BY <2>2, <2>5, IdleStepInv
  <2>6. CASE Queue!ReceiveAnswer(d, c)
    BY <2>2, <2>6, ReceiveInv
  <2>7. CASE \E new \in SUBSET (Unmade(d) \ Produced) : Queue!SettleRejected(d, c, new)
    BY <2>2, <2>7, SettleInv
  <2> QED  BY <2>1, <2>3, <2>4, <2>5, <2>6, <2>7 DEF CallStep
<1>3. CASE UNCHANGED protocolVars
  <2>1. UNCHANGED <<vars, stray, seqno, drafts, queue, flight, tries, skip, call, drained, done,
                    dropped>>
    BY <1>3 DEF protocolVars, queueVars
  <2>2. TypeOK' /\ LogGapFree' /\ StraysOk' /\ ServingOk' /\ TxOk'
    BY <2>1, ProducerKeeps
  <2> QED  BY <2>1, <2>2, QueueStays DEF UploadInv
<1> QED  BY <1>1, <1>2, <1>3, GiveUpInv, CrashInv, TakeRequestInv, TakeStrayInv, LoseStrayInv,
            FinishInv, ServerErrorInv
         DEF ProtocolNext

LEMMA UploadInvariant == ProtocolSpec => []UploadInv
BY UploadInit, UploadStep, PTL DEF ProtocolSpec

\* A row of the pending queue is marked in flight only while an upload call works
\* on it: no crash, timeout, server error or second call that read the same rows
\* leaves a row that no cycle will ever send.
THEOREM InFlightOwnedHolds == ProtocolSpec => []InFlightOwned
<1>1. UploadInv => InFlightOwned
  BY DEF UploadInv
<1> QED  BY <1>1, UploadInvariant, PTL

\* No operation is rejected as out of order within its batch, whatever requests
\* are repeated or processed after their sender gave up on them: the device that
\* sorts its queue never meets that verdict of process_batch.
THEOREM NeverOutOfOrderHolds == ProtocolSpec => []NeverOutOfOrder
<1>1. UploadInv => NeverOutOfOrder
  <2> SUFFICES ASSUME UploadInv, NEW d \in Devices, NEW i \in DOMAIN tx[d].out
               PROVE  tx[d].out[i] # "sequence_out_of_order"
    BY DEF NeverOutOfOrder
  <2>1. i \in 1 .. Len(tx[d].batch)
    BY TxFacts, LenProperties DEF UploadInv
  <2> QED  BY <2>1 DEF UploadInv, TxOk
<1> QED  BY <1>1, UploadInvariant, PTL
-------------------------------------------------------------------------------
(***************************************************************************)
(* No operation is lost unless it was refused.                             *)
(***************************************************************************)
\* Nothing is taken back: the log and the refusals only grow.
Grown == (\A op : InLog(op) => InLog(op)') /\ refused \subseteq refused'

\* B is a batch of operations the device held, and passes over refused ones only.
Fresh(d, B) ==
  /\ B \subseteq Alive(d)
  /\ \A x \in Alive(d)', y \in B : x.seq < y.seq /\ x \notin B => x \in refused'

LEMMA LossKept ==
  ASSUME UploadInv, NEW d \in Devices, LossInv(d), Grown,
         Alive(d)' \subseteq Alive(d),
         \A B \in Asked(d)' : B \in Asked(d) \/ B = {} \/ Fresh(d, B),
         \A c \in Callers : skip'[d][c] \subseteq refused',
         drafts'[d] \subseteq drafts[d], seqno'[d] = seqno[d], lastSeq'[d] = lastSeq[d],
         Alone(d)', TxRests(d)', Answered(d)', \A op \in done'[d] : Explained(op)'
  PROVE  LossInv(d)'
<1>1. Numbered(d) /\ Fronts(d) /\ Passed(d)
  BY DEF LossInv
<1>2. Seen(d)' \subseteq Seen(d)
  <2>1. \A B \in Asked(d)' : B \subseteq Seen(d)
    BY DEF Seen, Fresh
  <2> QED  BY <2>1 DEF Seen
<1>3. Numbered(d)'
  BY <1>1, <1>2 DEF Numbered
<1>4. Fronts(d)'
  <2>1. ASSUME NEW B \in Asked(d)', NEW x \in Alive(d)', NEW y \in B, x.seq < y.seq, x \notin B
        PROVE  x \in refused'
    <3>1. CASE B \in Asked(d)
      <4>1. Front(d, B)
        BY <1>1, <3>1 DEF Fronts
      <4> QED  BY <2>1, <4>1 DEF Front, Grown
    <3>2. CASE Fresh(d, B)
      BY <2>1, <3>2 DEF Fresh
    <3> QED  BY <3>1, <3>2
  <2>2. \A B \in Asked(d)' : Front(d, B)'
    BY <2>1 DEF Front
  <2> QED  BY <2>2 DEF Fronts
<1>5. Passed(d)'
  <2>1. \A op : Explained(op) => Explained(op)'
    BY DEF Explained, Grown
  <2>2. \A x \in Alive(d)' : x.seq <= lastSeq'[d] /\ Valid(x)' => Valid(x)
    BY DEF Valid, ShapeOk
  <2> QED  BY <1>1, <2>1, <2>2 DEF Passed
<1> QED  BY <1>3, <1>4, <1>5 DEF LossInv

LEMMA TxRestsKept ==
  ASSUME NEW d \in Devices, TxRests(d), Grown, tx'[d] = tx[d], lastSeq'[d] = lastSeq[d]
  PROVE  TxRests(d)'
<1>1. \A op : InLog(op) => InLog(op)'
  BY DEF Grown
<1>2. \A op : Valid(op)' <=> Valid(op)
  BY DEF Valid, ShapeOk
<1> QED  BY <1>1, <1>2 DEF TxRests

LEMMA AnsweredKept ==
  ASSUME NEW d \in Devices, Answered(d), Grown,
         \A c \in Callers :
           \/ call'[d][c].pc \notin {"answered", "judged"}
           \/ /\ call[d][c].pc \in {"answered", "judged"}
              /\ call'[d][c].batch = call[d][c].batch /\ call'[d][c].out = call[d][c].out
  PROVE  Answered(d)'
<1>1. \A op : Explained(op) => Explained(op)'
  BY DEF Explained, Grown
<1>2. refused \subseteq refused'
  BY DEF Grown
<1> QED  BY <1>1, <1>2 DEF Answered

\* A step leaves the device and what the server knows of it alone.
ClientStill(d) ==
  /\ call'[d] = call[d] /\ queue'[d] = queue[d] /\ flight'[d] = flight[d]
  /\ skip'[d] = skip[d] /\ drafts'[d] = drafts[d] /\ seqno'[d] = seqno[d]
  /\ drained'[d] = drained[d] /\ done'[d] = done[d]
ServerStill(d) == stray'[d] = stray[d] /\ tx'[d] = tx[d] /\ lastSeq'[d] = lastSeq[d]

LEMMA LossFrame ==
  ASSUME UploadInv, NEW d \in Devices, LossInv(d), Grown, ClientStill(d), ServerStill(d)
  PROVE  LossInv(d)'
<1> USE DEF ClientStill, ServerStill
<1>1. Alive(d)' = Alive(d) /\ Asked(d)' = Asked(d)
  BY DEF Alive, Asked
<1>2. Alone(d)'
  BY DEF LossInv, Alone
<1>3. TxRests(d)'
  BY TxRestsKept DEF LossInv
<1>4. Answered(d)'
  BY AnsweredKept DEF LossInv
<1>5. \A op \in done'[d] : Explained(op)'
  BY DEF LossInv, Explained, Grown
<1>6. \A c \in Callers : skip'[d][c] \subseteq refused'
  BY DEF LossInv, Fronts, Grown
<1> QED  BY <1>1, <1>2, <1>3, <1>4, <1>5, <1>6, LossKept

\* The other devices of a step.
LEMMA CallElsewhere ==
  ASSUME UploadInv, NEW d \in Devices, NEW c \in Callers, NEW e \in Devices \ {d},
         \/ Queue!PickBatch(d, c) \/ Queue!StartUpload(d, c) \/ Queue!EndCycle(d, c)
         \/ Queue!FindNothing(d, c) \/ Queue!ReceiveAnswer(d, c)
         \/ \E new : Queue!SettleRejected(d, c, new)
         \/ Queue!FailCall(d, c)
  PROVE  ClientStill(e)
<1> USE DEF ClientStill
<1>1. CallsOk /\ RowsOk /\ CountersOk
  BY DEF UploadInv
<1>2. CASE Queue!PickBatch(d, c)
  BY <1>1, <1>2 DEF Queue!PickBatch, CallsOk
<1>3. CASE Queue!StartUpload(d, c)
  <2>1. /\ UNCHANGED <<seqno, drafts, done>>
        /\ \E n \in 0 .. Len(call[d][c].batch) :
             \E v \in [1 .. n -> 1 .. Len(call[d][c].batch)], sent \in [1 .. n -> Ops] :
               Starts(d, c, n, v, sent)
    BY <1>3, StartCases
  <2>2. PICK n, v, sent : n \in Nat /\ Starts(d, c, n, v, sent)
    BY <2>1
  <2>3. queue'[e] = queue[e] /\ flight'[e] = flight[e]
    BY <1>1, <2>2 DEF Starts, RowsOk
  <2>4. call'[e] = call[e]
    BY <1>1, <2>2 DEF Starts, CallsOk
  <2>5. skip'[e] = skip[e] /\ drained'[e] = drained[e]
    BY <1>1, <2>2 DEF Starts, CountersOk, Queue!Returns
  <2> QED  BY <2>1, <2>3, <2>4, <2>5
<1>4. CASE Queue!EndCycle(d, c)
  BY <1>1, <1>4 DEF Queue!EndCycle, CountersOk
<1>5. CASE Queue!FindNothing(d, c)
  BY <1>1, <1>5 DEF Queue!FindNothing, Queue!Returns, CountersOk
<1>6. CASE Queue!ReceiveAnswer(d, c)
  BY <1>1, <1>6 DEF Queue!ReceiveAnswer, CallsOk, RowsOk, CountersOk
<1>7. CASE \E new : Queue!SettleRejected(d, c, new)
  <2>1. PICK new : Queue!SettleRejected(d, c, new)
    BY <1>7
  <2>2. call'[e] = call[e] /\ queue'[e] = queue[e] /\ flight'[e] = flight[e]
    BY <1>1, <2>1 DEF Queue!SettleRejected, CallsOk, RowsOk
  <2>3. seqno'[e] = seqno[e] /\ UNCHANGED <<drafts, done>>
    BY <1>1, <2>1 DEF Queue!SettleRejected, CountersOk
  <2>4. skip'[e] = skip[e] /\ drained'[e] = drained[e]
    BY <1>1, <2>1 DEF Queue!SettleRejected, CountersOk, Queue!Returns
  <2> QED  BY <2>2, <2>3, <2>4
<1>8. CASE Queue!FailCall(d, c)
  BY <1>1, <1>8 DEF Queue!FailCall, CallsOk, RowsOk, CountersOk
<1> QED  BY <1>2, <1>3, <1>4, <1>5, <1>6, <1>7, <1>8

LEMMA ProducerElsewhere ==
  ASSUME UploadInv, NEW d \in Devices, NEW e \in Devices \ {d},
         \/ \E run : Queue!Reserve(d, run) \/ Queue!Enqueue(d, run)
         \/ \E op : Queue!SendChunk(d, op)
         \/ Queue!Crash(d)
  PROVE  ClientStill(e)
<1> USE DEF ClientStill
<1>1. CallsOk /\ RowsOk /\ CountersOk
  BY DEF UploadInv
<1>2. CASE \E run : Queue!Reserve(d, run)
  BY <1>1, <1>2 DEF Queue!Reserve, RowsOk, CountersOk
<1>3. CASE \E run : Queue!Enqueue(d, run)
  BY <1>1, <1>3 DEF Queue!Enqueue, RowsOk
<1>4. CASE \E op : Queue!SendChunk(d, op)
  BY <1>1, <1>4 DEF Queue!SendChunk, CallsOk, CountersOk
<1>5. CASE Queue!Crash(d)
  BY <1>1, <1>5 DEF Queue!Crash, CallsOk, RowsOk, CountersOk
<1> QED  BY <1>2, <1>3, <1>4, <1>5

\* A device on which only the capture and the cycle run takes its own steps.
LEMMA OwnStepFacts ==
  ASSUME UploadInv, UploadInv', NEW d \in Devices, LossInv(d), OnlyClient, d \notin ran'
  PROVE  /\ Grown /\ ServerStill(d) /\ UNCHANGED refused
         /\ Alone(d)' /\ TxRests(d)' /\ d \notin ran
         /\ seqno'[d] # seqno[d] => drafts'[d] # drafts[d]
         /\ \A c \in Callers : call'[d][c].pc # "idle" => c = "cycle"
<1>1. UNCHANGED <<log, lastSeq, tx, stray, refused>> /\ ~Joined(d) /\ d \notin ran
  BY DEF OnlyClient, vars
<1>2. Grown /\ ServerStill(d)
  BY <1>1 DEF Grown, InLog, ServerStill
<1>3. TxRests(d)'
  BY <1>2, TxRestsKept DEF LossInv, ServerStill
<1>4. ~drained'[d] /\ \A c \in Callers \ {"cycle"} : call'[d][c].pc = "idle"
  BY <1>1 DEF Joined
<1>5. Alone(d)'
  <2>1. \A c \in Callers : call'[d][c].pc = "idle" => call'[d][c] = Queue!NoCall
    BY DEF UploadInv, CallsOk, CallOk
  <2> QED  BY <1>4, <2>1 DEF Alone
<1>6. seqno'[d] # seqno[d] => drafts'[d] # drafts[d]
  BY <1>1 DEF Joined
<1> QED  BY <1>1, <1>2, <1>3, <1>4, <1>5, <1>6
-------------------------------------------------------------------------------
(***************************************************************************)
(* Its steps, one by one.                                                  *)
(***************************************************************************)
LEMMA NoElements == Queue!Elements(Queue!NoCall.batch) = {}
BY EmptySeq DEF Queue!Elements, Queue!NoCall

\* What the device holds and asks after a step of one call.
LEMMA HeldCases ==
  ASSUME NEW d \in Devices, NEW c \in Callers, NEW k, Sets(d, c, k)
  PROVE  /\ \A op \in Alive(d)' :
              /\ op \in Ops
              /\ \/ op \in queue'[d] \cup flight'[d]
                 \/ op \in Queue!Elements(k.batch)
                 \/ \E e \in Callers \ {c} : op \in Queue!Elements(call[d][e].batch)
         /\ ServerStill(d) =>
              \A B \in Asked(d)' : B \in Asked(d) \/ B = Queue!Elements(k.batch)
<1>1. \A e \in Callers : call'[d][e] = IF e = c THEN k ELSE call[d][e]
  BY DEF Sets
<1>2. \A op \in Alive(d)' :
        /\ op \in Ops
        /\ op \in queue'[d] \cup flight'[d]
           \/ \E e \in Callers : op \in Queue!Elements(call'[d][e].batch)
  BY DEF Alive
<1>3. ServerStill(d) => \A B \in Asked(d)' :
        B \in Asked(d) \/ \E e \in Callers : B = Queue!Elements(call'[d][e].batch)
  BY DEF Asked, ServerStill
<1>4. \A e \in Callers : Queue!Elements(call[d][e].batch) \in Asked(d)
  BY DEF Asked
<1> QED  BY <1>1, <1>2, <1>3, <1>4

\* An open call is the cycle's, and no other is open.
LEMMA CycleOnly ==
  ASSUME NEW d \in Devices, Alone(d), NEW c \in Callers, call[d][c].pc # "idle"
  PROVE  c = "cycle" /\ \A e \in Callers \ {c} : call[d][e] = Queue!NoCall
BY DEF Alone, Queue!NoCall

\* What a call skips after a step: nothing more than refused operations.
LEMMA SkipKept ==
  ASSUME UploadInv, NEW d \in Devices, LossInv(d), Grown, NEW c \in Callers, NEW more,
         more \subseteq refused',
         \/ UNCHANGED skip
         \/ skip' = [skip EXCEPT ![d][c] = {}]
         \/ skip' = [skip EXCEPT ![d][c] = @ \cup more]
  PROVE  \A e \in Callers : skip'[d][e] \subseteq refused'
<1>1. skip \in [Devices -> [Callers -> SUBSET Ops]]
  BY DEF UploadInv, CountersOk
<1>2. \A e \in Callers : skip[d][e] \subseteq refused'
  BY DEF LossInv, Fronts, Grown
<1>3. \A e \in Callers : skip'[d][e] = skip[d][e] \/ skip'[d][e] = {}
                         \/ skip'[d][e] = skip[d][e] \cup more
  BY <1>1
<1> QED  BY <1>2, <1>3

LEMMA PickLoss ==
  ASSUME UploadInv, UploadInv', NEW d \in Devices, LossInv(d), NEW c \in Callers,
         Queue!PickBatch(d, c), OnlyClient, d \notin ran'
  PROVE  LossInv(d)'
<1>1. /\ Grown /\ ServerStill(d) /\ UNCHANGED refused
      /\ Alone(d)' /\ TxRests(d)'
      /\ \A e \in Callers : call'[d][e].pc # "idle" => e = "cycle"
  BY OwnStepFacts
<1>2. PICK k \in CallRecord : /\ Sets(d, c, k) /\ k.pc = "picked"
                              /\ Queue!IsPendingBatch(k.batch, Queue!Pending(d, c))
  BY PickCases
<1>3. call'[d][c] = k /\ c = "cycle"
  BY <1>1, <1>2 DEF Sets
<1>4. /\ \A e \in Callers : call[d][e] = Queue!NoCall
      /\ UNCHANGED <<seqno, drafts, queue, flight, skip, done>>
  BY <1>3 DEF Queue!PickBatch, LossInv, Alone
<1>5. flight[d] = {}
  <2>1. \A e \in Callers : \A op : ~Owns(call[d][e], op)
    BY <1>4, EmptySeq DEF Owns, Queue!NoCall
  <2>2. \A op \in flight[d] : \E e \in Callers : Owns(call[d][e], op)
    BY DEF UploadInv, InFlightOwned, Owns
  <2> QED  BY <2>1, <2>2
<1>6. \A op \in Alive(d)' : op \in Ops /\ (op \in queue[d] \/ op \in Queue!Elements(k.batch))
  BY <1>2, <1>4, <1>5, HeldCases, NoElements
<1>7. Queue!Elements(k.batch) \subseteq queue[d]
  BY <1>2 DEF Queue!IsPendingBatch, Queue!Pending
<1>8. queue[d] \subseteq Alive(d)
  BY DEF Alive, UploadInv, RowsOk
<1>9. Fresh(d, Queue!Elements(k.batch))
  <2> SUFFICES ASSUME NEW x \in Alive(d)', NEW y \in Queue!Elements(k.batch),
                      x.seq < y.seq, x \notin Queue!Elements(k.batch)
               PROVE  x \in refused'
    BY <1>7, <1>8 DEF Fresh
  <2>1. x \in queue[d] /\ x.seq \in Nat /\ y.seq \in Nat
    <3>1. x \in Ops /\ y \in Ops
      BY <1>6, <1>7, <1>8 DEF Alive
    <3> QED  BY <1>6, <3>1, OpFacts
  <2>2. x \notin Queue!Pending(d, c)
    <3>1. PICK i \in 1 .. Len(k.batch) : y = k.batch[i]
      BY DEF Queue!Elements
    <3>2. x \in Queue!Pending(d, c) => y.seq < x.seq
      BY <1>2, <3>1 DEF Queue!IsPendingBatch
    <3> QED  BY <2>1, <3>2
  <2>3. x \in skip[d][c]
    BY <2>1, <2>2 DEF Queue!Pending
  <2> QED  BY <1>1, <2>3 DEF LossInv, Fronts
<1>10. Alive(d)' \subseteq Alive(d)
  BY <1>6, <1>7, <1>8
<1>11. \A B \in Asked(d)' : B \in Asked(d) \/ B = {} \/ Fresh(d, B)
  BY <1>1, <1>2, <1>9, HeldCases
<1>12. Answered(d)'
  <2>1. \A e \in Callers : call'[d][e].pc \notin {"answered", "judged"}
    BY <1>2, <1>4 DEF Sets, Queue!NoCall
  <2> QED  BY <1>1, <2>1, AnsweredKept DEF LossInv
<1>13. \A op \in done'[d] : Explained(op)'
  BY <1>1, <1>4 DEF LossInv, Explained, Grown
<1>14. \A e \in Callers : skip'[d][e] \subseteq refused'
  BY <1>1, <1>4 DEF LossInv, Fronts
<1> QED  BY <1>1, <1>4, <1>10, <1>11, <1>12, <1>13, <1>14, LossKept DEF ServerStill

LEMMA IdleLoss ==
  ASSUME UploadInv, UploadInv', NEW d \in Devices, LossInv(d), NEW c \in Callers,
         Queue!EndCycle(d, c) \/ Queue!FindNothing(d, c), OnlyClient, d \notin ran'
  PROVE  LossInv(d)'
<1>1. /\ Grown /\ ServerStill(d) /\ UNCHANGED refused
      /\ Alone(d)' /\ TxRests(d)'
  BY OwnStepFacts
<1>2. /\ UNCHANGED <<seqno, drafts, queue, flight, call, done>>
      /\ skip' = [skip EXCEPT ![d][c] = {}]
  BY DEF Queue!EndCycle, Queue!FindNothing, Queue!Returns
<1>3. Alive(d)' = Alive(d) /\ Asked(d)' = Asked(d)
  BY <1>1, <1>2 DEF Alive, Asked, ServerStill
<1>4. Answered(d)'
  BY <1>1, <1>2, AnsweredKept DEF LossInv
<1>5. \A e \in Callers : skip'[d][e] \subseteq refused'
  BY <1>1, <1>2 DEF LossInv, Fronts, UploadInv, CountersOk
<1>6. \A op \in done'[d] : Explained(op)'
  BY <1>1, <1>2 DEF LossInv, Explained, Grown
<1> QED  BY <1>1, <1>2, <1>3, <1>4, <1>5, <1>6, LossKept DEF ServerStill

LEMMA StartLoss ==
  ASSUME UploadInv, UploadInv', NEW d \in Devices, LossInv(d), NEW c \in Callers,
         Queue!StartUpload(d, c), OnlyClient, d \notin ran'
  PROVE  LossInv(d)'
<1>1. /\ Grown /\ ServerStill(d) /\ UNCHANGED refused
      /\ Alone(d)' /\ TxRests(d)'
  BY OwnStepFacts
<1>2. /\ call[d][c].pc = "picked" /\ call[d][c].batch \in Seq(Ops)
      /\ UNCHANGED <<seqno, drafts, done>>
      /\ \E n \in 0 .. Len(call[d][c].batch) :
           \E v \in [1 .. n -> 1 .. Len(call[d][c].batch)], sent \in [1 .. n -> Ops] :
             /\ Starts(d, c, n, v, sent)
             /\ n \in Nat /\ v \in Seq(1 .. Len(call[d][c].batch)) /\ Len(v) = n
             /\ sent \in Seq(Ops) /\ Len(sent) = n
             /\ Queue!Elements(sent) \subseteq Queue!Elements(call[d][c].batch)
  BY StartCases
<1>3. PICK n \in 0 .. Len(call[d][c].batch) :
        \E v \in [1 .. n -> 1 .. Len(call[d][c].batch)], sent \in [1 .. n -> Ops] :
          /\ Starts(d, c, n, v, sent)
          /\ n \in Nat /\ v \in Seq(1 .. Len(call[d][c].batch)) /\ Len(v) = n
          /\ sent \in Seq(Ops) /\ Len(sent) = n
          /\ Queue!Elements(sent) \subseteq Queue!Elements(call[d][c].batch)
  BY <1>2
<1>4. PICK v \in [1 .. n -> 1 .. Len(call[d][c].batch)], sent \in [1 .. n -> Ops] :
        /\ Starts(d, c, n, v, sent)
        /\ n \in Nat /\ v \in Seq(1 .. Len(call[d][c].batch)) /\ Len(v) = n
        /\ sent \in Seq(Ops) /\ Len(sent) = n
        /\ Queue!Elements(sent) \subseteq Queue!Elements(call[d][c].batch)
  BY <1>3
<1>5. \A e \in Callers \ {c} : call[d][e] = Queue!NoCall
  BY <1>2, CycleOnly DEF LossInv
<1>6. PICK k \in CallRecord : /\ Sets(d, c, k) /\ k.pc \in {"idle", "sent"}
                              /\ Queue!Elements(k.batch) = Queue!Elements(sent)
  <2>1. call[d][c] \in CallRecord
    BY DEF UploadInv, CallsOk
  <2>2. CASE n > 0
    <3> DEFINE k == [call[d][c] EXCEPT !.pc = "sent", !.batch = sent,
                                       !.read = [i \in 1 .. n |-> @[v[i]]]]
    <3>1. call' = [call EXCEPT ![d][c] = k]
      BY <1>4, <2>2 DEF Starts
    <3>2. k.batch = sent /\ k.pc = "sent" /\ call'[d][c] = k
      BY <2>1, <3>1 DEF CallRecord, UploadInv, CallsOk
    <3> HIDE DEF k
    <3>3. k \in CallRecord
      BY <3>2 DEF UploadInv, CallsOk
    <3>4. Sets(d, c, k)
      BY <3>1, <3>3, SetsOne DEF UploadInv
    <3> QED  BY <3>2, <3>3, <3>4
  <2>3. CASE n = 0
    <3>1. call' = [call EXCEPT ![d][c] = Queue!NoCall]
      BY <1>4, <2>3 DEF Starts
    <3>2. Sets(d, c, Queue!NoCall)
      BY <3>1, Idle, SetsOne DEF UploadInv
    <3>3. Queue!Elements(sent) = {}
      BY <1>4, <2>3 DEF Queue!Elements
    <3>4. Queue!NoCall.pc = "idle"
      BY DEF Queue!NoCall
    <3> QED  BY <3>2, <3>3, <3>4, NoElements, Idle
  <2> QED  BY <1>4, <2>2, <2>3
<1>7. /\ queue'[d] = queue[d] \ Queue!Elements(call[d][c].batch)
      /\ flight'[d] = (flight[d] \ Queue!Stuck(call[d][c])) \cup Queue!Elements(sent)
  BY <1>4 DEF Starts, UploadInv, RowsOk
<1>8. \A op \in Alive(d)' :
        /\ op \in Ops
        /\ \/ op \in queue[d] /\ op \notin Queue!Elements(call[d][c].batch)
           \/ op \in flight[d] /\ op \notin Queue!Stuck(call[d][c])
           \/ op \in Queue!Elements(sent)
  <2>1. Sets(d, c, k) /\ Queue!Elements(k.batch) = Queue!Elements(sent)
    BY <1>6
  <2>2. \A op \in Alive(d)' :
          /\ op \in Ops
          /\ \/ op \in queue'[d] \cup flight'[d]
             \/ op \in Queue!Elements(sent)
             \/ \E e \in Callers \ {c} : op \in Queue!Elements(call[d][e].batch)
    BY <2>1, HeldCases
  <2>3. \A e \in Callers \ {c} : Queue!Elements(call[d][e].batch) = {}
    BY <1>5, NoElements
  <2> QED  BY <1>7, <2>2, <2>3
<1>9. Queue!Elements(call[d][c].batch) \subseteq Alive(d)
  <2>1. Queue!Elements(call[d][c].batch) \subseteq Ops
    BY <1>2, ElementFacts
  <2> QED  BY <2>1 DEF Alive
<1>10. Alive(d)' \subseteq Alive(d)
  <2>1. \A op \in Ops : op \in queue[d] \cup flight[d] => op \in Alive(d)
    BY DEF Alive
  <2> QED  BY <1>4, <1>8, <1>9, <2>1
<1>11. \A op \in Queue!Elements(call[d][c].batch) :
         op \in Queue!Elements(sent) \/ op \in Queue!Stuck(call[d][c])
  <2> SUFFICES ASSUME NEW i \in 1 .. Len(call[d][c].batch)
               PROVE  \/ call[d][c].batch[i] \in Queue!Elements(sent)
                      \/ call[d][c].batch[i] \in Queue!Stuck(call[d][c])
    BY DEF Queue!Elements
  <2>1. CASE call[d][c].read[i] < MaxAttempts
    <3>1. PICK m \in 1 .. Len(v) : v[m] = i
      BY <1>4, <2>1 DEF Starts, Queue!IsRetryable
    <3>2. m \in 1 .. n /\ sent[m] = call[d][c].batch[i]
      BY <1>4, <3>1 DEF Starts
    <3> QED  BY <1>4, <3>2 DEF Queue!Elements
  <2>2. CASE ~(call[d][c].read[i] < MaxAttempts)
    <3>1. CallOk(d, call[d][c])
      BY DEF UploadInv, CallsOk
    <3>2. call[d][c].read \in Seq(Nat) /\ Len(call[d][c].read) = Len(call[d][c].batch)
      BY <1>2, <3>1 DEF CallOk, CallRecord
    <3>3. call[d][c].read[i] \in Nat
      BY <3>2, ElementOfSeq
    <3>4. call[d][c].read[i] >= MaxAttempts
      BY <2>2, <3>3, ProtocolAssumption
    <3> QED  BY <3>4 DEF Queue!Stuck
  <2> QED  BY <2>1, <2>2
<1>12. Fresh(d, Queue!Elements(sent))
  <2> SUFFICES ASSUME NEW x \in Alive(d)', NEW y \in Queue!Elements(sent),
                      x.seq < y.seq, x \notin Queue!Elements(sent)
               PROVE  x \in refused'
    BY <1>4, <1>9 DEF Fresh
  <2>1. CASE x \notin Queue!Elements(call[d][c].batch)
    <3>1. Queue!Elements(call[d][c].batch) \in Asked(d)
      BY DEF Asked
    <3>2. Front(d, Queue!Elements(call[d][c].batch))
      BY <3>1 DEF LossInv, Fronts
    <3> QED  BY <1>1, <1>4, <1>10, <2>1, <3>2 DEF Front
  <2>2. CASE x \in Queue!Elements(call[d][c].batch)
    <3>1. x \in flight[d] /\ x \notin Queue!Stuck(call[d][c])
      BY <1>8, <2>2
    <3> QED  BY <1>11, <2>2, <3>1
  <2> QED  BY <2>1, <2>2
<1>13. \A B \in Asked(d)' : B \in Asked(d) \/ B = {} \/ Fresh(d, B)
  BY <1>1, <1>6, <1>12, HeldCases
<1>14. Answered(d)'
  <2>1. call'[d][c].pc \notin {"answered", "judged"}
    BY <1>6 DEF Sets
  <2>2. \A e \in Callers \ {c} : call'[d][e] = Queue!NoCall
    BY <1>5, <1>6 DEF Sets
  <2>3. Queue!NoCall.pc = "idle"
    BY DEF Queue!NoCall
  <2>4. \A e \in Callers : call'[d][e].pc \notin {"answered", "judged"}
    BY <2>1, <2>2, <2>3
  <2> QED  BY <1>1, <2>4, AnsweredKept DEF LossInv
<1>15. \A op \in done'[d] : Explained(op)'
  BY <1>1, <1>2 DEF LossInv, Explained, Grown
<1>16. \A e \in Callers : skip'[d][e] \subseteq refused'
  <2>1. UNCHANGED skip \/ skip' = [skip EXCEPT ![d][c] = {}]
    BY <1>4 DEF Starts, Queue!Returns
  <2> QED  BY <1>1, <2>1, SkipKept
<1> QED  BY <1>1, <1>2, <1>10, <1>13, <1>14, <1>15, <1>16, LossKept DEF ServerStill

LEMMA ReceiveLoss ==
  ASSUME UploadInv, UploadInv', NEW d \in Devices, LossInv(d), NEW c \in Callers,
         Queue!ReceiveAnswer(d, c), OnlyClient, d \notin ran'
  PROVE  LossInv(d)'
<1>1. /\ Grown /\ ServerStill(d) /\ UNCHANGED refused
      /\ Alone(d)' /\ TxRests(d)'
  BY OwnStepFacts
<1>2. /\ call[d][c].pc = "answered" /\ UNCHANGED <<seqno, drafts, skip>>
      /\ queue' = [queue EXCEPT ![d] = @ \ Queue!Resolved(d, c)]
      /\ flight' = [flight EXCEPT ![d] = @ \ Queue!Resolved(d, c)]
      /\ done' = [done EXCEPT ![d] = @ \cup Queue!Resolved(d, c)]
      /\ call' = [call EXCEPT ![d][c].pc = "judged"]
  BY DEF Queue!ReceiveAnswer
<1>3. call[d][c] \in CallRecord /\ call[d][c].batch \in Seq(Ops)
  BY DEF UploadInv, CallsOk, CallRecord
<1>4. \A e \in Callers : call'[d][e].batch = call[d][e].batch /\ call'[d][e].out = call[d][e].out
                         /\ (call'[d][e].pc = call[d][e].pc \/ call[d][e].pc = "answered")
  BY <1>2, <1>3 DEF UploadInv, CallsOk, CallRecord
<1>5. queue'[d] \subseteq queue[d] /\ flight'[d] \subseteq flight[d]
      /\ done'[d] = done[d] \cup Queue!Resolved(d, c)
  BY <1>2 DEF UploadInv, RowsOk, CountersOk
<1>6. Alive(d)' \subseteq Alive(d) /\ Asked(d)' = Asked(d)
  BY <1>1, <1>4, <1>5 DEF Alive, Asked, ServerStill
<1>7. Answered(d)'
  BY <1>1, <1>4, AnsweredKept DEF LossInv
<1>8. \A op \in done'[d] : Explained(op)'
  <2>1. \A op \in Queue!Resolved(d, c) :
          \E i \in 1 .. Len(call[d][c].batch) :
            call[d][c].batch[i] = op /\ call[d][c].out[i] \in {"accept", "duplicate"}
    BY <1>3, JudgedFacts DEF Queue!Resolved
  <2>2. \A op \in Queue!Resolved(d, c) : Explained(op)
    BY <1>2, <2>1 DEF LossInv, Answered
  <2>3. \A op \in done'[d] : Explained(op)
    BY <1>5, <2>2 DEF LossInv
  <2> QED  BY <1>1, <2>3 DEF Explained, Grown
<1>9. \A e \in Callers : skip'[d][e] \subseteq refused'
  BY <1>1, <1>2 DEF LossInv, Fronts
<1> QED  BY <1>1, <1>2, <1>6, <1>7, <1>8, <1>9, LossKept DEF ServerStill

LEMMA SettleLoss ==
  ASSUME UploadInv, UploadInv', NEW d \in Devices, LossInv(d), NEW c \in Callers,
         NEW new \in SUBSET Unmade(d), Queue!SettleRejected(d, c, new), OnlyClient, d \notin ran'
  PROVE  LossInv(d)'
<1>1. /\ Grown /\ ServerStill(d) /\ UNCHANGED refused
      /\ Alone(d)' /\ TxRests(d)'
      /\ seqno'[d] # seqno[d] => drafts'[d] # drafts[d]
  BY OwnStepFacts
<1>2. call[d][c].pc = "judged" /\ UNCHANGED <<drafts, done>>
  BY DEF Queue!SettleRejected
<1>3. /\ call[d][c].batch \in Seq(Ops)
      /\ Queue!Waiting(d, c) \subseteq Queue!Elements(call[d][c].batch)
  BY <1>2, WaitingFacts
<1>4. seqno' = [seqno EXCEPT ![d] = @ + Cardinality(new)]
  BY SameCardinality DEF Queue!SettleRejected
<1>5. new = {} /\ seqno'[d] = seqno[d]
  <2>1. new \subseteq Ops
    BY DEF Unmade
  <2>2. IsFiniteSet(new) /\ Cardinality(new) \in Nat
    BY <2>1, OpCount
  <2>3. seqno'[d] = seqno[d] /\ seqno[d] \in Nat /\ seqno'[d] = seqno[d] + Cardinality(new)
    BY <1>1, <1>2, <1>4 DEF UploadInv, CountersOk
  <2>4. Cardinality(new) = 0
    BY <2>2, <2>3
  <2> QED  BY <2>2, <2>3, <2>4, FS_EmptySet
<1>6. Sets(d, c, Queue!NoCall)
  BY Idle, SetsOne DEF Queue!SettleRejected, UploadInv
<1>7. /\ queue'[d] \subseteq queue[d] \cup Queue!Waiting(d, c)
      /\ flight'[d] \subseteq flight[d]
  BY <1>5 DEF Queue!SettleRejected, UploadInv, RowsOk
<1>8. Alive(d)' \subseteq Alive(d)
  <2>1. \A op \in Ops : \/ op \in queue[d] \cup flight[d]
                        \/ \E e \in Callers : op \in Queue!Elements(call[d][e].batch)
                        => op \in Alive(d)
    BY DEF Alive
  <2> QED  BY <1>3, <1>6, <1>7, <2>1, HeldCases, NoElements
<1>9. \A B \in Asked(d)' : B \in Asked(d) \/ B = {}
  BY <1>1, <1>6, HeldCases, NoElements
<1>10. Answered(d)'
  <2>1. \A e \in Callers : call'[d][e].pc # "idle" => call'[d][e] = call[d][e]
    BY <1>6 DEF Sets, Queue!NoCall
  <2> QED  BY <1>1, <2>1, AnsweredKept DEF LossInv
<1>11. \A op \in done'[d] : Explained(op)'
  BY <1>1, <1>2 DEF LossInv, Explained, Grown
<1>12. Queue!Waiting(d, c) \subseteq refused'
  <2>1. \A op \in Queue!NotFound(d, c) :
          \E i \in 1 .. Len(call[d][c].batch) :
            call[d][c].batch[i] = op /\ call[d][c].out[i] = "object_not_found"
    BY <1>3, JudgedFacts DEF Queue!NotFound
  <2>2. Queue!NotFound(d, c) \subseteq refused
    BY <1>2, <2>1 DEF LossInv, Answered
  <2> QED  BY <1>1, <2>2 DEF Queue!Waiting
<1>13. \A e \in Callers : skip'[d][e] \subseteq refused'
  <2>1. \/ UNCHANGED skip
        \/ skip' = [skip EXCEPT ![d][c] = {}]
        \/ skip' = [skip EXCEPT ![d][c] = @ \cup Queue!Waiting(d, c)]
    BY DEF Queue!SettleRejected, Queue!Returns
  <2> QED  BY <1>1, <1>12, <2>1, SkipKept
<1> QED  BY <1>1, <1>2, <1>5, <1>8, <1>9, <1>10, <1>11, <1>13, LossKept DEF ServerStill

LEMMA SeenOps ==
  ASSUME UploadInv, NEW d \in Devices
  PROVE  Seen(d) \subseteq Ops
<1>1. \A e \in Callers : call[d][e].batch \in Seq(Ops)
  BY DEF UploadInv, CallsOk, CallRecord
<1>2. stray[d].batch \in Seq(Ops) /\ tx[d].batch \in Seq(Ops)
  BY TxFacts DEF UploadInv, StraysOk
<1>3. \A B \in Asked(d) : B \subseteq Ops
  BY <1>1, <1>2, ElementFacts DEF Asked
<1> QED  BY <1>3 DEF Seen, Alive

\* The sequences reserveSequenceBatch hands out are all different.
LEMMA RunNumbers ==
  ASSUME UploadInv, NEW d \in Devices, NEW run \in SUBSET Ops, Queue!TakesNext(d, run)
  PROVE  /\ \A x \in run : seqno[d] < x.seq /\ x.seq <= seqno[d] + Cardinality(run)
         /\ \A x, y \in run : x.seq = y.seq => x = y
<1>1. IsFiniteSet(run) /\ Cardinality(run) \in Nat /\ seqno[d] \in Nat
  BY OpCount DEF UploadInv, CountersOk
<1>2. {op.seq : op \in run} = (seqno[d] + 1) .. (seqno[d] + Cardinality(run))
  BY SameCardinality DEF Queue!TakesNext
<1>3. \A x \in run : seqno[d] < x.seq /\ x.seq <= seqno[d] + Cardinality(run)
  <2>1. \A x \in run : x.seq \in (seqno[d] + 1) .. (seqno[d] + Cardinality(run))
    BY <1>2
  <2> QED  BY <1>1, <2>1
<1> DEFINE T == (seqno[d] + 1) .. (seqno[d] + Cardinality(run))
           f == [x \in run |-> x.seq]
<1>4. f \in Surjection(run, T)
  <2>1. f \in [run -> T]
    BY <1>2
  <2>2. \A t \in T : \E x \in run : f[x] = t
    BY <1>2
  <2> QED  BY <2>1, <2>2 DEF Surjection
<1>5. Cardinality(T) = Cardinality(run)
  <2> DEFINE lo == seqno[d] + 1  hi == seqno[d] + Cardinality(run)
  <2>1. lo \in Int /\ hi \in Int
    BY <1>1
  <2>2. Cardinality(lo .. hi) = IF lo > hi THEN 0 ELSE hi - lo + 1
    <3> HIDE DEF lo, hi
    <3> QED  BY <2>1, FS_Interval
  <2> QED  BY <1>1, <2>2
<1>6. f \in Injection(run, T)
  <2> HIDE DEF T, f
  <2> QED  BY <1>1, <1>4, <1>5, FS_Surjection
<1>7. \A x, y \in run : x.seq = y.seq => x = y
  BY <1>6 DEF Injection, IsInjective
<1> QED  BY <1>3, <1>7

LEMMA ReserveLoss ==
  ASSUME UploadInv, UploadInv', NEW d \in Devices, LossInv(d), MaxProducers = 1,
         NEW run \in SUBSET Unmade(d), Queue!Reserve(d, run), OnlyClient, d \notin ran'
  PROVE  LossInv(d)'
<1>1. /\ Grown /\ ServerStill(d) /\ UNCHANGED refused
      /\ Alone(d)' /\ TxRests(d)'
  BY OwnStepFacts
<1>2. /\ UNCHANGED <<queue, flight, skip, call, done>>
      /\ seqno' = [seqno EXCEPT ![d] = @ + Cardinality(run)]
      /\ drafts' = [drafts EXCEPT ![d] = @ \cup {run}]
      /\ Queue!TakesNext(d, run) /\ Cardinality(drafts[d]) < MaxProducers
  BY SameCardinality DEF Queue!Reserve
<1>3. run \subseteq Ops /\ Cardinality(run) \in Nat
  BY OpCount DEF Unmade
<1>4. drafts[d] = {}
  <2>1. drafts[d] \subseteq SUBSET Ops
    BY DEF UploadInv, RowsOk
  <2>2. IsFiniteSet(drafts[d])
    <3>1. IsFiniteSet(SUBSET Ops)
      BY OpsAssumption, FS_SUBSET
    <3> QED  BY <2>1, <3>1, FS_Subset
  <2>3. Cardinality(drafts[d]) = 0
    BY <1>2, <2>2, FS_CardinalityType
  <2> QED  BY <2>2, <2>3, FS_EmptySet
<1>5. drafts'[d] = {run} /\ seqno'[d] = seqno[d] + Cardinality(run)
  <2>1. drafts \in [Devices -> SUBSET (SUBSET Ops)] /\ seqno \in [Devices -> Nat]
    BY DEF UploadInv, RowsOk, CountersOk
  <2>2. drafts'[d] = drafts[d] \cup {run} /\ seqno'[d] = seqno[d] + Cardinality(run)
    BY <1>2, <2>1
  <2> QED  BY <1>4, <2>2
<1>6. /\ \A x \in run : seqno[d] < x.seq /\ x.seq <= seqno'[d]
      /\ \A x, y \in run : x.seq = y.seq => x = y
  BY <1>2, <1>3, <1>5, RunNumbers
<1>7. Alive(d)' = Alive(d) /\ Asked(d)' = Asked(d) /\ Seen(d)' = Seen(d)
  BY <1>1, <1>2 DEF Alive, Asked, Seen, ServerStill
<1>8. seqno[d] \in Nat /\ lastSeq[d] \in Nat /\ lastSeq'[d] = lastSeq[d]
  BY <1>1 DEF UploadInv, CountersOk, TypeOK, ServerStill
<1>9. \A x \in Seen(d) \cup run : x.seq \in Nat
  BY <1>3, SeenOps, OpFacts
<1>10. Numbered(d)'
  <2>1. Numbered(d)
    BY DEF LossInv
  <2>2. \A x \in Seen(d) : ~IsBulkHistoryImport(x) /\ x.seq <= seqno'[d]
    BY <1>3, <1>5, <1>8, <1>9, <2>1 DEF Numbered
  <2>3. lastSeq[d] <= seqno'[d] /\ \A x \in run : lastSeq[d] < x.seq
    BY <1>3, <1>5, <1>6, <1>8, <1>9, <2>1 DEF Numbered
  <2>4. \A x \in run, y \in Seen(d) : y.seq < x.seq
    BY <1>6, <1>8, <1>9, <2>1 DEF Numbered
  <2> QED  BY <1>5, <1>6, <1>7, <1>8, <2>1, <2>2, <2>3, <2>4 DEF Numbered
<1>11. Fronts(d)' /\ Passed(d)' /\ Answered(d)'
  <2>1. Fronts(d)'
    BY <1>1, <1>2, <1>7 DEF LossInv, Fronts, Front
  <2>2. \A op : Explained(op) => Explained(op)'
    BY <1>1 DEF Explained, Grown
  <2>3. \A op : Valid(op)' <=> Valid(op)
    BY DEF Valid, ShapeOk
  <2>4. Passed(d)'
    BY <1>7, <1>8, <2>2, <2>3 DEF LossInv, Passed
  <2> QED  BY <1>1, <1>2, <2>1, <2>4, AnsweredKept DEF LossInv
<1>12. \A op \in done'[d] : Explained(op)'
  BY <1>1, <1>2 DEF LossInv, Explained, Grown
<1> QED  BY <1>1, <1>10, <1>11, <1>12 DEF LossInv

LEMMA EnqueueLoss ==
  ASSUME UploadInv, UploadInv', NEW d \in Devices, LossInv(d), NEW run, Queue!Enqueue(d, run),
         OnlyClient, d \notin ran'
  PROVE  LossInv(d)'
<1>1. /\ Grown /\ ServerStill(d) /\ UNCHANGED refused
      /\ Alone(d)' /\ TxRests(d)'
  BY OwnStepFacts
<1>2. /\ UNCHANGED <<seqno, flight, skip, call, done>> /\ run \in drafts[d]
      /\ drafts' = [drafts EXCEPT ![d] = @ \ {run}]
      /\ queue' = [queue EXCEPT ![d] = @ \cup run]
  BY DEF Queue!Enqueue
<1>3. run \subseteq LocalOps(d) /\ run \subseteq Ops
  BY <1>2 DEF UploadInv, RowsOk, LocalOps
<1>4. Numbered(d)
  BY DEF LossInv
<1>5. drafts'[d] = {} /\ queue'[d] = queue[d] \cup run
  <2>1. drafts'[d] = drafts[d] \ {run} /\ queue'[d] = queue[d] \cup run
    BY <1>2 DEF UploadInv, RowsOk
  <2> QED  BY <1>2, <1>4, <2>1 DEF Numbered
<1>6. Alive(d)' = Alive(d) \cup run /\ Asked(d)' = Asked(d) /\ Seen(d)' = Seen(d) \cup run
  <2>1. Alive(d)' = Alive(d) \cup run
    BY <1>2, <1>3, <1>5 DEF Alive
  <2>2. Asked(d)' = Asked(d)
    BY <1>1, <1>2 DEF Asked, ServerStill
  <2> QED  BY <2>1, <2>2 DEF Seen
<1>7. /\ \A x, y \in run : x.seq = y.seq => x = y
      /\ \A x \in run : /\ lastSeq[d] < x.seq /\ x.seq <= seqno[d]
                        /\ \A y \in Seen(d) : y.seq < x.seq
  BY <1>2, <1>4 DEF Numbered
<1>8. /\ \A x \in Seen(d) \cup run : x.seq \in Nat
      /\ lastSeq[d] \in Nat /\ lastSeq'[d] = lastSeq[d]
  BY <1>1, <1>3, SeenOps, OpFacts DEF UploadInv, TypeOK, ServerStill
<1>9. Numbered(d)'
  <2>1. \A x \in Seen(d) \cup run : ~IsBulkHistoryImport(x) /\ x.seq <= seqno[d]
    BY <1>3, <1>4, <1>7 DEF Numbered, LocalOps
  <2>2. ASSUME NEW x \in Seen(d) \cup run, NEW y \in Seen(d) \cup run, x.seq = y.seq
        PROVE  x = y
    <3>1. x.seq \in Nat /\ y.seq \in Nat
      BY <1>8
    <3>2. CASE x \in Seen(d) /\ y \in Seen(d)
      BY <1>4, <2>2, <3>2 DEF Numbered
    <3>3. CASE x \in run /\ y \in Seen(d)
      BY <1>7, <2>2, <3>1, <3>3
    <3>4. CASE x \in Seen(d) /\ y \in run
      BY <1>7, <2>2, <3>1, <3>4
    <3>5. CASE x \in run /\ y \in run
      BY <1>7, <2>2, <3>5
    <3> QED  BY <3>2, <3>3, <3>4, <3>5
  <2> QED  BY <1>2, <1>4, <1>5, <1>6, <1>8, <2>1, <2>2 DEF Numbered
<1>10. Fronts(d)'
  <2>1. ASSUME NEW B \in Asked(d), NEW x \in Alive(d) \cup run, NEW y \in B,
               x.seq < y.seq, x \notin B
        PROVE  x \in refused
    <3>1. y \in Seen(d)
      BY DEF Seen
    <3>2. x \notin run
      BY <1>7, <1>8, <2>1, <3>1
    <3> QED  BY <2>1, <3>2 DEF LossInv, Fronts, Front
  <2>2. \A B \in Asked(d)' : Front(d, B)'
    BY <1>1, <1>6, <2>1 DEF Front
  <2>3. \A c \in Callers : skip'[d][c] \subseteq refused'
    BY <1>1, <1>2 DEF LossInv, Fronts
  <2> QED  BY <2>2, <2>3 DEF Fronts
<1>11. Passed(d)'
  <2>1. \A op : Explained(op) => Explained(op)'
    BY <1>1 DEF Explained, Grown
  <2>2. \A op : Valid(op)' <=> Valid(op)
    BY DEF Valid, ShapeOk
  <2>3. \A x \in run : ~(x.seq <= lastSeq[d])
    BY <1>7, <1>8
  <2> QED  BY <1>6, <1>8, <2>1, <2>2, <2>3 DEF LossInv, Passed
<1>12. Answered(d)'
  BY <1>1, <1>2, AnsweredKept DEF LossInv
<1>13. \A op \in done'[d] : Explained(op)'
  BY <1>1, <1>2 DEF LossInv, Explained, Grown
<1> QED  BY <1>1, <1>9, <1>10, <1>11, <1>12, <1>13 DEF LossInv

\* The client's failures: a request that lives on was one of its calls'.
LEMMA FaultLoss ==
  ASSUME UploadInv, NEW d \in Devices, LossInv(d), NEW c \in Callers, Abandon(d, c),
         UNCHANGED <<vars, refused>>,
         Alive(d)' \subseteq Alive(d),
         \A e \in Callers : call'[d][e] \in {call[d][e], Queue!NoCall},
         \A e \in Callers : skip'[d][e] \subseteq refused',
         drained'[d] => drained[d], drafts'[d] \subseteq drafts[d],
         seqno'[d] = seqno[d], done'[d] = done[d]
  PROVE  LossInv(d)'
<1>1. UNCHANGED <<log, lastSeq, tx, refused>>
  BY DEF vars
<1>2. Grown
  BY <1>1 DEF Grown, InLog
<1>3. Alone(d)'
  BY DEF LossInv, Alone
<1>4. TxRests(d)'
  BY <1>1, <1>2, TxRestsKept DEF LossInv
<1>5. Answered(d)'
  <2>1. Queue!NoCall.pc = "idle"
    BY DEF Queue!NoCall
  <2> QED  BY <1>2, <2>1, AnsweredKept DEF LossInv
<1>6. stray'[d] = stray[d] \/ stray'[d].batch = call[d][c].batch
  BY DEF Abandon, UploadInv, StraysOk
<1>7. \A B \in Asked(d)' : B \in Asked(d) \/ B = {}
  BY <1>1, <1>6, NoElements DEF Asked
<1>8. \A op \in done'[d] : Explained(op)'
  BY <1>2 DEF LossInv, Explained, Grown
<1> QED  BY <1>1, <1>2, <1>3, <1>4, <1>5, <1>7, <1>8, LossKept

\* A request that failed gives back what it held.
LEMMA FailHolds ==
  ASSUME UploadInv, NEW d \in Devices, LossInv(d), NEW c \in Callers, Queue!FailCall(d, c),
         UNCHANGED refused
  PROVE  /\ Alive(d)' \subseteq Alive(d) /\ Sets(d, c, Queue!NoCall)
         /\ \A e \in Callers : call'[d][e] \in {call[d][e], Queue!NoCall}
         /\ \A e \in Callers : skip'[d][e] \subseteq refused'
         /\ UNCHANGED <<seqno, drafts, drained, done>>
<1>1. Sets(d, c, Queue!NoCall) /\ Request(d, call[d][c].batch)
  BY FailKeeps
<1>2. /\ queue'[d] = queue[d] \cup Queue!Requeued(d, c)
      /\ flight'[d] = flight[d] \ Queue!Requeued(d, c)
      /\ skip' = [skip EXCEPT ![d][c] = {}]
      /\ UNCHANGED <<seqno, drafts, drained, done>>
  BY DEF Queue!FailCall, UploadInv, RowsOk
<1>3. Queue!Requeued(d, c) \subseteq Queue!Elements(call[d][c].batch)
  BY DEF Queue!Requeued
<1>4. Alive(d)' \subseteq Alive(d)
  <2>1. \A op \in Ops : \/ op \in queue[d] \cup flight[d]
                        \/ \E e \in Callers : op \in Queue!Elements(call[d][e].batch)
                        => op \in Alive(d)
    BY DEF Alive
  <2> QED  BY <1>1, <1>2, <1>3, <2>1, HeldCases, NoElements
<1>5. \A e \in Callers : skip'[d][e] \subseteq refused'
  BY <1>2 DEF LossInv, Fronts, UploadInv, CountersOk
<1>6. \A e \in Callers : call'[d][e] \in {call[d][e], Queue!NoCall}
  BY <1>1 DEF Sets
<1> QED  BY <1>1, <1>2, <1>4, <1>5, <1>6

LEMMA GiveUpLoss ==
  ASSUME UploadInv, NEW d \in Devices, LossInv(d), NEW c \in Callers, GiveUp(d, c)
  PROVE  LossInv(d)'
<1>1. Queue!FailCall(d, c) /\ Abandon(d, c) /\ UNCHANGED <<vars, refused>>
  BY DEF GiveUp
<1>2. /\ Alive(d)' \subseteq Alive(d)
      /\ \A e \in Callers : call'[d][e] \in {call[d][e], Queue!NoCall}
      /\ \A e \in Callers : skip'[d][e] \subseteq refused'
      /\ UNCHANGED <<seqno, drafts, drained, done>>
  BY <1>1, FailHolds
<1> QED  BY <1>1, <1>2, FaultLoss

LEMMA CrashLoss ==
  ASSUME UploadInv, NEW d \in Devices, LossInv(d), ClientCrash(d)
  PROVE  LossInv(d)'
<1>1. Queue!Crash(d) /\ UNCHANGED <<vars, refused>>
  BY DEF ClientCrash
<1>2. PICK c \in Callers : Abandon(d, c)
  BY DEF ClientCrash
<1>3. /\ queue'[d] = queue[d] \cup flight[d] /\ flight'[d] = {} /\ drafts'[d] = {}
  BY <1>1 DEF Queue!Crash, Queue!Recovered, UploadInv, RowsOk
<1>4. /\ \A e \in Callers : skip'[d][e] = {}
      /\ ~drained'[d] /\ UNCHANGED <<seqno, done>>
  BY <1>1 DEF Queue!Crash, UploadInv, CountersOk
<1>5. \A e \in Callers : call'[d][e] = Queue!NoCall
  BY <1>1 DEF Queue!Crash, UploadInv, CallsOk
<1>6. Alive(d)' \subseteq Alive(d)
  BY <1>3, <1>5, NoElements DEF Alive
<1> QED  BY <1>1, <1>2, <1>3, <1>4, <1>5, <1>6, FaultLoss

\* The verdicts of a transaction that opens.
LEMMA TakeRests ==
  ASSUME UploadInv, NEW d \in Devices, NEW b, Request(d, b), ValidateBatch(d, b),
         \A i \in 1 .. Len(b) : ~IsBulkHistoryImport(b[i])
  PROVE  TxRests(d)' /\ UNCHANGED <<log, lastSeq>> /\ tx'[d].batch = b
<1>1. b \in BatchesOf(d) /\ b \in Seq(Ops) /\ Ascending(b)
  BY RequestIsBatch DEF Request
<1>2. PICK out \in [1 .. Len(b) -> Verdicts] :
        /\ tx'[d] = [batch |-> b, out |-> out]
        /\ \A i \in 1 .. Len(b) : out[i] = Verdict(d, b, out, i)
        /\ UNCHANGED <<logVars, otherVars>>
  BY <1>1, Validated DEF UploadInv
<1>3. tx'[d].batch = b /\ tx'[d].out = out /\ UNCHANGED <<log, lastSeq>>
  BY <1>2 DEF logVars
<1>4. \A i \in 1 .. Len(b) :
        /\ out[i] = "duplicate" =>
             \/ \E c \in stored : log[c] = b[i]
             \/ b[i].seq <= lastSeq[d] /\ ShapeOk(b[i]) /\ b[i].seq >= 1
        /\ out[i] \in {"malformed", "invalid_device_sequence"} =>
             ~(ShapeOk(b[i]) /\ b[i].seq >= 1)
        /\ out[i] = "storage_quota_exceeded" => QuotaExceeded
        /\ out[i] = "accept" => ~QuotaExceeded
  BY <1>1, <1>2, VerdictFacts DEF UploadInv
<1>5. \A c \in stored : c \in DOMAIN log
  BY DEF UploadInv, TypeOK
<1>6. \A op : Valid(op)' <=> Valid(op)
  BY DEF Valid, ShapeOk
<1>7. \A op : InLog(op)' <=> InLog(op)
  BY <1>3 DEF InLog
<1>8. \A i \in 1 .. Len(b) :
        /\ out[i] = "duplicate" => InLog(b[i]) \/ (b[i].seq <= lastSeq[d] /\ Valid(b[i]))
        /\ out[i] \in {"malformed", "invalid_device_sequence"} => ~Valid(b[i])
        /\ out[i] = "storage_quota_exceeded" => \A j \in 1 .. Len(b) : out[j] # "accept"
  BY <1>4, <1>5 DEF InLog, Valid
<1> QED  BY <1>3, <1>6, <1>7, <1>8 DEF TxRests

LEMMA TakeRequestLoss ==
  ASSUME UploadInv, NEW d \in Devices, LossInv(d), NEW c \in Callers, TakeRequest(d, c)
  PROVE  LossInv(d)'
<1>1. /\ call[d][c].pc = "sent" /\ ValidateBatch(d, call[d][c].batch)
      /\ call' = [call EXCEPT ![d][c].pc = "serving"]
      /\ UNCHANGED <<seqno, drafts, queue, flight, skip, drained, done, stray, refused>>
  BY DEF TakeRequest
<1>2. Request(d, call[d][c].batch)
  BY <1>1 DEF UploadInv, CallsOk, CallOk
<1>3. call[d][c].batch \in Seq(Ops)
  BY <1>2 DEF Request
<1>4. Queue!Elements(call[d][c].batch) \in Asked(d)
  BY DEF Asked
<1>5. \A i \in 1 .. Len(call[d][c].batch) : ~IsBulkHistoryImport(call[d][c].batch[i])
  BY <1>4 DEF LossInv, Numbered, Seen, Queue!Elements
<1>6. TxRests(d)' /\ UNCHANGED <<log, lastSeq>> /\ tx'[d].batch = call[d][c].batch
  BY <1>1, <1>2, <1>5, TakeRests
<1>7. Grown
  BY <1>1, <1>6 DEF Grown, InLog
<1>8. \A e \in Callers : /\ call'[d][e].batch = call[d][e].batch
                         /\ call'[d][e] = call[d][e] \/ (e = c /\ call'[d][e].pc = "serving")
  BY <1>1 DEF UploadInv, CallsOk, CallRecord
<1>9. Alive(d)' = Alive(d)
  BY <1>1, <1>8 DEF Alive
<1>10. \A B \in Asked(d)' : B \in Asked(d)
  BY <1>1, <1>6, <1>8 DEF Asked
<1>11. Alone(d)'
  <2>1. c = "cycle"
    BY <1>1, CycleOnly DEF LossInv
  <2> QED  BY <1>1, <1>8, <2>1 DEF LossInv, Alone
<1>12. Answered(d)'
  BY <1>7, <1>8, AnsweredKept DEF LossInv
<1>13. \A op \in done'[d] : Explained(op)'
  BY <1>1, <1>7 DEF LossInv, Explained, Grown
<1>14. \A e \in Callers : skip'[d][e] \subseteq refused'
  BY <1>1 DEF LossInv, Fronts
<1> QED  BY <1>1, <1>6, <1>7, <1>9, <1>10, <1>11, <1>12, <1>13, <1>14, LossKept

\* A step of the server that leaves the client alone.
LEMMA ServerLoss ==
  ASSUME UploadInv, NEW d \in Devices, LossInv(d), ClientStill(d), Grown,
         lastSeq'[d] = lastSeq[d], TxRests(d)',
         \A B \in {Queue!Elements(stray'[d].batch), Queue!Elements(tx'[d].batch)} :
           B \in Asked(d) \/ B = {}
  PROVE  LossInv(d)'
<1> USE DEF ClientStill
<1>1. Alive(d)' = Alive(d)
  BY DEF Alive
<1>2. \A B \in Asked(d)' : B \in Asked(d) \/ B = {}
  BY DEF Asked
<1>3. Alone(d)' /\ Answered(d)'
  BY AnsweredKept DEF LossInv, Alone
<1>4. \A op \in done'[d] : Explained(op)'
  BY DEF LossInv, Explained, Grown
<1>5. \A e \in Callers : skip'[d][e] \subseteq refused'
  BY DEF LossInv, Fronts, Grown
<1> QED  BY <1>1, <1>2, <1>3, <1>4, <1>5, LossKept

LEMMA NoStrayElements ==
  Queue!Elements(NoStray.batch) = {} /\ Queue!Elements(NoTx.batch) = {}
BY EmptySeq DEF Queue!Elements, NoStray, NoTx

LEMMA TakeStrayLoss ==
  ASSUME UploadInv, NEW d \in Devices, LossInv(d), TakeStray(d)
  PROVE  LossInv(d)'
<1>1. /\ stray[d].pc = "sent" /\ ValidateBatch(d, stray[d].batch)
      /\ stray' = [stray EXCEPT ![d].pc = "serving"]
      /\ UNCHANGED queueVars /\ UNCHANGED refused
  BY DEF TakeStray
<1>2. Request(d, stray[d].batch)
  BY <1>1 DEF UploadInv, StraysOk
<1>3. Queue!Elements(stray[d].batch) \in Asked(d)
  BY DEF Asked
<1>4. \A i \in 1 .. Len(stray[d].batch) : ~IsBulkHistoryImport(stray[d].batch[i])
  BY <1>3 DEF LossInv, Numbered, Seen, Queue!Elements
<1>5. TxRests(d)' /\ UNCHANGED <<log, lastSeq>> /\ tx'[d].batch = stray[d].batch
  BY <1>1, <1>2, <1>4, TakeRests
<1>6. Grown /\ ClientStill(d)
  BY <1>1, <1>5 DEF Grown, InLog, queueVars, ClientStill
<1>7. stray'[d].batch = stray[d].batch
  BY <1>1 DEF UploadInv, StraysOk
<1> QED  BY <1>3, <1>5, <1>6, <1>7, ServerLoss

LEMMA LoseStrayLoss ==
  ASSUME UploadInv, NEW d \in Devices, LossInv(d), LoseStray(d)
  PROVE  LossInv(d)'
<1>1. /\ stray' = [stray EXCEPT ![d] = NoStray]
      /\ UNCHANGED queueVars /\ UNCHANGED <<log, lastSeq, tx, refused>>
  BY DEF LoseStray, vars
<1>2. Grown /\ ClientStill(d)
  BY <1>1 DEF Grown, InLog, queueVars, ClientStill
<1>3. TxRests(d)'
  BY <1>1, <1>2, TxRestsKept DEF LossInv
<1>4. stray'[d] = NoStray
  BY <1>1 DEF UploadInv, StraysOk
<1>5. Queue!Elements(tx'[d].batch) \in Asked(d)
  BY <1>1 DEF Asked
<1> QED  BY <1>1, <1>2, <1>3, <1>4, <1>5, ServerLoss, NoStrayElements

LEMMA ServerErrorLoss ==
  ASSUME UploadInv, NEW d \in Devices, LossInv(d), ServerError(d)
  PROVE  LossInv(d)'
<1>1. tx'[d] = NoTx /\ UNCHANGED <<log, lastSeq, refused>>
  BY DEF ServerError, AbortBatch, logVars, UploadInv, TypeOK
<1>2. Grown
  BY <1>1 DEF Grown, InLog
<1>3. TxRests(d)'
  <2>1. \A i \in 1 .. Len(tx'[d].batch) : FALSE
    BY <1>1, NoTxType
  <2> QED  BY <2>1 DEF TxRests
<1>4. CASE \E c \in Callers : Queue!FailCall(d, c) /\ UNCHANGED stray
  <2>1. PICK c \in Callers : Queue!FailCall(d, c) /\ UNCHANGED stray
    BY <1>4
  <2>2. /\ Alive(d)' \subseteq Alive(d) /\ Sets(d, c, Queue!NoCall)
        /\ \A e \in Callers : call'[d][e] \in {call[d][e], Queue!NoCall}
        /\ \A e \in Callers : skip'[d][e] \subseteq refused'
        /\ UNCHANGED <<seqno, drafts, drained, done>>
    BY <1>1, <2>1, FailHolds
  <2>3. Alone(d)'
    BY <2>2 DEF LossInv, Alone
  <2>4. Answered(d)'
    <3>1. Queue!NoCall.pc = "idle"
      BY DEF Queue!NoCall
    <3> QED  BY <1>2, <2>2, <3>1, AnsweredKept DEF LossInv
  <2>5. \A B \in Asked(d)' : B \in Asked(d) \/ B = {}
    BY <1>1, <2>1, <2>2, NoElements, NoStrayElements DEF Asked
  <2>6. \A op \in done'[d] : Explained(op)'
    BY <1>2, <2>2 DEF LossInv, Explained, Grown
  <2> QED  BY <1>1, <1>2, <1>3, <2>2, <2>3, <2>4, <2>5, <2>6, LossKept
<1>5. CASE stray' = [stray EXCEPT ![d] = NoStray] /\ UNCHANGED queueVars
  <2>1. ClientStill(d)
    BY <1>5 DEF queueVars, ClientStill
  <2>2. stray'[d] = NoStray
    BY <1>5 DEF UploadInv, StraysOk
  <2> QED  BY <1>1, <1>2, <1>3, <2>1, <2>2, ServerLoss, NoStrayElements
<1> QED  BY <1>4, <1>5 DEF ServerError

\* What a commit adds to the log, and the sequence it leaves.
LEMMA CommitAdds ==
  ASSUME UploadInv, NEW d \in Devices, CommitBatch(d)
  PROVE  /\ \A op : InLog(op) => InLog(op)'
         /\ \A op, i : /\ i \in 1 .. Len(tx[d].batch) /\ op = tx[d].batch[i]
                       /\ tx[d].out[i] = "accept"
                       => InLog(op)'
         /\ \/ lastSeq'[d] = lastSeq[d]
            \/ \E i \in 1 .. Len(tx[d].batch) :
                 tx[d].out[i] = "accept" /\ lastSeq'[d] = tx[d].batch[i].seq
         /\ \A e \in Devices \ {d} : lastSeq'[e] = lastSeq[e]
<1>1. /\ \/ UNCHANGED logVars
         \/ \E n \in Nat \ {0} : \E v \in [1 .. n -> 1 .. Len(tx[d].batch)],
                                    a \in [1 .. n -> Ops] : CommitEffect(d, n, v, a)
  BY CommitCases DEF UploadInv
<1>2. CASE \E n \in Nat \ {0} : \E v \in [1 .. n -> 1 .. Len(tx[d].batch)],
                                   a \in [1 .. n -> Ops] : CommitEffect(d, n, v, a)
  <2>1. PICK n \in Nat \ {0} : \E v \in [1 .. n -> 1 .. Len(tx[d].batch)],
                                  a \in [1 .. n -> Ops] : CommitEffect(d, n, v, a)
    BY <1>2
  <2>2. PICK v \in [1 .. n -> 1 .. Len(tx[d].batch)], a \in [1 .. n -> Ops] :
          CommitEffect(d, n, v, a)
    BY <2>1
  <2>3. /\ v \in Seq(1 .. Len(tx[d].batch)) /\ Len(v) = n
        /\ tx[d].out \in Seq(Verdicts) /\ DOMAIN tx[d].out = 1 .. Len(tx[d].batch)
    BY FunctionIsSeq, TxFacts, LenProperties DEF UploadInv
  <2>4. /\ IsAcceptedIndices(v, tx[d].out)
        /\ \A k \in 1 .. n : a[k] = tx[d].batch[v[k]]
        /\ log' \in [1 .. (alloc + n) -> Ops]
        /\ \A c \in 1 .. alloc : log'[c] = log[c]
        /\ \A c \in (alloc + 1) .. (alloc + n) : log'[c] = a[c - alloc]
        /\ lastSeq' = [lastSeq EXCEPT ![d] = a[n].seq]
    BY <2>2 DEF CommitEffect
  <2>5. alloc \in Nat /\ DOMAIN log = 1 .. alloc /\ DOMAIN log' = 1 .. (alloc + n)
    BY <2>4 DEF UploadInv, TypeOK, LogGapFree
  <2>6. \A op : InLog(op) => InLog(op)'
    <3>1. \A c \in 1 .. alloc : c \in 1 .. (alloc + n)
      BY <2>5
    <3> QED  BY <2>4, <2>5, <3>1 DEF InLog
  <2>7. ASSUME NEW i \in 1 .. Len(tx[d].batch), tx[d].out[i] = "accept"
        PROVE  \E c \in DOMAIN log' : log'[c] = tx[d].batch[i]
    <3>1. PICK k \in 1 .. n : v[k] = i
      BY <2>3, <2>4, <2>7 DEF IsAcceptedIndices
    <3>2. alloc + k \in (alloc + 1) .. (alloc + n) /\ (alloc + k) - alloc = k
          /\ alloc + k \in DOMAIN log'
      BY <2>5, <3>1
    <3>3. log'[alloc + k] = tx[d].batch[i]
      BY <2>4, <3>1, <3>2
    <3> QED  BY <3>2, <3>3
  <2>8. n \in 1 .. n /\ v[n] \in 1 .. Len(tx[d].batch) /\ tx[d].out[v[n]] = "accept"
    BY <2>3, <2>4 DEF IsAcceptedIndices
  <2>9. lastSeq'[d] = tx[d].batch[v[n]].seq /\ \A e \in Devices \ {d} : lastSeq'[e] = lastSeq[e]
    BY <2>4, <2>8 DEF UploadInv, TypeOK
  <2>10. \A op, i : /\ i \in 1 .. Len(tx[d].batch) /\ op = tx[d].batch[i]
                    /\ tx[d].out[i] = "accept"
                    => InLog(op)'
    BY <2>7 DEF InLog
  <2> QED  BY <2>6, <2>8, <2>9, <2>10
<1>3. CASE UNCHANGED logVars /\ \A i \in 1 .. Len(tx[d].batch) : tx[d].out[i] # "accept"
  BY <1>3 DEF logVars, InLog
<1>4. CASE UNCHANGED logVars /\ \E i \in 1 .. Len(tx[d].batch) : tx[d].out[i] = "accept"
  <2>1. alloc' # alloc
    <3>1. PICK n \in 0 .. Len(tx[d].batch) : \E v \in [1 .. n -> 1 .. Len(tx[d].batch)] :
            IsAcceptedIndices(v, tx[d].out) /\ (n # 0 => alloc' = EndCursor(n))
      BY DEF CommitBatch
    <3>2. PICK v \in [1 .. n -> 1 .. Len(tx[d].batch)] :
            IsAcceptedIndices(v, tx[d].out) /\ (n # 0 => alloc' = EndCursor(n))
      BY <3>1
    <3>3. /\ n \in Nat /\ Len(v) = n /\ Len(tx[d].batch) \in Nat
          /\ DOMAIN tx[d].out = 1 .. Len(tx[d].batch)
      <4>1. Len(tx[d].batch) \in Nat /\ DOMAIN tx[d].out = 1 .. Len(tx[d].batch)
        BY TxFacts, LenProperties DEF UploadInv
      <4> QED  BY <4>1, FunctionIsSeq
    <3>4. n # 0
      BY <1>4, <3>2, <3>3 DEF IsAcceptedIndices
    <3>5. alloc \in Nat
      BY DEF UploadInv, TypeOK
    <3> QED  BY <3>2, <3>3, <3>4, <3>5 DEF EndCursor
  <2> QED  BY <1>4, <2>1 DEF logVars
<1> QED  BY <1>1, <1>2, <1>3, <1>4

LEMMA FinishLoss ==
  ASSUME UploadInv, NEW d \in Devices, LossInv(d), FinishUpload(d)
  PROVE  LossInv(d)'
<1>1. /\ CommitBatch(d)
      /\ stray' = IF stray[d].pc = "serving" THEN [stray EXCEPT ![d] = NoStray] ELSE stray
      /\ refused' = refused \cup
           {tx[d].batch[i] : i \in {j \in 1 .. Len(tx[d].out) : tx[d].out[j] = "object_not_found"}}
      /\ UNCHANGED <<seqno, drafts, queue, flight, skip, drained, done>>
  BY DEF FinishUpload
<1>2. tx'[d] = NoTx
  BY <1>1 DEF CommitBatch, UploadInv, TypeOK
<1>3. /\ \A op : InLog(op) => InLog(op)'
      /\ \A op, i : /\ i \in 1 .. Len(tx[d].batch) /\ op = tx[d].batch[i]
                    /\ tx[d].out[i] = "accept"
                    => InLog(op)'
      /\ \/ lastSeq'[d] = lastSeq[d]
         \/ \E i \in 1 .. Len(tx[d].batch) :
              tx[d].out[i] = "accept" /\ lastSeq'[d] = tx[d].batch[i].seq
  BY <1>1, CommitAdds
<1>4. Grown
  BY <1>1, <1>3 DEF Grown
<1>5. /\ tx[d].batch \in Seq(Ops) /\ tx[d].out \in Seq(Verdicts)
      /\ Len(tx[d].out) = Len(tx[d].batch)
      /\ \A i \in 1 .. Len(tx[d].batch) : tx[d].batch[i] \in Ops /\ tx[d].out[i] \in Verdicts
  BY TxFacts, ElementOfSeq DEF UploadInv
<1>6. \A op : Explained(op) => Explained(op)'
  BY <1>4 DEF Explained, Grown
<1>7. ASSUME NEW x \in Alive(d), NEW i \in 1 .. Len(tx[d].batch), x = tx[d].batch[i]
      PROVE  /\ tx[d].out[i] \in {"accept", "duplicate"} => Explained(x)'
             /\ tx[d].out[i] = "object_not_found" => x \in refused'
  <2>1. CASE tx[d].out[i] = "accept"
    BY <1>3, <1>7, <2>1 DEF Explained
  <2>2. CASE tx[d].out[i] = "duplicate"
    <3>1. InLog(x) \/ (x.seq <= lastSeq[d] /\ Valid(x))
      BY <1>7, <2>2 DEF LossInv, TxRests
    <3>2. Explained(x)
      BY <3>1 DEF LossInv, Passed, Explained
    <3> QED  BY <1>6, <2>2, <3>2
  <2>3. CASE tx[d].out[i] = "object_not_found"
    BY <1>1, <1>5, <1>7, <2>3
  <2> QED  BY <2>1, <2>2, <2>3
<1>8. /\ \A c \in Callers :
           \/ call[d][c].pc # "serving" /\ call'[d][c] = call[d][c]
           \/ /\ call[d][c].pc = "serving" /\ call'[d][c].pc = "answered"
              /\ call'[d][c].batch = call[d][c].batch
              /\ call'[d][c].out = tx[d].out /\ tx[d].batch = call[d][c].batch
  BY AnswerEffect
<1>9. Alive(d)' = Alive(d)
  BY <1>1, <1>8 DEF Alive
<1>10. \A B \in Asked(d)' : B \in Asked(d) \/ B = {}
  <2>1. stray'[d] = stray[d] \/ stray'[d] = NoStray
    BY <1>1 DEF UploadInv, StraysOk
  <2> QED  BY <1>2, <1>8, <2>1, NoStrayElements DEF Asked
<1>11. Alone(d)'
  BY <1>1, <1>8 DEF LossInv, Alone, Queue!NoCall
<1>12. Answered(d)'
  <2>1. ASSUME NEW c \in Callers, call'[d][c].pc \in {"answered", "judged"},
               NEW i \in 1 .. Len(call'[d][c].batch), NEW x, x = call'[d][c].batch[i]
        PROVE  /\ call'[d][c].out[i] \in {"accept", "duplicate"} => Explained(x)'
               /\ call'[d][c].out[i] = "object_not_found" => x \in refused'
    <3>1. CASE call'[d][c] = call[d][c]
      BY <1>4, <1>6, <2>1, <3>1 DEF LossInv, Answered, Grown
    <3>2. CASE /\ call'[d][c].batch = call[d][c].batch
               /\ call'[d][c].out = tx[d].out /\ tx[d].batch = call[d][c].batch
      <4>1. x \in Alive(d)
        BY <1>5, <2>1, <3>2 DEF Alive, Queue!Elements
      <4> QED  BY <1>7, <2>1, <3>2, <4>1
    <3> QED  BY <1>8, <3>1, <3>2
  <2> QED  BY <2>1 DEF Answered, Explained, InLog
<1>13. TxRests(d)'
  <2>1. \A i \in 1 .. Len(tx'[d].batch) : FALSE
    BY <1>2, NoTxType
  <2> QED  BY <2>1 DEF TxRests
<1>14. \A op \in done'[d] : Explained(op)'
  BY <1>1, <1>6 DEF LossInv
<1>15. \A c \in Callers : skip'[d][c] \subseteq refused'
  BY <1>1 DEF LossInv, Fronts
<1>16. Queue!Elements(tx[d].batch) \in Asked(d)
  BY DEF Asked
<1>17. Queue!Elements(tx[d].batch) \subseteq Seen(d)
  BY <1>16 DEF Seen
<1>18. Seen(d)' \subseteq Seen(d)
  BY <1>9, <1>10 DEF Seen
<1>19. Numbered(d)'
  <2>1. Numbered(d)
    BY DEF LossInv
  <2>2. lastSeq'[d] <= seqno[d] /\ \A run \in drafts[d] : \A x \in run : lastSeq'[d] < x.seq
    <3>1. CASE lastSeq'[d] = lastSeq[d]
      BY <2>1, <3>1 DEF Numbered
    <3>2. CASE \E i \in 1 .. Len(tx[d].batch) : lastSeq'[d] = tx[d].batch[i].seq
      <4>1. PICK y \in Queue!Elements(tx[d].batch) : lastSeq'[d] = y.seq
        BY <3>2 DEF Queue!Elements
      <4> QED  BY <1>17, <2>1, <4>1 DEF Numbered
    <3> QED  BY <1>3, <3>1, <3>2
  <2> QED  BY <1>1, <1>18, <2>1, <2>2 DEF Numbered
<1>20. Passed(d)'
  <2>1. ASSUME NEW x \in Alive(d), x.seq <= lastSeq'[d], Valid(x)
        PROVE  Explained(x)'
    <3>1. CASE lastSeq'[d] = lastSeq[d]
      <4>1. Explained(x)
        BY <2>1, <3>1 DEF LossInv, Passed
      <4> QED  BY <1>6, <4>1
    <3>2. CASE \E i \in 1 .. Len(tx[d].batch) :
                 tx[d].out[i] = "accept" /\ lastSeq'[d] = tx[d].batch[i].seq
      <4>1. PICK m \in 1 .. Len(tx[d].batch) :
              tx[d].out[m] = "accept" /\ lastSeq'[d] = tx[d].batch[m].seq
        BY <3>2
      <4>2. CASE x \in Queue!Elements(tx[d].batch)
        <5>1. PICK i \in 1 .. Len(tx[d].batch) : x = tx[d].batch[i]
          BY <4>2 DEF Queue!Elements
        <5>2. /\ tx[d].out[i] \notin {"malformed", "invalid_device_sequence"}
              /\ tx[d].out[i] # "storage_quota_exceeded"
          BY <2>1, <4>1, <5>1 DEF LossInv, TxRests
        <5>3. tx[d].out[i] # "sequence_out_of_order"
          BY DEF UploadInv, TxOk
        <5>4. tx[d].out[i] \in {"accept", "duplicate", "object_not_found"}
          BY <1>5, <5>2, <5>3 DEF Verdicts
        <5> QED  BY <1>7, <5>1, <5>4 DEF Explained
      <4>3. CASE x \notin Queue!Elements(tx[d].batch)
        <5>1. PICK y \in Queue!Elements(tx[d].batch) : lastSeq'[d] = y.seq
          BY <4>1 DEF Queue!Elements
        <5>2. x \in Seen(d) /\ y \in Seen(d) /\ x # y
          BY <1>17, <4>3 DEF Seen
        <5>3. x.seq # y.seq
          BY <5>2 DEF LossInv, Numbered
        <5>4. x.seq < y.seq
          <6>1. x.seq \in Nat /\ y.seq \in Nat
            BY <5>2, SeenOps, OpFacts
          <6> QED  BY <2>1, <5>1, <5>3, <6>1
        <5>5. x \in refused
          BY <1>16, <4>3, <5>4 DEF LossInv, Fronts, Front
        <5> QED  BY <1>1, <5>5 DEF Explained
      <4> QED  BY <4>2, <4>3
    <3> QED  BY <1>3, <3>1, <3>2
  <2>2. \A op : Valid(op)' <=> Valid(op)
    BY DEF Valid, ShapeOk
  <2> QED  BY <1>9, <2>1, <2>2 DEF Passed
<1>21. Fronts(d)'
  <2>1. \A B \in Asked(d)' : Front(d, B)'
    BY <1>1, <1>9, <1>10 DEF LossInv, Fronts, Front
  <2> QED  BY <1>15, <2>1 DEF Fronts
<1> QED  BY <1>11, <1>12, <1>13, <1>14, <1>19, <1>20, <1>21 DEF LossInv
-------------------------------------------------------------------------------
\* What a step of another device's server side leaves alone.
LEMMA ServerElsewhere ==
  ASSUME UploadInv, NEW d \in Devices, NEW e \in Devices \ {d},
         \/ \E c \in Callers : TakeRequest(d, c) \/ GiveUp(d, c)
         \/ TakeStray(d) \/ LoseStray(d) \/ FinishUpload(d) \/ ServerError(d) \/ ClientCrash(d)
  PROVE  ClientStill(e) /\ ServerStill(e) /\ Grown
<1>1. tx \in [Devices -> [batch : Seq(Ops), out : Seq(Verdicts)]]
  BY DEF UploadInv, TypeOK
<1>2. /\ stray \in [Devices -> [pc : {"idle", "sent", "serving"}, batch : Seq(Ops)]]
      /\ call \in [Devices -> [Callers -> CallRecord]]
  BY DEF UploadInv, StraysOk, CallsOk
<1>3. CASE \E c \in Callers : TakeRequest(d, c)
  <2>1. PICK c \in Callers : TakeRequest(d, c)
    BY <1>3
  <2>2. /\ \E t : tx' = [tx EXCEPT ![d] = t]
        /\ UNCHANGED <<log, lastSeq, stray, refused>>
    BY <2>1 DEF TakeRequest, ValidateBatch, logVars
  <2>3. ClientStill(e)
    BY <1>2, <2>1 DEF TakeRequest, ClientStill
  <2> QED  BY <1>1, <2>2, <2>3 DEF ServerStill, Grown, InLog
<1>4. CASE TakeStray(d)
  <2>1. /\ \E t : tx' = [tx EXCEPT ![d] = t]
        /\ UNCHANGED <<log, lastSeq, refused>>
    BY <1>4 DEF TakeStray, ValidateBatch, logVars
  <2>2. ClientStill(e) /\ stray'[e] = stray[e]
    BY <1>2, <1>4 DEF TakeStray, ClientStill, queueVars
  <2> QED  BY <1>1, <2>1, <2>2 DEF ServerStill, Grown, InLog
<1>5. CASE LoseStray(d)
  BY <1>2, <1>5 DEF LoseStray, vars, queueVars, ClientStill, ServerStill, Grown, InLog
<1>6. CASE FinishUpload(d)
  <2>1. /\ \A op : InLog(op) => InLog(op)'
        /\ \A f \in Devices \ {d} : lastSeq'[f] = lastSeq[f]
    BY <1>6, CommitAdds DEF FinishUpload
  <2>2. tx'[e] = tx[e]
    BY <1>1, <1>6 DEF FinishUpload, CommitBatch
  <2>3. stray'[e] = stray[e] /\ refused \subseteq refused'
    BY <1>2, <1>6 DEF FinishUpload
  <2>4. call'[e] = call[e]
    BY <1>6, AnswerEffect
  <2>5. ClientStill(e)
    BY <1>6, <2>4 DEF FinishUpload, ClientStill
  <2> QED  BY <2>1, <2>2, <2>3, <2>5 DEF ServerStill, Grown
<1>7. CASE ServerError(d)
  <2>1. tx'[e] = tx[e] /\ UNCHANGED <<log, lastSeq, refused>>
    BY <1>1, <1>7 DEF ServerError, AbortBatch, logVars
  <2>2. ClientStill(e) /\ stray'[e] = stray[e]
    <3>1. CASE \E c \in Callers : Queue!FailCall(d, c) /\ UNCHANGED stray
      BY <3>1, CallElsewhere
    <3>2. CASE stray' = [stray EXCEPT ![d] = NoStray] /\ UNCHANGED queueVars
      BY <1>2, <3>2 DEF queueVars, ClientStill
    <3> QED  BY <1>7, <3>1, <3>2 DEF ServerError
  <2> QED  BY <2>1, <2>2 DEF ServerStill, Grown, InLog
<1>8. CASE \E c \in Callers : GiveUp(d, c)
  <2>1. PICK c \in Callers : GiveUp(d, c)
    BY <1>8
  <2>2. ClientStill(e)
    BY <2>1, CallElsewhere DEF GiveUp
  <2>3. stray'[e] = stray[e]
    BY <1>2, <2>1 DEF GiveUp, Abandon
  <2> QED  BY <2>1, <2>2, <2>3 DEF GiveUp, vars, ServerStill, Grown, InLog
<1>9. CASE ClientCrash(d)
  <2>1. ClientStill(e)
    BY <1>9, ProducerElsewhere DEF ClientCrash
  <2>2. stray'[e] = stray[e]
    BY <1>2, <1>9 DEF ClientCrash, Abandon
  <2> QED  BY <1>9, <2>1, <2>2 DEF ClientCrash, vars, ServerStill, Grown, InLog
<1> QED  BY <1>3, <1>4, <1>5, <1>6, <1>7, <1>8, <1>9

LEMMA LossStep ==
  ASSUME UploadInv, UploadInv', AllLossInv, [ProtocolNext]_protocolVars
  PROVE  AllLossInv'
<1> SUFFICES ASSUME MaxProducers = 1, NEW d \in Devices, d \notin ran'
             PROVE  LossInv(d)'
  BY DEF AllLossInv
<1>1. CASE \E e \in Devices : ProducerStep(e)
  <2>1. PICK e \in Devices : ProducerStep(e)
    BY <1>1
  <2>2. OnlyClient
    BY <2>1 DEF ProducerStep
  <2>3. LossInv(d)
    BY <2>2 DEF OnlyClient, AllLossInv
  <2>4. CASE e # d
    <3>1. ClientStill(d)
      BY <2>1, <2>4, ProducerElsewhere DEF ProducerStep
    <3>2. Grown /\ ServerStill(d)
      BY <2>2, <2>3, OwnStepFacts
    <3> QED  BY <2>3, <3>1, <3>2, LossFrame
  <2>5. CASE e = d
    <3>1. CASE \E run \in SUBSET (Unmade(d) \cap Produced) : Queue!Reserve(d, run)
      BY <2>2, <2>3, <3>1, ReserveLoss
    <3>2. CASE \E run \in drafts[d] : Queue!Enqueue(d, run)
      BY <2>2, <2>3, <3>2, EnqueueLoss
    <3>3. CASE "import" \in Callers /\ \E op : Queue!SendChunk(d, op)
      <4>1. PICK op : Queue!SendChunk(d, op)
        BY <3>3
      <4>2. call'[d]["import"].pc = "sent"
        BY <3>3, <4>1 DEF Queue!SendChunk, UploadInv, CallsOk, Queue!NoCall
      <4>3. "import" = "cycle"
        BY <2>2, <2>3, <3>3, <4>2, OwnStepFacts
      <4> QED  BY <4>3
    <3> QED  BY <2>1, <2>5, <3>1, <3>2, <3>3 DEF ProducerStep
  <2> QED  BY <2>4, <2>5
<1>2. CASE \E e \in Devices, c \in Callers : CallStep(e, c)
  <2>1. PICK e \in Devices, c \in Callers : CallStep(e, c)
    BY <1>2
  <2>2. OnlyClient
    BY <2>1 DEF CallStep
  <2>3. LossInv(d)
    BY <2>2 DEF OnlyClient, AllLossInv
  <2>4. CASE e # d
    <3>1. ClientStill(d)
      BY <2>1, <2>4, CallElsewhere DEF CallStep
    <3>2. Grown /\ ServerStill(d)
      BY <2>2, <2>3, OwnStepFacts
    <3> QED  BY <2>3, <3>1, <3>2, LossFrame
  <2>5. CASE e = d
    <3>1. CASE Queue!PickBatch(d, c)
      BY <2>2, <2>3, <3>1, PickLoss
    <3>2. CASE Queue!StartUpload(d, c)
      BY <2>2, <2>3, <3>2, StartLoss
    <3>3. CASE Queue!EndCycle(d, c) \/ Queue!FindNothing(d, c)
      BY <2>2, <2>3, <3>3, IdleLoss
    <3>4. CASE Queue!ReceiveAnswer(d, c)
      BY <2>2, <2>3, <3>4, ReceiveLoss
    <3>5. CASE \E new \in SUBSET (Unmade(d) \ Produced) : Queue!SettleRejected(d, c, new)
      BY <2>2, <2>3, <3>5, SettleLoss
    <3> QED  BY <2>1, <2>5, <3>1, <3>2, <3>3, <3>4, <3>5 DEF CallStep
  <2> QED  BY <2>4, <2>5
<1>3. CASE UNCHANGED protocolVars
  <2>1. LossInv(d)
    BY <1>3 DEF protocolVars, AllLossInv
  <2>2. ClientStill(d) /\ ServerStill(d) /\ Grown
    BY <1>3 DEF protocolVars, queueVars, vars, ClientStill, ServerStill, Grown, InLog
  <2> QED  BY <2>1, <2>2, LossFrame
<1>4. ASSUME NEW e \in Devices,
             \/ \E c \in Callers : TakeRequest(e, c) \/ GiveUp(e, c)
             \/ TakeStray(e) \/ LoseStray(e) \/ FinishUpload(e) \/ ServerError(e) \/ ClientCrash(e)
      PROVE  LossInv(d)'
  <2>1. UNCHANGED ran
    BY <1>4 DEF TakeRequest, GiveUp, TakeStray, LoseStray, FinishUpload, ServerError, ClientCrash
  <2>2. LossInv(d)
    BY <2>1 DEF AllLossInv
  <2>3. CASE e # d
    BY <1>4, <2>2, <2>3, ServerElsewhere, LossFrame
  <2>4. CASE e = d
    BY <1>4, <2>2, <2>4, TakeRequestLoss, GiveUpLoss, TakeStrayLoss, LoseStrayLoss, FinishLoss,
       ServerErrorLoss, CrashLoss
  <2> QED  BY <2>3, <2>4
<1> QED  BY <1>1, <1>2, <1>3, <1>4 DEF ProtocolNext

LEMMA LossInit == ProtocolInit => AllLossInv
<1> SUFFICES ASSUME ProtocolInit, NEW d \in Devices PROVE LossInv(d)
  BY DEF AllLossInv
<1>1. /\ seqno[d] = 0 /\ drafts[d] = {} /\ queue[d] = {} /\ flight[d] = {}
      /\ \A c \in Callers : skip[d][c] = {} /\ call[d][c] = Queue!NoCall
      /\ ~drained[d] /\ done[d] = {} /\ stray[d] = NoStray /\ tx[d] = NoTx /\ lastSeq[d] = 0
  BY DEF ProtocolInit, Init, Queue!QueueInit
<1>2. Alive(d) = {}
  BY <1>1, NoElements DEF Alive
<1>3. \A B \in Asked(d) : B = {}
  BY <1>1, NoElements, NoStrayElements DEF Asked
<1>4. Seen(d) = {}
  BY <1>2, <1>3 DEF Seen
<1>5. Numbered(d)
  BY <1>1, <1>4 DEF Numbered
<1>6. Alone(d) /\ Fronts(d) /\ Passed(d)
  BY <1>1, <1>2 DEF Alone, Fronts, Front, Passed
<1>7. TxRests(d)
  <2>1. \A i \in 1 .. Len(tx[d].batch) : FALSE
    BY <1>1, NoTxType
  <2> QED  BY <2>1 DEF TxRests
<1>8. Answered(d)
  BY <1>1 DEF Answered, Queue!NoCall
<1> QED  BY <1>1, <1>5, <1>6, <1>7, <1>8 DEF LossInv

LEMMA LossInvariant == ProtocolSpec => []AllLossInv
<1>1. UploadInv /\ UploadInv' /\ AllLossInv /\ [ProtocolNext]_protocolVars => AllLossInv'
  BY LossStep
<1> QED  BY <1>1, LossInit, UploadInvariant, PTL DEF ProtocolSpec

\* With one producer at a time and nothing but the capture and the cycle using
\* the device, an operation leaves the queue as a success only when the server
\* stores it or had refused it: a replayed sequence is taken for a duplicate only
\* after that, whatever requests are lost, repeated, answered late or processed
\* after a restart.
THEOREM LossExplainedHolds == ProtocolSpec => [](MaxProducers = 1 => LossExplained)
<1>1. AllLossInv => (MaxProducers = 1 => LossExplained)
  <2> SUFFICES ASSUME AllLossInv, MaxProducers = 1, NEW d \in Devices \ ran, NEW op \in done[d]
               PROVE  Stored(op) \/ op \in refused
    BY DEF LossExplained
  <2>1. Explained(op)
    BY DEF AllLossInv, LossInv
  <2> QED  BY <2>1 DEF Explained, InLog, Stored
<1> QED  BY <1>1, LossInvariant, PTL
===============================================================================
