------------------------------ MODULE UploadQueue ------------------------------
(***************************************************************************)
(* The client's upload side: the durable pending_operations queue of       *)
(* extension/src/storage/db.ts, the producers that fill it                 *)
(* (createLocalOperationsBatch), and the upload calls that empty it        *)
(* (uploadPending, and the bulk history import, which bypasses the queue). *)
(*                                                                         *)
(* A step is one IndexedDB transaction, or the stretch between two awaits. *)
(* An upload call works on the rows it read: it writes them back whole,    *)
(* also when another call has changed or removed them since.  The          *)
(* transactions that settle the rejected operations of one answer are one  *)
(* step: rows left in between stay UPLOAD_IN_FLIGHT and are requeued by    *)
(* the next start, as they are if the whole step is lost.                  *)
(* The Lamport clock, which nothing on this path reads, is left out.       *)
(***************************************************************************)
EXTENDS Vocabulary, Sequences, FiniteSets

CONSTANTS
  Ops,          \* every operation a device may create
  MaxBatch,     \* MAX_UPLOAD_BATCH
  MaxAttempts,  \* MAX_UPLOAD_ATTEMPTS
  MaxProducers, \* bound on the createLocalOperationsBatch calls open at a time
  Callers       \* "cycle" (the sync cycle) and "import" (bulk history import)

VARIABLES
  seqno,   \* sync_state.deviceSequence
  drafts,  \* the runs of operations reserved and not yet enqueued
  queue,   \* pending_operations rows in state LOCAL_QUEUED
  flight,  \* pending_operations rows in state UPLOAD_IN_FLIGHT
  tries,   \* each row's `attempts`
  skip,    \* requeuedThisCycle of each caller
  call,    \* the upload call each caller awaits
  drained, \* the import's uploadPending loop ended and its chunk is not yet sent
  done,    \* operations the device takes for stored (accepted or duplicate)
  dropped  \* operations the device gave up on after a rejection

queueVars == <<seqno, drafts, queue, flight, tries, skip, call, drained, done, dropped>>

NoCall == [pc |-> "idle", batch |-> << >>, read |-> << >>, full |-> FALSE, out |-> << >>]

QueueInit ==
  /\ seqno = [d \in Devices |-> 0]
  /\ drafts = [d \in Devices |-> {}]
  /\ queue = [d \in Devices |-> {}]
  /\ flight = [d \in Devices |-> {}]
  /\ tries = [op \in Ops |-> 0]
  /\ skip = [d \in Devices |-> [c \in Callers |-> {}]]
  /\ call = [d \in Devices |-> [c \in Callers |-> NoCall]]
  /\ drained = [d \in Devices |-> FALSE]
  /\ done = [d \in Devices |-> {}]
  /\ dropped = [d \in Devices |-> {}]

Elements(b) == {b[i] : i \in 1 .. Len(b)}
-------------------------------------------------------------------------------
(***************************************************************************)
(* Producers.                                                              *)
(***************************************************************************)
\* The operations of `run` take the sequences reserveSequenceBatch hands out.
TakesNext(d, run) ==
  /\ run # {}
  /\ {op.seq : op \in run} = (seqno[d] + 1) .. (seqno[d] + Cardinality(run))

\* reserveSequenceBatch commits before the operations are encrypted.
Reserve(d, run) ==
  /\ TakesNext(d, run)
  /\ \A op \in run : ~IsBulkHistoryImport(op)
  /\ Cardinality(drafts[d]) < MaxProducers
  /\ seqno' = [seqno EXCEPT ![d] = @ + Cardinality(run)]
  /\ drafts' = [drafts EXCEPT ![d] = @ \cup {run}]
  /\ UNCHANGED <<queue, flight, tries, skip, call, drained, done, dropped>>

Enqueue(d, run) ==
  /\ run \in drafts[d]
  /\ drafts' = [drafts EXCEPT ![d] = @ \ {run}]
  /\ queue' = [queue EXCEPT ![d] = @ \cup run]
  /\ UNCHANGED <<seqno, flight, tries, skip, call, drained, done, dropped>>
-------------------------------------------------------------------------------
(***************************************************************************)
(* uploadPending.                                                          *)
(***************************************************************************)
Pending(d, c) == queue[d] \ skip[d][c]

\* b is what getPendingOperations returns: the queued rows, skipping those of
\* requeuedThisCycle, the lowest sequences first, at most MaxBatch of them.
\* (The variants skip rows, and leave the rows in any order.)
IsSortedBatch(b, rows) ==
  /\ Elements(b) \subseteq rows
  /\ \A i, j \in 1 .. Len(b) : i < j => b[i].seq < b[j].seq
IsUnsortedBatch(b, rows) ==
  /\ Elements(b) = rows
  /\ Len(b) = Cardinality(rows)
IsPendingBatch(b, rows) ==
  /\ Elements(b) \subseteq rows
  /\ Len(b) = IF Cardinality(rows) < MaxBatch THEN Cardinality(rows) ELSE MaxBatch
  /\ \A i, j \in 1 .. Len(b) : i < j => b[i].seq < b[j].seq
  /\ \A op \in rows \ Elements(b) : \A i \in 1 .. Len(b) : b[i].seq < op.seq

\* The call returns false ("no more"), which ends the loop of the import that
\* drains the queue, also with rows still queued that the call skipped.
Returns(d, c) ==
  /\ skip' = [skip EXCEPT ![d][c] = {}]
  /\ drained' = [drained EXCEPT ![d] = @ \/ c = "import"]

\* The call reads a batch of rows, with their attempts.
PickBatch(d, c) ==
  /\ call[d][c] = NoCall
  /\ ~drained[d] \/ c # "import"
  /\ \E n \in 1 .. MaxBatch : \E b \in [1 .. n -> Pending(d, c)] :
       /\ IsPendingBatch(b, Pending(d, c))
       /\ call' = [call EXCEPT ![d][c] =
                     [pc |-> "picked", batch |-> b, read |-> [i \in 1 .. n |-> tries[b[i]]],
                      full |-> n = MaxBatch, out |-> << >>]]
  /\ UNCHANGED <<seqno, drafts, queue, flight, tries, skip, drained, done, dropped>>

\* The operations of the batch that are out of attempts; v is the vector of the
\* positions of the others, in order.
Stuck(k) == {k.batch[i] : i \in {j \in 1 .. Len(k.batch) : k.read[j] >= MaxAttempts}}
IsRetryable(v, k) ==
  /\ \A i \in 1 .. Len(v) : k.read[v[i]] < MaxAttempts
  /\ \A j \in 1 .. Len(k.batch) :
       k.read[j] < MaxAttempts => \E i \in 1 .. Len(v) : v[i] = j
  /\ \A i, j \in 1 .. Len(v) : i < j => v[i] < v[j]

\* The attempts of the rows the call writes back, `more` of them counted now.
WriteBack(k, rows, more) ==
  [op \in Ops |-> IF op \in rows
                    THEN k.read[CHOOSE i \in 1 .. Len(k.batch) : k.batch[i] = op] + more
                    ELSE tries[op]]

\* The stuck rows are dropped, the others are marked in flight and sent.  With
\* none left the call returns, or goes on to the next batch when this one was
\* full.
StartUpload(d, c) ==
  LET k == call[d][c]
  IN  /\ k.pc = "picked"
      /\ \E n \in 0 .. Len(k.batch) : \E v \in [1 .. n -> 1 .. Len(k.batch)] :
           LET sent == [i \in 1 .. n |-> k.batch[v[i]]]
           IN  /\ IsRetryable(v, k)
               /\ queue' = [queue EXCEPT ![d] = @ \ Elements(k.batch)]
               /\ flight' = [flight EXCEPT ![d] = (@ \ Stuck(k)) \cup Elements(sent)]
               /\ dropped' = [dropped EXCEPT ![d] = @ \cup Stuck(k)]
               /\ tries' = WriteBack(k, Elements(sent), 0)
               /\ \/ /\ n > 0
                     /\ call' = [call EXCEPT ![d][c] =
                                   [k EXCEPT !.pc = "sent", !.batch = sent,
                                             !.read = [i \in 1 .. n |-> @[v[i]]]]]
                     /\ UNCHANGED <<skip, drained>>
                  \/ /\ n = 0 /\ k.full
                     /\ call' = [call EXCEPT ![d][c] = NoCall]
                     /\ UNCHANGED <<skip, drained>>
                  \/ /\ n = 0 /\ ~k.full
                     /\ call' = [call EXCEPT ![d][c] = NoCall]
                     /\ Returns(d, c)
      /\ UNCHANGED <<seqno, drafts, done>>

\* The call ends after MAX_BATCHES_PER_CYCLE; the import calls again.
EndCycle(d, c) ==
  /\ call[d][c] = NoCall /\ skip[d][c] # {}
  /\ skip' = [skip EXCEPT ![d][c] = {}]
  /\ UNCHANGED <<seqno, drafts, queue, flight, tries, call, drained, done, dropped>>

\* The call finds nothing left to send.
FindNothing(d, c) ==
  /\ call[d][c] = NoCall
  /\ Pending(d, c) = {}
  /\ skip[d][c] # {} \/ (c = "import" /\ ~drained[d])
  /\ Returns(d, c)
  /\ UNCHANGED <<seqno, drafts, queue, flight, tries, call, done, dropped>>

\* The operations of the answered batch with one of the verdicts vs.
Judged(d, c, vs) ==
  {call[d][c].batch[i] : i \in {j \in 1 .. Len(call[d][c].batch) : call[d][c].out[j] \in vs}}

Resolved(d, c) == Judged(d, c, {"accept", "duplicate"})

\* The answer arrives; accepted and duplicate operations leave the queue.
ReceiveAnswer(d, c) ==
  /\ call[d][c].pc = "answered"
  /\ queue' = [queue EXCEPT ![d] = @ \ Resolved(d, c)]
  /\ flight' = [flight EXCEPT ![d] = @ \ Resolved(d, c)]
  /\ done' = [done EXCEPT ![d] = @ \cup Resolved(d, c)]
  /\ call' = [call EXCEPT ![d][c].pc = "judged"]
  /\ UNCHANGED <<seqno, drafts, tries, skip, drained, dropped>>

\* classifyRejections, then reissueRestoresAsCreate for unknown restores.
NotFound(d, c)  == Judged(d, c, {"object_not_found"})
Restores(d, c)  == {op \in NotFound(d, c) : IsRestore(op)}
Waiting(d, c)   == NotFound(d, c) \ Restores(d, c)
ToRemove(d, c)  ==
  {op \in Elements(call[d][c].batch) \ (Resolved(d, c) \cup NotFound(d, c)) :
     ~IsBulkHistoryImport(op)}

\* The call carries a chunk of the import, not rows of the queue.
IsChunkCall(d, c) == \E i \in 1 .. Len(call[d][c].batch) : IsBulkHistoryImport(call[d][c].batch[i])

\* `new` re-sends the restores rs as creates of the same objects.
Reissues(d, rs, new) ==
  /\ Cardinality(new) = Cardinality(rs)
  /\ rs # {} => TakesNext(d, new)
  /\ {Key(op) : op \in new} = {Key(op) : op \in rs}
  /\ \A op \in new : op.kind = "create"

\* An explicit rejection counts as an attempt (in the variant it does not).
Uncounted(k, rows)    == WriteBack(k, rows, 0)
AfterAttempt(k, rows) == WriteBack(k, rows, 1)

\* The rejected operations: an unknown restore is replaced by a create, another
\* unknown object is requeued with one attempt more, the rest are dropped.  (A
\* rejected chunk of the import is not: the import throws and starts over.)
SettleRejected(d, c, new) ==
  /\ call[d][c].pc = "judged"
  /\ Reissues(d, Restores(d, c), new)
  /\ seqno' = [seqno EXCEPT ![d] = @ + Cardinality(new)]
  /\ flight' = [flight EXCEPT ![d] = @ \ (Elements(call[d][c].batch) \ Resolved(d, c))]
  /\ queue' = [queue EXCEPT ![d] = (@ \ (Restores(d, c) \cup ToRemove(d, c)))
                                     \cup Waiting(d, c) \cup new]
  /\ tries' = AfterAttempt(call[d][c], Waiting(d, c))
  /\ dropped' = [dropped EXCEPT ![d] = @ \cup ToRemove(d, c)]
  /\ \/ /\ call[d][c].full \/ new # {}
        /\ skip' = [skip EXCEPT ![d][c] = @ \cup Waiting(d, c)]
        /\ UNCHANGED drained
     \/ /\ ~call[d][c].full /\ new = {} /\ ~IsChunkCall(d, c)
        /\ Returns(d, c)
     \/ /\ IsChunkCall(d, c)
        /\ UNCHANGED <<skip, drained>>
  /\ call' = [call EXCEPT ![d][c] = NoCall]
  /\ UNCHANGED <<drafts, done>>

\* A request-level failure: every row of the batch is requeued, no attempt is
\* counted, and the call throws.  A chunk of the import was never queued.
Requeued(d, c) == {op \in Elements(call[d][c].batch) : ~IsBulkHistoryImport(op)}

FailCall(d, c) ==
  /\ call[d][c].pc \in {"sent", "serving", "answered"}
  /\ queue' = [queue EXCEPT ![d] = @ \cup Requeued(d, c)]
  /\ flight' = [flight EXCEPT ![d] = @ \ Requeued(d, c)]
  /\ tries' = WriteBack(call[d][c], Requeued(d, c), 0)
  /\ skip' = [skip EXCEPT ![d][c] = {}]
  /\ call' = [call EXCEPT ![d][c] = NoCall]
  /\ UNCHANGED <<seqno, drafts, drained, done, dropped>>

\* resetInFlightOperations takes every row in flight (the variant: none).
NotRecovered(d) == {}
Recovered(d)    == flight[d]

\* The worker is killed and started again; sequences reserved for lost drafts
\* stay a gap.
Crash(d) ==
  /\ drafts' = [drafts EXCEPT ![d] = {}]
  /\ queue' = [queue EXCEPT ![d] = @ \cup Recovered(d)]
  /\ flight' = [flight EXCEPT ![d] = @ \ Recovered(d)]
  /\ skip' = [skip EXCEPT ![d] = [c \in Callers |-> {}]]
  /\ call' = [call EXCEPT ![d] = [c \in Callers |-> NoCall]]
  /\ drained' = [drained EXCEPT ![d] = FALSE]
  /\ UNCHANGED <<seqno, tries, done, dropped>>
-------------------------------------------------------------------------------
(***************************************************************************)
(* The bulk history import (extension/src/history/bulk.ts, flushChunk).    *)
(***************************************************************************)
\* The chunk reserves a sequence and is sent, past the queue.
SendChunk(d, op) ==
  /\ drained[d]
  /\ IsBulkHistoryImport(op) /\ TakesNext(d, {op})
  /\ seqno' = [seqno EXCEPT ![d] = op.seq]
  /\ drained' = [drained EXCEPT ![d] = FALSE]
  /\ call' = [call EXCEPT ![d]["import"] =
                [NoCall EXCEPT !.pc = "sent", !.batch = <<op>>]]
  /\ UNCHANGED <<drafts, queue, flight, tries, skip, done, dropped>>
===============================================================================
