----------------------------- MODULE UploadProtocol -----------------------------
(***************************************************************************)
(* Upload end to end: the client's UploadQueue talking to the SyncServer,  *)
(* over requests that can time out, be answered to nobody, or be processed *)
(* after the client has given up on them, while both ends fail.            *)
(* Compaction and downloads are left out: of what they change an upload    *)
(* reads the ledger and the rows stored, and SyncServer has both of them   *)
(* next to uploads that are sent again.                                    *)
(*                                                                         *)
(* call[d][c].pc follows a request: "sent" on its way, "serving" while the *)
(* server has its transaction open, "answered" until the client reads it.  *)
(***************************************************************************)
EXTENDS SyncServer

CONSTANTS
  Produced,     \* the operations that start as local changes, and the chunks
                \* of the import; the others are restores re-sent as creates
  MaxAttempts,  \* MAX_UPLOAD_ATTEMPTS
  MaxProducers, \* bound on the operation batches being created at a time
  Callers,      \* who uploads: "cycle", "import"
  MaxFaults     \* bound on crashes, timeouts and server failures

ASSUME ProtocolAssumption ==
  /\ {MaxAttempts, MaxProducers, MaxFaults} \subseteq Nat
  /\ MaxBatch > 0 /\ Callers \subseteq {"cycle", "import"} /\ Produced \subseteq Ops

VARIABLES
  seqno, drafts, queue, flight, tries, skip, call, drained, done, dropped,
  stray,  \* per device, a request its sender no longer waits for
  ran,    \* history: the devices on which the import has run, or restores
          \* were re-sent
  refused,\* history: the operations the server answered object_not_found to
  faults  \* the faults so far

Queue == INSTANCE UploadQueue

queueVars    == <<seqno, drafts, queue, flight, tries, skip, call, drained, done, dropped>>
protocolVars == <<vars, queueVars, stray, ran, refused, faults>>

NoStray == [pc |-> "idle", batch |-> << >>]

ProtocolInit ==
  /\ Init
  /\ Queue!QueueInit
  /\ stray = [d \in Devices |-> NoStray]
  /\ ran = {} /\ refused = {} /\ faults = 0

\* The operations whose sequence the device has not reserved yet.
Unmade(d) == {op \in Ops : op.dev = d /\ op.seq > seqno[d]}

Fault == faults < MaxFaults /\ faults' = faults + 1
-------------------------------------------------------------------------------
(***************************************************************************)
(* Steps of the client alone.                                              *)
(***************************************************************************)
\* The import is at work, or restores are re-sent: sequences are taken and
\* operations uploaded by another than the capture and the cycle.
Joined(d) ==
  \/ drained'[d]
  \/ \E c \in Callers \ {"cycle"} : call'[d][c].pc # "idle"
  \/ seqno'[d] # seqno[d] /\ drafts'[d] = drafts[d]

\* A step of the client leaves the rest alone.
OnlyClient ==
  /\ ran' = ran \union {d \in Devices : Joined(d)}
  /\ UNCHANGED <<vars, stray, refused, faults>>

\* The next step of caller c's upload call, or the start of one.
CallStep(d, c) ==
  /\ \/ Queue!PickBatch(d, c)
     \/ Queue!StartUpload(d, c)
     \/ Queue!EndCycle(d, c)
     \/ Queue!FindNothing(d, c)
     \/ Queue!ReceiveAnswer(d, c)
     \/ \E new \in SUBSET (Unmade(d) \ Produced) : Queue!SettleRejected(d, c, new)
  /\ OnlyClient

\* A producer's step, or the import's chunk.
ProducerStep(d) ==
  /\ \/ \E run \in SUBSET (Unmade(d) \cap Produced) : Queue!Reserve(d, run)
     \/ \E run \in drafts[d] : Queue!Enqueue(d, run)
     \/ "import" \in Callers /\ \E op \in Unmade(d) \cap Produced : Queue!SendChunk(d, op)
  /\ OnlyClient

\* The client stops waiting (its timeout, a dropped connection).  A request
\* that was not answered is still under way.
Abandon(d, c) ==
  stray' = IF call[d][c].pc \in {"sent", "serving"}
             THEN [stray EXCEPT ![d] = [pc |-> call[d][c].pc, batch |-> call[d][c].batch]]
             ELSE stray

GiveUp(d, c) ==
  /\ Fault
  /\ stray[d] = NoStray
  /\ Queue!FailCall(d, c)
  /\ Abandon(d, c)
  /\ UNCHANGED <<vars, ran, refused>>

\* The browser kills the worker; at most one of its requests lives on.
ClientCrash(d) ==
  /\ Fault
  /\ stray[d] = NoStray
  /\ Queue!Crash(d)
  /\ \E c \in Callers : Abandon(d, c)
  /\ UNCHANGED <<vars, ran, refused>>
-------------------------------------------------------------------------------
(***************************************************************************)
(* Steps of the server.                                                    *)
(***************************************************************************)
\* process_batch takes up a request: at most one per device (ValidateBatch).
TakeRequest(d, c) ==
  /\ call[d][c].pc = "sent"
  /\ ValidateBatch(d, call[d][c].batch)
  /\ call' = [call EXCEPT ![d][c].pc = "serving"]
  /\ UNCHANGED <<seqno, drafts, queue, flight, tries, skip, drained, done, dropped,
                 stray, ran, refused, faults>>

TakeStray(d) ==
  /\ stray[d].pc = "sent"
  /\ ValidateBatch(d, stray[d].batch)
  /\ stray' = [stray EXCEPT ![d].pc = "serving"]
  /\ UNCHANGED <<queueVars, ran, refused, faults>>

\* A request that never reaches the server.
LoseStray(d) ==
  /\ stray[d].pc = "sent"
  /\ stray' = [stray EXCEPT ![d] = NoStray]
  /\ UNCHANGED <<vars, queueVars, ran, refused, faults>>

\* The transaction commits; the answer goes to whoever still waits for it.
FinishUpload(d) ==
  /\ CommitBatch(d)
  /\ call' = [call EXCEPT ![d] =
                [c \in Callers |-> IF @[c].pc = "serving"
                                     THEN [@[c] EXCEPT !.pc = "answered", !.out = tx[d].out]
                                     ELSE @[c]]]
  /\ stray' = IF stray[d].pc = "serving" THEN [stray EXCEPT ![d] = NoStray] ELSE stray
  /\ refused' = refused \cup
        {tx[d].batch[i] : i \in {j \in 1 .. Len(tx[d].out) : tx[d].out[j] = "object_not_found"}}
  /\ UNCHANGED <<seqno, drafts, queue, flight, tries, skip, drained, done, dropped, ran, faults>>

\* A statement fails: ROLLBACK, and the waiting caller gets an error.
ServerError(d) ==
  /\ Fault
  /\ AbortBatch(d)
  /\ \/ \E c \in Callers : /\ call[d][c].pc = "serving"
                           /\ Queue!FailCall(d, c)
                           /\ UNCHANGED stray
     \/ /\ stray[d].pc = "serving"
        /\ stray' = [stray EXCEPT ![d] = NoStray]
        /\ UNCHANGED queueVars
  /\ UNCHANGED <<ran, refused>>

ProtocolNext ==
  \/ \E d \in Devices : ProducerStep(d)
  \/ \E d \in Devices, c \in Callers : CallStep(d, c)
  \/ \E d \in Devices, c \in Callers : GiveUp(d, c)
  \/ \E d \in Devices : ClientCrash(d)
  \/ \E d \in Devices, c \in Callers : TakeRequest(d, c)
  \/ \E d \in Devices : TakeStray(d)
  \/ \E d \in Devices : LoseStray(d)
  \/ \E d \in Devices : FinishUpload(d)
  \/ \E d \in Devices : ServerError(d)

\* The alarm starts a cycle every few minutes, a call goes on, and the server
\* answers what it has taken up: none of these is put off forever.
ProtocolFairness ==
  \A d \in Devices :
    /\ \A c \in Callers : WF_protocolVars(CallStep(d, c)) /\ SF_protocolVars(TakeRequest(d, c))
    /\ WF_protocolVars(FinishUpload(d))

ProtocolSpec == ProtocolInit /\ [][ProtocolNext]_protocolVars /\ ProtocolFairness
-------------------------------------------------------------------------------
(***************************************************************************)
(* Properties.                                                             *)
(***************************************************************************)
\* Operation op is in the log, or it is a bulk chunk whose content is.
Stored(op) ==
  \E c \in DOMAIN log :
    \/ log[c] = op
    \/ IsBulkHistoryImport(op) /\ IsBulkHistoryImport(log[c]) /\ Key(log[c]) = Key(op)

\* An operation leaves the pending queue as a success only once the server has
\* stored it (docs/protocol.md 15; db.ts removeFromQueue: "Only called after
\* durable server acceptance").
NoLostOperation == \A d \in Devices : \A op \in done[d] : Stored(op)

\* A sorted queue and one upload at a time: no operation is ever rejected for
\* being out of order within its batch.
NeverOutOfOrder ==
  \A d \in Devices : \A i \in DOMAIN tx[d].out : tx[d].out[i] # "sequence_out_of_order"

\* With one producer and one call that uploads, only an operation the server had
\* refused before is ever removed from the queue without being stored, whatever
\* requests are lost, repeated, answered late or processed after a restart.
LossExplained ==
  \A d \in Devices \ ran : \A op \in done[d] : Stored(op) \/ op \in refused

\* A row is marked in flight only while an upload call is working on it, so no
\* crash, timeout, error or second call that read the same rows leaves one that
\* no cycle will ever send.
InFlightOwned ==
  \A d \in Devices : \A op \in flight[d] : \E c \in Callers :
    LET k == call[d][c]
    IN  \E i \in 1 .. Len(k.batch) :
          /\ k.batch[i] = op
          /\ k.pc # "picked"
          /\ k.pc = "judged" => k.out[i] \notin {"accept", "duplicate"}

\* Every operation that was queued ends: the queue drains once faults stop.
QueueDrains ==
  \A d \in Devices : [](queue[d] # {} => <>(queue[d] \cup flight[d] = {}))
===============================================================================
