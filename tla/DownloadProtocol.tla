---------------------------- MODULE DownloadProtocol ----------------------------
(***************************************************************************)
(* Download end to end: one device's downloadAndApply and applySnapshot    *)
(* (sync/engine.ts) against the SyncServer, while other devices upload,    *)
(* the server compacts, and the worker is killed or a request fails.       *)
(*                                                                         *)
(* A row of the log stands for its operation id.  A page is scanned row by *)
(* row into one buffer per object type (every type that has an applier has *)
(* a batch applier).  What an applier does to the browser is not modelled, *)
(* only that it ran.                                                       *)
(***************************************************************************)
EXTENDS SyncServer, SequencesExt

CONSTANTS
  Reader,       \* the device that downloads
  Unreadable,   \* operations whose payload does not decrypt, or is plaintext
  Newer,        \* operations in an envelope format only the next client reads
  MarkChunk,    \* MARK_APPLIED_CHUNK
  MaxPages,     \* MAX_DOWNLOAD_PAGES_PER_CYCLE
  LeftOver,     \* the cursor the device starts from: 0, or one it got before
                \* the server's database was restored from a backup
  MaxFaults     \* bound on kills, failures and server restarts

ASSUME ReaderAssumption ==
  /\ Reader \in Devices
  /\ Unreadable \subseteq Ops /\ Newer \subseteq Ops
  /\ {MarkChunk, MaxPages, LeftOver, MaxFaults} \subseteq Nat
  /\ MarkChunk > 0 /\ MaxPages > 0 /\ MaxBatch > 0

VARIABLES
  cursor,   \* sync_state.cursor
  marked,   \* applied_operations
  call,     \* the downloadAndApply that runs
  updated,  \* the extension was updated and reads every envelope
  faults,   \* the faults so far
  arrived,  \* the rows that were applied or skipped for good, or whose outcome
            \* a snapshot brought
  raced     \* the rows deleted while a request that asks for them was answered

clientVars   == <<cursor, marked, call, updated, arrived>>
downloadVars == <<vars, clientVars, faults, raced>>

Types == {op.type : op \in Ops}

\* pc: where the call waits; todo: rows of the page not yet scanned; buf:
\* appliedBuffer; group: the batch buffers; now: the type being flushed; stop:
\* an envelope could not be read; resynced: snapshotTaken; next: the
\* cursor of the page or snapshot; rows: what the snapshot was folded from.
NoCall == [pc |-> "idle", page |-> 0, resynced |-> FALSE, todo |-> {},
           buf |-> << >>, group |-> [t \in Types |-> << >>], now |-> "none",
           next |-> 0, more |-> FALSE, stop |-> FALSE, rows |-> {}]

DownloadInit ==
  /\ Init
  /\ cursor = LeftOver
  /\ marked = {}
  /\ call = NoCall
  /\ updated = FALSE
  /\ faults = 0
  /\ arrived = {}
  /\ raced = {}

Fault == faults < MaxFaults /\ faults' = faults + 1
-------------------------------------------------------------------------------
(***************************************************************************)
(* Asking for a page.                                                      *)
(***************************************************************************)
\* The error thrown for an answer that is not a page: the first cursor_too_old
\* of a call is answered by a snapshot, everything else ends the call (the
\* variant knows no snapshots).
CallFails(c) == NoCall
AfterRefusal(c) ==
  IF TooOld(c) /\ ~call.resynced
    THEN [call EXCEPT !.pc = "snapshot", !.resynced = TRUE, !.page = @ + 1]
    ELSE NoCall

\* A call starts, or goes on to its next page.
Ask ==
  /\ call.pc \in {"idle", "ask"}
  /\ IF call.page = MaxPages
       THEN call' = NoCall /\ UNCHANGED vars
       ELSE /\ Open < MaxOpen
            /\ DownloadBounds(Reader, cursor)
            /\ call' = IF TooOld(cursor) \/ cursor > alloc
                         THEN AfterRefusal(cursor)
                         ELSE [call EXCEPT !.pc = "wait", !.page = @ + 1]
  /\ UNCHANGED <<cursor, marked, updated, arrived, faults, raced>>

AnswerSized ==
  /\ SizePage(Reader)
  /\ UNCHANGED <<clientVars, faults, raced>>

\* The page arrives; rows recorded as applied are left out.
Receive ==
  /\ call.pc = "wait"
  /\ FetchRows(Reader)
  /\ call' = [call EXCEPT !.pc = "scan",
                          !.todo = PageRows(Reader) \ marked,
                          !.next = req[Reader].next, !.more = req[Reader].more]
  /\ UNCHANGED <<cursor, marked, updated, arrived, faults, raced>>
-------------------------------------------------------------------------------
(***************************************************************************)
(* Applying a page.                                                        *)
(***************************************************************************)
OwnEcho(x)    == log[x].type = "historyVisit" /\ log[x].dev = Reader
Skipped(x)    == OwnEcho(x) \/ log[x] \in Unreadable
CannotRead(x) == ~Skipped(x) /\ log[x] \in Newer /\ ~updated
HasApplier(x) ==
  log[x].type \in {"bookmark", "bookmarkFolder", "historyVisit", "tab", "window", "tabGroup"}

\* markApplied for each of the rows s: a full buffer is written to
\* applied_operations (the variant keeps it until the end of the page).
NoneFull(s)  == 0
FullPart(s)  == Len(s) - (Len(s) % MarkChunk)
MarkedBy(s)  == marked \cup ToSet(SubSeq(s, 1, FullPart(s)))
LeftIn(s)    == SubSeq(s, FullPart(s) + 1, Len(s))

\* The next row of the page: passed over for good (an own history echo, nothing
\* that can be decrypted, a type without applier), the end of the page (a newer
\* envelope), or buffered.
Scan ==
  /\ call.pc = "scan"
  /\ \E x \in call.todo :
       LET t    == log[x].type
           mine == Append(call.group[t], x)
       IN
       /\ \A y \in call.todo : x <= y
       /\ \/ /\ ~CannotRead(x) /\ (Skipped(x) \/ ~HasApplier(x))
             /\ call' = [call EXCEPT !.todo = @ \ {x}, !.buf = LeftIn(Append(@, x))]
             /\ marked' = MarkedBy(Append(call.buf, x))
             /\ arrived' = arrived \cup {x}
          \/ /\ CannotRead(x)
             /\ call' = [call EXCEPT !.todo = {}, !.stop = TRUE]
             /\ UNCHANGED <<marked, arrived>>
          \/ /\ ~CannotRead(x) /\ ~Skipped(x) /\ HasApplier(x)
             /\ call' = [call EXCEPT !.todo = @ \ {x}, !.group[t] = mine,
                           !.pc = IF Len(mine) >= MarkChunk THEN "flush" ELSE "scan",
                           !.now = IF Len(mine) >= MarkChunk THEN t ELSE "none"]
             /\ UNCHANGED <<marked, arrived>>
  /\ UNCHANGED <<vars, cursor, updated, faults, raced>>

\* flushBatchBuffer of a full buffer, or of each type in turn at the end of the
\* page: the batch applier runs; then its rows are marked.
ApplyGroup ==
  /\ \E t \in Types :
       /\ \/ call.pc = "flush" /\ call.now = t
          \/ call.pc = "scan" /\ call.todo = {} /\ call.group[t] # << >>
       /\ arrived' = arrived \cup ToSet(call.group[t])
       /\ call' = [call EXCEPT !.pc = "mark", !.now = t]
  /\ UNCHANGED <<vars, cursor, marked, updated, faults, raced>>

MarkGroup ==
  /\ call.pc = "mark"
  /\ marked' = MarkedBy(call.buf \o call.group[call.now])
  /\ call' = [call EXCEPT !.pc = "scan", !.buf = LeftIn(@ \o call.group[call.now]),
                          !.group[call.now] = << >>, !.now = "none"]
  /\ UNCHANGED <<vars, cursor, updated, arrived, faults, raced>>

\* flushAppliedBuffer; a newer envelope is thrown after it (the variant goes on).
MarkAndGoOn ==
  /\ call.pc = "scan" /\ call.todo = {}
  /\ \A t \in Types : call.group[t] = << >>
  /\ marked' = marked \cup ToSet(call.buf)
  /\ call' = [call EXCEPT !.pc = "save", !.buf = << >>]
  /\ UNCHANGED <<vars, cursor, updated, arrived, faults, raced>>
MarkRest ==
  /\ call.pc = "scan" /\ call.todo = {}
  /\ \A t \in Types : call.group[t] = << >>
  /\ marked' = marked \cup ToSet(call.buf)
  /\ call' = IF call.stop THEN NoCall ELSE [call EXCEPT !.pc = "save", !.buf = << >>]
  /\ UNCHANGED <<vars, cursor, updated, arrived, faults, raced>>

\* The cursor is saved, and the next page asked for when there is one.
SaveCursor ==
  /\ call.pc = "save"
  /\ cursor' = call.next
  /\ call' = IF call.more
               THEN [NoCall EXCEPT !.pc = "ask", !.page = call.page, !.resynced = call.resynced]
               ELSE NoCall
  /\ UNCHANGED <<vars, marked, updated, arrived, faults, raced>>
-------------------------------------------------------------------------------
(***************************************************************************)
(* Resync from a snapshot.                                                 *)
(***************************************************************************)
\* The snapshot handler reads everything in one REPEATABLE READ transaction:
\* the objects are folded from the stored snapshot and the rows after it.
SnapshotCursor == CHOOSE c \in stored \cup {snap.cursor} : \A x \in stored \cup {snap.cursor} : x <= c

FetchSnapshot ==
  /\ call.pc = "snapshot"
  /\ \E h \in 0 .. alloc :
       LET objs == Live(Fold(snap, alloc, h))
       IN  call' = IF \E k \in Keys : objs[k] \in Newer /\ ~updated
                     THEN NoCall
                     ELSE [call EXCEPT !.pc = "resync", !.next = SnapshotCursor,
                             !.rows = stored \cup (DOMAIN log \cap (1 .. snap.cursor))]
  /\ UNCHANGED <<vars, cursor, marked, updated, arrived, faults, raced>>

\* applySnapshot: field state cleared, objects and tombstones applied, then the
\* cursor saved; until then a kill leaves the old cursor, and all is done again.
ApplySnapshot ==
  /\ call.pc = "resync"
  /\ arrived' = arrived \cup call.rows
  /\ cursor' = call.next
  /\ call' = [NoCall EXCEPT !.pc = "ask", !.page = call.page, !.resynced = TRUE]
  /\ UNCHANGED <<vars, marked, updated, faults, raced>>
-------------------------------------------------------------------------------
(***************************************************************************)
(* What goes wrong, and what happens meanwhile.                            *)
(***************************************************************************)
\* The worker is killed, a request or an applier fails: the call is gone, with
\* the marks it had buffered.
EndCall ==
  /\ call' = NoCall
  /\ \/ DropRequest(Reader)
     \/ req[Reader] = NoReq /\ UNCHANGED vars

Kill ==
  /\ Fault
  /\ call.pc # "idle"
  /\ EndCall
  /\ UNCHANGED <<cursor, marked, updated, arrived, raced>>

\* The user installs the version that reads the newer envelopes.
UpdateExtension ==
  /\ ~updated
  /\ updated' = TRUE
  /\ EndCall
  /\ UNCHANGED <<cursor, marked, arrived, faults, raced>>

\* pruneAppliedOperations finds every mark past its retention.
PruneAppliedOperations ==
  /\ call.pc = "idle"
  /\ marked # {}
  /\ marked' = {}
  /\ UNCHANGED <<vars, cursor, call, updated, arrived, faults, raced>>

\* Devices upload what they have in the order of their sequences.
Upload(d) ==
  /\ \/ /\ Open < MaxOpen
        /\ \E op \in Ops : /\ op.dev = d /\ op.seq = lastSeq[d] + 1
                           /\ ValidateBatch(d, <<op>>)
     \/ CommitBatch(d)
  /\ UNCHANGED <<clientVars, faults, raced>>

Compact ==
  /\ \/ \E d \in Devices : Touch(d) \/ Lapse(d)
     \/ BeginCompaction
     \/ BuildSnapshot
     \/ CommitSnapshot
  /\ UNCHANGED <<clientVars, faults, raced>>

Prune ==
  /\ PruneChunk
  /\ raced' = IF req[Reader] = NoReq THEN raced ELSE raced \cup {x \in stored \ stored' : x > req[Reader].from}
  /\ UNCHANGED <<clientVars, faults>>

\* The server restarts: an open request fails, and with it the call.
RestartServer ==
  /\ Fault
  /\ Restart
  /\ call' = IF call.pc = "wait" THEN NoCall ELSE call
  /\ UNCHANGED <<cursor, marked, updated, arrived, raced>>

ClientStep ==
  \/ Ask \/ AnswerSized \/ Receive \/ Scan \/ ApplyGroup \/ MarkGroup
  \/ MarkRest \/ SaveCursor \/ FetchSnapshot \/ ApplySnapshot

DownloadNext ==
  \/ Ask
  \/ AnswerSized
  \/ Receive
  \/ Scan
  \/ ApplyGroup
  \/ MarkGroup
  \/ MarkRest
  \/ SaveCursor
  \/ FetchSnapshot
  \/ ApplySnapshot
  \/ Kill
  \/ UpdateExtension
  \/ PruneAppliedOperations
  \/ \E d \in Devices : Upload(d)
  \/ Compact
  \/ Prune
  \/ RestartServer

\* The alarm starts a cycle again and again, a request is answered or fails, and
\* the user updates the extension one day.
DownloadFairness == WF_downloadVars(ClientStep) /\ WF_downloadVars(UpdateExtension)

DownloadSpec == DownloadInit /\ [][DownloadNext]_downloadVars /\ DownloadFairness
-------------------------------------------------------------------------------
(***************************************************************************)
(* Properties.                                                             *)
(***************************************************************************)
\* docs/protocol.md 4.4: the cursor means that "the client has successfully
\* applied every operation up to and including this server cursor".
CursorMeansApplied == \A x \in DOMAIN log : x <= cursor => x \in arrived

\* The cursor never passes a row the device has not got, whatever page, kill,
\* unreadable envelope or snapshot moved it; the only exception are rows deleted
\* between the statements of a download that was being answered.
NothingSkipped == \A x \in DOMAIN log : x <= cursor => x \in arrived \cup raced

\* What a kill makes the device apply again stays bounded: the rows applied and
\* not recorded are fewer than two chunks, however long the page and however it
\* mixes object types.
ReapplyWindow ==
  Len(call.buf) + (IF call.pc = "mark" THEN Len(call.group[call.now]) ELSE 0) < 2 * MarkChunk

\* Every stored operation reaches the device, through pages or a snapshot, once
\* the faults stop, whatever is compacted meanwhile and whatever envelope it could
\* not read at first: again and again the device has all there is.
CatchesUp == []<>(DOMAIN log \subseteq arrived \cup raced)
===============================================================================
