---------------------------- MODULE DownloadProofs ----------------------------
(***************************************************************************)
(* A device that downloads passes no row over, and what a kill makes it    *)
(* apply again is bounded (for a device that starts from cursor 0).        *)
(*                                                                         *)
(* The client's steps are steps of the server's specification as well, so  *)
(* the server's invariants can be used: what makes a page complete is that *)
(* deleted rows lie below the snapshot's cursor (CoverInv).                *)
(***************************************************************************)
EXTENDS DownloadProtocol, SyncServerProofs

(***************************************************************************)
(* Facts about the buffers.                                                *)
(***************************************************************************)
\* What is written is a whole number of chunks, and less than one is left.
LEMMA FullPartFacts ==
  ASSUME NEW s \in Seq(Nat)
  PROVE  /\ FullPart(s) \in 0 .. Len(s)
         /\ Len(s) - FullPart(s) < MarkChunk
<1>1. Len(s) \in Nat /\ MarkChunk \in Nat \ {0}
  BY LenProperties, ReaderAssumption
<1>2. Len(s) % MarkChunk \in 0 .. (MarkChunk - 1)
  BY <1>1
<1>3. Len(s) % MarkChunk <= Len(s)
  BY <1>1, <1>2
<1> QED  BY <1>1, <1>2, <1>3 DEF FullPart

LEMMA Parts ==
  ASSUME NEW s \in Seq(Nat)
  PROVE  /\ LeftIn(s) \in Seq(Nat) /\ Len(LeftIn(s)) < MarkChunk
         /\ ToSet(LeftIn(s)) \subseteq ToSet(s)
         /\ ToSet(SubSeq(s, 1, FullPart(s))) \subseteq ToSet(s)
<1>1. PICK n \in 0 .. Len(s) : n = FullPart(s) /\ Len(s) - n < MarkChunk
  BY FullPartFacts
<1>2. Len(s) \in Nat /\ n \in Nat /\ DOMAIN s = 1 .. Len(s) /\ \A i \in 1 .. Len(s) : s[i] \in Nat
  BY LenProperties
<1>3. /\ SubSeq(s, n + 1, Len(s)) = [i \in 1 .. (Len(s) - n) |-> s[i + n]]
      /\ SubSeq(s, 1, n) = [i \in 1 .. n |-> s[i]]
  BY <1>2
<1>4. \A i \in (n + 1) .. Len(s) : s[i] \in Nat
  BY <1>2
<1>5. /\ SubSeq(s, n + 1, Len(s)) \in Seq(Nat)
      /\ Len(SubSeq(s, n + 1, Len(s))) = IF n + 1 <= Len(s) THEN Len(s) - (n + 1) + 1 ELSE 0
  <2>1. n + 1 \in Int /\ Len(s) \in Int
    BY <1>2
  <2> QED  BY <1>4, <2>1, SubSeqProperties
<1>6. LeftIn(s) \in Seq(Nat) /\ Len(LeftIn(s)) = Len(s) - n
  BY <1>1, <1>2, <1>5 DEF LeftIn
<1>7. ToSet(LeftIn(s)) \subseteq ToSet(s)
  <2>1. LeftIn(s) = [i \in 1 .. (Len(s) - n) |-> s[i + n]]
    BY <1>1, <1>3 DEF LeftIn
  <2>2. \A i \in 1 .. (Len(s) - n) : i + n \in DOMAIN s
    BY <1>2
  <2> QED  BY <2>1, <2>2 DEF ToSet
<1>8. ToSet(SubSeq(s, 1, FullPart(s))) \subseteq ToSet(s)
  <2>1. SubSeq(s, 1, FullPart(s)) = [i \in 1 .. n |-> s[i]]
    BY <1>1, <1>3
  <2>2. \A i \in 1 .. n : i \in DOMAIN s
    BY <1>2
  <2> QED  BY <2>1, <2>2 DEF ToSet
<1> QED  BY <1>1, <1>6, <1>7, <1>8

LEMMA Appended ==
  ASSUME NEW s \in Seq(Nat), NEW x \in Nat
  PROVE  /\ Append(s, x) \in Seq(Nat) /\ Len(Append(s, x)) = Len(s) + 1 /\ Len(s) \in Nat
         /\ ToSet(Append(s, x)) = ToSet(s) \cup {x}
<1>1. /\ Append(s, x) \in Seq(Nat) /\ Len(Append(s, x)) = Len(s) + 1
      /\ Len(s) \in Nat /\ DOMAIN s = 1 .. Len(s)
      /\ DOMAIN Append(s, x) = 1 .. (Len(s) + 1)
  BY LenProperties, AppendProperties
<1>2. /\ \A i \in 1 .. Len(s) : Append(s, x)[i] = s[i]
      /\ Append(s, x)[Len(s) + 1] = x
  BY AppendProperties
<1> QED  BY <1>1, <1>2 DEF ToSet

LEMMA Joined ==
  ASSUME NEW s \in Seq(Nat), NEW t \in Seq(Nat)
  PROVE  s \o t \in Seq(Nat) /\ ToSet(s \o t) \subseteq ToSet(s) \cup ToSet(t)
<1>1. /\ s \o t \in Seq(Nat) /\ Len(s \o t) = Len(s) + Len(t)
      /\ \A i \in 1 .. (Len(s) + Len(t)) :
           (s \o t)[i] = IF i <= Len(s) THEN s[i] ELSE t[i - Len(s)]
  BY ConcatProperties
<1>2. /\ Len(s) \in Nat /\ Len(t) \in Nat /\ DOMAIN s = 1 .. Len(s) /\ DOMAIN t = 1 .. Len(t)
      /\ DOMAIN (s \o t) = 1 .. (Len(s) + Len(t))
  BY <1>1, LenProperties
<1>3. \A i \in 1 .. (Len(s) + Len(t)) : i <= Len(s) \/ i - Len(s) \in 1 .. Len(t)
  BY <1>2
<1> QED  BY <1>1, <1>2, <1>3 DEF ToSet

LEMMA EmptyBuffer == << >> \in Seq(Nat) /\ Len(<< >>) = 0 /\ ToSet(<< >>) = {}
BY EmptySeq DEF ToSet
-------------------------------------------------------------------------------
(***************************************************************************)
(* The invariant.                                                          *)
(***************************************************************************)
\* The snapshot and the job's boundary are cursors that were handed out.
SnapBelow == snap.cursor <= alloc /\ job.upto <= alloc

ServerInv == TypeOK /\ LogGapFree /\ CoverInv /\ SnapBelow

CallRecord ==
  [pc : {"idle", "ask", "wait", "scan", "flush", "mark", "save", "snapshot", "resync"},
   page : Nat, resynced : BOOLEAN, todo : SUBSET Nat, buf : Seq(Nat),
   group : [Types -> Seq(Nat)], now : Types \cup {"none"}, next : Nat,
   more : BOOLEAN, stop : BOOLEAN, rows : SUBSET Nat]

CallType == cursor \in 0 .. alloc /\ call \in CallRecord

\* A buffer is full only while it is being flushed.
Window ==
  /\ Len(call.buf) < MarkChunk
  /\ call.pc \in {"flush", "mark"} => call.now \in Types
  /\ \A t \in Types :
       \/ Len(call.group[t]) < MarkChunk
       \/ Len(call.group[t]) = MarkChunk /\ call.pc \in {"flush", "mark"} /\ call.now = t

\* Nothing is marked that was not applied.
Held ==
  /\ marked \subseteq arrived
  /\ ToSet(call.buf) \subseteq arrived
  /\ call.pc = "mark" => ToSet(call.group[call.now]) \subseteq arrived

\* An open request asks for what comes after the cursor, and all of that is
\* there, or was deleted while the request was open.
Asked ==
  req[Reader] # NoReq =>
    /\ call.pc = "wait" /\ req[Reader].from = cursor /\ req[Reader].next <= alloc
    /\ \A x \in DOMAIN log : x > cursor => x \in stored \cup raced

\* The rows up to the page's cursor are dealt with, in a buffer, or to come,
\* unless the page was cut short.
Paged ==
  call.pc \in {"scan", "flush", "mark"} =>
    /\ call.next <= alloc /\ call.todo \subseteq DOMAIN log
    /\ \/ call.stop
       \/ \A x \in DOMAIN log : x <= call.next =>
            x \in arrived \cup raced \cup call.todo \/ \E t \in Types : x \in ToSet(call.group[t])

\* The cursor about to be saved is behind what was dealt with.
Saving ==
  /\ call.pc = "save" =>
       call.next <= alloc /\ \A x \in DOMAIN log : x <= call.next => x \in arrived \cup raced
  /\ call.pc = "resync" =>
       call.next <= alloc /\ \A x \in DOMAIN log : x <= call.next => x \in call.rows

ClientInv == CallType /\ Window /\ Held /\ Asked /\ Paged /\ Saving /\ NothingSkipped
-------------------------------------------------------------------------------
(***************************************************************************)
(* The server's part.                                                      *)
(***************************************************************************)
LEMMA Refines ==
  ASSUME ServerInv, CallType, [DownloadNext]_downloadVars
  PROVE  [Next]_vars
<1>1. Reader \in Devices /\ MaxBatch \in Nat \ {0}
  BY ReaderAssumption, BoundsAssumption
<1>2. ASSUME Ask PROVE [Next]_vars
  <2>1. cursor \in CursorsOf
    BY DEF CallType, CursorsOf, ServerInv, TypeOK
  <2> QED  BY <1>1, <1>2, <2>1 DEF Ask, Next
<1>3. ASSUME AnswerSized \/ Receive PROVE [Next]_vars
  BY <1>1, <1>3 DEF AnswerSized, Receive, Next
<1>4. ASSUME \/ Scan \/ ApplyGroup \/ MarkGroup \/ MarkRest \/ SaveCursor \/ FetchSnapshot
             \/ ApplySnapshot \/ PruneAppliedOperations
      PROVE  [Next]_vars
  BY <1>4 DEF Scan, ApplyGroup, MarkGroup, MarkRest, SaveCursor, FetchSnapshot,
              ApplySnapshot, PruneAppliedOperations
<1>5. ASSUME Kill \/ UpdateExtension PROVE [Next]_vars
  BY <1>1, <1>5 DEF Kill, UpdateExtension, EndCall, Next
<1>6. ASSUME NEW d \in Devices, Upload(d) PROVE [Next]_vars
  <2>1. CASE CommitBatch(d)
    BY <2>1 DEF Next
  <2>2. ASSUME NEW op \in Ops, op.dev = d, Open < MaxOpen, ValidateBatch(d, <<op>>)
        PROVE  [Next]_vars
    <3>1. <<op>> \in [1 .. 1 -> {o \in Ops : o.dev = d}]
      BY <2>2
    <3>2. 1 \in 1 .. MaxBatch
      BY <1>1
    <3>3. <<op>> \in BatchesOf(d)
      BY <3>1, <3>2 DEF BatchesOf
    <3> QED  BY <2>2, <3>3 DEF Next
  <2> QED  BY <1>6, <2>1, <2>2 DEF Upload
<1>7. ASSUME Compact \/ Prune \/ RestartServer PROVE [Next]_vars
  BY <1>7 DEF Compact, Prune, RestartServer, Next
<1>8. ASSUME UNCHANGED downloadVars PROVE [Next]_vars
  BY <1>8 DEF downloadVars, vars
<1> QED  BY <1>2, <1>3, <1>4, <1>5, <1>6, <1>7, <1>8 DEF DownloadNext

\* No step takes back a cursor, new rows are stored, and only a prune deletes.
LEMMA Grows ==
  ASSUME ServerInv, [Next]_vars
  PROVE  /\ alloc \in Nat /\ alloc' \in Nat /\ alloc <= alloc'
         /\ DOMAIN log = 1 .. alloc /\ DOMAIN log' = 1 .. alloc'
         /\ (alloc + 1) .. alloc' \subseteq stored'
         /\ stored \subseteq stored' \/ PruneChunk
<1>1. TypeOK /\ LogGapFree /\ TypeOK' /\ LogGapFree'
  BY TypeStep DEF ServerInv
<1>2. alloc \in Nat /\ alloc' \in Nat /\ DOMAIN log = 1 .. alloc /\ DOMAIN log' = 1 .. alloc'
  BY <1>1 DEF TypeOK, LogGapFree
<1>3. ASSUME NEW d \in Devices, CommitBatch(d)
      PROVE  alloc <= alloc' /\ (alloc + 1) .. alloc' \subseteq stored' /\ stored \subseteq stored'
  <2>1. CASE UNCHANGED logVars
    BY <1>2, <2>1 DEF logVars
  <2>2. ASSUME NEW n \in Nat \ {0}, NEW v \in [1 .. n -> 1 .. Len(tx[d].batch)],
               NEW a \in [1 .. n -> Ops], CommitEffect(d, n, v, a)
        PROVE  alloc <= alloc' /\ (alloc + 1) .. alloc' \subseteq stored' /\ stored \subseteq stored'
    <3>1. alloc' = alloc + n /\ stored' = stored \cup ((alloc + 1) .. (alloc + n))
      BY <2>2 DEF CommitEffect
    <3> QED  BY <1>2, <3>1
  <2> QED  BY <1>1, <1>3, <2>1, <2>2, CommitCases
<1>4. ASSUME UNCHANGED alloc PROVE alloc <= alloc' /\ (alloc + 1) .. alloc' \subseteq stored'
  BY <1>2, <1>4
<1>5. ASSUME NEW d \in Devices, NEW b, ValidateBatch(d, b) \/ AbortBatch(d)
      PROVE  UNCHANGED <<alloc, stored>>
  BY <1>5 DEF ValidateBatch, AbortBatch, logVars
<1>6. ASSUME NEW d \in Devices, NEW c, \/ DownloadBounds(d, c) \/ SizePage(d) \/ FetchRows(d)
                                       \/ DropRequest(d) \/ Touch(d) \/ Lapse(d)
      PROVE  UNCHANGED <<alloc, stored>>
  BY <1>6 DEF DownloadBounds, SizePage, FetchRows, DropRequest, Touch, Lapse, logVars
<1>7. ASSUME BeginCompaction \/ BuildSnapshot \/ CommitSnapshot \/ Restart
      PROVE  UNCHANGED <<alloc, stored>>
  BY <1>7 DEF BeginCompaction, BuildSnapshot, CommitSnapshot, Restart, logVars
<1>8. ASSUME PruneChunk PROVE UNCHANGED alloc
  BY <1>8 DEF PruneChunk
<1>9. ASSUME UNCHANGED vars PROVE UNCHANGED <<alloc, stored>>
  BY <1>9 DEF vars
<1> QED  BY <1>2, <1>3, <1>4, <1>5, <1>6, <1>7, <1>8, <1>9 DEF Next

LEMMA SnapBelowStep ==
  ASSUME ServerInv, [Next]_vars
  PROVE  SnapBelow'
<1>1. /\ alloc \in Nat /\ alloc' \in Nat /\ alloc <= alloc'
      /\ snap.cursor \in Nat /\ job.upto \in Nat /\ stored \subseteq 1 .. alloc
      /\ snap.cursor <= alloc /\ job.upto <= alloc
  BY Grows, NumberFacts DEF ServerInv, SnapBelow, TypeOK, LogGapFree
<1>2. ASSUME UNCHANGED <<snap, job>> PROVE SnapBelow'
  BY <1>1, <1>2 DEF SnapBelow
<1>3. ASSUME NEW d \in Devices, NEW b, ValidateBatch(d, b) \/ AbortBatch(d) \/ CommitBatch(d)
      PROVE  UNCHANGED <<snap, job>>
  BY <1>3 DEF ValidateBatch, AbortBatch, CommitBatch, otherVars
<1>4. ASSUME NEW d \in Devices, NEW c, \/ DownloadBounds(d, c) \/ SizePage(d) \/ FetchRows(d)
                                       \/ DropRequest(d) \/ Touch(d) \/ Lapse(d)
      PROVE  UNCHANGED <<snap, job>>
  BY <1>4 DEF DownloadBounds, SizePage, FetchRows, DropRequest, Touch, Lapse
<1>5. ASSUME BeginCompaction PROVE SnapBelow'
  <2>1. PICK m \in stored \cup {0} : \E b \in 0 .. m :
          \/ job' = [NoJob EXCEPT !.pc = "build", !.upto = b]
          \/ \E r : job' = [NoJob EXCEPT !.pc = "prune", !.upto = snap.cursor,
                                         !.keep = Survivors(snap.cursor, r)]
    BY <1>5 DEF BeginCompaction
  <2>2. 0 .. m \subseteq 0 .. alloc
    BY <1>1
  <2>3. \E b \in 0 .. m : job'.upto \in {b, snap.cursor}
    BY <2>1 DEF NoJob
  <2>4. job'.upto \in 0 .. alloc
    BY <1>1, <2>2, <2>3
  <2>5. UNCHANGED <<snap, alloc>>
    BY <1>5 DEF BeginCompaction, logVars
  <2> QED  BY <1>1, <2>4, <2>5 DEF SnapBelow
<1>6. ASSUME BuildSnapshot PROVE SnapBelow'
  BY <1>1, <1>6 DEF BuildSnapshot, SnapBelow, ServerInv, TypeOK, logVars
<1>7. ASSUME CommitSnapshot PROVE SnapBelow'
  <2>1. snap'.cursor = job.upto /\ job'.upto = job.upto /\ alloc' = alloc
    BY <1>7 DEF CommitSnapshot, NoJob
  <2> QED  BY <1>1, <2>1 DEF SnapBelow
<1>8. ASSUME PruneChunk \/ Restart PROVE SnapBelow'
  <2>1. UNCHANGED snap /\ (job' = NoJob \/ \E n : job' = [job EXCEPT !.total = n])
    BY <1>8 DEF PruneChunk, Restart
  <2>2. job \in [pc : {"idle", "build", "built", "prune"}, upto : Nat,
                 objs : {job.objs}, keep : SUBSET Nat, total : Nat]
    BY DEF ServerInv, TypeOK
  <2>3. job'.upto \in {0, job.upto}
    BY <2>1, <2>2 DEF NoJob
  <2> QED  BY <1>1, <2>1, <2>3 DEF SnapBelow
<1>9. ASSUME UNCHANGED vars PROVE UNCHANGED <<snap, job>>
  BY <1>9 DEF vars
<1> QED  BY <1>2, <1>3, <1>4, <1>5, <1>6, <1>7, <1>8, <1>9 DEF Next

LEMMA ServerStep ==
  ASSUME ServerInv, [Next]_vars
  PROVE  ServerInv'
BY TypeStep, CoverStep, SnapBelowStep DEF ServerInv
-------------------------------------------------------------------------------
(***************************************************************************)
(* The client's part.                                                      *)
(***************************************************************************)
LEMMA NoCallFacts ==
  /\ NoCall \in CallRecord
  /\ NoCall.pc = "idle" /\ Len(NoCall.buf) = 0 /\ ToSet(NoCall.buf) = {}
  /\ \A t \in Types : Len(NoCall.group[t]) = 0
<1>1. [t \in Types |-> << >>] \in [Types -> Seq(Nat)]
  BY EmptyBuffer
<1>2. NoCall \in CallRecord
  BY <1>1, EmptyBuffer DEF NoCall, CallRecord
<1> QED  BY <1>2, EmptyBuffer DEF NoCall

\* A call that is not in a page and holds empty buffers.
LEMMA EmptyCall ==
  ASSUME call' \in CallRecord, call'.pc \in {"idle", "ask"}, Len(call'.buf) = 0,
         ToSet(call'.buf) = {}, \A t \in Types : Len(call'.group[t]) = 0,
         marked' \subseteq arrived', req'[Reader] = NoReq
  PROVE  Window' /\ Held' /\ Asked' /\ Paged' /\ Saving'
BY ReaderAssumption DEF Window, Held, Asked, Paged, Saving

\* A step of the server, or the end of the call: the client's state stays.
LEMMA Background ==
  ASSUME ServerInv, ClientInv, [Next]_vars,
         UNCHANGED <<cursor, arrived>>, marked' \subseteq marked, raced \subseteq raced',
         call' \in {call, NoCall}, req'[Reader] \in {NoReq, req[Reader]},
         req'[Reader] # NoReq => call' = call,
         \A x \in stored \ stored' :
           req'[Reader] # NoReq /\ x > req[Reader].from => x \in raced'
  PROVE  ClientInv'
<1>1. /\ alloc \in Nat /\ alloc' \in Nat /\ alloc <= alloc'
      /\ DOMAIN log = 1 .. alloc /\ DOMAIN log' = 1 .. alloc'
      /\ (alloc + 1) .. alloc' \subseteq stored'
  BY Grows
<1>2. cursor \in 0 .. alloc /\ call \in CallRecord
  BY DEF ClientInv, CallType
<1>3. cursor \in 0 .. alloc' /\ NothingSkipped'
  BY <1>1, <1>2 DEF ClientInv, NothingSkipped
<1>4. call' \in CallRecord
  BY <1>2, NoCallFacts
<1>5. marked \subseteq arrived
  BY DEF ClientInv, Held
<1>6. CASE call' = NoCall
  <2>1. req'[Reader] = NoReq
    <3>1. NoCall.pc # "wait"
      BY NoCallFacts
    <3> QED  BY <1>6, <3>1 DEF ClientInv, Asked
  <2>2. Window' /\ Held' /\ Asked' /\ Paged' /\ Saving'
    BY <1>4, <1>5, <1>6, <2>1, NoCallFacts, EmptyCall
  <2> QED  BY <1>3, <1>4, <2>2 DEF ClientInv, CallType
<1>7. CASE call' = call
  <2>1. Window' /\ Held'
    BY <1>5, <1>7 DEF ClientInv, Window, Held
  <2>2. Asked'
    <3> SUFFICES ASSUME req'[Reader] # NoReq PROVE Asked'
      BY DEF Asked
    <3>1. req'[Reader] = req[Reader] /\ req[Reader] # NoReq
      OBVIOUS
    <3>2. /\ call.pc = "wait" /\ req[Reader].from = cursor /\ req[Reader].next <= alloc
          /\ \A x \in DOMAIN log : x > cursor => x \in stored \cup raced
      BY <3>1 DEF ClientInv, Asked
    <3>3. req[Reader].next \in Nat
      BY ReaderAssumption DEF ServerInv, TypeOK
    <3>4. req'[Reader].next <= alloc'
      BY <1>1, <3>1, <3>2, <3>3
    <3>5. ASSUME NEW x \in DOMAIN log', x > cursor PROVE x \in stored' \cup raced'
      <4>1. x \in DOMAIN log \/ x \in (alloc + 1) .. alloc'
        BY <1>1
      <4> QED  BY <1>1, <3>1, <3>2, <3>5, <4>1
    <3> QED  BY <1>7, <3>1, <3>2, <3>4, <3>5 DEF Asked
  <2>3. call.next \in Nat
    BY <1>2 DEF CallRecord
  <2>4. \A x \in DOMAIN log' : x <= call.next /\ call.next <= alloc => x \in DOMAIN log
    BY <1>1, <2>3
  <2>5. call.next <= alloc => call.next <= alloc'
    BY <1>1, <2>3
  <2>6. Paged'
    BY <1>1, <1>7, <2>4, <2>5 DEF ClientInv, Paged
  <2>7. Saving'
    BY <1>7, <2>4, <2>5 DEF ClientInv, Saving
  <2> QED  BY <1>3, <1>4, <2>1, <2>2, <2>6, <2>7 DEF ClientInv, CallType
<1> QED  BY <1>6, <1>7

LEMMA AskStep ==
  ASSUME ServerInv, ClientInv, Ask
  PROVE  ClientInv'
<1>1. /\ call.pc \in {"idle", "ask"} /\ cursor \in 0 .. alloc /\ call \in CallRecord
      /\ UNCHANGED <<cursor, marked, arrived, raced>>
  BY DEF Ask, ClientInv, CallType
<1>2. CASE call' = NoCall /\ UNCHANGED vars
  <2>1. req[Reader] = NoReq
    BY <1>1 DEF ClientInv, Asked
  <2>2. UNCHANGED <<req, stored>>
    BY <1>2 DEF vars
  <2> QED  BY <1>1, <1>2, <2>1, <2>2, Background
<1>3. CASE DownloadBounds(Reader, cursor)
  <2>1. /\ UNCHANGED <<log, stored, alloc>>
        /\ req'[Reader] = IF TooOld(cursor) \/ cursor > alloc THEN NoReq ELSE AfterCursor(cursor)
    BY <1>3, ReaderAssumption DEF DownloadBounds, logVars, ServerInv, TypeOK
  <2>2. cursor \in 0 .. alloc' /\ NothingSkipped'
    BY <1>1, <2>1 DEF ClientInv, NothingSkipped
  <2>3. CASE call' = NoCall /\ req'[Reader] = NoReq
    <3>1. marked' \subseteq arrived'
      BY <1>1 DEF ClientInv, Held
    <3>2. Window' /\ Held' /\ Asked' /\ Paged' /\ Saving'
      BY <2>3, <3>1, NoCallFacts, EmptyCall
    <3>3. CallType'
      BY <1>1, <2>2, <2>3, NoCallFacts DEF CallType
    <3> QED  BY <2>2, <3>2, <3>3 DEF ClientInv
  <2>4. ASSUME NEW p \in {"wait", "snapshot"}, NEW r \in BOOLEAN,
               call' = [call EXCEPT !.pc = p, !.resynced = r, !.page = @ + 1], Asked'
        PROVE  ClientInv'
    <3>1. call' \in CallRecord
      <4>1. call.page + 1 \in Nat
        BY <1>1 DEF CallRecord
      <4> QED  BY <1>1, <2>4, <4>1 DEF CallRecord
    <3>2. call'.pc = p /\ call'.buf = call.buf /\ call'.group = call.group
      BY <1>1, <2>4 DEF CallRecord
    <3>3. Window'
      BY <1>1, <3>2 DEF ClientInv, Window
    <3>4. Held' /\ Paged' /\ Saving'
      BY <1>1, <3>2 DEF ClientInv, Held, Paged, Saving
    <3>5. CallType'
      BY <1>1, <2>2, <3>1 DEF CallType
    <3> QED  BY <2>2, <2>4, <3>3, <3>4, <3>5 DEF ClientInv
  <2>5. CASE TooOld(cursor) \/ cursor > alloc
    <3>1. req'[Reader] = NoReq /\ Asked'
      BY <2>1, <2>5 DEF Asked
    <3>2. call' = AfterRefusal(cursor) \/ call' = NoCall
      BY <2>5 DEF Ask
    <3>3. CASE call' = [call EXCEPT !.pc = "snapshot", !.resynced = TRUE, !.page = @ + 1]
      BY <2>4, <3>1, <3>3
    <3> QED  BY <2>3, <3>1, <3>2, <3>3 DEF AfterRefusal
  <2>6. CASE ~(TooOld(cursor) \/ cursor > alloc)
    <3>1. CASE call' = NoCall /\ UNCHANGED vars
      BY <1>2, <3>1
    <3>2. CASE call' = [call EXCEPT !.pc = "wait", !.page = @ + 1]
      <4>1. call.resynced \in BOOLEAN /\ call' = [call EXCEPT !.pc = "wait", !.resynced = call.resynced, !.page = @ + 1]
        BY <1>1, <3>2 DEF CallRecord
      <4>2. req'[Reader].from = cursor /\ req'[Reader].next = 0 /\ call'.pc = "wait"
        BY <1>1, <2>1, <2>6, <3>2 DEF AfterCursor, NoReq, CallRecord
      <4>3. ASSUME NEW x \in DOMAIN log, x > cursor PROVE x \in stored
        <5>1. ~(cursor < snap.cursor) /\ snap.cursor \in Nat /\ DOMAIN log = 1 .. alloc
          BY <2>6, NumberFacts DEF TooOld, ServerInv, LogGapFree
        <5>2. x \notin stored => x <= snap.cursor
          BY DEF ServerInv, CoverInv, PrunedCovered
        <5> QED  BY <1>1, <4>3, <5>1, <5>2, NumberFacts DEF ServerInv
      <4>4. 0 <= alloc'
        BY <2>1, NumberFacts DEF ServerInv
      <4>5. Asked'
        BY <1>1, <2>1, <4>2, <4>3, <4>4 DEF Asked
      <4> QED  BY <2>4, <4>1, <4>5
    <3> QED  BY <2>6, <3>1, <3>2 DEF Ask
  <2> QED  BY <2>5, <2>6
<1> QED  BY <1>2, <1>3 DEF Ask

LEMMA AnswerStep ==
  ASSUME ServerInv, ClientInv, AnswerSized
  PROVE  ClientInv'
<1>1. /\ UNCHANGED <<cursor, marked, call, arrived, raced, log, stored, alloc>>
      /\ SizePage(Reader) /\ Reader \in Devices
  BY ReaderAssumption DEF AnswerSized, SizePage, clientVars, logVars
<1>2. /\ req[Reader] \in [pc : {"idle", "bounded", "sized"}, from : Nat, next : Nat, more : BOOLEAN]
      /\ req \in [Devices -> [pc : {"idle", "bounded", "sized"}, from : Nat, next : Nat, more : BOOLEAN]]
      /\ stored \subseteq 1 .. alloc /\ alloc \in Nat
  BY <1>1 DEF ServerInv, TypeOK, LogGapFree
<1>3. req[Reader] # NoReq
  BY <1>1, <1>2 DEF SizePage, NoReq
<1>4. /\ call.pc = "wait" /\ req[Reader].from = cursor /\ cursor \in 0 .. alloc
      /\ \A x \in DOMAIN log : x > cursor => x \in stored \cup raced
  BY <1>3 DEF ClientInv, Asked, CallType
<1>5. req'[Reader].from = cursor /\ (req'[Reader].next = cursor \/ req'[Reader].next \in stored)
  <2>1. CASE req' = [req EXCEPT ![Reader].pc = "sized", ![Reader].next = req[Reader].from]
    BY <1>1, <1>2, <1>4, <2>1
  <2>2. ASSUME NEW x \in stored, NEW m,
               req' = [req EXCEPT ![Reader] = [pc |-> "sized", from |-> req[Reader].from,
                                               next |-> x, more |-> m]]
        PROVE  req'[Reader].from = cursor /\ req'[Reader].next \in stored
    BY <1>1, <1>2, <1>4, <2>2
  <2> QED  BY <1>1, <2>1, <2>2 DEF SizePage
<1>6. req'[Reader].next <= alloc
  <2>1. alloc \in Nat /\ \A x \in stored : x <= alloc
    BY <1>2
  <2>2. cursor <= alloc
    BY <1>4, <2>1
  <2> QED  BY <1>5, <2>1, <2>2
<1>7. Asked'
  BY <1>1, <1>4, <1>5, <1>6 DEF Asked
<1> QED  BY <1>1, <1>7 DEF ClientInv, CallType, Window, Held, Paged, Saving, NothingSkipped

LEMMA ReceiveStep ==
  ASSUME ServerInv, ClientInv, Receive
  PROVE  ClientInv'
<1>1. /\ UNCHANGED <<cursor, marked, arrived, raced, log, stored, alloc>>
      /\ req[Reader].pc = "sized" /\ req'[Reader] = NoReq /\ call \in CallRecord
      /\ cursor \in 0 .. alloc
  BY ReaderAssumption
  DEF Receive, FetchRows, logVars, ServerInv, TypeOK, ClientInv, CallType
<1>2. /\ req[Reader].next \in Nat /\ req[Reader].more \in BOOLEAN /\ req[Reader].from \in Nat
      /\ stored \subseteq Nat
  <2>1. stored \subseteq 1 .. alloc /\ alloc \in Nat
    BY DEF ServerInv, TypeOK, LogGapFree
  <2>2. req[Reader] \in [pc : {"idle", "bounded", "sized"}, from : Nat, next : Nat, more : BOOLEAN]
    BY ReaderAssumption DEF ServerInv, TypeOK
  <2> QED  BY <2>1, <2>2
<1>3. /\ call.pc = "wait" /\ req[Reader].from = cursor /\ req[Reader].next <= alloc
      /\ \A x \in DOMAIN log : x > cursor => x \in stored \cup raced
  BY <1>1 DEF NoReq, ClientInv, Asked
<1>4. call' = [call EXCEPT !.pc = "scan", !.todo = PageRows(Reader) \ marked,
                           !.next = req[Reader].next, !.more = req[Reader].more]
  BY DEF Receive
<1>5. PageRows(Reader) \subseteq Nat
  BY <1>2 DEF PageRows
<1>6. call' \in CallRecord
  BY <1>1, <1>2, <1>4, <1>5 DEF CallRecord
<1>7. /\ call'.pc = "scan" /\ call'.buf = call.buf /\ call'.group = call.group
      /\ call'.next = req[Reader].next /\ call'.todo = PageRows(Reader) \ marked
  BY <1>1, <1>4 DEF CallRecord
<1>8. Window'
  BY <1>3, <1>7 DEF ClientInv, Window
<1>9. Held' /\ Asked' /\ Saving'
  BY <1>1, <1>7 DEF ClientInv, Held, Asked, Saving
<1>10. ASSUME NEW x \in DOMAIN log, x <= req[Reader].next
       PROVE  x \in arrived \cup raced \cup call'.todo
  <2>1. x \in Nat /\ cursor \in Nat
    BY <1>1 DEF ServerInv, TypeOK, LogGapFree
  <2>2. CASE x <= cursor
    BY <2>2 DEF ClientInv, NothingSkipped
  <2>3. CASE x > cursor
    <3>1. x \in stored => x \in PageRows(Reader)
      BY <1>3, <1>10, <2>1, <2>3 DEF PageRows
    <3> QED  BY <1>3, <1>7, <2>3, <3>1 DEF ClientInv, Held
  <2> QED  BY <2>1, <2>2, <2>3
<1>11. call'.todo \subseteq DOMAIN log
  BY <1>7 DEF PageRows, ServerInv, TypeOK
<1>12. Paged'
  BY <1>1, <1>3, <1>7, <1>10, <1>11 DEF Paged
<1> QED  BY <1>1, <1>6, <1>8, <1>9, <1>12 DEF ClientInv, CallType, NothingSkipped

\* A step of the client alone, with no request open.
LEMMA ClientAlone ==
  ASSUME ServerInv, ClientInv, UNCHANGED <<vars, raced>>, call.pc # "wait"
  PROVE  /\ Asked' /\ UNCHANGED <<log, stored, alloc, req>>
         /\ arrived \subseteq arrived' /\ UNCHANGED cursor => NothingSkipped'
<1>1. UNCHANGED <<log, stored, alloc, req>>
  BY DEF vars
<1>2. req[Reader] = NoReq
  BY DEF ClientInv, Asked
<1> QED  BY <1>1, <1>2 DEF ClientInv, Asked, NothingSkipped

LEMMA ScanStep ==
  ASSUME ServerInv, ClientInv, Scan
  PROVE  ClientInv'
<1>1. /\ UNCHANGED <<vars, cursor, raced>> /\ call.pc = "scan" /\ call \in CallRecord
      /\ cursor \in 0 .. alloc
  BY DEF Scan, ClientInv, CallType
<1>2. /\ Asked' /\ UNCHANGED <<log, stored, alloc, req>>
      /\ arrived \subseteq arrived' => NothingSkipped'
  BY <1>1, ClientAlone
<1>3. PICK x \in call.todo :
        \/ /\ call' = [call EXCEPT !.todo = @ \ {x}, !.buf = LeftIn(Append(@, x))]
           /\ marked' = MarkedBy(Append(call.buf, x)) /\ arrived' = arrived \cup {x}
        \/ /\ call' = [call EXCEPT !.todo = {}, !.stop = TRUE]
           /\ UNCHANGED <<marked, arrived>>
        \/ LET t    == log[x].type
               mine == Append(call.group[t], x)
           IN  /\ call' = [call EXCEPT !.todo = @ \ {x}, !.group[t] = mine,
                             !.pc = IF Len(mine) >= MarkChunk THEN "flush" ELSE "scan",
                             !.now = IF Len(mine) >= MarkChunk THEN t ELSE "none"]
               /\ HasApplier(x)
               /\ UNCHANGED <<marked, arrived>>
  BY DEF Scan
<1>4. /\ x \in Nat /\ call.todo \in SUBSET Nat /\ call.buf \in Seq(Nat)
      /\ call.group \in [Types -> Seq(Nat)]
      /\ MarkChunk \in Nat \ {0}
  BY <1>1, ReaderAssumption DEF CallRecord
<1>5. /\ call.next <= alloc /\ call.todo \subseteq DOMAIN log
      /\ \/ call.stop
         \/ \A y \in DOMAIN log : y <= call.next =>
              y \in arrived \cup raced \cup call.todo \/ \E t \in Types : y \in ToSet(call.group[t])
  BY <1>1 DEF ClientInv, Paged
<1>6. CASE /\ call' = [call EXCEPT !.todo = @ \ {x}, !.buf = LeftIn(Append(@, x))]
           /\ marked' = MarkedBy(Append(call.buf, x)) /\ arrived' = arrived \cup {x}
  <2>1. /\ Append(call.buf, x) \in Seq(Nat)
        /\ ToSet(Append(call.buf, x)) = ToSet(call.buf) \cup {x}
    BY <1>4, Appended
  <2>2. /\ LeftIn(Append(call.buf, x)) \in Seq(Nat)
        /\ Len(LeftIn(Append(call.buf, x))) < MarkChunk
        /\ ToSet(LeftIn(Append(call.buf, x))) \subseteq ToSet(call.buf) \cup {x}
        /\ marked' \subseteq marked \cup ToSet(call.buf) \cup {x}
    BY <1>6, <2>1, Parts DEF MarkedBy
  <2>3. call' \in CallRecord
    BY <1>1, <1>4, <1>6, <2>2 DEF CallRecord
  <2>4. /\ call'.pc = "scan" /\ call'.buf = LeftIn(Append(call.buf, x))
        /\ call'.group = call.group /\ call'.next = call.next /\ call'.stop = call.stop
        /\ call'.todo = call.todo \ {x}
    BY <1>1, <1>6 DEF CallRecord
  <2>5. Window'
    BY <1>1, <2>2, <2>4 DEF ClientInv, Window
  <2>6. Held' /\ Saving'
    BY <1>6, <2>2, <2>4 DEF ClientInv, Held, Saving
  <2>7. Paged'
    BY <1>1, <1>2, <1>5, <1>6, <2>4 DEF Paged
  <2>8. CallType'
    BY <1>1, <1>2, <2>3 DEF CallType
  <2> QED  BY <1>2, <1>6, <2>5, <2>6, <2>7, <2>8 DEF ClientInv
<1>7. CASE call' = [call EXCEPT !.todo = {}, !.stop = TRUE] /\ UNCHANGED <<marked, arrived>>
  <2>1. call' \in CallRecord
    BY <1>1, <1>7 DEF CallRecord
  <2>2. /\ call'.pc = "scan" /\ call'.buf = call.buf /\ call'.stop /\ call'.todo = {}
        /\ call'.group = call.group /\ call'.next = call.next
    BY <1>1, <1>7 DEF CallRecord
  <2>3. Window' /\ Held' /\ Saving'
    BY <1>1, <1>7, <2>2 DEF ClientInv, Window, Held, Saving
  <2>4. Paged'
    BY <1>2, <1>5, <2>2 DEF Paged
  <2>5. CallType'
    BY <1>1, <1>2, <2>1 DEF CallType
  <2> QED  BY <1>2, <1>7, <2>3, <2>4, <2>5 DEF ClientInv
<1>8. ASSUME NEW t, NEW mine, t = log[x].type, mine = Append(call.group[t], x),
             call' = [call EXCEPT !.todo = @ \ {x}, !.group[t] = mine,
                        !.pc = IF Len(mine) >= MarkChunk THEN "flush" ELSE "scan",
                        !.now = IF Len(mine) >= MarkChunk THEN t ELSE "none"],
             UNCHANGED <<marked, arrived>>
      PROVE  ClientInv'
  <2>1. t \in Types /\ Types # {}
    <3>1. log[x] \in Ops
      BY <1>5 DEF ServerInv, TypeOK
    <3> QED  BY <1>8, <3>1 DEF Types
  <2>2. /\ mine \in Seq(Nat) /\ Len(mine) = Len(call.group[t]) + 1
        /\ Len(call.group[t]) \in Nat
        /\ ToSet(mine) = ToSet(call.group[t]) \cup {x}
    <3>1. call.group[t] \in Seq(Nat)
      BY <1>4, <2>1
    <3> QED  BY <1>4, <1>8, <3>1, Appended
  <2> DEFINE p == IF Len(mine) >= MarkChunk THEN "flush" ELSE "scan"
             n == IF Len(mine) >= MarkChunk THEN t ELSE "none"
  <2>3. p \in {"flush", "scan"} /\ n \in Types \cup {"none"}
    BY <2>1
  <2>4. /\ Len(mine) < MarkChunk \/ (Len(mine) = MarkChunk /\ p = "flush" /\ n = t)
        /\ p = "flush" => n = t
    <3>1. Len(call.group[t]) < MarkChunk
      BY <1>1, <2>1 DEF ClientInv, Window
    <3> QED  BY <1>4, <2>2, <3>1
  <2>5. call' = [call EXCEPT !.todo = @ \ {x}, !.group[t] = mine, !.pc = p, !.now = n]
    BY <1>8
  <2> HIDE DEF p, n
  <2>6. call' \in CallRecord
    BY <1>1, <1>4, <2>1, <2>2, <2>3, <2>5 DEF CallRecord
  <2>7. /\ call'.pc = p /\ call'.now = n /\ call'.buf = call.buf /\ call'.stop = call.stop
        /\ call'.next = call.next /\ call'.todo = call.todo \ {x}
        /\ call'.group = [call.group EXCEPT ![t] = mine]
    BY <1>1, <2>5 DEF CallRecord
  <2>8. call'.group[t] = mine /\ \A u \in Types \ {t} : call'.group[u] = call.group[u]
    BY <1>4, <2>1, <2>7
  <2>9. Window'
    <3>1. call'.pc \in {"flush", "mark"} => call'.now \in Types
      BY <2>1, <2>3, <2>4, <2>7
    <3>2. ASSUME NEW u \in Types
          PROVE  \/ Len(call'.group[u]) < MarkChunk
                 \/ Len(call'.group[u]) = MarkChunk /\ call'.pc \in {"flush", "mark"} /\ call'.now = u
      <4>1. CASE u = t
        BY <2>4, <2>7, <2>8, <4>1
      <4>2. CASE u # t
        BY <1>1, <2>8, <4>2 DEF ClientInv, Window
      <4> QED  BY <4>1, <4>2
    <3> QED  BY <2>7, <3>1, <3>2 DEF ClientInv, Window
  <2>10. Held' /\ Saving'
    BY <1>8, <2>3, <2>7 DEF ClientInv, Held, Saving
  <2>11. ASSUME NEW y \in DOMAIN log, y <= call.next, ~call.stop
         PROVE  y \in arrived \cup raced \cup call'.todo \/ \E u \in Types : y \in ToSet(call'.group[u])
    <3>1. CASE y = x
      BY <2>1, <2>2, <2>8, <3>1
    <3>2. ASSUME NEW u \in Types, y \in ToSet(call.group[u])
          PROVE  \E w \in Types : y \in ToSet(call'.group[w])
      BY <2>1, <2>2, <2>8, <3>2
    <3> QED  BY <1>5, <2>7, <2>11, <3>1, <3>2
  <2>12. Paged'
    BY <1>2, <1>5, <1>8, <1>1, <2>7, <2>11 DEF Paged
  <2>13. CallType'
    BY <1>1, <1>2, <2>6 DEF CallType
  <2> QED  BY <1>2, <1>8, <2>9, <2>10, <2>12, <2>13 DEF ClientInv
<1> QED  BY <1>3, <1>6, <1>7, <1>8

LEMMA ApplyGroupStep ==
  ASSUME ServerInv, ClientInv, ApplyGroup
  PROVE  ClientInv'
<1>1. /\ UNCHANGED <<vars, cursor, marked, raced>> /\ call.pc \in {"scan", "flush"}
      /\ call \in CallRecord /\ cursor \in 0 .. alloc
  BY DEF ApplyGroup, ClientInv, CallType
<1>2. PICK t \in Types :
        /\ call.pc = "flush" => call.now = t
        /\ arrived' = arrived \cup ToSet(call.group[t])
        /\ call' = [call EXCEPT !.pc = "mark", !.now = t]
  BY DEF ApplyGroup
<1>3. Asked' /\ UNCHANGED <<log, stored, alloc, req>> /\ NothingSkipped'
  BY <1>1, <1>2, ClientAlone
<1>4. call' \in CallRecord
  BY <1>1, <1>2 DEF CallRecord
<1>5. /\ call'.pc = "mark" /\ call'.now = t /\ call'.buf = call.buf /\ call'.stop = call.stop
      /\ call'.group = call.group /\ call'.next = call.next /\ call'.todo = call.todo
  BY <1>1, <1>2 DEF CallRecord
<1>6. Window'
  BY <1>1, <1>2, <1>5 DEF ClientInv, Window
<1>7. Held' /\ Saving'
  BY <1>1, <1>2, <1>5 DEF ClientInv, Held, Saving
<1>8. Paged'
  BY <1>1, <1>2, <1>3, <1>5 DEF ClientInv, Paged
<1>9. CallType'
  BY <1>1, <1>3, <1>4 DEF CallType
<1> QED  BY <1>3, <1>6, <1>7, <1>8, <1>9 DEF ClientInv

LEMMA MarkGroupStep ==
  ASSUME ServerInv, ClientInv, MarkGroup
  PROVE  ClientInv'
<1>1. /\ UNCHANGED <<vars, cursor, arrived, raced>> /\ call.pc = "mark"
      /\ call \in CallRecord /\ cursor \in 0 .. alloc
  BY DEF MarkGroup, ClientInv, CallType
<1>2. /\ call.now \in Types /\ call.buf \in Seq(Nat) /\ call.group \in [Types -> Seq(Nat)]
      /\ ToSet(call.group[call.now]) \subseteq arrived
      /\ MarkChunk \in Nat \ {0}
  BY <1>1, ReaderAssumption DEF ClientInv, Window, Held, CallRecord
<1>3. Asked' /\ UNCHANGED <<log, stored, alloc, req>> /\ NothingSkipped'
  BY <1>1, ClientAlone
<1> DEFINE s == call.buf \o call.group[call.now]
<1>4. s \in Seq(Nat) /\ ToSet(s) \subseteq arrived
  <2>1. call.group[call.now] \in Seq(Nat) /\ ToSet(call.buf) \subseteq arrived
    BY <1>2 DEF ClientInv, Held
  <2> QED  BY <1>2, <2>1, Joined
<1>5. /\ marked' = MarkedBy(s)
      /\ call' = [call EXCEPT !.pc = "scan", !.buf = LeftIn(s),
                              !.group[call.now] = << >>, !.now = "none"]
  BY DEF MarkGroup
<1> HIDE DEF s
<1>6. /\ LeftIn(s) \in Seq(Nat) /\ Len(LeftIn(s)) < MarkChunk
      /\ ToSet(LeftIn(s)) \subseteq arrived /\ marked' \subseteq arrived
  <2>1. marked \subseteq arrived
    BY DEF ClientInv, Held
  <2> QED  BY <1>4, <1>5, <2>1, Parts DEF MarkedBy
<1>7. call' \in CallRecord
  BY <1>1, <1>2, <1>5, <1>6, EmptyBuffer DEF CallRecord
<1>8. /\ call'.pc = "scan" /\ call'.buf = LeftIn(s) /\ call'.stop = call.stop
      /\ call'.next = call.next /\ call'.todo = call.todo
      /\ call'.group = [call.group EXCEPT ![call.now] = << >>]
  BY <1>1, <1>5 DEF CallRecord
<1>9. /\ call'.group[call.now] = << >>
      /\ \A u \in Types \ {call.now} : call'.group[u] = call.group[u]
  BY <1>2, <1>8
<1>10. Window'
  <2>1. \A u \in Types : Len(call'.group[u]) < MarkChunk
    <3>1. TAKE u \in Types
    <3>2. CASE u = call.now
      BY <1>2, <1>9, <3>2, EmptyBuffer
    <3>3. CASE u # call.now
      BY <1>1, <1>9, <3>3 DEF ClientInv, Window
    <3> QED  BY <3>2, <3>3
  <2> QED  BY <1>6, <1>8, <2>1 DEF Window
<1>11. Held' /\ Saving'
  BY <1>1, <1>6, <1>8 DEF Held, Saving
<1>12. Paged'
  BY <1>1, <1>2, <1>3, <1>8, <1>9 DEF ClientInv, Paged
<1>13. CallType'
  BY <1>1, <1>3, <1>7 DEF CallType
<1> QED  BY <1>3, <1>10, <1>11, <1>12, <1>13 DEF ClientInv

LEMMA MarkRestStep ==
  ASSUME ServerInv, ClientInv, MarkRest
  PROVE  ClientInv'
<1>1. /\ UNCHANGED <<vars, cursor, arrived, raced>> /\ call.pc = "scan" /\ call.todo = {}
      /\ \A t \in Types : call.group[t] = << >>
      /\ marked' = marked \cup ToSet(call.buf)
      /\ call \in CallRecord /\ cursor \in 0 .. alloc
  BY DEF MarkRest, ClientInv, CallType
<1>2. Asked' /\ UNCHANGED <<log, stored, alloc, req>> /\ NothingSkipped' /\ req[Reader] = NoReq
  BY <1>1, ClientAlone DEF ClientInv, Asked
<1>3. marked' \subseteq arrived'
  BY <1>1 DEF ClientInv, Held
<1>4. CASE call' = NoCall
  <2>1. CallType'
    BY <1>1, <1>2, <1>4, NoCallFacts DEF CallType
  <2>2. Window' /\ Held' /\ Paged' /\ Saving'
    BY <1>2, <1>3, <1>4, NoCallFacts, EmptyCall
  <2> QED  BY <1>2, <2>1, <2>2 DEF ClientInv
<1>5. CASE ~call.stop /\ call' = [call EXCEPT !.pc = "save", !.buf = << >>]
  <2>1. call' \in CallRecord
    BY <1>1, <1>5, EmptyBuffer DEF CallRecord
  <2>2. /\ call'.pc = "save" /\ call'.buf = << >> /\ call'.group = call.group
        /\ call'.next = call.next
    BY <1>1, <1>5 DEF CallRecord
  <2>3. Window'
    BY <1>1, <2>2, EmptyBuffer, ReaderAssumption DEF ClientInv, Window
  <2>4. Held' /\ Paged'
    BY <1>3, <2>2, EmptyBuffer DEF Held, Paged
  <2>5. \A y \in DOMAIN log : y <= call.next => y \in arrived \cup raced
    BY <1>1, <1>5, EmptyBuffer DEF ClientInv, Paged
  <2>6. Saving'
    BY <1>1, <1>2, <2>2, <2>5 DEF ClientInv, Paged, Saving
  <2>7. CallType'
    BY <1>1, <1>2, <2>1 DEF CallType
  <2> QED  BY <1>2, <2>3, <2>4, <2>6, <2>7 DEF ClientInv
<1> QED  BY <1>4, <1>5 DEF MarkRest

\* The next page is asked for, or the call ends: nothing is left of the page.
LEMMA NextPage ==
  ASSUME CallType, call' = NoCall \/ \E r \in BOOLEAN :
           call' = [NoCall EXCEPT !.pc = "ask", !.page = call.page, !.resynced = r]
  PROVE  /\ call' \in CallRecord /\ call'.pc \in {"idle", "ask"}
         /\ Len(call'.buf) = 0 /\ ToSet(call'.buf) = {}
         /\ \A t \in Types : Len(call'.group[t]) = 0
<1>1. CASE call' = NoCall
  BY <1>1, NoCallFacts
<1>2. ASSUME NEW r \in BOOLEAN,
             call' = [NoCall EXCEPT !.pc = "ask", !.page = call.page, !.resynced = r]
      PROVE  /\ call' \in CallRecord /\ call'.pc = "ask"
             /\ Len(call'.buf) = 0 /\ ToSet(call'.buf) = {}
             /\ \A t \in Types : Len(call'.group[t]) = 0
  <2>1. call.page \in Nat
    BY DEF CallType, CallRecord
  <2>2. /\ call' \in CallRecord /\ call'.pc = "ask"
        /\ call'.buf = NoCall.buf /\ call'.group = NoCall.group
    BY <1>2, <2>1, NoCallFacts DEF CallRecord
  <2> QED  BY <2>2, NoCallFacts
<1> QED  BY <1>1, <1>2

LEMMA SaveStep ==
  ASSUME ServerInv, ClientInv, SaveCursor
  PROVE  ClientInv'
<1>1. /\ UNCHANGED <<vars, marked, arrived, raced>> /\ call.pc = "save" /\ cursor' = call.next
      /\ call \in CallRecord /\ CallType
  BY DEF SaveCursor, ClientInv, CallType
<1>2. Asked' /\ UNCHANGED <<log, stored, alloc, req>> /\ req[Reader] = NoReq
  BY <1>1, ClientAlone DEF ClientInv, Asked
<1>3. /\ call.next \in 0 .. alloc
      /\ \A x \in DOMAIN log : x <= call.next => x \in arrived \cup raced
  <2>1. call.next \in Nat /\ alloc \in Nat
    BY <1>1, NumberFacts DEF CallRecord, ServerInv
  <2> QED  BY <1>1, <2>1 DEF ClientInv, Saving
<1>4. call' = NoCall \/ \E r \in BOOLEAN :
        call' = [NoCall EXCEPT !.pc = "ask", !.page = call.page, !.resynced = r]
  <2>1. call.resynced \in BOOLEAN
    BY <1>1 DEF CallRecord
  <2> QED  BY <2>1 DEF SaveCursor
<1>5. marked' \subseteq arrived'
  BY <1>1 DEF ClientInv, Held
<1>6. /\ call' \in CallRecord /\ call'.pc \in {"idle", "ask"}
      /\ Len(call'.buf) = 0 /\ ToSet(call'.buf) = {}
      /\ \A t \in Types : Len(call'.group[t]) = 0
  BY <1>1, <1>4, NextPage
<1>7. Window' /\ Held' /\ Paged' /\ Saving'
  BY <1>2, <1>5, <1>6, EmptyCall
<1>8. CallType' /\ NothingSkipped'
  BY <1>1, <1>2, <1>3, <1>6 DEF CallType, NothingSkipped
<1> QED  BY <1>2, <1>7, <1>8 DEF ClientInv

\* The snapshot's cursor was handed out.
LEMMA SnapshotBelow ==
  ASSUME ServerInv
  PROVE  SnapshotCursor \in 0 .. alloc
<1>1. /\ alloc \in Nat /\ stored \subseteq 1 .. alloc /\ snap.cursor \in Nat
      /\ snap.cursor <= alloc
  BY NumberFacts DEF ServerInv, SnapBelow, TypeOK, LogGapFree
<1>2. \E c \in stored \cup {snap.cursor} : \A x \in stored \cup {snap.cursor} : x <= c
  <2>1. CASE stored = {}
    BY <1>1, <2>1
  <2>2. CASE stored # {}
    <3>1. PICK m \in stored : \A x \in stored : x <= m
      BY <1>1, <2>2, PositionMax
    <3>2. CASE snap.cursor <= m
      BY <3>1, <3>2
    <3>3. CASE ~(snap.cursor <= m)
      <4>1. \A x \in stored : x <= snap.cursor
        BY <1>1, <3>1, <3>3
      <4> QED  BY <1>1, <4>1
    <3> QED  BY <3>2, <3>3
  <2> QED  BY <2>1, <2>2
<1>3. SnapshotCursor \in stored \cup {snap.cursor}
  BY <1>2 DEF SnapshotCursor
<1> QED  BY <1>1, <1>3

LEMMA FetchSnapshotStep ==
  ASSUME ServerInv, ClientInv, FetchSnapshot
  PROVE  ClientInv'
<1>1. /\ UNCHANGED <<vars, cursor, marked, arrived, raced>> /\ call.pc = "snapshot"
      /\ call \in CallRecord /\ cursor \in 0 .. alloc
  BY DEF FetchSnapshot, ClientInv, CallType
<1>2. Asked' /\ UNCHANGED <<log, stored, alloc, req>> /\ NothingSkipped' /\ req[Reader] = NoReq
  BY <1>1, ClientAlone DEF ClientInv, Asked
<1>3. marked' \subseteq arrived'
  BY <1>1 DEF ClientInv, Held
<1>4. CASE call' = NoCall
  <2>1. CallType'
    BY <1>1, <1>2, <1>4, NoCallFacts DEF CallType
  <2>2. Window' /\ Held' /\ Paged' /\ Saving'
    BY <1>2, <1>3, <1>4, NoCallFacts, EmptyCall
  <2> QED  BY <1>2, <2>1, <2>2 DEF ClientInv
<1> DEFINE rows == stored \cup (DOMAIN log \cap (1 .. snap.cursor))
<1>5. CASE call' = [call EXCEPT !.pc = "resync", !.next = SnapshotCursor, !.rows = rows]
  <2>1. /\ alloc \in Nat /\ DOMAIN log = 1 .. alloc /\ stored \subseteq 1 .. alloc
        /\ snap.cursor \in Nat
    BY NumberFacts DEF ServerInv, TypeOK, LogGapFree
  <2>2. rows \in SUBSET Nat /\ SnapshotCursor \in 0 .. alloc
    <3>1. 1 .. alloc \subseteq Nat
      BY <2>1
    <3>2. rows \subseteq 1 .. alloc
      BY <2>1
    <3> QED  BY <3>1, <3>2, SnapshotBelow
  <2>3. \A x \in DOMAIN log : x \in rows
    <3>1. \A x \in DOMAIN log \ stored : x <= snap.cursor
      BY DEF ServerInv, CoverInv, PrunedCovered
    <3> QED  BY <2>1, <3>1
  <2> HIDE DEF rows
  <2>4. call' \in CallRecord
    <3>1. SnapshotCursor \in Nat
      BY <2>1, <2>2
    <3> QED  BY <1>1, <1>5, <2>2, <3>1 DEF CallRecord
  <2>5. /\ call'.pc = "resync" /\ call'.buf = call.buf /\ call'.group = call.group
        /\ call'.next = SnapshotCursor /\ call'.rows = rows
    BY <1>1, <1>5 DEF CallRecord
  <2>6. Window' /\ Held' /\ Paged'
    BY <1>1, <2>5 DEF ClientInv, Window, Held, Paged
  <2>7. SnapshotCursor <= alloc
    BY <2>1, <2>2
  <2>8. Saving'
    BY <1>2, <2>3, <2>5, <2>7 DEF Saving
  <2>9. CallType'
    BY <1>1, <1>2, <2>4 DEF CallType
  <2> QED  BY <1>2, <2>6, <2>8, <2>9 DEF ClientInv
<1> QED  BY <1>4, <1>5 DEF FetchSnapshot

LEMMA ApplySnapshotStep ==
  ASSUME ServerInv, ClientInv, ApplySnapshot
  PROVE  ClientInv'
<1>1. /\ UNCHANGED <<vars, marked, raced>> /\ call.pc = "resync" /\ cursor' = call.next
      /\ arrived' = arrived \cup call.rows
      /\ call \in CallRecord /\ CallType
  BY DEF ApplySnapshot, ClientInv, CallType
<1>2. Asked' /\ UNCHANGED <<log, stored, alloc, req>> /\ req[Reader] = NoReq
  BY <1>1, ClientAlone DEF ClientInv, Asked
<1>3. /\ call.next \in 0 .. alloc
      /\ \A x \in DOMAIN log : x <= call.next => x \in call.rows
  <2>1. call.next \in Nat /\ alloc \in Nat
    BY <1>1, NumberFacts DEF CallRecord, ServerInv
  <2> QED  BY <1>1, <2>1 DEF ClientInv, Saving
<1>4. \E r \in BOOLEAN :
        call' = [NoCall EXCEPT !.pc = "ask", !.page = call.page, !.resynced = r]
  BY DEF ApplySnapshot
<1>5. marked' \subseteq arrived'
  BY <1>1 DEF ClientInv, Held
<1>6. /\ call' \in CallRecord /\ call'.pc \in {"idle", "ask"}
      /\ Len(call'.buf) = 0 /\ ToSet(call'.buf) = {}
      /\ \A t \in Types : Len(call'.group[t]) = 0
  BY <1>1, <1>4, NextPage
<1>7. Window' /\ Held' /\ Paged' /\ Saving'
  BY <1>2, <1>5, <1>6, EmptyCall
<1>8. CallType' /\ NothingSkipped'
  BY <1>1, <1>2, <1>3, <1>6 DEF CallType, NothingSkipped
<1> QED  BY <1>2, <1>7, <1>8 DEF ClientInv
-------------------------------------------------------------------------------
(***************************************************************************)
(* The theorems.                                                           *)
(***************************************************************************)
LEMMA BackgroundStep ==
  ASSUME ServerInv, ClientInv, [Next]_vars,
         \/ Kill \/ UpdateExtension \/ PruneAppliedOperations \/ Compact \/ Prune
         \/ RestartServer \/ UNCHANGED downloadVars \/ \E d \in Devices : Upload(d)
  PROVE  ClientInv'
<1>1. req \in [Devices -> [pc : {"idle", "bounded", "sized"}, from : Nat, next : Nat, more : BOOLEAN]]
      /\ Reader \in Devices
  BY ReaderAssumption DEF ServerInv, TypeOK
<1>2. ASSUME Kill \/ UpdateExtension PROVE ClientInv'
  <2>1. /\ call' = NoCall /\ req'[Reader] = NoReq /\ stored' = stored
        /\ UNCHANGED <<cursor, arrived, marked, raced>>
    BY <1>1, <1>2 DEF Kill, UpdateExtension, EndCall, DropRequest, logVars, vars
  <2> QED  BY <2>1, Background
<1>3. ASSUME PruneAppliedOperations PROVE ClientInv'
  <2>1. /\ UNCHANGED <<call, req, stored, cursor, arrived, raced>> /\ marked' = {}
    BY <1>3 DEF PruneAppliedOperations, vars
  <2> QED  BY <2>1, Background
<1>4. ASSUME NEW d \in Devices, Upload(d) PROVE ClientInv'
  <2>1. UNCHANGED <<call, req, cursor, marked, arrived, raced>>
    BY <1>4 DEF Upload, ValidateBatch, CommitBatch, clientVars, otherVars
  <2>2. stored \subseteq stored'
    BY <1>4 DEF Upload, ValidateBatch, CommitBatch, logVars
  <2> QED  BY <2>1, <2>2, Background
<1>5. ASSUME Compact PROVE ClientInv'
  <2>1. UNCHANGED <<call, req, stored, cursor, marked, arrived, raced>>
    BY <1>5 DEF Compact, Touch, Lapse, BeginCompaction, BuildSnapshot, CommitSnapshot,
                clientVars, logVars
  <2> QED  BY <2>1, Background
<1>6. ASSUME Prune PROVE ClientInv'
  <2>1. UNCHANGED <<call, req, cursor, marked, arrived>>
    BY <1>6 DEF Prune, PruneChunk, clientVars
  <2>2. /\ raced \subseteq raced'
        /\ req[Reader] # NoReq => \A x \in stored \ stored' : x > req[Reader].from => x \in raced'
    BY <1>6 DEF Prune
  <2> QED  BY <2>1, <2>2, Background
<1>7. ASSUME RestartServer PROVE ClientInv'
  <2>1. /\ call' \in {call, NoCall} /\ req'[Reader] = NoReq /\ stored' = stored
        /\ UNCHANGED <<cursor, arrived, marked, raced>>
    BY <1>1, <1>7 DEF RestartServer, Restart, logVars
  <2> QED  BY <2>1, Background
<1>8. ASSUME UNCHANGED downloadVars PROVE ClientInv'
  <2>1. UNCHANGED <<call, req, stored, cursor, marked, arrived, raced>>
    BY <1>8 DEF downloadVars, clientVars, vars
  <2> QED  BY <2>1, Background
<1> QED  BY <1>2, <1>3, <1>4, <1>5, <1>6, <1>7, <1>8

LEMMA DownloadStep ==
  ASSUME ServerInv, ClientInv, [DownloadNext]_downloadVars
  PROVE  ServerInv' /\ ClientInv' /\ [Next]_vars
<1>1. [Next]_vars
  BY Refines DEF ClientInv
<1>2. ServerInv'
  BY <1>1, ServerStep
<1> QED  BY <1>1, <1>2, BackgroundStep, AskStep, AnswerStep, ReceiveStep, ScanStep,
            ApplyGroupStep, MarkGroupStep, MarkRestStep, SaveStep, FetchSnapshotStep,
            ApplySnapshotStep
         DEF DownloadNext

LEMMA DownloadStart ==
  ASSUME LeftOver = 0, DownloadInit
  PROVE  ServerInv /\ ClientInv
<1>1. TypeOK /\ LogGapFree /\ CoverInv
  BY TypeInit, CoverInit DEF DownloadInit
<1>2. alloc = 0 /\ snap.cursor = 0 /\ job.upto = 0 /\ DOMAIN log = {}
  BY EmptySeq DEF DownloadInit, Init, NoJob
<1>3. ServerInv
  BY <1>1, <1>2 DEF ServerInv, SnapBelow
<1>4. req[Reader] = NoReq /\ cursor = 0 /\ call = NoCall /\ marked = {}
  BY ReaderAssumption DEF DownloadInit, Init
<1>5. CallType /\ NothingSkipped
  BY <1>2, <1>4, NoCallFacts DEF CallType, NothingSkipped
<1>6. Window /\ Held /\ Asked /\ Paged /\ Saving
  BY <1>4, NoCallFacts, ReaderAssumption DEF Window, Held, Asked, Paged, Saving
<1> QED  BY <1>3, <1>5, <1>6 DEF ClientInv

\* Every step of downloadAndApply and of what goes on meanwhile is a step of the
\* server's specification: what is proved of the server holds here.
THEOREM DownloadImplementsServer ==
  ASSUME LeftOver = 0
  PROVE  DownloadSpec => Spec
<1>1. DownloadInit => ServerInv /\ ClientInv /\ Init
  BY DownloadStart DEF DownloadInit
<1>2. ServerInv /\ ClientInv /\ [DownloadNext]_downloadVars
        => (ServerInv /\ ClientInv)' /\ [Next]_vars
  BY DownloadStep
<1> QED  BY <1>1, <1>2, PTL DEF DownloadSpec, Spec

\* The cursor of downloadAndApply never passes a row that was neither applied,
\* skipped for good nor brought by a snapshot, except for rows deleted while the
\* request for them was open: for any page size, chunk size, mixture of types,
\* unreadable envelopes, kills and compaction passes.
THEOREM NothingSkippedHolds ==
  ASSUME LeftOver = 0
  PROVE  DownloadSpec => []NothingSkipped
<1>1. DownloadInit => ServerInv /\ ClientInv
  BY DownloadStart
<1>2. ServerInv /\ ClientInv /\ [DownloadNext]_downloadVars => (ServerInv /\ ClientInv)'
  BY DownloadStep
<1>3. ClientInv => NothingSkipped
  BY DEF ClientInv
<1> QED  BY <1>1, <1>2, <1>3, PTL DEF DownloadSpec

\* Fewer than two chunks of rows are applied and not recorded in
\* applied_operations at any time, so a killed worker repeats no more than that.
THEOREM ReapplyWindowHolds ==
  ASSUME LeftOver = 0
  PROVE  DownloadSpec => []ReapplyWindow
<1>1. DownloadInit => ServerInv /\ ClientInv
  BY DownloadStart
<1>2. ServerInv /\ ClientInv /\ [DownloadNext]_downloadVars => (ServerInv /\ ClientInv)'
  BY DownloadStep
<1>3. ClientInv => ReapplyWindow
  <2> SUFFICES ASSUME ClientInv PROVE ReapplyWindow
    OBVIOUS
  <2>1. /\ Len(call.buf) \in Nat /\ \A t \in Types : Len(call.group[t]) \in Nat
        /\ MarkChunk \in Nat \ {0}
    BY LenProperties, ReaderAssumption DEF ClientInv, CallType, CallRecord
  <2>2. call.pc = "mark" => call.now \in Types /\ Len(call.group[call.now]) <= MarkChunk
    BY <2>1 DEF ClientInv, Window
  <2>3. Len(call.buf) < MarkChunk
    BY DEF ClientInv, Window
  <2>4. CASE call.pc = "mark"
    <3>1. Len(call.group[call.now]) \in Nat
      BY <2>1, <2>2, <2>4
    <3>2. Len(call.buf) + Len(call.group[call.now]) < 2 * MarkChunk
      <4>1. \A a, b \in Nat : a < MarkChunk /\ b <= MarkChunk => a + b < 2 * MarkChunk
        BY <2>1
      <4> QED  BY <2>1, <2>2, <2>3, <2>4, <3>1, <4>1
    <3> QED  BY <2>4, <3>2 DEF ReapplyWindow
  <2>5. CASE call.pc # "mark"
    <3>1. Len(call.buf) + 0 < 2 * MarkChunk
      BY <2>1, <2>3
    <3> QED  BY <2>5, <3>1 DEF ReapplyWindow
  <2> QED  BY <2>4, <2>5
<1> QED  BY <1>1, <1>2, <1>3, PTL DEF DownloadSpec
===============================================================================
