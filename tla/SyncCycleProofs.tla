---------------------------- MODULE SyncCycleProofs ----------------------------
(***************************************************************************)
(* The sync slot is never lost and no call that waits for it is forgotten, *)
(* for any number of calls and any bounds.                                 *)
(*                                                                         *)
(* The invariant adds to the two properties where each waiting call can be *)
(* found: a parked one in syncSlotWaiters, a woken one among the           *)
(* microtasks, one that awaits the first read in either of its queues.     *)
(***************************************************************************)
EXTENDS SyncCycle, TLAPS

CallRecord ==
  [ role : {"cycle", "account", "restore"},
    pc : {"idle", "hydrate", "parked", "woken", "upload", "count", "poll", "fn"},
    chained : Nat, more : BOOLEAN ]

SlotType ==
  /\ call \in [Calls -> CallRecord]
  /\ micro \in Seq(Calls) /\ awaiting \in Seq(Calls) /\ waiters \in Seq(Calls)
  /\ inFlight \in BOOLEAN

ParkedListed == \A c \in Calls : call[c].pc = "parked" => c \in Elements(waiters)

SlotInv == SlotType /\ SlotHasOwner /\ NoForgottenWaiter /\ ParkedListed

\* Where the elements of a sequence are after Append, concatenation and Tail.
LEMMA AppendElements ==
  ASSUME NEW S, NEW s \in Seq(S), NEW c \in S
  PROVE  Append(s, c) \in Seq(S) /\ Elements(Append(s, c)) = Elements(s) \cup {c}
BY DEF Elements

LEMMA ConcatElements ==
  ASSUME NEW S, NEW s \in Seq(S), NEW t \in Seq(S)
  PROVE  s \o t \in Seq(S) /\ Elements(s \o t) = Elements(s) \cup Elements(t)
<1>1. s \o t \in Seq(S) /\ Len(s \o t) = Len(s) + Len(t)
  OBVIOUS
<1>2. ASSUME NEW x PROVE x \in Elements(s \o t) <=> x \in Elements(s) \cup Elements(t)
  <2>1. \A i \in 1 .. Len(s) : (s \o t)[i] = s[i]
    OBVIOUS
  <2>2. \A i \in 1 .. Len(t) : (s \o t)[Len(s) + i] = t[i]
    OBVIOUS
  <2>3. ASSUME x \in Elements(s \o t) PROVE x \in Elements(s) \cup Elements(t)
    <3>1. PICK i \in 1 .. Len(s \o t) : (s \o t)[i] = x
      BY <2>3 DEF Elements
    <3>2. CASE i <= Len(s)
      BY <3>1, <3>2, <2>1 DEF Elements
    <3>3. CASE ~(i <= Len(s))
      <4>1. i - Len(s) \in 1 .. Len(t) /\ i = Len(s) + (i - Len(s))
        BY <3>3, <1>1
      <4> QED BY <4>1, <3>1, <2>2 DEF Elements
    <3> QED BY <3>2, <3>3
  <2>4. ASSUME x \in Elements(s) PROVE x \in Elements(s \o t)
    BY <2>4, <2>1, <1>1 DEF Elements
  <2>5. ASSUME x \in Elements(t) PROVE x \in Elements(s \o t)
    <3>1. PICK i \in 1 .. Len(t) : t[i] = x
      BY <2>5 DEF Elements
    <3>2. Len(s) + i \in 1 .. Len(s \o t) /\ (s \o t)[Len(s) + i] = x
      BY <3>1, <2>2, <1>1
    <3> QED BY <3>2 DEF Elements
  <2> QED BY <2>3, <2>4, <2>5
<1> QED BY <1>1, <1>2

LEMMA TailElements ==
  ASSUME NEW S, NEW s \in Seq(S), s # << >>
  PROVE  /\ Head(s) \in S /\ Tail(s) \in Seq(S)
         /\ \A x \in Elements(s) : x = Head(s) \/ x \in Elements(Tail(s))
<1>1. Head(s) \in S /\ Tail(s) \in Seq(S) /\ Len(Tail(s)) = Len(s) - 1
  OBVIOUS
<1>2. ASSUME NEW i \in 1 .. Len(s) PROVE s[i] = Head(s) \/ s[i] \in Elements(Tail(s))
  <2>1. CASE i = 1
    BY <2>1
  <2>2. CASE i # 1
    <3>1. i - 1 \in 1 .. Len(Tail(s)) /\ Tail(s)[i - 1] = s[i]
      BY <2>2, <1>1
    <3> QED BY <3>1 DEF Elements
  <2> QED BY <2>1, <2>2
<1> QED BY <1>1, <1>2 DEF Elements

LEMMA EmptyQueue == << >> \in Seq(Calls)
OBVIOUS
-------------------------------------------------------------------------------
\* A call that becomes k keeps the invariant when the slot stays taken, k can be
\* found where it waits, and no other call is dropped from a queue.
LEMMA Becomes ==
  ASSUME SlotInv, NEW c \in Calls, NEW k \in CallRecord,
         call' = [call EXCEPT ![c] = k],
         micro' \in Seq(Calls), awaiting' \in Seq(Calls), waiters' \in Seq(Calls),
         inFlight' \in BOOLEAN, inFlight => inFlight',
         \A d \in Elements(micro) : d = c \/ d \in Elements(micro'),
         Elements(awaiting) \subseteq Elements(awaiting'),
         Elements(waiters) \subseteq Elements(waiters'),
         k.pc # "woken",
         k.pc = "parked" => inFlight' /\ c \in Elements(waiters'),
         k.pc = "hydrate" => c \in Elements(micro') \cup Elements(awaiting'),
         \/ k.pc \in {"upload", "count", "poll", "fn"}
         \/ inFlight' = inFlight /\ ~Inside(c)
  PROVE  SlotInv'
<1>1. call' \in [Calls -> CallRecord] /\ call'[c] = k /\ \A d \in Calls \ {c} : call'[d] = call[d]
  BY DEF SlotInv, SlotType
<1>2. SlotType'
  BY <1>1 DEF SlotType
<1>3. SlotHasOwner'
  BY <1>1 DEF SlotInv, SlotHasOwner, Inside
<1>4. NoForgottenWaiter'
  BY <1>1 DEF SlotInv, NoForgottenWaiter
<1>5. ParkedListed'
  BY <1>1 DEF SlotInv, ParkedListed
<1> QED BY <1>2, <1>3, <1>4, <1>5 DEF SlotInv

\* releaseSyncSlot keeps it when the woken calls are among the microtasks.
LEMMA Releases ==
  ASSUME SlotInv, NEW c \in Calls, NEW k \in CallRecord, Release(c, k),
         micro' \in Seq(Calls), awaiting' \in Seq(Calls),
         Elements(micro) \cup Elements(waiters) \subseteq Elements(micro'),
         Elements(awaiting) \subseteq Elements(awaiting'),
         k.pc \in {"idle", "hydrate"},
         k.pc = "hydrate" => c \in Elements(micro') \cup Elements(awaiting')
  PROVE  SlotInv'
<1>1. /\ call' \in [Calls -> CallRecord] /\ call'[c] = k
      /\ \A d \in Calls \ {c} :
           IF d \in Elements(waiters)
             THEN call'[d].pc = "woken"
             ELSE call'[d] = call[d]
  BY DEF SlotInv, SlotType, Release, Woken, CallRecord
<1>2. SlotType'
  <2>1. waiters' \in Seq(Calls) /\ inFlight' \in BOOLEAN
    BY EmptyQueue, Zenon DEF Release
  <2> QED BY <1>1, <2>1 DEF SlotType
<1>3. SlotHasOwner'
  BY DEF Release, SlotHasOwner
<1>4. NoForgottenWaiter' /\ ParkedListed'
  <2> SUFFICES ASSUME NEW d \in Calls
               PROVE  /\ call'[d].pc # "parked"
                      /\ call'[d].pc = "woken" => d \in Elements(micro')
                      /\ call'[d].pc = "hydrate" => d \in Elements(micro') \cup Elements(awaiting')
    BY DEF NoForgottenWaiter, ParkedListed
  <2>1. CASE d = c
    BY <2>1, <1>1
  <2>2. CASE d # c /\ d \in Elements(waiters)
    BY <2>2, <1>1
  <2>3. CASE d # c /\ d \notin Elements(waiters)
    BY <2>3, <1>1 DEF SlotInv, NoForgottenWaiter, ParkedListed
  <2> QED BY <2>1, <2>2, <2>3
<1> QED BY <1>2, <1>3, <1>4 DEF SlotInv

\* Awaiting the first read puts the call in one of the two queues.
LEMMA Awaits ==
  ASSUME SlotInv, NEW c \in Calls, NEW m \in Seq(Calls), AwaitHydration(c, m)
  PROVE  /\ micro' \in Seq(Calls) /\ awaiting' \in Seq(Calls)
         /\ Elements(m) \subseteq Elements(micro')
         /\ Elements(awaiting) \subseteq Elements(awaiting')
         /\ c \in Elements(micro') \cup Elements(awaiting')
<1>1. CASE hydrated
  <2>1. micro' = Append(m, c) /\ awaiting' = awaiting
    BY <1>1 DEF AwaitHydration
  <2>2. awaiting \in Seq(Calls)
    BY DEF SlotInv, SlotType
  <2> QED BY <2>1, <2>2, AppendElements
<1>2. CASE ~hydrated
  <2>1. micro' = m /\ awaiting' = Append(awaiting, c)
    BY <1>2 DEF AwaitHydration
  <2>2. awaiting \in Seq(Calls)
    BY DEF SlotInv, SlotType
  <2> QED BY <2>1, <2>2, AppendElements
<1> QED BY <1>1, <1>2

\* The three outcomes of the test of the slot.
LEMMA Tests ==
  ASSUME SlotInv, NEW c \in Calls, NEW r \in {"cycle", "account", "restore"},
         NEW m \in Seq(Calls), \A d \in Elements(micro) : d = c \/ d \in Elements(m),
         ~Inside(c), TestSlot(c, r, m)
  PROVE  SlotInv'
<1> USE DEF SlotType
<1>1. CASE /\ inFlight
           /\ call' = [call EXCEPT ![c] = [NoCall EXCEPT !.role = r, !.pc = "parked"]]
           /\ waiters' = Append(waiters, c)
           /\ micro' = m
           /\ UNCHANGED <<inFlight, awaiting>>
  <2> DEFINE k == [NoCall EXCEPT !.role = r, !.pc = "parked"]
  <2>1. k \in CallRecord /\ k.pc = "parked"
    BY DEF CallRecord, NoCall
  <2>2. waiters' \in Seq(Calls) /\ Elements(waiters') = Elements(waiters) \cup {c}
    BY <1>1, AppendElements DEF SlotInv
  <2> HIDE DEF k
  <2> QED BY <1>1, <2>1, <2>2, Becomes DEF SlotInv, k
<1>2. CASE /\ ~inFlight /\ r = "account"
           /\ call' = [call EXCEPT ![c] = [NoCall EXCEPT !.role = r, !.pc = "hydrate"]]
           /\ AwaitHydration(c, m)
           /\ UNCHANGED <<inFlight, waiters>>
  <2> DEFINE k == [NoCall EXCEPT !.role = r, !.pc = "hydrate"]
  <2>1. k \in CallRecord /\ k.pc = "hydrate"
    BY DEF CallRecord, NoCall
  <2>2. /\ micro' \in Seq(Calls) /\ awaiting' \in Seq(Calls)
        /\ Elements(m) \subseteq Elements(micro')
        /\ Elements(awaiting) \subseteq Elements(awaiting')
        /\ c \in Elements(micro') \cup Elements(awaiting')
    BY <1>2, Awaits
  <2> HIDE DEF k
  <2> QED BY <1>2, <2>1, <2>2, Becomes DEF SlotInv, k
<1>3. CASE /\ ~inFlight /\ r = "restore"
           /\ call' = [call EXCEPT ![c] = [NoCall EXCEPT !.role = r, !.pc = "fn"]]
           /\ inFlight' = TRUE
           /\ micro' = m
           /\ UNCHANGED <<waiters, awaiting>>
  <2> DEFINE k == [NoCall EXCEPT !.role = r, !.pc = "fn"]
  <2>1. k \in CallRecord /\ k.pc = "fn"
    BY DEF CallRecord, NoCall
  <2> HIDE DEF k
  <2> QED BY <1>3, <2>1, Becomes DEF SlotInv, k
<1> QED BY <1>1, <1>2, <1>3 DEF TestSlot

\* The `finally` of the two exclusive functions.
LEMMA EndsExclusive ==
  ASSUME SlotInv, NEW c \in Calls, EndExclusive(c)
  PROVE  SlotInv'
<1>1. micro \o waiters \in Seq(Calls)
      /\ Elements(micro \o waiters) = Elements(micro) \cup Elements(waiters)
  BY ConcatElements DEF SlotInv, SlotType
<1>2. CASE rerun
  <2> DEFINE k == [NoCall EXCEPT !.pc = "hydrate"]
  <2>1. k \in CallRecord /\ k.pc = "hydrate"
    BY DEF CallRecord, NoCall
  <2>2. Release(c, k) /\ AwaitHydration(c, micro \o waiters)
    BY <1>2 DEF EndExclusive, Woken
  <2> HIDE DEF k
  <2>3. /\ micro' \in Seq(Calls) /\ awaiting' \in Seq(Calls)
        /\ Elements(micro \o waiters) \subseteq Elements(micro')
        /\ Elements(awaiting) \subseteq Elements(awaiting')
        /\ c \in Elements(micro') \cup Elements(awaiting')
    BY <1>1, <2>2, Awaits
  <2> QED BY <1>1, <2>1, <2>2, <2>3, Releases
<1>3. CASE ~rerun
  <2>1. Release(c, NoCall) /\ micro' = micro \o waiters /\ awaiting' = awaiting
    BY <1>3 DEF EndExclusive, Woken
  <2>2. NoCall \in CallRecord /\ NoCall.pc = "idle"
    BY DEF CallRecord, NoCall
  <2> QED BY <1>1, <2>1, <2>2, Releases DEF SlotInv, SlotType
<1> QED BY <1>2, <1>3

\* The end of an iteration: another one, or the release of the slot.
LEMMA EndsIteration ==
  ASSUME SlotInv, NEW c \in Calls, Inside(c), NEW more \in BOOLEAN,
         EndIteration(c, more), awaiting' = awaiting
  PROVE  SlotInv'
<1> DEFINE chain == IF more /\ call[c].chained < MaxChained
                      THEN call[c].chained + 1 ELSE call[c].chained
           k == [NoCall EXCEPT !.pc = "upload", !.chained = chain]
<1>1. CASE call' = [call EXCEPT ![c] = k] /\ UNCHANGED <<inFlight, waiters, micro>>
  <2>1. k \in CallRecord /\ k.pc = "upload"
    <3>1. call[c].chained \in Nat
      BY DEF SlotInv, SlotType, CallRecord
    <3>2. chain \in Nat
      BY <3>1
    <3> HIDE DEF chain
    <3> QED BY <3>2 DEF CallRecord, NoCall
  <2> HIDE DEF k
  <2> QED BY <1>1, <2>1, Becomes DEF SlotInv, SlotType
<1>2. CASE Release(c, NoCall) /\ micro' = micro \o waiters
  <2>1. NoCall \in CallRecord /\ NoCall.pc = "idle"
    BY DEF CallRecord, NoCall
  <2>2. micro \o waiters \in Seq(Calls)
        /\ Elements(micro \o waiters) = Elements(micro) \cup Elements(waiters)
    BY ConcatElements DEF SlotInv, SlotType
  <2> QED BY <1>2, <2>1, <2>2, Releases DEF SlotInv, SlotType
<1> QED BY <1>1, <1>2 DEF EndIteration, Woken
-------------------------------------------------------------------------------
LEMMA SlotInit == Init => SlotInv
<1> SUFFICES ASSUME Init PROVE SlotInv
  OBVIOUS
<1>1. NoCall \in CallRecord /\ NoCall.pc = "idle"
  BY DEF NoCall, CallRecord
<1>2. SlotType
  BY <1>1, EmptyQueue DEF Init, SlotType
<1>3. SlotHasOwner /\ NoForgottenWaiter /\ ParkedListed
  BY <1>1 DEF Init, SlotHasOwner, NoForgottenWaiter, ParkedListed
<1> QED BY <1>2, <1>3 DEF SlotInv

\* A step that leaves the calls, the slot and the queues alone.
LEMMA Quiet ==
  ASSUME SlotInv, UNCHANGED <<call, micro, awaiting, inFlight, waiters>>
  PROVE  SlotInv'
BY DEF SlotInv, SlotType, SlotHasOwner, NoForgottenWaiter, ParkedListed, Inside, Elements

\* A call whose turn it is leaves the microtask queue, the others stay.
LEMMA Turns ==
  ASSUME SlotInv, NEW c, NEW p, Turn(c, p)
  PROVE  /\ Tail(micro) \in Seq(Calls)
         /\ \A d \in Elements(micro) : d = c \/ d \in Elements(Tail(micro))
BY TailElements DEF Turn, SlotInv, SlotType

LEMMA SlotStep == SlotInv /\ [Next]_vars => SlotInv'
<1> SUFFICES ASSUME SlotInv, [Next]_vars PROVE SlotInv'
  OBVIOUS
<1> USE DEF SlotType
<1>1. ASSUME NEW c \in Calls, StartCycle(c) PROVE SlotInv'
  <2> DEFINE k == [NoCall EXCEPT !.pc = "hydrate"]
  <2>1. k \in CallRecord /\ k.pc = "hydrate"
    BY DEF CallRecord, NoCall
  <2>2. /\ call' = [call EXCEPT ![c] = k] /\ call[c].pc = "idle"
        /\ inFlight' = inFlight /\ waiters' = waiters /\ AwaitHydration(c, micro)
    BY <1>1 DEF StartCycle
  <2> HIDE DEF k
  <2>3. /\ micro' \in Seq(Calls) /\ awaiting' \in Seq(Calls)
        /\ Elements(micro) \subseteq Elements(micro')
        /\ Elements(awaiting) \subseteq Elements(awaiting')
        /\ c \in Elements(micro') \cup Elements(awaiting')
    BY <2>2, Awaits DEF SlotInv
  <2> QED BY <2>1, <2>2, <2>3, Becomes DEF SlotInv, Inside
<1>2. ASSUME NEW c \in Calls, NEW r \in {"account", "restore"}, StartExclusive(c, r)
      PROVE  SlotInv'
  BY <1>2, Tests DEF StartExclusive, SlotInv, Inside
<1>3. CASE Hydrate
  <2>1. /\ call' = call /\ inFlight' = inFlight /\ waiters' = waiters
        /\ micro = << >> /\ micro' = awaiting /\ awaiting' = << >>
    BY <1>3 DEF Hydrate, Event
  <2> QED BY <2>1 DEF SlotInv, SlotHasOwner, NoForgottenWaiter, ParkedListed, Inside, Elements
<1>4. ASSUME NEW c \in Calls, Resume(c) PROVE SlotInv'
  <2>1. call[c].role \in {"cycle", "account", "restore"} /\ call[c].pc = "woken"
    BY <1>4 DEF Resume, Turn, SlotInv, CallRecord
  <2>2. Turn(c, "woken") /\ TestSlot(c, call[c].role, Tail(micro))
    BY <1>4 DEF Resume
  <2> QED BY <2>1, <2>2, Turns, Tests DEF Inside
<1>5. ASSUME NEW c \in Calls, Admit(c) PROVE SlotInv'
  <2>1. /\ Tail(micro) \in Seq(Calls)
        /\ \A d \in Elements(micro) : d = c \/ d \in Elements(Tail(micro))
    BY <1>5, Turns DEF Admit
  <2>2. /\ micro' = Tail(micro) /\ awaiting' = awaiting /\ waiters' = waiters
        /\ call[c].pc = "hydrate" /\ call[c] \in CallRecord
    BY <1>5 DEF Admit, Turn, SlotInv
  <2>3. CASE call' = [call EXCEPT ![c] = NoCall] /\ inFlight' = inFlight
    <3>1. NoCall \in CallRecord /\ NoCall.pc = "idle"
      BY DEF CallRecord, NoCall
    <3> QED BY <3>1, <2>1, <2>2, <2>3, Becomes DEF SlotInv, Inside
  <2>4. ASSUME NEW p \in {"upload", "poll"}, call' = [call EXCEPT ![c].pc = p], inFlight' = TRUE
        PROVE  SlotInv'
    <3> DEFINE k == [call[c] EXCEPT !.pc = p]
    <3>1. k \in CallRecord /\ k.pc = p /\ call' = [call EXCEPT ![c] = k]
      BY <2>2, <2>4 DEF CallRecord
    <3> HIDE DEF k
    <3> QED BY <3>1, <2>1, <2>2, <2>4, Becomes DEF SlotInv
  <2> QED BY <1>5, <2>3, <2>4 DEF Admit, SlotIfBlocked
<1>6. ASSUME NEW c \in Calls, Upload(c) PROVE SlotInv'
  <2>1. /\ micro' = micro /\ awaiting' = awaiting /\ waiters' = waiters
        /\ inFlight' = inFlight /\ call[c] \in CallRecord
    BY <1>6 DEF Upload, loopVars, SlotInv
  <2>2. PICK k \in CallRecord : call' = [call EXCEPT ![c] = k] /\ k.pc \in {"poll", "count"}
    <3>1. CASE call' = [call EXCEPT ![c].pc = "poll", ![c].more = TRUE]
      <4> DEFINE k == [call[c] EXCEPT !.pc = "poll", !.more = TRUE]
      <4>1. k \in CallRecord /\ k.pc = "poll" /\ call' = [call EXCEPT ![c] = k]
        BY <2>1, <3>1 DEF CallRecord, SlotInv
      <4> QED BY <4>1
    <3>2. CASE call' = [call EXCEPT ![c].pc = "count"]
      <4> DEFINE k == [call[c] EXCEPT !.pc = "count"]
      <4>1. k \in CallRecord /\ k.pc = "count" /\ call' = [call EXCEPT ![c] = k]
        BY <2>1, <3>2 DEF CallRecord, SlotInv
      <4> QED BY <4>1
    <3> QED BY <1>6, <3>1, <3>2 DEF Upload
  <2> QED BY <2>1, <2>2, Becomes DEF SlotInv
<1>7. ASSUME NEW c \in Calls, Count(c) PROVE SlotInv'
  <2>1. CASE EndIteration(c, FALSE)
    BY <1>7, <2>1, EndsIteration DEF Count, Inside
  <2>2. CASE call' = [call EXCEPT ![c].pc = "poll"] /\ UNCHANGED <<inFlight, rerun, waiters, micro>>
    <3> DEFINE k == [call[c] EXCEPT !.pc = "poll"]
    <3>1. k \in CallRecord /\ k.pc = "poll" /\ call' = [call EXCEPT ![c] = k] /\ awaiting' = awaiting
      BY <1>7, <2>2 DEF Count, CallRecord, SlotInv
    <3> HIDE DEF k
    <3> QED BY <3>1, <2>2, Becomes DEF SlotInv
  <2> QED BY <1>7, <2>1, <2>2 DEF Count
<1>8. ASSUME NEW c \in Calls, Poll(c) PROVE SlotInv'
  <2>1. EndIteration(c, call[c].more \/ news' > 0) /\ awaiting' = awaiting /\ Inside(c)
    BY <1>8 DEF Poll, Inside
  <2>2. (call[c].more \/ news' > 0) \in BOOLEAN
    OBVIOUS
  <2> QED BY <2>1, <2>2, EndsIteration
<1>9. ASSUME NEW c \in Calls, PollAccount(c) PROVE SlotInv'
  BY <1>9, EndsExclusive, Quiet DEF PollAccount
<1>10. ASSUME NEW c \in Calls, FinishRestore(c) PROVE SlotInv'
  BY <1>10, EndsExclusive DEF FinishRestore
<1>11. ASSUME NEW c \in Calls, Fail(c) PROVE SlotInv'
  <2>1. CASE EndExclusive(c)
    BY <2>1, EndsExclusive
  <2>2. CASE Release(c, NoCall) /\ micro' = micro \o waiters /\ awaiting' = awaiting
    <3>1. NoCall \in CallRecord /\ NoCall.pc = "idle"
      BY DEF CallRecord, NoCall
    <3>2. micro \o waiters \in Seq(Calls)
          /\ Elements(micro \o waiters) = Elements(micro) \cup Elements(waiters)
      BY ConcatElements DEF SlotInv
    <3> QED BY <2>2, <3>1, <3>2, Releases DEF SlotInv
  <2> QED BY <1>11, <2>1, <2>2 DEF Fail, Woken
<1>12. CASE RestartWorker
  <2>1. NoCall \in CallRecord /\ NoCall.pc = "idle"
    BY DEF NoCall, CallRecord
  <2>2. /\ call' = [c \in Calls |-> NoCall] /\ inFlight' = FALSE
        /\ micro' = << >> /\ awaiting' = << >> /\ waiters' = << >>
    BY <1>12 DEF RestartWorker
  <2>3. \A c \in Calls : call'[c] = NoCall
    BY <2>2
  <2>4. SlotType'
    BY <2>1, <2>2, EmptyQueue
  <2> QED BY <2>1, <2>2, <2>3, <2>4 DEF SlotInv, SlotHasOwner, NoForgottenWaiter, ParkedListed
<1>13. CASE RequestRerun \/ PeerChange \/ CooldownEnds \/ WindowEnds \/ UNCHANGED vars
  BY <1>13, Quiet DEF RequestRerun, PeerChange, CooldownEnds, WindowEnds, vars, loopVars
<1> QED BY <1>1, <1>2, <1>3, <1>4, <1>5, <1>6, <1>7, <1>8, <1>9, <1>10, <1>11, <1>12, <1>13
        DEF Next, Trigger, CallStep
-------------------------------------------------------------------------------
\* The slot is never left taken by nobody (releaseSyncSlot runs on every path).
THEOREM SlotHasOwnerHolds == Spec => []SlotHasOwner
<1>1. SlotInv => SlotHasOwner
  BY DEF SlotInv
<1> QED BY <1>1, SlotInit, SlotStep, PTL DEF Spec

\* No call that waits for the slot or for the first read is forgotten
\* (syncSlotWaiters and the continuations of the settled promises).
THEOREM NoForgottenWaiterHolds == Spec => []NoForgottenWaiter
<1>1. SlotInv => NoForgottenWaiter
  BY DEF SlotInv
<1> QED BY <1>1, SlotInit, SlotStep, PTL DEF Spec

\* However calls, failures and restarts interleave, a release of the slot is
\* always still to come and reaches everybody who waits for it.
THEOREM SlotNeverLostHolds == Spec => []SlotNeverLost
<1>1. SlotHasOwner /\ NoForgottenWaiter => SlotNeverLost
  BY DEF SlotNeverLost
<1> QED BY <1>1, SlotHasOwnerHolds, NoForgottenWaiterHolds, PTL
===============================================================================
