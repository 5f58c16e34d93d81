------------------------------- MODULE SyncCycle -------------------------------
(***************************************************************************)
(* The sync slot of extension/src/sync/engine.ts and the three functions   *)
(* that work under it: runSyncCycle, downloadEverything and runExclusive.  *)
(*                                                                         *)
(* A step is a stretch of one call between two awaits.  `micro` is the     *)
(* event loop's microtask queue: a call whose promise was settled goes on  *)
(* before the next event, in the order in which the promises settled.      *)
(*                                                                         *)
(* Time is abstracted: the cooldown and the skip window end at some time,  *)
(* and a trigger (alarm, push, popup, throttle or cooldown timer) may come *)
(* at any time.  What peers changed is a count.  Whether the local queue   *)
(* is empty, the push channel open and cycleMovedOps zero are choices of   *)
(* the step that reads them: each may have changed since it was last read. *)
(***************************************************************************)
EXTENDS Naturals, Sequences

CONSTANTS
  Calls,       \* bound: the calls that can be open at a time
  MaxChained,  \* MAX_CHAINED_CYCLES
  PageLimit,   \* what one downloadAndApply can fetch
  MaxChanges,  \* bound on the changes peers make
  MaxFaults    \* bound on failed calls and worker restarts

ASSUME CycleAssumption ==
  /\ {MaxChained, PageLimit, MaxChanges, MaxFaults} \subseteq Nat
  /\ MaxChained > 0 /\ PageLimit > 0

VARIABLES
  call,      \* per call: the function it runs, the await it is at,
             \* chainedCycles and moreUpload
  micro,     \* the microtask queue
  awaiting,  \* the calls that await the first read of syncBlockedUntil
  hydrated,  \* that read has ended
  inFlight,  \* syncInFlight
  rerun,     \* rerunRequested
  waiters,   \* syncSlotWaiters
  blocked,   \* now < syncBlockedUntil
  notified,  \* peerNotified
  window,    \* the last empty poll was within DOWNLOAD_SKIP_WINDOW_MS
  changes,   \* changes peers have made
  news,      \* those of them this device has not downloaded
  faults     \* the faults so far

loopVars  == <<micro, awaiting, hydrated>>
pollVars  == <<blocked, notified, window>>
worldVars == <<changes, news, faults>>
vars == <<call, loopVars, inFlight, rerun, waiters, pollVars, worldVars>>

NoCall == [role |-> "cycle", pc |-> "idle", chained |-> 0, more |-> FALSE]

Init ==
  /\ call = [c \in Calls |-> NoCall]
  /\ micro = << >> /\ awaiting = << >> /\ hydrated = FALSE
  /\ inFlight = FALSE /\ rerun = FALSE /\ waiters = << >>
  /\ blocked \in BOOLEAN /\ notified = FALSE /\ window = FALSE
  /\ changes = 0 /\ news = 0 /\ faults = 0

\* An event is handled once no microtask is left.
Event == micro = << >>

\* Call c is the next microtask.
Turn(c, p) == micro # << >> /\ Head(micro) = c /\ call[c].pc = p

\* Call c works under the slot.
Inside(c) == call[c].pc \in {"upload", "count", "poll", "fn"}

Elements(s) == {s[i] : i \in 1 .. Len(s)}
-------------------------------------------------------------------------------
(***************************************************************************)
(* Entering.                                                               *)
(***************************************************************************)
\* Call c, after the microtasks m, awaits ensureSyncBlockedUntilHydrated.
AwaitHydration(c, m) ==
  IF hydrated THEN micro' = Append(m, c) /\ UNCHANGED awaiting
              ELSE micro' = m /\ awaiting' = Append(awaiting, c)

\* A trigger calls runSyncCycle while the slot is taken: noted, not dropped.
RequestRerun ==
  /\ Event /\ inFlight
  /\ rerun' = TRUE
  /\ UNCHANGED <<call, loopVars, inFlight, waiters, pollVars, worldVars>>

\* A trigger calls runSyncCycle while the slot is free.
StartCycle(c) ==
  /\ Event /\ ~inFlight /\ call[c].pc = "idle"
  /\ call' = [call EXCEPT ![c] = [NoCall EXCEPT !.pc = "hydrate"]]
  /\ AwaitHydration(c, micro)
  /\ UNCHANGED <<hydrated, inFlight, rerun, waiters, pollVars, worldVars>>

\* The `while (syncInFlight)` test of downloadEverything and runExclusive: wait,
\* or go on, the former to its own await, the latter into the slot.
TestSlot(c, r, m) ==
  \/ /\ inFlight
     /\ call' = [call EXCEPT ![c] = [NoCall EXCEPT !.role = r, !.pc = "parked"]]
     /\ waiters' = Append(waiters, c)
     /\ micro' = m
     /\ UNCHANGED <<inFlight, awaiting>>
  \/ /\ ~inFlight /\ r = "account"
     /\ call' = [call EXCEPT ![c] = [NoCall EXCEPT !.role = r, !.pc = "hydrate"]]
     /\ AwaitHydration(c, m)
     /\ UNCHANGED <<inFlight, waiters>>
  \/ /\ ~inFlight /\ r = "restore"
     /\ call' = [call EXCEPT ![c] = [NoCall EXCEPT !.role = r, !.pc = "fn"]]
     /\ inFlight' = TRUE
     /\ micro' = m
     /\ UNCHANGED <<waiters, awaiting>>

\* One import and one restore at a time (initialImportInFlight, `running`).
StartExclusive(c, r) ==
  /\ Event /\ call[c].pc = "idle"
  /\ \A d \in Calls : call[d].role = r => call[d].pc = "idle"
  /\ TestSlot(c, r, micro)
  /\ UNCHANGED <<hydrated, rerun, pollVars, worldVars>>

\* chrome.storage.session answers.
Hydrate ==
  /\ Event /\ awaiting # << >>
  /\ hydrated' = TRUE
  /\ micro' = awaiting
  /\ awaiting' = << >>
  /\ UNCHANGED <<call, inFlight, rerun, waiters, pollVars, worldVars>>

\* A woken waiter tests the slot again.
Resume(c) ==
  /\ Turn(c, "woken")
  /\ TestSlot(c, call[c].role, Tail(micro))
  /\ UNCHANGED <<hydrated, rerun, pollVars, worldVars>>

\* A rate-limited call returns before it takes the slot (in the variant, after).
SlotTaken       == TRUE
SlotIfBlocked   == inFlight

\* After the await: the cooldown is checked, the slot is not tested again.
Admit(c) ==
  /\ Turn(c, "hydrate")
  /\ micro' = Tail(micro)
  /\ \/ /\ blocked
        /\ call' = [call EXCEPT ![c] = NoCall]
        /\ inFlight' = SlotIfBlocked
        /\ UNCHANGED rerun
     \/ /\ ~blocked /\ call[c].role = "cycle"
        /\ call' = [call EXCEPT ![c].pc = "upload"]
        /\ inFlight' = TRUE
        /\ rerun' = FALSE
     \/ /\ ~blocked /\ call[c].role = "account"
        /\ call' = [call EXCEPT ![c].pc = "poll"]
        /\ inFlight' = TRUE
        /\ UNCHANGED rerun
  /\ UNCHANGED <<awaiting, hydrated, waiters, blocked, notified, window, worldVars>>
-------------------------------------------------------------------------------
(***************************************************************************)
(* Leaving.                                                                *)
(***************************************************************************)
\* The calls whose promise releaseSyncSlot resolves (the variant: none).
NoneWoken == << >>
Woken     == waiters

\* releaseSyncSlot, as call c becomes k.
Release(c, k) ==
  /\ inFlight' = FALSE
  /\ waiters' = << >>
  /\ call' = [d \in Calls |-> IF d = c THEN k
                              ELSE IF d \in Elements(Woken) THEN [call[d] EXCEPT !.pc = "woken"]
                              ELSE call[d]]

\* The `finally` of downloadEverything and runExclusive: a trigger that came
\* meanwhile gets its cycle, whose await ends after the waiters were resumed.
EndExclusive(c) ==
  /\ rerun' = FALSE
  /\ \/ /\ rerun
        /\ Release(c, [NoCall EXCEPT !.pc = "hydrate"])
        /\ AwaitHydration(c, micro \o Woken)
     \/ /\ ~rerun
        /\ Release(c, NoCall)
        /\ micro' = micro \o Woken
        /\ UNCHANGED awaiting

\* An iteration of the cycle ends, `more` being moreUpload || moreDownload; it
\* goes round again for a trigger, or for a backlog within the chaining limits
\* (by count, or by the clock, which may end the chain at any time).
EndIteration(c, more) ==
  LET chain == IF more /\ call[c].chained < MaxChained \* counts up to the limit
                 THEN call[c].chained + 1 ELSE call[c].chained
  IN  \/ /\ rerun \/ (more /\ chain < MaxChained)
         /\ call' = [call EXCEPT ![c] = [NoCall EXCEPT !.pc = "upload", !.chained = chain]]
         /\ rerun' = FALSE
         /\ UNCHANGED <<inFlight, waiters, micro>>
      \/ /\ ~rerun
         /\ Release(c, NoCall)
         /\ micro' = micro \o Woken
         /\ UNCHANGED rerun
-------------------------------------------------------------------------------
(***************************************************************************)
(* The steps of a cycle, and what the other two do with the slot.          *)
(***************************************************************************)
\* uploadPending returns; with more to upload the queue is not counted.
Upload(c) ==
  /\ Event /\ call[c].pc = "upload"
  /\ \/ /\ call' = [call EXCEPT ![c].pc = "poll", ![c].more = TRUE]
        /\ notified' = FALSE
     \/ /\ call' = [call EXCEPT ![c].pc = "count"]
        /\ UNCHANGED notified
  /\ UNCHANGED <<loopVars, inFlight, rerun, waiters, blocked, window, worldVars>>

\* shouldSkipDownload, on an open push channel (the variant trusts the channel
\* without a limit).
SkipConnected      == ~notified
ShouldSkipDownload == ~notified /\ window

\* countPendingOperations returns.  An idle tick (nothing queued, the channel
\* open) may skip the download.
Count(c) ==
  /\ Event /\ call[c].pc = "count"
  /\ \/ /\ ShouldSkipDownload
        /\ EndIteration(c, FALSE)
        /\ UNCHANGED notified
     \/ /\ call' = [call EXCEPT ![c].pc = "poll"]
        /\ notified' = FALSE
        /\ UNCHANGED <<inFlight, rerun, waiters, micro>>
  /\ UNCHANGED <<awaiting, hydrated, blocked, window, worldVars>>

\* What one downloadAndApply fetches.
Fetched == IF news < PageLimit THEN news ELSE PageLimit

\* downloadAndApply returns to a cycle.  A poll after which nothing is left, and
\* with cycleMovedOps zero, opens the skip window.
Poll(c) ==
  /\ Event /\ call[c].pc = "poll" /\ call[c].role = "cycle"
  /\ news' = news - Fetched
  /\ window' \in {window, window \/ news' = 0}
  /\ EndIteration(c, call[c].more \/ news' > 0)
  /\ UNCHANGED <<awaiting, hydrated, blocked, notified, changes, faults>>

\* downloadAndApply returns to downloadEverything, which goes on until the end.
PollAccount(c) ==
  /\ Event /\ call[c].pc = "poll" /\ call[c].role = "account"
  /\ news' = news - Fetched
  /\ \/ /\ news' > 0
        /\ UNCHANGED <<call, inFlight, rerun, waiters, micro, awaiting>>
     \/ /\ news' = 0
        /\ EndExclusive(c)
  /\ UNCHANGED <<hydrated, pollVars, changes, faults>>

\* runExclusive's function ends; it has uploaded, downloaded, and applied and
\* queued what it restored.
FinishRestore(c) ==
  /\ Event /\ call[c].pc = "fn"
  /\ news' = news - Fetched
  /\ EndExclusive(c)
  /\ UNCHANGED <<hydrated, pollVars, changes, faults>>

\* An upload or a download throws.  A cycle forgets the triggers that came
\* meanwhile, and a 429 starts the cooldown.
Fail(c) ==
  /\ Event /\ faults < MaxFaults
  /\ faults' = faults + 1
  /\ \/ /\ call[c].role = "cycle" /\ Inside(c)
        /\ blocked' \in {blocked, TRUE}
        /\ rerun' = FALSE
        /\ Release(c, NoCall)
        /\ micro' = micro \o Woken
        /\ UNCHANGED awaiting
     \/ /\ call[c].role # "cycle" /\ Inside(c)
        /\ EndExclusive(c)
        /\ UNCHANGED blocked
  /\ UNCHANGED <<hydrated, notified, window, changes, news>>
-------------------------------------------------------------------------------
(***************************************************************************)
(* The world around the worker.                                            *)
(***************************************************************************)
\* A peer uploads a change; the push may get lost, also on a channel that
\* looks open.
PeerChange ==
  /\ Event /\ changes < MaxChanges
  /\ changes' = changes + 1
  /\ news' = news + 1
  /\ notified' \in {notified, TRUE}
  /\ UNCHANGED <<call, loopVars, inFlight, rerun, waiters, blocked, window, faults>>

CooldownEnds ==
  /\ blocked
  /\ blocked' = FALSE
  /\ UNCHANGED <<call, loopVars, inFlight, rerun, waiters, notified, window, worldVars>>

WindowEnds ==
  /\ window
  /\ window' = FALSE
  /\ UNCHANGED <<call, loopVars, inFlight, rerun, waiters, blocked, notified, worldVars>>

\* The worker is killed and started again: only the cooldown is persisted.
RestartWorker ==
  /\ faults < MaxFaults
  /\ faults' = faults + 1
  /\ call' = [c \in Calls |-> NoCall]
  /\ micro' = << >> /\ awaiting' = << >> /\ hydrated' = FALSE
  /\ inFlight' = FALSE /\ rerun' = FALSE /\ waiters' = << >>
  /\ notified' = FALSE /\ window' = FALSE
  /\ UNCHANGED <<blocked, changes, news>>

Trigger == RequestRerun \/ \E c \in Calls : StartCycle(c)

CallStep(c) == Resume(c) \/ Admit(c) \/ Upload(c) \/ Count(c) \/ Poll(c)
               \/ PollAccount(c) \/ FinishRestore(c)

Next ==
  \/ Trigger
  \/ \E c \in Calls, r \in {"account", "restore"} : StartExclusive(c, r)
  \/ \E c \in Calls : CallStep(c)
  \/ \E c \in Calls : Fail(c)
  \/ Hydrate \/ PeerChange \/ CooldownEnds \/ WindowEnds
  \/ RestartWorker

\* The alarm keeps firing, time passes, and a request ends by an answer or by its
\* timeout.  Strong fairness, because an event that is due stays queued while
\* the microtasks before it run.
Fairness ==
  /\ WF_vars(CooldownEnds) /\ WF_vars(WindowEnds)
  /\ SF_vars(Trigger) /\ SF_vars(Hydrate)
  /\ \A c \in Calls : SF_vars(CallStep(c))

Spec == Init /\ [][Next]_vars /\ Fairness
-------------------------------------------------------------------------------
(***************************************************************************)
(* Properties.                                                             *)
(***************************************************************************)
\* The slot is never left taken by nobody, which would end every later sync:
\* it is released on every path, failures and early returns included.
SlotHasOwner == inFlight => \E c \in Calls : Inside(c)

\* No lost wake-up: a call waits for the slot only while it is taken, so that a
\* release is still to come, and a call past its wait is due to go on.
NoForgottenWaiter ==
  \A c \in Calls :
    /\ call[c].pc = "parked" => inFlight
    /\ call[c].pc = "woken" => c \in Elements(micro)
    /\ call[c].pc = "hydrate" => c \in Elements(micro) \cup Elements(awaiting)

\* Whatever fails, sync goes on: the slot is not leaked (runSyncCycle, runExclusive,
\* releaseSyncSlot) and nobody who waits for it is left out.
SlotNeverLost == SlotHasOwner /\ NoForgottenWaiter

\* A peer's change is downloaded in the end, with pushes lost, triggers dropped
\* by failed cycles and idle downloads skipped (engine.ts: a broken channel
\* delays peer changes "by minutes, never forever").
ChangesArrive == (news > 0) ~> (news = 0)

\* runExclusive: "no upload, download or remote apply happens meanwhile".
RestoreAlone ==
  \A c, d \in Calls : c # d /\ call[c].pc = "fn" => call[d].pc \notin {"upload", "poll"}
===============================================================================
