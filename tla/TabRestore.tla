------------------------------ MODULE TabRestore ------------------------------
(***************************************************************************)
(* Tabs of other devices (tabs/index.ts remote apply, groupSync.ts,        *)
(* util/keyed-lock.ts): a batch is resolved and recorded for display, and  *)
(* tabs are opened for remote ones, several at a time, under the           *)
(* "automatic" policy or from the popup, while TabCapture listens to the   *)
(* events this causes.                                                     *)
(*                                                                         *)
(* Remote objects are below 0.  They belong to one remote group, or none.  *)
(***************************************************************************)
EXTENDS TabCapture

CONSTANTS
  Theirs,      \* tabs of other devices
  TheirGroup   \* their group

ASSUME TheirsAssumption ==
  /\ \A o \in Theirs \union {TheirGroup} : o \in Int /\ o < 0
  /\ IsFiniteSet(Theirs) /\ TheirGroup \notin Theirs

VARIABLES
  rows,      \* remote_objects: object -> [val, deleted]
  tasks,     \* materializeTab calls: id -> [by, at, obj, val, tab, grp, called]
  drops,     \* objects the batch closed, whose mappings it has yet to delete
  lock,      \* groupSyncLock: the call that holds the group's key, 0 none
  loading,   \* tabs whose late load events are still to come
  forObj,    \* tabs opened for a remote object: tab -> object
  freed,     \* tabs whose mapping went when their object was closed remotely
  made,      \* local groups this worker made or joined for the remote group
  grouped    \* local groups ever made for it

remoteVars == <<rows, tasks, drops, lock, loading, forObj, freed, made, grouped>>
vars == <<captured, browser, pending, flush, guard, opening, ghosts, remoteVars>>

Init ==
  /\ CaptureInit
  /\ rows = None /\ tasks = << >> /\ drops = {} /\ lock = 0
  /\ loading = {} /\ forObj = None /\ freed = {} /\ made = {} /\ grouped = 0
-------------------------------------------------------------------------------
(***************************************************************************)
(* A remote operation is older or newer than everything recorded here.     *)
(***************************************************************************)
RemoteOps ==
  [kind : {"update", "close"}, obj : Theirs, key : {0, clock + 1}]
  \union [kind : {"activate"}, obj : Theirs, key : {clock + 1}]
  \union [kind : {"group", "ungroup"}, obj : {TheirGroup}, key : {clock + 1}]

\* The op's payload: another device's window, the key standing for the page.
\* The newer one has the tab in the group.
ValOf(op) ==
  IF op.kind = "group" THEN [page |-> op.key, grp |-> 0, win |-> "group"]
  ELSE [page |-> op.key + 1, grp |-> IF op.key = 0 THEN 0 ELSE TheirGroup, win |-> "there"]

\* by tells a batch's calls from the popup's.
Task(by, o, v) == [by |-> by, at |-> IF o = TheirGroup THEN "label" ELSE "lookup", obj |-> o, val |-> v,
               tab |-> 0, grp |-> 0, called |-> FALSE]

KeyIn(f, o) == IF o \in DOMAIN f THEN f[o].key ELSE -1

(***************************************************************************)
(* resolveItems and the walk over the results: each operation sees what    *)
(* the ones before it left.  acc holds the field states, the rows and what *)
(* is left to do after the transaction.                                    *)
(***************************************************************************)
Turns(acc, op) == op.key > KeyIn(acc.live, op.obj)

\* close of a tab, delete of a group; only a tab's mapping goes with it.
ResolveEnd(acc, op) ==
  IF ~Turns(acc, op) THEN acc
  ELSE [acc EXCEPT !.live = With(@, op.obj, [key |-> op.key, dead |-> TRUE]),
                   !.rows = With(@, op.obj, [val |-> 0, deleted |-> TRUE]),
                   !.drops = IF op.kind = "close" THEN @ \union {op.obj} ELSE @]

ResolveLiveness(acc, op) ==
  IF Turns(acc, op) THEN [acc EXCEPT !.live = With(@, op.obj, [key |-> op.key, dead |-> FALSE])] ELSE acc

\* create, update: a tab is opened under the "automatic" policy unless it stays
\* closed; a group is labelled.
ResolveTabState(acc, op) ==
  LET o  == op.obj
      in == ResolveLiveness(acc, op)
      to == [in EXCEPT !.state = With(@, o, [key |-> op.key, val |-> ValOf(op)]),
                       !.rows = With(@, o, [val |-> ValOf(op), deleted |-> in.live[o].dead])]
  IN  IF op.key <= KeyIn(acc.state, o) THEN in
      ELSE IF in.live[o].dead \/ ~acc.opens THEN to
      ELSE [to EXCEPT !.todo = Append(@, Task("batch", o, ValOf(op)))]

ResolveGroupState(acc, op) ==
  LET in == ResolveLiveness(acc, op)
  IN  IF op.key <= KeyIn(acc.state, op.obj) THEN in
      ELSE [in EXCEPT !.state = With(@, op.obj, [key |-> op.key, val |-> ValOf(op)]),
                      !.rows = With(@, op.obj, [val |-> ValOf(op), deleted |-> FALSE]),
                      !.todo = Append(@, Task("batch", op.obj, ValOf(op)))]

ResolveItem(acc, op) ==
  CASE op.kind \in {"close", "ungroup"} -> ResolveEnd(acc, op)
    [] op.kind = "activate" -> [acc EXCEPT !.acts = @ \union {op.obj}]
    [] op.kind = "update"   -> ResolveTabState(acc, op)
    [] op.kind = "group"    -> ResolveGroupState(acc, op)

\* restorePolicy, closed when the settings cannot be read; "ask" opens nothing.
RestorePolicies == {"automatic", "disabled"}

\* materializeAll returns when its calls have, and throws as soon as one does,
\* while the others go on.
BatchOver ==
  LET own == {k \in DOMAIN tasks : tasks[k].by = "batch"}
  IN  (\A k \in own : tasks[k].at = "done") \/ \E k \in own : tasks[k].at = "thrown"

(***************************************************************************)
(* applyTabRemoteBatch and applyGroupRemoteBatch: the policy is read first *)
(* and counts as disabled when it cannot be; one transaction resolves, and *)
(* the tabs to open are known from then on.                                *)
(***************************************************************************)
ApplyBatch ==
  /\ BatchOver /\ drops = {}
  /\ \E batch \in UNION {[1..n -> RemoteOps] : n \in 1 .. MaxSteps - steps}, policy \in RestorePolicies :
       LET start == [state |-> state, live |-> live, rows |-> rows, acts |-> acts,
                     drops |-> {}, todo |-> << >>, opens |-> policy = "automatic"]
           done  == FoldLeft(ResolveItem, start, batch)
       IN /\ state' = done.state /\ live' = done.live /\ rows' = done.rows /\ acts' = done.acts
          /\ steps' = steps + Len(batch)
          /\ drops' = done.drops
          /\ tasks' = tasks \o done.todo
          /\ clock' = Max({clock} \union {op.key : op \in Range(batch)})
  /\ UNCHANGED <<tabMap, grpMap, minted, sent, tabs, label, active, opened, pending, flush, guard, opening, ghosts,
                 lock, loading, forObj, freed, made, grouped>>

\* getMappingsByObjectIds and deleteMappingsBatch, before anything is opened.
DropClosed ==
  /\ drops # {}
  /\ tabMap' = Without(tabMap, {t \in DOMAIN tabMap : tabMap[t] \in drops})
  /\ drops' = {}
  /\ freed' = freed \union {t \in DOMAIN tabMap : tabMap[t] \in drops}
  /\ UNCHANGED <<grpMap, state, live, acts, clock, minted, sent, browser, pending, flush, guard, opening,
                 ghosts, rows, tasks, lock, loading, forObj, made, grouped>>

\* isPendingTabRestore: what the popup lists.
PendingRestores ==
  {o \in DOMAIN rows \cap Theirs : ~rows[o].deleted /\ \A t \in DOMAIN tabMap : tabMap[t] # o}

\* restoreTab and restoreTabs, with the states recorded for the tabs listed,
\* whatever calls are under way.
RestoreAll ==
  /\ steps < MaxSteps /\ PendingRestores # {}
  /\ steps' = steps + 1
  /\ LET all == SetToSeq(PendingRestores \cap DOMAIN state)
     IN  tasks' = tasks \o [k \in DOMAIN all |-> Task("popup", all[k], state[all[k]].val)]
  /\ UNCHANGED <<captured, tabs, label, active, opened, pending, flush, guard, opening, ghosts, rows, drops,
                 lock, loading, forObj, freed, made, grouped>>
-------------------------------------------------------------------------------
(***************************************************************************)
(* materializeTab, one call of several that run at the same time.          *)
(***************************************************************************)
AtPc(k, pc) == drops = {} /\ k \in DOMAIN tasks /\ tasks[k].at = pc

Goes(k, new) == tasks' = [tasks EXCEPT ![k] = new]

\* The call is over, or goes on to the tab's group.
AfterTab(task) == [task EXCEPT !.at = IF task.val.grp = 0 THEN "done" ELSE "lock"]

Done(k) == Goes(k, [tasks[k] EXCEPT !.at = "done"])

\* guard.run: events are suppressed from the call until it returns.
GuardRun(k) ==
  /\ AtPc(k, "create") \/ AtPc(k, "update") \/ AtPc(k, "join")
  /\ ~tasks[k].called
  /\ Goes(k, [tasks[k] EXCEPT !.called = TRUE])
  /\ guard' = guard + 1
  /\ UNCHANGED <<captured, browser, pending, flush, opening, ghosts, rows, drops,
                 lock, loading, forObj, freed, made, grouped>>

Returns(k, new) ==
  /\ tasks[k].called
  /\ Goes(k, [new EXCEPT !.called = FALSE])
  /\ guard' = guard - 1

\* isSyncableUrl may end the call; lookupChromiumLocalId.
Lookup(k) ==
  /\ AtPc(k, "lookup")
  /\ \/ Done(k)
     \/ LET known == {t \in DOMAIN tabMap : tabMap[t] = tasks[k].obj}
        IN  Goes(k, IF known = {} THEN [tasks[k] EXCEPT !.at = "create"]
                    ELSE [tasks[k] EXCEPT !.at = "update", !.tab = CHOOSE t \in known : TRUE])
  /\ UNCHANGED <<captured, browser, pending, flush, guard, opening, ghosts, rows, drops,
                 lock, loading, forObj, freed, made, grouped>>

\* chrome.tabs.create inside guard.run: the events of the call itself are
\* suppressed, those of the page's load come later.
Create(k) ==
  /\ AtPc(k, "create") /\ opened < MaxTabs
  /\ opened' = opened + 1
  /\ tabs' = With(tabs, opened', [page |-> tasks[k].val.page, grp |-> 0])
  /\ opening' = opening \union {opened'}
  /\ loading' = loading \union {opened'}
  /\ forObj' = With(forObj, opened', tasks[k].obj)
  /\ Returns(k, [tasks[k] EXCEPT !.at = "link", !.tab = opened'])
  /\ UNCHANGED <<label, active, steps, captured, pending, flush, ghosts, rows, drops,
                 lock, freed, made, grouped>>

\* establishMapping
Link(k) ==
  /\ AtPc(k, "link")
  /\ tabMap' = With(tabMap, tasks[k].tab, tasks[k].obj)
  /\ opening' = opening \ {tasks[k].tab}
  /\ Goes(k, AfterTab(tasks[k]))
  /\ UNCHANGED <<grpMap, state, live, acts, clock, minted, sent, browser, pending, flush, guard, ghosts,
                 rows, drops, lock, loading, forObj, freed, made, grouped>>

\* chrome.tabs.update, which throws when the tab is gone.
Update(k) ==
  /\ AtPc(k, "update")
  /\ LET t == tasks[k].tab
     IN IF t \in DOMAIN tabs
          THEN /\ tabs' = [tabs EXCEPT ![t].page = tasks[k].val.page]
               /\ loading' = loading \union {t}
               /\ Returns(k, AfterTab(tasks[k]))
          ELSE Returns(k, [tasks[k] EXCEPT !.at = "thrown"]) /\ UNCHANGED <<tabs, loading>>
  /\ UNCHANGED <<label, active, opened, steps, captured, pending, flush, opening, ghosts,
                 rows, drops, lock, forObj, freed, made, grouped>>

(***************************************************************************)
(* syncTabGroup, one call at a time for a remote group.                    *)
(***************************************************************************)
LockIgnored == TRUE
LockFree == lock = 0

\* groupSyncLock.run, then lookupChromiumLocalId.
TakeLock(k) ==
  /\ AtPc(k, "lock") /\ LockFree
  /\ lock' = k
  /\ LET known == {g \in DOMAIN grpMap : grpMap[g] = TheirGroup}
     IN  Goes(k, [tasks[k] EXCEPT !.at = "join", !.grp = IF known = {} THEN 0 ELSE CHOOSE g \in known : TRUE])
  /\ UNCHANGED <<captured, browser, pending, flush, guard, opening, ghosts, rows, drops,
                 loading, forObj, freed, made, grouped>>

\* tabsGroupOptions: the mapped group, else a new one; the call throws when
\* the tab or the group is gone, and the lock is released.  The group the tab
\* leaves goes if it was its last.
Join(k) ==
  /\ AtPc(k, "join")
  /\ LET t == tasks[k].tab
         g == IF tasks[k].grp # 0 THEN tasks[k].grp ELSE 2 + grouped
         gone == LeftEmpty(t) \ {g}
     IN IF t \notin DOMAIN tabs \/ (tasks[k].grp # 0 /\ tasks[k].grp \notin DOMAIN label)
          THEN /\ Returns(k, [tasks[k] EXCEPT !.at = "thrown"]) /\ lock' = 0
               /\ UNCHANGED <<tabs, label, made, grouped, queue>>
          ELSE /\ tabs' = [tabs EXCEPT ![t].grp = g]
               /\ label' = Without(IF g \in DOMAIN label THEN label ELSE With(label, g, 0), gone)
               /\ made' = made \union {g}
               /\ grouped' = IF tasks[k].grp = 0 THEN grouped + 1 ELSE grouped
               /\ Enqueue(GroupsRemoved(gone))
               /\ Returns(k, [tasks[k] EXCEPT !.at = "linkGroup", !.grp = g])
               /\ UNCHANGED lock
  /\ UNCHANGED <<active, opened, steps, captured, titles, timers, rearms, last, flush, opening,
                 ghosts, rows, drops, loading, forObj, freed>>

\* establishMapping, then the group's recorded title and color.
LinkGroup(k) ==
  /\ AtPc(k, "linkGroup")
  /\ grpMap' = With(grpMap, tasks[k].grp, TheirGroup)
  /\ label' = IF TheirGroup \in DOMAIN state /\ tasks[k].grp \in DOMAIN label
                THEN [label EXCEPT ![tasks[k].grp] = state[TheirGroup].val.page] ELSE label
  /\ lock' = 0
  /\ Done(k)
  /\ UNCHANGED <<tabMap, state, live, acts, clock, minted, sent, tabs, active, opened, steps, pending, flush,
                 guard, opening, ghosts, rows, drops, loading, forObj, freed, made, grouped>>

\* applyGroupRemoteBatch: only a group that exists here gets the new label.
Relabel(k) ==
  /\ AtPc(k, "label")
  /\ label' = [g \in DOMAIN label |->
                 IF g \in DOMAIN grpMap /\ grpMap[g] = TheirGroup THEN tasks[k].val.page ELSE label[g]]
  /\ Done(k)
  /\ UNCHANGED <<tabs, active, opened, steps, captured, pending, flush, guard, opening, ghosts, rows,
                 drops, lock, loading, forObj, freed, made, grouped>>

\* No call is under way any more.
Finish ==
  /\ tasks # << >> /\ \A k \in DOMAIN tasks : tasks[k].at \in {"done", "thrown"}
  /\ tasks' = << >>
  /\ UNCHANGED <<captured, browser, pending, flush, guard, opening, ghosts, rows, drops,
                 lock, loading, forObj, freed, made, grouped>>

\* The page loads: onUpdated outside the guard.
Loads(t) ==
  /\ t \in loading
  /\ loading' = loading \ {t}
  /\ IF t \in DOMAIN tabs THEN HearUpdated(t, tabs[t]) ELSE UNCHANGED <<pending, unheard>>
  /\ UNCHANGED <<captured, browser, flush, guard, opening, crashes, raced, rows, tasks, drops,
                 lock, forObj, freed, made, grouped>>

Crash ==
  /\ CaptureCrash
  /\ tasks' = << >> /\ drops' = {} /\ lock' = 0 /\ made' = {}
  /\ UNCHANGED <<rows, loading, forObj, freed, grouped>>

Next ==
  \/ CaptureStep /\ UNCHANGED remoteVars
  \/ ApplyBatch \/ DropClosed \/ RestoreAll \/ Finish \/ Crash
  \/ \E k \in DOMAIN tasks :
       GuardRun(k) \/ Relabel(k) \/ Lookup(k) \/ Create(k) \/ Link(k) \/ Update(k) \/ TakeLock(k) \/ Join(k) \/ LinkGroup(k)
  \/ \E t \in loading : Loads(t)

Spec == Init /\ [][Next]_vars
-------------------------------------------------------------------------------
AtRest ==
  /\ queue = << >> /\ titles = None /\ tasks = << >> /\ drops = {} /\ loading = {}
  /\ \A i \in Slots : flush[i].at = "free"

Ours == DOMAIN tabs \ (DOMAIN forObj \union unheard \union raced \union sent.early)

(***************************************************************************)
(* Once everything has been flushed, the account has the page of every tab *)
(* the user has open, through the debounce, the stash and the coalescing.  *)
(* A restart loses the queue but reads the open tabs again, so nothing     *)
(* more is lost but the tab killed between its mapping and its create: it  *)
(* is updated for good, which the server refuses (sent.early).  The other  *)
(* exceptions are unheard and raced: an event that fired while the applier *)
(* awaited a call of its own, titles dropped as a ticker's, what was       *)
(* dropped with tab sync off; and a tab two flushes worked on at once, or  *)
(* whose stashed title was handed over after a newer event.                *)
(***************************************************************************)
StateCaptured ==
  AtRest =>
    \A t \in Ours : tabs[t].page > 0 =>
      t \in DOMAIN tabMap /\ tabMap[t] \in DOMAIN sent.at /\ sent.at[tabMap[t]].page = tabs[t].page

(***************************************************************************)
(* And it shows no tab of this device that is not open: a title or load    *)
(* event that is handled after the tab's close makes no new object.        *)
(***************************************************************************)
NoGhostTab ==
  AtRest =>
    \A o \in DOMAIN sent.created \ sent.closed :
      LET t == sent.created[o]
      IN  t \notin {0} \union unheard \union raced => t \in DOMAIN tabs /\ tabMap[t] = o

(***************************************************************************)
(* What the account shows open on this device is what is open on it.       *)
(***************************************************************************)
TabsMirrored == StateCaptured /\ NoGhostTab

(***************************************************************************)
(* An object is announced before it is updated, or the server refuses the  *)
(* update: a tab that got its url late, and a group whose object a member  *)
(* tab's payload minted.  A restart between the mapping and the operation  *)
(* breaks this for a tab.                                                  *)
(***************************************************************************)
CreatedBeforeUpdated == crashes = 0 => sent.early \subseteq raced

(***************************************************************************)
(* A tab opened for a remote one is not announced as a new tab of this     *)
(* device (guard.run for the events of the call, materializingTabIds until *)
(* the mapping is stored): it stays the remote one, through whatever the   *)
(* flushes stage, unless that one was closed remotely meanwhile.           *)
(***************************************************************************)
NotTakenForNew ==
  \A t \in DOMAIN forObj \ (unheard \union raced \union freed) :
    t \in DOMAIN tabMap => tabMap[t] = forObj[t]

(***************************************************************************)
(* Tabs of one remote group that are opened at the same time end in one    *)
(* local group (groupSyncLock).                                            *)
(***************************************************************************)
OneLocalGroup == Cardinality({g \in made : Members(g) # {}}) <= 1
===============================================================================
