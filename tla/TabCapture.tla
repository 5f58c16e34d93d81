------------------------------ MODULE TabCapture ------------------------------
(***************************************************************************)
(* Local tabs and tab groups becoming objects of the account               *)
(* (tabs/index.ts): the listeners, the title debounce and the stash of     *)
(* background titles, the flush of a burst and its coalescing.             *)
(*                                                                         *)
(* A tab's url and title are one number, its page; 0 is a tab that has no  *)
(* url yet.  There is one window.  Objects and groups are numbers: objects *)
(* above 0 are minted here.  The flush is two transactions after staging,  *)
(* and another may start before it ends.                                   *)
(***************************************************************************)
EXTENDS Integers, SequencesExt

CONSTANTS
  MaxTabs,     \* bound on tabs ever opened
  MaxSteps,    \* bound on the user's changes and remote operations
  MaxRearms,   \* MAX_TITLE_REARMS
  MaxCrashes   \* bound on worker restarts and on switching sync off

ASSUME TabAssumption == {MaxTabs, MaxSteps, MaxRearms, MaxCrashes} \subseteq Nat

VARIABLES
  tabs,      \* the browser's tabs: tab -> [page, grp]
  label,     \* the browser's groups: group -> title, color
  active,    \* the active tab, 0 none
  opened,    \* tabs opened so far
  tabMap,    \* object_mappings of tabs: tab -> object
  grpMap,    \* object_mappings of groups: group -> object
  state,     \* field_state "state": object -> [key, val]
  live,      \* field_state "liveness": object -> [key, dead]
  acts,      \* objects whose field_state "active" is true
  clock,     \* the Lamport clock
  minted,    \* uuidv7
  sent,      \* operations made: objects created (with their tab) and closed, tabs
             \* updated before they were created, each object's last payload
             \* of those the server takes
  queue,     \* the micro-batch queue
  titles,    \* pendingTitleTabs: tab -> snapshot
  timers,    \* tabs with a pendingTitleDebounce timer
  rearms,    \* titleRearmCount
  last,      \* lastActiveTabId, 0 undefined
  flush,     \* flushTabEvents calls under way
  guard,     \* chrome.tabs calls of the applier that are awaited
  opening,   \* materializingTabIds
  steps, crashes,
  unheard,   \* tabs whose last event the capture drops or loses
  raced      \* tabs two flushes worked on, or whose title came in the wrong order

captured == <<tabMap, grpMap, state, live, acts, clock, minted, sent>>
browser  == <<tabs, label, active, opened, steps>>
pending  == <<queue, titles, timers, rearms, last>>
ghosts   == <<crashes, unheard, raced>>

Slots == {1, 2}   \* flushes at a time

Over(f, g)    == [x \in DOMAIN f \union DOMAIN g |-> IF x \in DOMAIN f THEN f[x] ELSE g[x]]
With(f, x, v) == Over([y \in {x} |-> v], f)
Without(f, S) == [x \in DOMAIN f \ S |-> f[x]]
None          == [x \in {} |-> 0]

\* s at the places in S, in order.
KeepAt(s, S) ==
  LET Keep(kept, i) == IF i \in S THEN Append(kept, s[i]) ELSE kept
  IN  FoldLeft(Keep, << >>, [i \in DOMAIN s |-> i])

Free          == [at |-> "free", events |-> << >>, ops |-> << >>]

\* One tab is open and announced.
CaptureInit ==
  LET first == [page |-> 1, grp |-> 0, win |-> "here"] IN
  /\ tabs = <<[page |-> 1, grp |-> 0]>> /\ label = None /\ active \in {0, 1} /\ opened = 1
  /\ tabMap = <<1>> /\ grpMap = None /\ acts = {} /\ clock = 1 /\ minted = 1
  /\ state = <<[key |-> 1, val |-> first]>> /\ live = <<[key |-> 1, dead |-> FALSE]>>
  /\ sent = [created |-> <<1>>, closed |-> {}, early |-> {}, at |-> <<first>>]
  /\ queue = << >> /\ titles = None /\ timers = {} /\ rearms = None /\ last = 0
  /\ flush = [i \in Slots |-> Free] /\ guard = 0 /\ opening = {}
  /\ steps = 0 /\ crashes = 0 /\ unheard = {} /\ raced = {}
-------------------------------------------------------------------------------
(***************************************************************************)
(* Listeners.  Each says what becomes of pending; t is a tab, snap its     *)
(* [page, grp] when the event fired.                                       *)
(***************************************************************************)
Event(kind, t, snap) == [kind |-> kind, tab |-> t, page |-> snap.page, grp |-> snap.grp]

Nothing == [page |-> 0, grp |-> 0]

\* guard.isSuppressed
Suppressed == guard > 0

Enqueue(es) == queue' = queue \o es

\* clearTitleDebounce: a title without a timer stays stashed.
ClearTimer(t) ==
  /\ timers' = timers \ {t}
  /\ titles' = IF t \in timers THEN Without(titles, {t}) ELSE titles

\* clearAllTitleDebounce
ClearAllTimers == titles' = None /\ timers' = {} /\ rearms' = None

\* onCreated
HearCreated(t, snap) ==
  /\ IF Suppressed THEN unheard' = unheard \union {t} /\ UNCHANGED queue
              ELSE Enqueue(<<Event("created", t, snap)>>) /\ UNCHANGED unheard
  /\ UNCHANGED <<titles, timers, rearms, last>>

\* handleTabUpdated for a new url, pinned state or group.
HearUpdated(t, snap) ==
  IF Suppressed THEN unheard' = unheard \union {t} /\ UNCHANGED pending
  ELSE /\ ClearTimer(t)
       /\ rearms' = Without(rearms, {t})
       /\ Enqueue(<<Event("updated", t, snap)>>)
       /\ UNCHANGED <<last, unheard>>

Rearmed(t) == (IF t \in DOMAIN rearms THEN rearms[t] ELSE 0) + 1

\* handleTabUpdated for a title alone: debounced on the active tab, stashed on
\* another, dropped when they keep coming.
HearTitle(t, snap) ==
  IF Suppressed THEN unheard' = unheard \union {t} /\ UNCHANGED pending
  ELSE /\ rearms' = With(rearms, t, Rearmed(t))
       /\ IF Rearmed(t) > MaxRearms
            THEN ClearTimer(t) /\ unheard' = unheard \union {t}
            ELSE /\ titles' = With(titles, t, snap)
                 /\ timers' = IF t = active THEN timers \union {t} ELSE timers \ {t}
                 /\ UNCHANGED unheard
       /\ UNCHANGED <<queue, last>>

\* onActivated: repeats of one tab never reach the queue.
HearActivated(t) ==
  /\ IF t = last THEN UNCHANGED queue
     ELSE Enqueue(<<Event("activated", t, Nothing)>>)
  /\ last' = t
  /\ UNCHANGED <<titles, timers, rearms, unheard>>

\* The groups' onRemoved, which the guard does not hold back.
GroupsRemoved(gone) ==
  [k \in 1..Cardinality(gone) |->
     Event("groupRemoved", 0, [page |-> 0, grp |-> CHOOSE g \in gone : TRUE])]

\* handleTabRemoved, and the group's onRemoved when its last tab goes.
HearRemoved(t, gone) ==
  /\ ClearTimer(t)
  /\ rearms' = Without(rearms, {t})
  /\ last' = IF t = last THEN 0 ELSE last
  /\ Enqueue(<<Event("removed", t, Nothing)>> \o GroupsRemoved(gone))
  /\ UNCHANGED unheard

\* The title stood for TAB_TITLE_DEBOUNCE_MS.
TitleTimer(t) ==
  /\ t \in timers
  /\ timers' = timers \ {t}
  /\ titles' = Without(titles, {t})
  /\ rearms' = Without(rearms, {t})
  /\ Enqueue(<<Event("updated", t, titles[t])>>)
  /\ UNCHANGED <<last, browser, captured, flush, guard, opening, ghosts>>

\* drainStashedBackgroundTitles: a live timer keeps its own.
Stashed == DOMAIN titles \ timers

TabsOf(events) == {e.tab : e \in Range(events)}

\* flushPendingTitleDebounces, from onSuspend.  A stashed title is queued after
\* a navigation or close that it is older than.
Suspend ==
  /\ titles # None
  /\ Enqueue([k \in 1..Cardinality(DOMAIN titles) |->
                LET t == SetToSeq(DOMAIN titles)[k] IN Event("updated", t, titles[t])])
  /\ titles' = None /\ timers' = {}
  /\ raced' = raced \union (Stashed \cap (TabsOf(queue) \union UNION {TabsOf(flush[i].events) : i \in Slots}))
  /\ UNCHANGED <<rearms, last, browser, captured, flush, guard, opening, crashes, unheard>>
-------------------------------------------------------------------------------
(***************************************************************************)
(* The user.  A tab is reported before it has a url, or with one.          *)
(***************************************************************************)
Members(g) == {t \in DOMAIN tabs : tabs[t].grp = g}
LeftEmpty(t) == IF tabs[t].grp # 0 /\ Members(tabs[t].grp) = {t} THEN {tabs[t].grp} ELSE {}

OpenTab ==
  /\ opened < MaxTabs
  /\ opened' = opened + 1
  /\ \E p \in {0, 1} :
       /\ tabs' = With(tabs, opened', [page |-> p, grp |-> 0])
       /\ HearCreated(opened', [page |-> p, grp |-> 0])
  /\ UNCHANGED <<label, active>>

NewPage(t, Hear(_, _)) ==
  LET snap == [tabs[t] EXCEPT !.page = @ + 1]
  IN  tabs' = [tabs EXCEPT ![t] = snap] /\ Hear(t, snap) /\ UNCHANGED <<label, active, opened>>

Navigate(t) == NewPage(t, HearUpdated)
Retitle(t)  == tabs[t].page > 0 /\ NewPage(t, HearTitle)

Activate(t) ==
  /\ active # t
  /\ active' = t
  /\ HearActivated(t)
  /\ UNCHANGED <<tabs, label, opened>>

CloseTab(t) ==
  /\ tabs' = Without(tabs, {t})
  /\ label' = Without(label, LeftEmpty(t))
  /\ active' = IF active = t THEN 0 ELSE active
  /\ HearRemoved(t, LeftEmpty(t))
  /\ UNCHANGED opened

\* The tab is put in a group, which the user then names.
GroupTab(t) ==
  /\ tabs[t].grp = 0 /\ 1 \notin DOMAIN label
  /\ tabs' = [tabs EXCEPT ![t].grp = 1]
  /\ label' = With(label, 1, 1)
  /\ IF Suppressed THEN unheard' = unheard \union {t} /\ UNCHANGED pending
     ELSE /\ ClearTimer(t)
          /\ rearms' = Without(rearms, {t})
          /\ Enqueue(<<Event("updated", t, tabs'[t]), Event("groupUpdated", 0, [page |-> 1, grp |-> 1])>>)
          /\ UNCHANGED <<last, unheard>>
  /\ UNCHANGED <<active, opened>>

User ==
  /\ steps < MaxSteps
  /\ steps' = steps + 1
  /\ \/ OpenTab
     \/ \E t \in DOMAIN tabs :
          Navigate(t) \/ Retitle(t) \/ Activate(t) \/ CloseTab(t) \/ GroupTab(t)
  /\ UNCHANGED <<captured, flush, guard, opening, crashes, raced>>
-------------------------------------------------------------------------------
(***************************************************************************)
(* Staging.  acc is the flush so far: its caches of the mappings, the      *)
(* overlay of the states, and the operations.                              *)
(***************************************************************************)
\* cachedLookupObjectId
Known(acc, t) == t \in DOMAIN acc.tabMap

\* cachedForgetMapping: at once, in the store and in the flush's cache.
Forgets(acc, t) == [acc EXCEPT !.tabMap = Without(@, {t})]

\* overlayOrFieldState: what the burst staged before, else what is stored.
Recorded(acc, obj, val) == obj \in DOMAIN acc.seen /\ acc.seen[obj] = val

IdIn(acc, g) == IF g = 0 THEN 0 ELSE acc.grpMap[g]

\* tabPayload: the group's object is minted by its first member.
WithGroup(acc, g) ==
  IF g = 0 \/ g \in DOMAIN acc.grpMap THEN acc
  ELSE [acc EXCEPT !.grpMap = With(@, g, acc.next + 1), !.next = @ + 1]

Payload(acc, e) == [page |-> e.page, grp |-> IdIn(acc, e.grp), win |-> "here"]

Adds(acc, kind, obj, t, val) ==
  [acc EXCEPT !.ops = Append(@, [kind |-> kind, obj |-> obj, tab |-> t, val |-> val]),
              !.seen = IF kind \in {"create", "update"} THEN With(@, obj, val) ELSE @]

\* stageTabCreated: nothing for a tab without a url.
StageTabCreated(acc, e) ==
  IF e.page = 0 THEN acc
  ELSE LET in == WithGroup(acc, e.grp)
           id == IF Known(in, e.tab) THEN in.tabMap[e.tab] ELSE in.next + 1
           to == [in EXCEPT !.tabMap = With(@, e.tab, id), !.next = IF Known(in, e.tab) THEN @ ELSE @ + 1]
       IN  Adds(to, "create", id, e.tab, Payload(to, e))

MaterializingIgnored(t) == FALSE
Materializing(t) == t \in opening

StageTabUpdated(acc, e) ==
  IF ~Known(acc, e.tab)
    THEN IF Materializing(e.tab) THEN acc ELSE StageTabCreated(acc, e)
  ELSE IF e.page = 0 THEN acc
  ELSE LET in == WithGroup(acc, e.grp)
           id == in.tabMap[e.tab]
           p  == Payload(in, e)
       IN  IF Recorded(in, id, p) THEN in ELSE Adds(in, "update", id, e.tab, p)

StageTabActivated(acc, e) ==
  IF ~Known(acc, e.tab) \/ acc.tabMap[e.tab] \in acc.acts THEN acc
  ELSE [Adds(acc, "activate", acc.tabMap[e.tab], e.tab, 0)
          EXCEPT !.acts = @ \union {acc.tabMap[e.tab]}]

\* stageRemoval; the listener has already cleared the tab's debounce.
StageTabRemoved(acc, e) ==
  IF ~Known(acc, e.tab) THEN acc
  ELSE Adds(Forgets(acc, e.tab), "close", acc.tabMap[e.tab], e.tab, 0)

StageGroupRemoved(acc, e) ==
  IF e.grp \notin DOMAIN acc.grpMap THEN acc
  ELSE [Adds(acc, "delete", acc.grpMap[e.grp], 0, 0) EXCEPT !.grpMap = Without(@, {e.grp})]

StageGroupUpdatedByMapping(acc, e) ==
  LET in == WithGroup(acc, e.grp)
      p  == [page |-> e.page, grp |-> 0, win |-> "group"]
  IN  Adds(in, IF e.grp \in DOMAIN acc.grpMap THEN "update" ELSE "create", in.grpMap[e.grp], 0, p)

\* stageGroupUpdated: without a recorded state the group was never announced.
StageGroupUpdated(acc, e) ==
  LET in == WithGroup(acc, e.grp)
      id == in.grpMap[e.grp]
      p  == [page |-> e.page, grp |-> 0, win |-> "group"]
  IN  IF id \notin DOMAIN in.seen THEN Adds(in, "create", id, 0, p)
      ELSE IF Recorded(in, id, p) THEN in ELSE Adds(in, "update", id, 0, p)

StageEvent(acc, e) ==
  CASE e.kind = "created"      -> StageTabCreated(acc, e)
    [] e.kind = "updated"      -> StageTabUpdated(acc, e)
    [] e.kind = "activated"    -> StageTabActivated(acc, e)
    [] e.kind = "removed"      -> StageTabRemoved(acc, e)
    [] e.kind = "groupUpdated" -> StageGroupUpdated(acc, e)
    [] e.kind = "groupRemoved" -> StageGroupRemoved(acc, e)

(***************************************************************************)
(* coalesceStagedOps: of the activations the last (one per window), of an  *)
(* object's updates the last, and neither before its close.                *)
(***************************************************************************)
SupersededBefore(ops, i) ==
  \E j \in 1 .. i-1 :
    ops[i].kind = "update" /\ ops[j].obj = ops[i].obj /\ ops[j].kind = "update"

Superseded(ops, i) ==
  \E j \in i+1 .. Len(ops) :
    \/ ops[i].kind = "activate" /\ ops[j].kind = "activate"
    \/ /\ ops[i].kind \in {"update", "activate"}
       /\ ops[j].obj = ops[i].obj /\ ops[j].kind \in {"close", ops[i].kind}

Coalesce(ops) == KeepAt(ops, {i \in DOMAIN ops : ~Superseded(ops, i)})
-------------------------------------------------------------------------------
(***************************************************************************)
(* flushTabEvents.                                                         *)
(***************************************************************************)
\* The micro-batch timer: the queue is taken, then the settings are awaited.
FlushTimer(i) ==
  /\ flush[i].at = "free" /\ queue # << >> /\ \A j \in Slots : j < i => flush[j].at # "free"
  /\ flush' = [flush EXCEPT ![i] = [Free EXCEPT !.at = "settings", !.events = queue]]
  /\ raced' = raced \union (TabsOf(queue) \cap UNION {TabsOf(flush[j].events) : j \in Slots})
  /\ queue' = << >>
  /\ UNCHANGED <<titles, timers, rearms, last, browser, captured, guard, opening,
                 crashes, unheard>>

\* Tab sync was turned off meanwhile.
TabsOff(i) ==
  /\ flush[i].at = "settings" /\ crashes < MaxCrashes
  /\ flush' = [flush EXCEPT ![i] = Free]
  /\ unheard' = unheard \union TabsOf(flush[i].events) \union DOMAIN titles
  /\ ClearAllTimers
  /\ crashes' = crashes + 1
  /\ UNCHANGED <<queue, last, browser, captured, guard, opening, raced>>

\* Only tab group sync was turned off: the group events are dropped.
GroupsOff(i) ==
  /\ flush[i].at = "settings" /\ crashes < MaxCrashes
  /\ LET es   == flush[i].events
         rest == KeepAt(es, {k \in DOMAIN es : es[k].kind \notin {"groupUpdated", "groupRemoved"}})
     IN  /\ rest # flush[i].events
         /\ flush' = [flush EXCEPT ![i] = IF rest = << >> THEN Free ELSE [@ EXCEPT !.events = rest]]
  /\ crashes' = crashes + 1
  /\ UNCHANGED <<pending, browser, captured, guard, opening, unheard, raced>>

Overtook(i, t) == \E e \in Range(flush[i].events) : e.tab = t /\ e.page < titles[t].page

\* seedOverlay
Overlay == [o \in DOMAIN state |-> state[o].val]

\* prefetchTabFlushCaches
Prefetched == [tabMap |-> tabMap, grpMap |-> grpMap, next |-> minted, acts |-> acts,
               ops |-> << >>, seen |-> Overlay]

\* Stashed titles are older than the burst's events and go first.
Burst(i) ==
  LET old == SetToSeq(Stashed)
  IN  [k \in DOMAIN old |-> Event("updated", old[k], titles[old[k]])] \o flush[i].events

StageAll(i) == FoldLeft(StageEvent, Prefetched, Burst(i))

Stage(i) ==
  /\ flush[i].at = "settings"
  /\ LET done == StageAll(i)
     IN /\ tabMap' = done.tabMap /\ grpMap' = done.grpMap /\ minted' = done.next
        /\ flush' = [flush EXCEPT ![i] = IF done.ops = << >> THEN Free
                                         ELSE [at |-> "ops", events |-> Burst(i), ops |-> Coalesce(done.ops)]]
  /\ raced' = raced \union {t \in Stashed : Overtook(i, t)}
                    \union (Stashed \cap TabsOf(queue))
                    \union {t \in Stashed : \E j \in Slots \ {i} : t \in TabsOf(flush[j].events)}
  /\ titles' = Without(titles, Stashed)
  /\ UNCHANGED <<state, live, acts, clock, sent, queue, timers, rearms, last, browser, guard,
                 opening, crashes, unheard>>

Objs(ops, kinds) == {op.obj : op \in {o \in Range(ops) : o.kind \in kinds}}

LastOf(ops, o, kinds) == ops[Max({k \in DOMAIN ops : ops[k].obj = o /\ ops[k].kind \in kinds})]

\* The last payload the operations give each object.
Payloads(ops) ==
  LET kinds == {"create", "update"} IN [o \in Objs(ops, kinds) |-> LastOf(ops, o, kinds).val]

\* createLocalOperationsBatch.  The server refuses the update of an object that
\* was not created (object_not_found).
CreateOperations(i) ==
  /\ flush[i].at = "ops"
  /\ LET ops  == flush[i].ops
         made == Over([o \in Objs(ops, {"create"}) |-> LastOf(ops, o, {"create"}).tab], sent.created)
         none == {o \in Objs(ops, {"update"}) : o > 0 /\ o \notin DOMAIN made}
     IN /\ sent' = [created |-> made,
                    closed  |-> sent.closed \union Objs(ops, {"close"}),
                    early   |-> sent.early \union {op.tab : op \in {x \in Range(ops) :
                                 x.kind = "update" /\ x.obj > 0 /\ x.obj \notin DOMAIN made}},
                    at      |-> Over(Without(Payloads(ops), none), sent.at)]
        /\ clock' = clock + Len(ops)
  /\ flush' = [flush EXCEPT ![i].at = "states"]
  /\ UNCHANGED <<tabMap, grpMap, state, live, acts, minted, pending, browser, guard, opening, ghosts>>

\* recordLocalFieldStatesBatch, the operations' keys those of the last ticks.
RecordStates(i) ==
  /\ flush[i].at = "states"
  /\ LET new == Payloads(flush[i].ops)
     IN  state' = Over([o \in DOMAIN new |-> [key |-> clock, val |-> new[o]]], state)
  /\ acts' = acts \union Objs(flush[i].ops, {"activate"})
  /\ LET ends  == Objs(flush[i].ops, {"close", "delete"})
         lives == Objs(flush[i].ops, {"create"}) \ ends
     IN  live' = Over([o \in ends \union lives |-> [key |-> clock, dead |-> o \in ends]], live)
  /\ flush' = [flush EXCEPT ![i] = Free]
  /\ UNCHANGED <<tabMap, grpMap, clock, minted, sent, pending, browser, guard, opening, ghosts>>

CaptureStep ==
  \/ User \/ Suspend
  \/ \E t \in timers : TitleTimer(t)
  \/ \E i \in Slots : FlushTimer(i) \/ TabsOff(i) \/ GroupsOff(i) \/ Stage(i) \/ CreateOperations(i) \/ RecordStates(i)

(***************************************************************************)
(* The worker is killed and starts again: registerCapture sends the open   *)
(* tabs through the update path.                                           *)
(***************************************************************************)
CaptureCrash ==
  /\ crashes < MaxCrashes
  /\ crashes' = crashes + 1
  /\ unheard' = unheard \union opening \union
       ((TabsOf(queue) \union UNION {TabsOf(flush[i].events) : i \in Slots}) \ DOMAIN tabs)
  /\ ClearAllTimers /\ last' = 0
  /\ flush' = [i \in Slots |-> Free] /\ guard' = 0 /\ opening' = {}
  /\ queue' = [k \in 1..Cardinality(DOMAIN tabs) |->
                 LET t == SetToSeq(DOMAIN tabs)[k] IN Event("updated", t, tabs[t])]
  /\ UNCHANGED <<browser, captured, raced>>
===============================================================================
