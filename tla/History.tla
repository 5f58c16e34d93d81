-------------------------------- MODULE History --------------------------------
(***************************************************************************)
(* Browsing history of one device (history/index.ts, history/bulk.ts,      *)
(* history/replay.ts, and the parts of background/index.ts that drive      *)
(* them).  The history that predates the install goes up as a bulk import, *)
(* in chunks, resumed by a count of visits after a crash; visits from then *)
(* on are captured live; visits of other devices are replayed into the     *)
(* browser, which announces them like any other visit.                     *)
(*                                                                         *)
(* A visit is its place in `hist`, which is also its time: no two visits   *)
(* have the same one.                                                      *)
(***************************************************************************)
EXTENDS Integers, FiniteSetsExt, SequencesExt

CONSTANTS
  Urls,         \* the pages
  Theirs,       \* the pages other devices visited
  Installed,    \* the histories the browser may have at the install
  MaxTime,      \* bound on the visits ever
  PageSize,     \* BULK_SEARCH_PAGE_SIZE
  ChunkVisits,  \* visits in a full chunk
  Cutoffs,      \* what the retention setting may ask for
  MaxFaults     \* bound on crashes, failed uploads and pages deleted

ASSUME SizesAssumption ==
  /\ IsFiniteSet(Urls) /\ Theirs \subseteq Urls
  /\ MaxTime \in Nat /\ Cutoffs \subseteq 1 .. MaxTime
  /\ Installed \subseteq Seq([url : Urls, kind : {"user", "frame"}, gone : {FALSE}])
  /\ PageSize \in Nat \ {0} /\ ChunkVisits \in Nat \ {0}

\* The import begins within the days the retention setting keeps: what it asks
\* for is no later than the install.
ASSUME RetentionAssumption == \A h \in Installed, c \in Cutoffs : c <= Len(h) + 1

Never == 0   \* an unset field
Soon  == MaxTime + 2   \* a call still in flight: no visit is later

VARIABLES
  hist,      \* the browser's visits, oldest first: [url, kind, gone]
  events,    \* onVisited events on their way
  started,   \* this worker's startup has seen to the boundary
  dev,       \* the device record's fields: the bounds cut and end of the import and
             \* its checkpoint, the older pass's, done
  live,      \* visits queued for upload one by one
  bulk,      \* the server's chunks: <<cutoff, index>> -> visits
  imp,       \* the import under way
  windows,   \* replayWindows: [url, from, to]
  play,      \* the replay under way: [at, todo]
  setters,   \* who found no boundary -> the record it is about to write
  faults,    \* bounded counter
  early,     \* ghost: visits captured live before there was a boundary
  moved,     \* ghost: the boundary was written over
  disturbed, \* ghost: a scope partly sent lost history, or was given up with sync off
  orphans    \* ghost: replayed visits whose window was lost before their event came

browser == <<hist, events>>
capture == <<started, live>>
ghosts == <<early, moved, disturbed, orphans>>
vars == <<browser, capture, dev, bulk, imp, windows, play, setters, faults, ghosts>>

With(f, x, v) == [y \in DOMAIN f \union {x} |-> IF y = x THEN v ELSE f[y]]

Ascending(S) ==
  CHOOSE f \in [1 .. Cardinality(S) -> S] : \A i, j \in DOMAIN f : i < j => f[i] < f[j]

Now == Len(hist) + 1
At(u) == {t \in DOMAIN hist : hist[t].url = u /\ ~hist[t].gone}

NoImport == [at |-> "idle", scope |-> "initial", cut |-> 0, end |-> 0, bound |-> 0, page |-> << >>, full |-> FALSE,
             last |-> Never, seen |-> << >>, skip |-> 0, chunk |-> << >>, index |-> 0, size |-> 0]
NoReplay == [at |-> "idle", todo |-> << >>]

Init ==
  /\ hist \in Installed
  /\ events = {} /\ started = FALSE /\ live = {}
  /\ dev = [cut |-> Never, end |-> Never, chunks |-> 0, visits |-> 0,
            oCut |-> Never, oEnd |-> Never, oChunks |-> 0, oVisits |-> 0, done |-> FALSE]
  /\ bulk = << >> /\ imp = NoImport /\ windows = {} /\ play = NoReplay /\ setters = << >>
  /\ faults = 0 /\ early = {} /\ moved = FALSE /\ disturbed = FALSE /\ orphans = {}
--------------------------------------------------------------------------------
(***************************************************************************)
(* The browser.  Deleting a page takes its visits; the worker may hear of  *)
(* a visit at any later time.                                              *)
(***************************************************************************)
Visit(u, kind) == Append(hist, [url |-> u, kind |-> kind, gone |-> FALSE])

UserVisit(u) ==
  /\ Now <= MaxTime
  /\ hist' = Visit(u, "user") /\ events' = events \union {Now}
  /\ UNCHANGED <<capture, dev, bulk, imp, windows, play, setters, faults, ghosts>>

ScopeOpen == dev.oCut # Never \/ (dev.cut # Never /\ ~dev.done)

DeletePage(u) ==
  /\ faults < MaxFaults /\ At(u) # {}
  /\ faults' = faults + 1
  /\ hist' = [t \in DOMAIN hist |-> IF hist[t].url = u THEN [hist[t] EXCEPT !.gone = TRUE] ELSE hist[t]]
  /\ disturbed' = (disturbed \/ ScopeOpen)
  /\ UNCHANGED <<events, capture, dev, bulk, imp, windows, play, setters, early, moved, orphans>>
--------------------------------------------------------------------------------
(***************************************************************************)
(* Live capture.                                                           *)
(***************************************************************************)
EchoesLate(t) == {w \in windows : w.url = hist[t].url /\ w.from <= t /\ t <= w.to /\ w.to # Soon}

Echoes(t) == {w \in windows : w.url = hist[t].url /\ w.from <= t /\ t <= w.to}

\* The listener: consumeReplayEcho takes one window, the oldest that fits.
Taken(t) == {w \in Echoes(t) : \A x \in Echoes(t) : w.from <= x.from}

\* flushVisitEvents: visits before the boundary belong to the import.
Fresh(t) == dev.end = Never \/ t >= dev.end

\* The listener, there from the worker's first moment, and the flush of its
\* micro batch, which drops the visit when history sync is off, as the worker
\* does when it stops first.
Hear ==
  /\ events # {}
  /\ LET t    == Min(events)
         take == Taken(t) = {} /\ Fresh(t)
     IN  /\ events' = events \ {t}
         /\ windows' = windows \ Taken(t)
         /\ \/ live' = IF take THEN live \union {t} ELSE live
            \/ live' = live
         /\ early' = IF t \in live' /\ dev.end = Never THEN early \union {t} ELSE early
         /\ orphans' = IF hist[t].kind = "user" THEN orphans \union {w.from + 1 : w \in Taken(t)} ELSE orphans
  /\ UNCHANGED <<hist, started, dev, bulk, imp, play, setters, faults, moved, disturbed>>
--------------------------------------------------------------------------------
(***************************************************************************)
(* The boundary between the import and live capture, fixed by startup and  *)
(* by a replay before it writes, whichever is first.                       *)
(* The record is read, and written whole after the awaits of putDevice.    *)
(***************************************************************************)
NeedsBoundary == ~dev.done /\ dev.end = Never

Reads(p) == setters' = With(setters, p, [dev EXCEPT !.end = Now])

PutBoundary(p) ==
  /\ p \in DOMAIN setters
  /\ dev' = setters[p]
  /\ setters' = [q \in DOMAIN setters \ {p} |-> setters[q]]
  /\ moved' = (moved \/ dev.end # Never)
  /\ UNCHANGED <<browser, capture, bulk, imp, windows, play, faults, early, disturbed, orphans>>

\* initializeCaptureForSettings, up to the first await
ReadBoundary ==
  /\ ~started /\ NeedsBoundary /\ "startup" \notin DOMAIN setters
  /\ Reads("startup")
  /\ UNCHANGED <<browser, capture, dev, bulk, imp, windows, play, faults, ghosts>>

StartupDone ==
  /\ ~started /\ ~NeedsBoundary /\ "startup" \notin DOMAIN setters
  /\ started' = TRUE
  /\ UNCHANGED <<browser, live, dev, bulk, imp, windows, play, setters, faults, ghosts>>
--------------------------------------------------------------------------------
(***************************************************************************)
(* The bulk import.  runInitialImport and importOlderHistoryPass open a    *)
(* scope, whose bounds and checkpoint (chunks and visits sent) are         *)
(* persisted, and both collect it the same way.                            *)
(***************************************************************************)
Scope(name, cut, end, chunks, visits) ==
  [NoImport EXCEPT !.at = "begin", !.scope = name, !.cut = cut, !.end = end,
                   !.skip = visits, !.index = chunks, !.size = visits]

Checkpointed(chunks, visits) ==
  IF imp.scope = "initial" THEN [dev EXCEPT !.chunks = chunks, !.visits = visits]
  ELSE [dev EXCEPT !.oChunks = chunks, !.oVisits = visits]

BeginInitial(cutoff) ==
  /\ started /\ ~dev.done /\ imp.at = "idle"
  /\ LET cut == IF dev.cut = Never THEN cutoff ELSE dev.cut
     IN  /\ dev' = [dev EXCEPT !.cut = cut]
         /\ imp' = Scope("initial", cut, dev.end, dev.chunks, dev.visits)
  /\ UNCHANGED <<browser, capture, bulk, windows, play, setters, faults, ghosts>>

\* History sync is off: nothing is imported, and the import counts as done.
SkipInitial ==
  /\ started /\ ~dev.done /\ imp.at = "idle"
  /\ dev' = [dev EXCEPT !.done = TRUE]
  /\ disturbed' = (disturbed \/ dev.cut # Never)
  /\ UNCHANGED <<browser, capture, bulk, imp, windows, play, setters, faults, early, moved, orphans>>

BeginOlder(cutoff) ==
  /\ started /\ dev.done /\ imp.at = "idle"
  /\ dev.oCut # Never \/ (dev.cut # Never /\ cutoff < dev.cut)
  /\ LET cut == IF dev.oCut = Never THEN cutoff ELSE dev.oCut
         end == IF dev.oCut = Never THEN dev.cut ELSE dev.oEnd
     IN  /\ dev' = [dev EXCEPT !.oCut = cut, !.oEnd = end]
         /\ imp' = Scope("older", cut, end, dev.oChunks, dev.oVisits)
  /\ UNCHANGED <<browser, capture, bulk, windows, play, setters, faults, ghosts>>

(***************************************************************************)
(* chrome.history.search: the pages with a visit between the bounds, the   *)
(* one visited last there first.  Subframe visits do not show.             *)
(***************************************************************************)
Shown(u, from, to) == {t \in At(u) : hist[t].kind # "frame" /\ from <= t /\ t < to}

LastShown(u, from, to) == Max(Shown(u, from, to))

Latest(us, from, to) ==
  CHOOSE f \in [1 .. Cardinality(us) -> us] :
    \A i, j \in DOMAIN f : i < j => LastShown(f[i], from, to) > LastShown(f[j], from, to)

Results(from, to) == Latest({u \in Urls : Shown(u, from, to) # {}}, from, to)

\* getVisits of one page, without the subframe visits, oldest first.
InScope(u) == {t \in At(u) : hist[t].kind # "frame" /\ imp.cut <= t /\ t < imp.end}

\* pushGroup: the first visits are the ones the uploaded chunks hold.
Skipped(times) == IF imp.skip < Len(times) THEN imp.skip ELSE Len(times)

\* A page's visits fill up chunk after chunk; one that is full goes up first.
Pushed(times) == imp.chunk \o SubSeq(times, Skipped(times) + 1, Len(times))

\* A chunk is full by its count of visits.  Its second limit, on bytes, is left
\* out: it ends a chunk sooner, at the same visit on a resume as long as the
\* pages keep their titles.
Ready == Len(imp.chunk) >= ChunkVisits

Resolve ==
  /\ imp.at = "walk" /\ ~Ready /\ imp.page # << >>
  /\ LET u     == Head(imp.page)
         times == Ascending(InScope(u))
     IN  imp' = [imp EXCEPT !.page = Tail(@), !.seen = With(@, u, InScope(u)),
                            !.skip = @ - Skipped(times), !.chunk = Pushed(times)]
  /\ UNCHANGED <<browser, capture, dev, bulk, windows, play, setters, faults, ghosts>>

(***************************************************************************)
(* The next page ends where the last page of this one was last visited     *)
(* inside the bounds, by the times read from it.                           *)
(***************************************************************************)
SmallestBelow(times, bound) == Min({t \in times : t < bound} \union {bound - 1})

LargestBelow(times, bound) == Max({t \in times : t < bound} \union {0})

Cursor ==
  LET below == LargestBelow(imp.seen[imp.last], imp.bound)
  IN  IF below = 0 THEN imp.bound - 1 ELSE below

\* Another page follows a full one, unless the cursor is stuck.
More == imp.full /\ Cursor < imp.bound

Bound == IF imp.at = "begin" THEN imp.end ELSE Cursor

\* The pages not read yet follow in the order they were found.
Search ==
  /\ imp.at = "begin" \/ (imp.at = "walk" /\ ~Ready /\ imp.page = << >> /\ More)
  /\ \E found \in {Results(imp.cut, Bound)} : \E page \in {SubSeq(found, 1, Min({PageSize, Len(found)}))} :
       imp' = [imp EXCEPT !.at = "walk", !.page = Latest(Range(page) \ DOMAIN imp.seen, imp.cut, Bound),
                          !.bound = Bound, !.full = Len(page) = PageSize,
                          !.last = IF page = << >> THEN Never ELSE Last(page)]
  /\ UNCHANGED <<browser, capture, dev, bulk, windows, play, setters, faults, ghosts>>

(***************************************************************************)
(* flushChunk: the chunk goes up under an identifier made of the scope's   *)
(* cutoff and the chunk's index; the server keeps the first it sees.  Only *)
(* then is the count of visits sent persisted.                             *)
(***************************************************************************)
LastChunk == imp.page = << >> /\ ~More

ChunkId == <<imp.cut, imp.index>>

Accepted(times) == IF ChunkId \in DOMAIN bulk THEN bulk ELSE With(bulk, ChunkId, times)

Upload ==
  /\ imp.at = "walk" /\ (Ready \/ (LastChunk /\ imp.chunk # << >>))
  /\ LET n     == IF Ready THEN ChunkVisits ELSE Len(imp.chunk)
         times == Range(SubSeq(imp.chunk, 1, n))
     IN  \/ /\ bulk' = Accepted(times)
            /\ imp' = [imp EXCEPT !.at = "sent", !.index = @ + 1, !.size = @ + n,
                                  !.chunk = SubSeq(@, n + 1, Len(@))]
            /\ UNCHANGED faults
         \/ /\ faults < MaxFaults /\ faults' = faults + 1   \* the request throws, before or after the server took it
            /\ bulk' \in {bulk, Accepted(times)}
            /\ imp' = [NoImport EXCEPT !.at = "failed"]
  /\ UNCHANGED <<browser, capture, dev, windows, play, setters, ghosts>>

\* The record is read and written whole, here in one step; a refresh of the
\* tokens, which does the same (api/client.ts), is left out.
Checkpoint ==
  /\ imp.at = "sent"
  /\ dev' = Checkpointed(imp.index, imp.size)
  /\ imp' = [imp EXCEPT !.at = "walk"]
  /\ UNCHANGED <<browser, capture, bulk, windows, play, setters, faults, ghosts>>

\* The scope is complete: the checkpoint goes, the bounds stay.
Finish ==
  /\ imp.at = "walk" /\ LastChunk /\ imp.chunk = << >>
  /\ dev' = Checkpointed(0, 0)
  /\ imp' = [NoImport EXCEPT !.at = "stamp", !.scope = imp.scope, !.cut = imp.cut]
  /\ UNCHANGED <<browser, capture, bulk, windows, play, setters, faults, ghosts>>

StampOlder ==
  /\ imp.at = "stamp"
  /\ dev' = [dev EXCEPT !.cut = imp.cut, !.oCut = Never, !.oEnd = Never]
  /\ imp' = NoImport
  /\ UNCHANGED <<browser, capture, bulk, windows, play, setters, faults, ghosts>>

Stamp ==
  /\ imp.at = "stamp"
  /\ dev' = IF imp.scope = "initial" THEN [dev EXCEPT !.done = TRUE]
            ELSE [dev EXCEPT !.cut = imp.cut, !.oCut = Never, !.oEnd = Never]
  /\ imp' = NoImport
  /\ UNCHANGED <<browser, capture, bulk, windows, play, setters, faults, ghosts>>
--------------------------------------------------------------------------------
(***************************************************************************)
(* The replay of visits downloaded from other devices, one entry per page, *)
(* oldest first, for the pages the browser does not know.                  *)
(***************************************************************************)
BeginReplay ==
  /\ play.at = "idle" /\ Now <= MaxTime
  /\ play' = [play EXCEPT !.at = "check"]
  /\ IF NeedsBoundary THEN Reads("replay") ELSE UNCHANGED setters
  /\ UNCHANGED <<browser, capture, dev, bulk, imp, windows, faults, ghosts>>

\* Of the visits and the import segments in a batch, the newest of each page
\* is kept, so a page is there once; a segment that does not decrypt is skipped.
Downloaded == SUBSET Theirs \ {{}}

KnownToUser(u) == \E t \in At(u) : hist[t].kind = "user"

Known(u) == At(u) # {}

Go(todo) == IF todo = << >> THEN NoReplay ELSE [at |-> "add", todo |-> todo]

\* Then sweepStaleWindows: the windows opened half an hour ago and before go,
\* however long ago that is here.
CheckKnown ==
  /\ play.at = "check" /\ "replay" \notin DOMAIN setters
  /\ \E pages \in Downloaded : play' = Go(SetToSeq({u \in pages : ~Known(u)}))
  /\ \E since \in 0 .. Now :
       LET stale == {w \in windows : w.from < since}
       IN  windows' = windows \ stale /\ orphans' = orphans \union {w.from + 1 : w \in stale}
  /\ UNCHANGED <<browser, capture, dev, bulk, imp, setters, faults, early, moved, disturbed>>

\* expectEcho and the call
AddUrl ==
  /\ play.at = "add" /\ Now <= MaxTime
  /\ LET u == Head(play.todo)
     IN  /\ hist' = Visit(u, "replay") /\ events' = events \union {Now}
         /\ windows' = windows \union {[url |-> u, from |-> Now - 1, to |-> Soon]}
  /\ play' = [play EXCEPT !.at = "return"]
  /\ UNCHANGED <<capture, dev, bulk, imp, setters, faults, ghosts>>

\* The call returns: its window ends now, unless the echo has consumed it.
ReturnAdd ==
  /\ play.at = "return"
  /\ windows' = {IF w.to = Soon THEN [w EXCEPT !.to = Now] ELSE w : w \in windows}
  /\ play' = Go(Tail(play.todo))
  /\ UNCHANGED <<browser, capture, dev, bulk, imp, setters, faults, ghosts>>

\* The call fails, and leaves no window (forgetEcho), or the device is gone.
SkipUrl ==
  /\ play.at = "add"
  /\ play' \in {Go(Tail(play.todo)), NoReplay}
  /\ UNCHANGED <<browser, capture, dev, bulk, imp, windows, setters, faults, ghosts>>
--------------------------------------------------------------------------------
(***************************************************************************)
(* The worker stops, at any point or because it has nothing to do, and a   *)
(* new one starts with what is persisted.                                  *)
(***************************************************************************)
StopWorker ==
  /\ started' = FALSE /\ imp' = NoImport /\ windows' = {} /\ play' = NoReplay /\ setters' = << >>
  /\ orphans' = orphans \union {t \in events : hist[t].kind = "replay"}
  /\ UNCHANGED <<browser, live, dev, bulk, early, moved, disturbed>>

Crash == faults < MaxFaults /\ faults' = faults + 1 /\ StopWorker

Restart == imp.at = "failed" /\ StopWorker /\ UNCHANGED faults

Startup == ReadBoundary \/ PutBoundary("startup") \/ StartupDone
Import  == \/ Search \/ Resolve \/ Upload \/ Checkpoint \/ Finish \/ Stamp \/ Restart
           \/ \E c \in Cutoffs : BeginInitial(c)

Next ==
  \/ \E u \in Urls : UserVisit(u) \/ DeletePage(u)
  \/ Hear \/ Startup \/ PutBoundary("replay") \/ Import \/ SkipInitial
  \/ \E c \in Cutoffs : BeginOlder(c)
  \/ BeginReplay \/ CheckKnown \/ AddUrl \/ ReturnAdd \/ SkipUrl
  \/ Crash

Spec == Init /\ [][Next]_vars /\ WF_vars(Startup) /\ WF_vars(Import)
--------------------------------------------------------------------------------
Imported == UNION {bulk[id] : id \in DOMAIN bulk}

(***************************************************************************)
(* A visit is uploaded at most once: live or in one chunk, whatever the    *)
(* crashes, the resumed scopes and the older passes (history/index.ts,     *)
(* flushVisitEvents; bulk.ts, importOlderHistoryBulk).  Not one captured   *)
(* before the boundary was there, nor when the boundary was written over.  *)
(***************************************************************************)
CountedOnce ==
  ~moved => /\ (live \ early) \cap Imported = {}
            /\ \A i, j \in DOMAIN bulk : i # j => bulk[i] \cap bulk[j] = {}

(***************************************************************************)
(* When the import is done, every visit between its bounds that the        *)
(* browser still has is on the server, in whatever pages and chunks it was *)
(* read, and after resuming by count (bulk.ts, enumerateVisits).  Not when *)
(* history was deleted inside a scope partly sent, when sync was off as    *)
(* the import was to resume, or when the boundary was written over.        *)
(***************************************************************************)
NothingMissed ==
  dev.done /\ dev.cut # Never /\ ~disturbed /\ ~moved
    => \A u \in Urls : Shown(u, dev.cut, dev.end) \subseteq Imported

(***************************************************************************)
(* The import uploads every visit between its bounds, and nothing is       *)
(* uploaded twice, by it or by the live capture, which may drop a visit    *)
(* (bulk.ts, collectHistoryBulk and its resume; history/index.ts,          *)
(* flushVisitEvents).                                                      *)
(***************************************************************************)
ImportsExactlyOnce == CountedOnce /\ NothingMissed

(***************************************************************************)
(* Replays do not feed back: a visit this device replayed goes up, live or *)
(* in its import, only for an echo whose window was lost, to a worker that *)
(* stopped, to the sweep of old windows or to a visit the user made to     *)
(* that page at that moment                                                *)
(* (replay.ts, consumeReplayEcho; index.ts, ensureHistoryBulkBoundary).    *)
(***************************************************************************)
Of(u, times) == {t \in times : hist[t].url = u}

Replays(u) == {t \in Of(u, DOMAIN hist) : hist[t].kind = "replay"}

NoFeedback ==
  ~moved => \A u \in Urls :
    Cardinality(Replays(u) \cap (live \union Imported)) <= Cardinality(Of(u, orphans))

(***************************************************************************)
(* Applying the same visits again does not pile up entries in the browser: *)
(* of a page, it never has two that were replayed, whatever was applied    *)
(* again, deleted or visited between the check and the call (replay.ts,    *)
(* replayVisitsIntoBrowserHistory).                                        *)
(***************************************************************************)
NoPileUp ==
  \A u \in Urls : Cardinality(Replays(u) \cap At(u)) <= 1

(***************************************************************************)
(* Replayed visits stay where they are put: they neither go back to the    *)
(* account nor multiply in the browser (replay.ts).                        *)
(***************************************************************************)
ReplayHarmless == NoFeedback /\ NoPileUp

(***************************************************************************)
(* The import gets done, whatever the crashes and the failed uploads: the  *)
(* paging always makes progress (bulk.ts, enumerateVisits, "always makes   *)
(* progress").                                                             *)
(***************************************************************************)
ImportCompletes == <>dev.done

================================================================================
