----------------------------- MODULE HistoryProofs -----------------------------
(***************************************************************************)
(* Visits replayed into the browser stay there: they are neither uploaded  *)
(* again nor added twice; and the import and the live capture upload every *)
(* visit once, for any history, any pages and any number of faults.        *)
(*                                                                         *)
(* A replayed visit that is uploaded need not be the one whose window was  *)
(* lost: its echo may have taken the window of a later one.  So the        *)
(* invariant counts: of every page, the replays uploaded and the echoes on *)
(* their way without a window of their own are no more than the orphans.   *)
(***************************************************************************)
EXTENDS History, SequenceTheorems, FiniteSetTheorems, WellFoundedInduction, TLAPS

VisitRecord == [url : Urls, kind : {"user", "frame", "replay"}, gone : BOOLEAN]

WindowRecord == [url : Urls, from : Nat, to : Nat]

BrowserOk ==
  /\ hist \in Seq(VisitRecord)
  /\ events \in SUBSET (DOMAIN hist)
  /\ live \in SUBSET (DOMAIN hist)
  /\ orphans \in SUBSET (DOMAIN hist)
  /\ \A t \in events : hist[t].kind # "frame"

\* A window is that of the replayed visit right after its start, and lasts
\* until that visit at least.
WindowsOk ==
  /\ \A w \in windows :
       /\ w \in WindowRecord
       /\ w.from + 1 \in DOMAIN hist /\ w.from + 1 <= w.to
       /\ hist[w.from + 1].kind = "replay" /\ hist[w.from + 1].url = w.url
       /\ w.from + 1 \notin orphans
  /\ \A v, w \in windows : v.from = w.from => v = w

\* The replayed visits of a page that the browser still has.
Kept(u) == Replays(u) \cap At(u)

KeptOnce == \A u \in Urls : \A s, t \in Kept(u) : s = t

\* The pages still to be added have none.
PlayOk ==
  /\ play \in [at : {"idle", "check", "add", "return"}, todo : Seq(Urls)]
  /\ \A i, j \in 1 .. Len(play.todo) : play.todo[i] = play.todo[j] => i = j
  /\ play.at \in {"add", "return"} => play.todo # << >>
  /\ play.at = "add" => \A i \in 1 .. Len(play.todo) : Kept(play.todo[i]) = {}
  /\ play.at = "return" => \A i \in 2 .. Len(play.todo) : Kept(play.todo[i]) = {}

Leaked(u) == Replays(u) \cap live

\* Replayed visits whose event is on its way and whose window is gone.
Bereft(u) == {t \in events : /\ hist[t].kind = "replay" /\ hist[t].url = u
                             /\ \A w \in windows : w.from + 1 # t}

Accounted ==
  \A u \in Urls :
    Cardinality(Leaked(u)) + Cardinality(Bereft(u)) <= Cardinality(Of(u, orphans))

ReplayInv == BrowserOk /\ WindowsOk /\ KeptOnce /\ PlayOk /\ Accounted

DevFields == {"cut", "end", "chunks", "visits", "oCut", "oEnd", "oChunks", "oVisits", "done"}

\* r is a device record; its scopes end at its boundary or before.
RecordOk(r) ==
  /\ DOMAIN r = DevFields
  /\ r.cut \in Nat /\ r.end \in Nat /\ r.oCut \in Nat /\ r.oEnd \in Nat
  /\ r.visits \in Nat /\ r.oVisits \in Nat /\ r.end <= Now

Within(r) == r.cut <= r.end /\ r.oCut <= r.end /\ r.oEnd <= r.end

ImportOk ==
  /\ DOMAIN imp = DOMAIN NoImport
  /\ imp.cut \in Nat /\ imp.end \in Nat /\ imp.chunk \in Seq(Nat)
  /\ imp.skip \in Nat /\ imp.size \in Nat
  /\ \A id \in DOMAIN bulk : bulk[id] \in SUBSET Nat

SettersOk ==
  \A p \in DOMAIN setters :
    /\ RecordOk(setters[p]) /\ setters[p].end # Never
    /\ \A c \in Cutoffs : c <= setters[p].end
    /\ ~moved => Within(setters[p])

\* Everyone who goes by the boundary comes after it.
Bounded == started \/ dev.done \/ imp.at \notin {"idle", "failed"}
           \/ play.at \in {"add", "return"} \/ (play.at = "check" /\ "replay" \notin DOMAIN setters)

BoundaryOk ==
  /\ Bounded => dev.end # Never
  /\ dev.end # Never => \A c \in Cutoffs : c <= dev.end
  /\ Within(dev) /\ imp.cut <= dev.end /\ imp.end <= dev.end
  /\ \A t \in DOMAIN hist : hist[t].kind = "replay" => dev.end # Never /\ dev.end <= t
  /\ \A t \in live \ early : dev.end # Never /\ dev.end <= t
  /\ \A i \in 1 .. Len(imp.chunk) : imp.chunk[i] < dev.end
  /\ \A id \in DOMAIN bulk : \A t \in bulk[id] : t < dev.end

ImportInv ==
  /\ RecordOk(dev) /\ ImportOk /\ SettersOk
  /\ \A c \in Cutoffs : c <= Now
  /\ moved \in BOOLEAN
  /\ ~moved => BoundaryOk

HistoryInv == ReplayInv /\ ImportInv

--------------------------------------------------------------------------------
(***************************************************************************)
(* Facts about data.                                                       *)
(***************************************************************************)
\* A nonempty set of naturals has a least element.
LEMMA LeastNumber ==
  ASSUME NEW T \in SUBSET Nat, T # {}
  PROVE  \E x \in T : \A y \in T : x <= y
<1>1. IsWellFoundedOn(OpToRel(<, Nat), Nat)
  BY NatLessThanWellFounded
<1>2. PICK x \in T : \A y \in T : <<y, x>> \notin OpToRel(<, Nat)
  BY <1>1, WFMin
<1>3. \A y \in T : x <= y
  <2>1. TAKE y \in T
  <2>2. <<y, x>> \notin OpToRel(<, Nat)
    BY <1>2
  <2>3. ~(y < x)
    BY <2>2 DEF OpToRel
  <2> QED  BY <2>3
<1> QED  BY <1>3

Climbs(f) == \A i, j \in DOMAIN f : i < j => f[i] < f[j]

\* A finite set of times can be put in order: by the least number of elements
\* for which it cannot.
LEMMA AscendingIn ==
  ASSUME NEW S \in SUBSET Nat, IsFiniteSet(S)
  PROVE  Ascending(S) \in [1 .. Cardinality(S) -> S] /\ Climbs(Ascending(S)) /\ Cardinality(S) \in Nat
<1> DEFINE Sorts(T, n) == \E f \in [1 .. n -> T] : Climbs(f)
           Bad == {n \in Nat : \E T \in SUBSET Nat :
                     IsFiniteSet(T) /\ Cardinality(T) = n /\ ~Sorts(T, n)}
<1>1. Bad = {}
  <2> SUFFICES ASSUME Bad # {} PROVE FALSE
    OBVIOUS
  <2>1. Bad \in SUBSET Nat
    OBVIOUS
  <2>2. PICK n \in Bad : \A m \in Bad : n <= m
    <3> HIDE DEF Bad
    <3> QED  BY <2>1, LeastNumber
  <2>3. PICK T \in SUBSET Nat : IsFiniteSet(T) /\ Cardinality(T) = n /\ ~Sorts(T, n)
    OBVIOUS
  <2>4. n \in Nat
    BY <2>1
  <2>5. T # {}
    <3> SUFFICES ASSUME T = {} PROVE FALSE
      OBVIOUS
    <3>1. n = 0
      BY <2>3, FS_EmptySet
    <3>2. [i \in 1 .. n |-> 0] \in [1 .. n -> T] /\ Climbs([i \in 1 .. n |-> 0])
      BY <3>1 DEF Climbs
    <3> QED  BY <2>3, <3>2
  <2>6. PICK x \in T : \A y \in T : x <= y
    BY <2>5, LeastNumber
  <2> DEFINE R == T \ {x}
  <2>7. IsFiniteSet(R) /\ Cardinality(R) = n - 1 /\ n - 1 \in Nat
    <3>1. IsFiniteSet(R) /\ Cardinality(R) = n - 1
      BY <2>3, FS_RemoveElement
    <3>2. Cardinality(R) \in Nat
      BY <3>1, FS_CardinalityType
    <3> QED  BY <3>1, <3>2
  <2>8. n - 1 \notin Bad
    <3> HIDE DEF Bad
    <3> QED  BY <2>2, <2>4
  <2>9. PICK f \in [1 .. n - 1 -> R] : Climbs(f)
    BY <2>7, <2>8
  <2> DEFINE g == [i \in 1 .. n |-> IF i = 1 THEN x ELSE f[i - 1]]
  <2>10. \A i \in 1 .. n : i # 1 => i - 1 \in 1 .. n - 1
    BY <2>4
  <2>11. g \in [1 .. n -> T]
    BY <2>9, <2>10
  <2>12. Climbs(g)
    <3> SUFFICES ASSUME NEW i \in 1 .. n, NEW j \in 1 .. n, i < j PROVE g[i] < g[j]
      BY DEF Climbs
    <3>1. j # 1 /\ j - 1 \in 1 .. n - 1 /\ g[j] = f[j - 1] /\ f[j - 1] \in R
      BY <2>4, <2>9, <2>10
    <3>2. CASE i = 1
      <4>1. g[i] = x
        BY <3>2
      <4>2. x <= f[j - 1] /\ x # f[j - 1] /\ x \in Nat /\ f[j - 1] \in Nat
        BY <2>6, <3>1
      <4> HIDE DEF g
      <4> QED  BY <3>1, <4>1, <4>2
    <3>3. CASE i # 1
      <4>1. i - 1 \in 1 .. n - 1 /\ g[i] = f[i - 1] /\ i - 1 < j - 1
        BY <2>4, <2>10, <3>3
      <4> QED  BY <2>9, <3>1, <4>1 DEF Climbs
    <3> QED  BY <3>2, <3>3
  <2> HIDE DEF g
  <2>13. Sorts(T, n)
    BY <2>11, <2>12
  <2> QED  BY <2>3, <2>13
<1>2. Cardinality(S) \in Nat
  BY FS_CardinalityType
<1>3. Sorts(S, Cardinality(S))
  BY <1>1, <1>2
<1> QED  BY <1>2, <1>3 DEF Ascending, Climbs

\* A finite set as a sequence.
LEMMA SetToSeqIn ==
  ASSUME NEW S, IsFiniteSet(S)
  PROVE  /\ SetToSeq(S) \in Seq(S)
         /\ \A i, j \in 1 .. Len(SetToSeq(S)) : SetToSeq(S)[i] = SetToSeq(S)[j] => i = j
<1>1. Cardinality(S) \in Nat /\ ExistsBijection(1 .. Cardinality(S), S)
  BY FS_CardinalityType
<1>2. \E f \in [1 .. Cardinality(S) -> S] : IsInjective(f)
  BY <1>1 DEF ExistsBijection, Bijection, Injection
<1>3. SetToSeq(S) \in [1 .. Cardinality(S) -> S] /\ IsInjective(SetToSeq(S))
  BY <1>2 DEF SetToSeq
<1>4. SetToSeq(S) \in Seq(S) /\ Len(SetToSeq(S)) = Cardinality(S)
  BY <1>1, <1>3
<1> QED  BY <1>3, <1>4 DEF IsInjective

\* Times are finite in number.
LEMMA FiniteTimes ==
  ASSUME hist \in Seq(VisitRecord)
  PROVE  /\ Len(hist) \in Nat /\ DOMAIN hist = 1 .. Len(hist)
         /\ \A S \in SUBSET (DOMAIN hist) : IsFiniteSet(S) /\ Cardinality(S) \in Nat
<1>1. Len(hist) \in Nat /\ DOMAIN hist = 1 .. Len(hist)
  OBVIOUS
<1>2. IsFiniteSet(DOMAIN hist)
  BY <1>1, FS_Interval
<1>3. \A S \in SUBSET (DOMAIN hist) : IsFiniteSet(S)
  BY <1>2, FS_Subset
<1> QED  BY <1>1, <1>3, FS_CardinalityType

LEMMA VisitFacts ==
  ASSUME hist \in Seq(VisitRecord), NEW u \in Urls, NEW kind \in {"user", "frame", "replay"}
  PROVE  /\ Visit(u, kind) \in Seq(VisitRecord) /\ Len(Visit(u, kind)) = Len(hist) + 1
         /\ DOMAIN Visit(u, kind) = DOMAIN hist \union {Now} /\ Now \notin DOMAIN hist
         /\ \A t \in DOMAIN hist : Visit(u, kind)[t] = hist[t]
         /\ Visit(u, kind)[Now] = [url |-> u, kind |-> kind, gone |-> FALSE]
<1> DEFINE v == [url |-> u, kind |-> kind, gone |-> FALSE]
<1>1. v \in VisitRecord
  BY DEF VisitRecord
<1> HIDE DEF v
<1>2. /\ Append(hist, v) \in Seq(VisitRecord) /\ Len(Append(hist, v)) = Len(hist) + 1
      /\ \A t \in 1 .. Len(hist) : Append(hist, v)[t] = hist[t]
      /\ Append(hist, v)[Len(hist) + 1] = v
  BY <1>1, AppendProperties
<1>3. Len(hist) \in Nat /\ DOMAIN hist = 1 .. Len(hist)
  BY FiniteTimes
<1>4. DOMAIN Append(hist, v) = 1 .. Len(hist) + 1
  BY <1>2
<1>5. 1 .. Len(hist) + 1 = (1 .. Len(hist)) \union {Len(hist) + 1} /\ Len(hist) + 1 \notin 1 .. Len(hist)
  BY <1>3
<1> QED  BY <1>2, <1>3, <1>4, <1>5 DEF Visit, Now, v

--------------------------------------------------------------------------------
(***************************************************************************)
(* The replay.                                                             *)
(***************************************************************************)
\* The sets that are counted are finite.
LEMMA Countable ==
  ASSUME BrowserOk
  PROVE  \A u : /\ IsFiniteSet(Leaked(u)) /\ Cardinality(Leaked(u)) \in Nat
                /\ IsFiniteSet(Bereft(u)) /\ Cardinality(Bereft(u)) \in Nat
                /\ IsFiniteSet(Of(u, orphans)) /\ Cardinality(Of(u, orphans)) \in Nat
<1>1. \A u : /\ Leaked(u) \in SUBSET (DOMAIN hist) /\ Bereft(u) \in SUBSET (DOMAIN hist)
             /\ Of(u, orphans) \in SUBSET (DOMAIN hist)
  BY DEF BrowserOk, Leaked, Replays, Bereft, Of
<1> QED  BY <1>1, FiniteTimes DEF BrowserOk

\* A step that lets visits that are no replays come, and visits go.
Carries ==
  /\ BrowserOk' /\ UNCHANGED <<windows, orphans, live, play>>
  /\ DOMAIN hist \subseteq DOMAIN hist'
  /\ \A t \in DOMAIN hist : /\ hist'[t].kind = hist[t].kind /\ hist'[t].url = hist[t].url
                            /\ hist[t].gone => hist'[t].gone
  /\ \A t \in DOMAIN hist' \ DOMAIN hist : hist'[t].kind # "replay"
  /\ events \subseteq events' /\ \A t \in events' : t \in events \/ t \notin DOMAIN hist

LEMMA CarriesInv ==
  ASSUME ReplayInv, Carries
  PROVE  ReplayInv'
<1>1. BrowserOk /\ BrowserOk'
  BY DEF ReplayInv, Carries
<1>2. \A u : Replays(u)' = Replays(u)
  BY DEF Carries, Replays, Of
<1>3. \A u : Kept(u)' \subseteq Kept(u)
  BY <1>2 DEF Carries, Kept, At, Replays, Of
<1>4. \A u : Leaked(u)' = Leaked(u)
  BY <1>2 DEF Carries, Leaked
<1>5. \A u : Bereft(u)' = Bereft(u)
  BY <1>1 DEF Carries, Bereft, BrowserOk
<1>6. \A u : Of(u, orphans)' = Of(u, orphans)
  BY <1>1 DEF Carries, Of, BrowserOk
<1>7. WindowsOk'
  BY DEF ReplayInv, WindowsOk, Carries
<1>8. KeptOnce'
  BY <1>3 DEF ReplayInv, KeptOnce
<1>9. PlayOk'
  <2>1. play' = play
    BY DEF Carries
  <2>2. PlayOk
    BY DEF ReplayInv
  <2> QED  BY <1>3, <2>1, <2>2 DEF PlayOk
<1>10. Accounted'
  BY <1>4, <1>5, <1>6 DEF ReplayInv, Accounted
<1> QED  BY <1>1, <1>7, <1>8, <1>9, <1>10 DEF ReplayInv

LEMMA UserVisitReplay ==
  ASSUME ReplayInv, NEW u \in Urls, UserVisit(u)
  PROVE  ReplayInv'
<1>1. BrowserOk
  BY DEF ReplayInv
<1>2. hist' = Visit(u, "user") /\ events' = events \union {Now}
      /\ UNCHANGED <<live, windows, play, orphans>>
  BY DEF UserVisit, capture, ghosts
<1>3. /\ hist' \in Seq(VisitRecord)
      /\ DOMAIN hist' = DOMAIN hist \union {Now} /\ Now \notin DOMAIN hist
      /\ \A t \in DOMAIN hist : hist'[t] = hist[t]
      /\ hist'[Now] = [url |-> u, kind |-> "user", gone |-> FALSE]
  BY <1>1, <1>2, VisitFacts DEF BrowserOk
<1>4. BrowserOk'
  BY <1>1, <1>2, <1>3 DEF BrowserOk
<1>5. Carries
  BY <1>2, <1>3, <1>4 DEF Carries
<1> QED  BY <1>5, CarriesInv

LEMMA DeletePageReplay ==
  ASSUME ReplayInv, NEW u \in Urls, DeletePage(u)
  PROVE  ReplayInv'
<1>1. BrowserOk
  BY DEF ReplayInv
<1>2. hist' = [t \in DOMAIN hist |-> IF hist[t].url = u THEN [hist[t] EXCEPT !.gone = TRUE] ELSE hist[t]]
      /\ UNCHANGED <<events, live, windows, play, orphans>>
  BY DEF DeletePage, capture
<1>3. Len(hist) \in Nat /\ DOMAIN hist = 1 .. Len(hist) /\ \A t \in DOMAIN hist : hist[t] \in VisitRecord
  BY <1>1, FiniteTimes DEF BrowserOk
<1>4. \A t \in DOMAIN hist : /\ hist'[t] \in VisitRecord
                             /\ hist'[t].kind = hist[t].kind /\ hist'[t].url = hist[t].url
                             /\ hist[t].gone => hist'[t].gone
  BY <1>2, <1>3 DEF VisitRecord
<1>5. DOMAIN hist' = DOMAIN hist /\ hist' \in [1 .. Len(hist) -> VisitRecord]
  BY <1>2, <1>3, <1>4
<1>6. hist' \in Seq(VisitRecord)
  BY <1>3, <1>5
<1>7. BrowserOk'
  BY <1>1, <1>2, <1>4, <1>5, <1>6 DEF BrowserOk
<1>8. Carries
  BY <1>2, <1>4, <1>5, <1>7 DEF Carries
<1> QED  BY <1>8, CarriesInv

\* A step of the replay that touches nothing but its own state, or not even that.
LEMMA PlayOnly ==
  ASSUME ReplayInv, UNCHANGED <<hist, events, live, windows, orphans>>, play' = play \/ PlayOk'
  PROVE  ReplayInv'
<1>1. /\ \A u : Kept(u)' = Kept(u) /\ Leaked(u)' = Leaked(u) /\ Bereft(u)' = Bereft(u)
      /\ \A u : Of(u, orphans)' = Of(u, orphans)
  BY DEF Kept, Replays, At, Leaked, Bereft, Of
<1>2. PlayOk'
  <2>1. CASE play' = play
    BY <1>1, <2>1 DEF ReplayInv, PlayOk
  <2> QED  BY <2>1
<1> QED  BY <1>1, <1>2 DEF ReplayInv, BrowserOk, WindowsOk, KeptOnce, Accounted

\* Going on with pages that are all different and have no replayed visit.
LEMMA GoOk ==
  ASSUME NEW s \in Seq(Urls), play' = Go(s),
         \A i, j \in 1 .. Len(s) : s[i] = s[j] => i = j,
         \A i \in 1 .. Len(s) : Kept(s[i])' = {}
  PROVE  PlayOk'
<1>1. CASE s = << >>
  <2>1. play' = [at |-> "idle", todo |-> << >>]
    BY <1>1 DEF Go, NoReplay
  <2>2. << >> \in Seq(Urls) /\ Len(<< >>) = 0
    OBVIOUS
  <2>3. play'.at = "idle" /\ play'.todo = << >> /\ play' \in [at : {"idle", "check", "add", "return"}, todo : Seq(Urls)]
    BY <2>1, <2>2
  <2>4. \A i, j \in 1 .. Len(play'.todo) : FALSE
    BY <2>2, <2>3
  <2> QED  BY <2>3, <2>4 DEF PlayOk
<1>2. CASE s # << >>
  <2>1. play' = [at |-> "add", todo |-> s]
    BY <1>2 DEF Go
  <2>2. play'.at = "add" /\ play'.todo = s /\ play' \in [at : {"idle", "check", "add", "return"}, todo : Seq(Urls)]
    BY <2>1
  <2> QED  BY <1>2, <2>2 DEF PlayOk, Kept, Replays, At, Of
<1> QED  BY <1>1, <1>2

\* The pages after the first.
LEMMA TailFacts ==
  ASSUME NEW s \in Seq(Urls), s # << >>
  PROVE  /\ Tail(s) \in Seq(Urls) /\ Head(s) = s[1] /\ Head(s) \in Urls
         /\ Len(s) \in Nat /\ 1 \in 1 .. Len(s) /\ Len(Tail(s)) = Len(s) - 1
         /\ \A i \in 1 .. Len(Tail(s)) : Tail(s)[i] = s[i + 1] /\ i + 1 \in 2 .. Len(s)
<1>1. Len(s) \in Nat /\ Len(s) # 0
  BY EmptySeq, LenProperties
<1>2. Tail(s) \in Seq(Urls) /\ Head(s) = s[1] /\ Head(s) \in Urls
      /\ Len(Tail(s)) = Len(s) - 1 /\ \A i \in 1 .. Len(Tail(s)) : Tail(s)[i] = s[i + 1]
  BY HeadTailProperties
<1> QED  BY <1>1, <1>2

LEMMA BeginReplayReplay ==
  ASSUME ReplayInv, BeginReplay
  PROVE  ReplayInv'
<1>1. /\ UNCHANGED <<hist, events, live, windows, orphans>>
      /\ play.at = "idle" /\ play' = [play EXCEPT !.at = "check"]
  BY DEF BeginReplay, browser, capture, ghosts
<1>2. play'.at = "check" /\ play'.todo = play.todo
      /\ play' \in [at : {"idle", "check", "add", "return"}, todo : Seq(Urls)]
  BY <1>1 DEF ReplayInv, PlayOk
<1>3. PlayOk'
  BY <1>2 DEF ReplayInv, PlayOk
<1> QED  BY <1>1, <1>3, PlayOnly

\* Old windows are swept: the echoes they were for are bereft now, and the
\* orphans account for as many.
LEMMA SweptAccounted ==
  ASSUME ReplayInv, UNCHANGED <<hist, events, live>>,
         NEW stale \in SUBSET windows, windows' = windows \ stale,
         orphans' = orphans \union {w.from + 1 : w \in stale}
  PROVE  BrowserOk' /\ WindowsOk' /\ Accounted'
<1>1. BrowserOk /\ WindowsOk /\ Accounted
  BY DEF ReplayInv
<1>2. BrowserOk'
  BY <1>1 DEF BrowserOk, WindowsOk
<1>3. WindowsOk'
  <2>1. \A w \in windows' : w \in windows /\ w \notin stale
    OBVIOUS
  <2>2. \A w \in windows', x \in stale : w.from + 1 # x.from + 1
    BY <1>1, <2>1 DEF WindowsOk, WindowRecord
  <2>3. \A w \in windows' : w.from + 1 \notin orphans'
    BY <1>1, <2>1, <2>2 DEF WindowsOk
  <2> QED  BY <1>1, <2>1, <2>3 DEF WindowsOk
<1>4. Accounted'
  <2> SUFFICES ASSUME NEW u \in Urls
               PROVE  (Cardinality(Leaked(u)) + Cardinality(Bereft(u)) <= Cardinality(Of(u, orphans)))'
    BY DEF Accounted
  <2> DEFINE L == Leaked(u)
             B == Bereft(u)
             O == Of(u, orphans)
             new == Of(u, {w.from + 1 : w \in stale})
  <2>1. /\ IsFiniteSet(L) /\ Cardinality(L) \in Nat /\ IsFiniteSet(B) /\ Cardinality(B) \in Nat
        /\ IsFiniteSet(O) /\ Cardinality(O) \in Nat /\ Cardinality(L) + Cardinality(B) <= Cardinality(O)
    BY <1>1, Countable DEF Accounted
  <2>2. IsFiniteSet(new) /\ Cardinality(new) \in Nat
    <3>1. new \in SUBSET (DOMAIN hist)
      BY <1>1 DEF WindowsOk, Of
    <3> HIDE DEF new
    <3> QED  BY <1>1, <3>1, FiniteTimes DEF BrowserOk
  <2>3. L' = L /\ O' = O \union new
    BY DEF Leaked, Replays, Of
  <2>4. B' \subseteq B \union new
    BY DEF Bereft, Of
  <2>5. O \cap new = {}
    BY <1>1 DEF Of, WindowsOk
  <2> HIDE DEF L, B, O, new
  <2>6. Cardinality(O \union new) = Cardinality(O) + Cardinality(new)
    <3>1. Cardinality(O \union new) = Cardinality(O) + Cardinality(new) - Cardinality(O \cap new)
      BY <2>1, <2>2, FS_Union
    <3>2. Cardinality(O \cap new) = 0
      BY <2>5, FS_EmptySet
    <3> QED  BY <2>1, <2>2, <3>1, <3>2
  <2>7. /\ IsFiniteSet(B \union new)
        /\ Cardinality(B \union new) \in Nat /\ Cardinality(B \union new) <= Cardinality(B) + Cardinality(new)
    <3>1. IsFiniteSet(B \union new) /\ IsFiniteSet(B \cap new)
          /\ Cardinality(B \union new) = Cardinality(B) + Cardinality(new) - Cardinality(B \cap new)
      BY <2>1, <2>2, FS_Union, FS_Intersection
    <3>2. Cardinality(B \union new) \in Nat /\ Cardinality(B \cap new) \in Nat
      BY <3>1, FS_CardinalityType
    <3> QED  BY <2>1, <2>2, <3>1, <3>2
  <2>8. Cardinality(B') <= Cardinality(B \union new) /\ Cardinality(B') \in Nat
    BY <2>4, <2>7, FS_Subset, FS_CardinalityType
  <2>9. Cardinality(L') + Cardinality(B') <= Cardinality(O')
    BY <2>1, <2>2, <2>3, <2>6, <2>7, <2>8
  <2> QED  BY <2>9 DEF L, B, O
<1> QED  BY <1>2, <1>3, <1>4

LEMMA CheckKnownReplay ==
  ASSUME ReplayInv, CheckKnown
  PROVE  ReplayInv'
<1>1. UNCHANGED <<hist, events, live>>
  BY DEF CheckKnown, browser, capture
<1>2. PICK pages \in Downloaded : play' = Go(SetToSeq({u \in pages : ~Known(u)}))
  BY DEF CheckKnown
<1> DEFINE S == {u \in pages : ~Known(u)}
<1>3. S \in SUBSET Urls /\ IsFiniteSet(S)
  <2>1. S \in SUBSET Urls
    BY SizesAssumption DEF Downloaded
  <2> QED  BY <2>1, SizesAssumption, FS_Subset
<1>4. \A u \in S : Kept(u) = {}
  BY DEF Known, Kept
<1>5. PICK s \in Seq(S) : s = SetToSeq(S) /\ \A i, j \in 1 .. Len(s) : s[i] = s[j] => i = j
  <2> HIDE DEF S
  <2> QED  BY <1>3, SetToSeqIn
<1>6. \A i \in 1 .. Len(s) : s[i] \in S
  BY <1>5, ElementOfSeq
<1>7. s \in Seq(Urls)
  BY <1>3, <1>5, <1>6
<1>8. \A u : Kept(u)' = Kept(u)
  BY <1>1 DEF Kept, Replays, At, Of
<1>9. PlayOk'
  <2>1. play' = Go(s)
    BY <1>2, <1>5
  <2>2. \A i \in 1 .. Len(s) : Kept(s[i])' = {}
    BY <1>4, <1>6, <1>8
  <2> QED  BY <1>5, <1>7, <2>1, <2>2, GoOk
<1>10. KeptOnce'
  BY <1>8 DEF ReplayInv, KeptOnce
<1>11. PICK stale \in SUBSET windows :
         /\ windows' = windows \ stale
         /\ orphans' = orphans \union {w.from + 1 : w \in stale}
  <2>1. PICK since : LET old == {w \in windows : w.from < since}
                     IN  windows' = windows \ old /\ orphans' = orphans \union {w.from + 1 : w \in old}
    BY DEF CheckKnown
  <2> QED  BY <2>1
<1>12. BrowserOk' /\ WindowsOk' /\ Accounted'
  BY <1>1, <1>11, SweptAccounted
<1> QED  BY <1>9, <1>10, <1>12 DEF ReplayInv

LEMMA SkipUrlReplay ==
  ASSUME ReplayInv, SkipUrl
  PROVE  ReplayInv'
<1>1. /\ UNCHANGED <<hist, events, live, windows, orphans>>
      /\ play.at = "add" /\ play' \in {Go(Tail(play.todo)), NoReplay}
  BY DEF SkipUrl, browser, capture, ghosts
<1>2. /\ play.todo \in Seq(Urls) /\ play.todo # << >>
      /\ \A i, j \in 1 .. Len(play.todo) : play.todo[i] = play.todo[j] => i = j
      /\ \A i \in 1 .. Len(play.todo) : Kept(play.todo[i]) = {}
  BY <1>1 DEF ReplayInv, PlayOk
<1>3. \A u : Kept(u)' = Kept(u)
  BY <1>1 DEF Kept, Replays, At, Of
<1>4. PICK s \in Seq(Urls) :
        /\ s = Tail(play.todo) /\ Len(play.todo) \in Nat
        /\ \A i \in 1 .. Len(s) : s[i] = play.todo[i + 1] /\ i + 1 \in 2 .. Len(play.todo)
  BY <1>2, TailFacts
<1>5. \A i, j \in 1 .. Len(s) : s[i] = s[j] => i = j
  BY <1>2, <1>4
<1>6. \A i \in 1 .. Len(s) : Kept(s[i])' = {}
  <2> SUFFICES ASSUME NEW i \in 1 .. Len(s) PROVE Kept(s[i]) = {}
    BY <1>3
  <2>1. i + 1 \in 1 .. Len(play.todo) /\ s[i] = play.todo[i + 1]
    BY <1>4
  <2> QED  BY <1>2, <2>1
<1>7. CASE play' = Go(s)
  BY <1>1, <1>4, <1>5, <1>6, <1>7, GoOk, PlayOnly
<1>8. CASE play' = NoReplay
  <2>1. play' = Go(<< >>) /\ << >> \in Seq(Urls) /\ Len(<< >>) = 0
    BY <1>8 DEF Go
  <2>2. \A i \in 1 .. Len(<< >>) : FALSE
    BY <2>1
  <2>3. PlayOk'
    BY <2>1, <2>2, GoOk
  <2> QED  BY <1>1, <2>3, PlayOnly
<1> QED  BY <1>1, <1>4, <1>7, <1>8

LEMMA AddUrlReplay ==
  ASSUME ReplayInv, AddUrl
  PROVE  ReplayInv'
<1>1. BrowserOk /\ WindowsOk /\ KeptOnce /\ PlayOk /\ Accounted
  BY DEF ReplayInv
<1>2. /\ play.todo \in Seq(Urls) /\ play.todo # << >>
      /\ \A i, j \in 1 .. Len(play.todo) : play.todo[i] = play.todo[j] => i = j
      /\ \A i \in 1 .. Len(play.todo) : Kept(play.todo[i]) = {}
  BY <1>1 DEF AddUrl, PlayOk
<1>3. PICK u \in Urls : u = Head(play.todo) /\ u = play.todo[1] /\ 1 \in 1 .. Len(play.todo)
                        /\ Len(play.todo) \in Nat
  BY <1>2, TailFacts
<1> DEFINE new == [url |-> u, from |-> Now - 1, to |-> Soon]
<1>4. /\ hist' = Visit(u, "replay") /\ events' = events \union {Now}
      /\ windows' = windows \union {new} /\ play' = [play EXCEPT !.at = "return"]
      /\ UNCHANGED <<live, orphans>> /\ Now <= MaxTime
  BY <1>3 DEF AddUrl, capture, ghosts
<1>5. /\ hist' \in Seq(VisitRecord)
      /\ DOMAIN hist' = DOMAIN hist \union {Now} /\ Now \notin DOMAIN hist
      /\ \A t \in DOMAIN hist : hist'[t] = hist[t]
      /\ hist'[Now] = [url |-> u, kind |-> "replay", gone |-> FALSE]
  BY <1>1, <1>4, VisitFacts DEF BrowserOk
<1>6. /\ Now \in Nat /\ Now - 1 \in Nat /\ Now <= Soon /\ Soon \in Nat
      /\ new \in WindowRecord /\ new.from + 1 = Now
  <2>1. Len(hist) \in Nat /\ MaxTime \in Nat
    BY <1>1, FiniteTimes, SizesAssumption DEF BrowserOk
  <2>2. Now \in Nat /\ Now - 1 \in Nat /\ Now <= Soon /\ Soon \in Nat /\ Now - 1 + 1 = Now
    BY <1>4, <2>1 DEF Now, Soon
  <2> QED  BY <2>2 DEF WindowRecord
<1> HIDE DEF new
<1>7. BrowserOk'
  BY <1>1, <1>4, <1>5 DEF BrowserOk
<1>8. WindowsOk'
  <2>1. \A w \in windows : w.from + 1 \in DOMAIN hist /\ w.from \in Nat
    BY <1>1 DEF WindowsOk, WindowRecord
  <2>2. new.url = u /\ new.to = Soon /\ new.from \in Nat
    BY <1>6 DEF new
  <2>3. ASSUME NEW w \in windows'
        PROVE  /\ w \in WindowRecord
               /\ w.from + 1 \in DOMAIN hist' /\ w.from + 1 <= w.to
               /\ hist'[w.from + 1].kind = "replay" /\ hist'[w.from + 1].url = w.url
               /\ w.from + 1 \notin orphans'
    <3>1. CASE w \in windows
      BY <1>1, <1>4, <1>5, <3>1 DEF WindowsOk
    <3>2. CASE w = new
      BY <1>1, <1>4, <1>5, <1>6, <2>2, <3>2 DEF BrowserOk
    <3> QED  BY <1>4, <3>1, <3>2
  <2>4. ASSUME NEW v \in windows', NEW w \in windows', v.from = w.from PROVE v = w
    <3>1. CASE v \in windows /\ w \in windows
      BY <1>1, <2>4, <3>1 DEF WindowsOk
    <3>2. CASE v = new /\ w \in windows
      BY <1>5, <1>6, <2>1, <2>4, <3>2
    <3>3. CASE v \in windows /\ w = new
      BY <1>5, <1>6, <2>1, <2>4, <3>3
    <3> QED  BY <1>4, <3>1, <3>2, <3>3
  <2> QED  BY <2>3, <2>4 DEF WindowsOk
<1>9. /\ \A v : v # u => Kept(v)' = Kept(v)
      /\ Kept(u)' = {Now}
  <2>1. \A v : v # u => Kept(v)' = Kept(v)
    BY <1>5 DEF Kept, Replays, At, Of
  <2>2. Kept(u) = {}
    BY <1>2, <1>3
  <2>3. Kept(u)' = Kept(u) \union {Now}
    BY <1>5 DEF Kept, Replays, At, Of
  <2> QED  BY <2>1, <2>2, <2>3
<1>10. KeptOnce'
  BY <1>1, <1>9 DEF KeptOnce
<1>11. PlayOk'
  <2>1. /\ play'.at = "return" /\ play'.todo = play.todo
        /\ play' \in [at : {"idle", "check", "add", "return"}, todo : Seq(Urls)]
    BY <1>1, <1>4 DEF PlayOk
  <2>2. ASSUME NEW i \in 2 .. Len(play.todo) PROVE Kept(play.todo[i])' = {}
    <3>1. i \in 1 .. Len(play.todo) /\ i # 1
      BY <1>3
    <3>2. PICK v : v = play.todo[i]
      OBVIOUS
    <3>3. v # u /\ Kept(v) = {}
      BY <1>2, <1>3, <3>1, <3>2
    <3>4. Kept(v)' = {}
      BY <1>9, <3>3
    <3> QED  BY <2>1, <3>2, <3>4 DEF Kept, Replays, At, Of
  <2> QED  BY <1>1, <1>2, <2>1, <2>2 DEF PlayOk
<1>12. Accounted'
  <2>1. \A v : Leaked(v)' = Leaked(v)
    BY <1>1, <1>4, <1>5 DEF Leaked, Replays, Of, BrowserOk
  <2>2. \A v : Bereft(v)' = Bereft(v)
    <3>1. \A t \in DOMAIN hist : t # Now
      BY <1>5
    <3> QED  BY <1>1, <1>4, <1>5, <1>6, <3>1 DEF Bereft, BrowserOk
  <2>3. \A v : Of(v, orphans)' = Of(v, orphans)
    BY <1>1, <1>4, <1>5 DEF Of, BrowserOk
  <2> QED  BY <1>1, <2>1, <2>2, <2>3 DEF Accounted
<1> QED  BY <1>7, <1>8, <1>10, <1>11, <1>12 DEF ReplayInv

LEMMA ReturnAddReplay ==
  ASSUME ReplayInv, ReturnAdd
  PROVE  ReplayInv'
<1>1. BrowserOk /\ WindowsOk /\ KeptOnce /\ PlayOk /\ Accounted
  BY DEF ReplayInv
<1> DEFINE Ended(w) == IF w.to = Soon THEN [w EXCEPT !.to = Now] ELSE w
<1>2. /\ windows' = {Ended(w) : w \in windows} /\ play' = Go(Tail(play.todo)) /\ play.at = "return"
      /\ UNCHANGED <<hist, events, live, orphans>>
  BY DEF ReturnAdd, browser, capture, ghosts
<1>3. \A w \in windows : /\ Ended(w) \in WindowRecord /\ Ended(w).from = w.from /\ Ended(w).url = w.url
                         /\ w.from + 1 <= Ended(w).to
  <2>1. Len(hist) \in Nat /\ DOMAIN hist = 1 .. Len(hist) /\ Now = Len(hist) + 1
    BY <1>1, FiniteTimes DEF BrowserOk, Now
  <2>2. \A w \in windows : w \in WindowRecord /\ w.from + 1 \in DOMAIN hist /\ w.from + 1 <= w.to
    BY <1>1 DEF WindowsOk
  <2> QED  BY <2>1, <2>2 DEF WindowRecord
<1> HIDE DEF Ended
<1>4. WindowsOk'
  <2>1. \A w \in windows : /\ w.from + 1 \in DOMAIN hist
                           /\ hist[w.from + 1].kind = "replay" /\ hist[w.from + 1].url = w.url
                           /\ w.from + 1 \notin orphans
    BY <1>1 DEF WindowsOk
  <2>2. \A v, w \in windows : v.from = w.from => v = w
    BY <1>1 DEF WindowsOk
  <2> QED  BY <1>2, <1>3, <2>1, <2>2 DEF WindowsOk
<1>5. \A u : Kept(u)' = Kept(u) /\ Leaked(u)' = Leaked(u)
  BY <1>2 DEF Kept, Replays, At, Leaked, Of
<1>6. \A u : Of(u, orphans)' = Of(u, orphans)
  BY <1>2 DEF Of
<1>7. \A u : Bereft(u)' = Bereft(u)
  BY <1>2, <1>3 DEF Bereft
<1>8. PlayOk'
  <2>1. /\ play.todo \in Seq(Urls) /\ play.todo # << >>
        /\ \A i, j \in 1 .. Len(play.todo) : play.todo[i] = play.todo[j] => i = j
        /\ \A i \in 2 .. Len(play.todo) : Kept(play.todo[i]) = {}
    BY <1>1, <1>2 DEF PlayOk
  <2>2. PICK s \in Seq(Urls) :
          /\ s = Tail(play.todo) /\ Len(play.todo) \in Nat
          /\ \A i \in 1 .. Len(s) : s[i] = play.todo[i + 1] /\ i + 1 \in 2 .. Len(play.todo)
    BY <2>1, TailFacts
  <2>3. \A i, j \in 1 .. Len(s) : s[i] = s[j] => i = j
    BY <2>1, <2>2
  <2>4. \A i \in 1 .. Len(s) : Kept(s[i])' = {}
    <3> SUFFICES ASSUME NEW i \in 1 .. Len(s) PROVE Kept(s[i]) = {}
      BY <1>5
    <3> QED  BY <2>1, <2>2
  <2> QED  BY <1>2, <2>2, <2>3, <2>4, GoOk
<1>9. BrowserOk' /\ KeptOnce' /\ Accounted'
  BY <1>1, <1>2, <1>5, <1>6, <1>7 DEF BrowserOk, KeptOnce, Accounted
<1> QED  BY <1>4, <1>8, <1>9 DEF ReplayInv

\* What one more element, or one in the place of another, does to a count.
LEMMA OneMore ==
  ASSUME NEW A, IsFiniteSet(A), NEW x, NEW B \in SUBSET (A \union {x})
  PROVE  /\ IsFiniteSet(B) /\ Cardinality(A) \in Nat /\ Cardinality(B) \in Nat
         /\ Cardinality(B) <= Cardinality(A) + 1
         /\ \A y \in A : (B \subseteq (A \ {y}) \union {x}) => Cardinality(B) <= Cardinality(A)
<1>1. Cardinality(A) \in Nat
  BY FS_CardinalityType
<1>2. IsFiniteSet(A \union {x}) /\ Cardinality(A \union {x}) <= Cardinality(A) + 1
  <2>1. IsFiniteSet(A \union {x})
        /\ Cardinality(A \union {x}) = IF x \in A THEN Cardinality(A) ELSE Cardinality(A) + 1
    BY FS_AddElement
  <2> QED  BY <1>1, <2>1
<1>3. IsFiniteSet(B) /\ Cardinality(B) <= Cardinality(A \union {x})
  BY <1>2, FS_Subset
<1>4. Cardinality(B) \in Nat /\ Cardinality(A \union {x}) \in Nat
  BY <1>2, <1>3, FS_CardinalityType
<1>5. ASSUME NEW y \in A, B \subseteq (A \ {y}) \union {x}
      PROVE  Cardinality(B) <= Cardinality(A)
  <2>1. IsFiniteSet(A \ {y}) /\ Cardinality(A \ {y}) = Cardinality(A) - 1
    BY FS_RemoveElement
  <2>2. Cardinality(A \ {y}) \in Nat
    BY <2>1, FS_CardinalityType
  <2>3. IsFiniteSet((A \ {y}) \union {x}) /\ Cardinality((A \ {y}) \union {x}) <= Cardinality(A \ {y}) + 1
    <3>1. IsFiniteSet((A \ {y}) \union {x})
          /\ Cardinality((A \ {y}) \union {x})
               = IF x \in A \ {y} THEN Cardinality(A \ {y}) ELSE Cardinality(A \ {y}) + 1
      BY <2>1, FS_AddElement
    <3> QED  BY <2>2, <3>1
  <2>4. Cardinality(B) <= Cardinality((A \ {y}) \union {x}) /\ Cardinality((A \ {y}) \union {x}) \in Nat
    BY <1>5, <2>3, FS_Subset, FS_CardinalityType
  <2> QED  BY <1>1, <1>4, <2>1, <2>3, <2>4
<1> QED  BY <1>1, <1>2, <1>3, <1>4, <1>5

\* The first event on its way, and the one window it takes: its own, if that
\* is there, or an older one.
LEMMA TakenFacts ==
  ASSUME ReplayInv, events # {}
  PROVE  \E t \in events :
           /\ t = Min(events) /\ t \in DOMAIN hist /\ \A s \in events : t <= s
           /\ \A v, w \in Taken(t) : v = w
           /\ \A w \in Taken(t) : w \in windows /\ w.url = hist[t].url
           /\ \A x \in windows : x.from + 1 = t =>
                /\ Taken(t) # {}
                /\ \A w \in Taken(t) : w.from + 1 <= t
<1>1. BrowserOk /\ WindowsOk
  BY DEF ReplayInv
<1>2. DOMAIN hist \in SUBSET Nat
  BY <1>1, FiniteTimes DEF BrowserOk
<1>3. events \in SUBSET Nat
  BY <1>1, <1>2 DEF BrowserOk
<1>4. PICK t \in events : t = Min(events) /\ \A s \in events : t <= s
  BY <1>3, LeastNumber DEF Min
<1>5. t \in DOMAIN hist /\ t \in Nat
  BY <1>1, <1>2 DEF BrowserOk
<1>6. \A w \in windows : w.from \in Nat
  BY <1>1 DEF WindowsOk, WindowRecord
<1>7. \A w \in Taken(t) : w \in windows /\ w.url = hist[t].url
  BY DEF Taken, Echoes
<1>8. ASSUME NEW v \in Taken(t), NEW w \in Taken(t) PROVE v = w
  <2>1. v.from <= w.from /\ w.from <= v.from
    BY DEF Taken
  <2>2. v.from = w.from
    BY <1>6, <1>7, <2>1
  <2> QED  BY <1>1, <1>7, <2>2 DEF WindowsOk
<1>9. ASSUME NEW x \in windows, x.from + 1 = t
      PROVE  Taken(t) # {} /\ \A w \in Taken(t) : w.from + 1 <= t
  <2>1. x \in Echoes(t)
    BY <1>1, <1>5, <1>6, <1>9 DEF Echoes, WindowsOk
  <2> DEFINE starts == {w.from : w \in Echoes(t)}
  <2>2. starts \in SUBSET Nat /\ starts # {}
    BY <1>6, <2>1 DEF Echoes
  <2>3. PICK f \in starts : \A g \in starts : f <= g
    <3> HIDE DEF starts
    <3> QED  BY <2>2, LeastNumber
  <2>4. PICK w \in Echoes(t) : w.from = f
    BY <2>3
  <2>5. w \in Taken(t)
    BY <2>3, <2>4 DEF Taken
  <2>6. \A y \in Taken(t) : y.from <= x.from
    BY <2>1 DEF Taken
  <2> QED  BY <1>5, <1>6, <1>7, <1>9, <2>5, <2>6
<1> QED  BY <1>4, <1>5, <1>7, <1>8, <1>9

\* An event is heard.  The echo takes its own window, or an older one of the
\* same page, whose echo has then been heard or takes its place among the
\* bereft; a visit of the user takes one that the orphans then account for; an
\* echo that finds none was bereft, and leaks.
LEMMA HearReplay ==
  ASSUME ReplayInv, Hear
  PROVE  ReplayInv'
<1>1. BrowserOk /\ WindowsOk /\ KeptOnce /\ PlayOk /\ Accounted
  BY DEF ReplayInv
<1>2. PICK t \in events :
        /\ t = Min(events) /\ t \in DOMAIN hist /\ \A s \in events : t <= s
        /\ \A v, w \in Taken(t) : v = w
        /\ \A w \in Taken(t) : w \in windows /\ w.url = hist[t].url
        /\ \A x \in windows : x.from + 1 = t =>
             /\ Taken(t) # {}
             /\ \A w \in Taken(t) : w.from + 1 <= t
  BY TakenFacts DEF Hear
<1>3. PICK T : T = Taken(t)
  OBVIOUS
<1>4. /\ events' = events \ {t} /\ windows' = windows \ T
      /\ live' = live \/ (T = {} /\ live' = live \union {t})
      /\ orphans' = IF hist[t].kind = "user" THEN orphans \union {w.from + 1 : w \in T} ELSE orphans
      /\ UNCHANGED <<hist, play>>
  BY <1>2, <1>3 DEF Hear
<1>5. \A w \in T : /\ w \in windows /\ w.from \in Nat /\ w.from + 1 \in DOMAIN hist
                   /\ hist[w.from + 1].kind = "replay" /\ hist[w.from + 1].url = hist[t].url
                   /\ w.from + 1 \notin orphans
  BY <1>1, <1>2, <1>3 DEF WindowsOk, WindowRecord
<1>6. BrowserOk'
  BY <1>1, <1>2, <1>4, <1>5 DEF BrowserOk
<1>7. WindowsOk'
  <2>1. \A w \in windows' : w \in windows /\ w \notin T
    BY <1>4
  <2>2. \A w \in windows', x \in T : w.from + 1 # x.from + 1
    BY <1>1, <1>5, <2>1 DEF WindowsOk, WindowRecord
  <2>3. \A w \in windows' : w.from + 1 \notin orphans'
    BY <1>1, <1>4, <2>1, <2>2 DEF WindowsOk
  <2> QED  BY <1>1, <1>4, <2>1, <2>3 DEF WindowsOk
<1>8. KeptOnce' /\ PlayOk'
  <2>1. \A u : Kept(u)' = Kept(u)
    BY <1>4 DEF Kept, Replays, At, Of
  <2> QED  BY <1>1, <1>4, <2>1 DEF KeptOnce, PlayOk
<1>9. Accounted'
  <2> SUFFICES ASSUME NEW u \in Urls
               PROVE  (Cardinality(Leaked(u)) + Cardinality(Bereft(u)) <= Cardinality(Of(u, orphans)))'
    BY DEF Accounted
  <2> DEFINE L == Leaked(u)
             B == Bereft(u)
             O == Of(u, orphans)
  <2>1. /\ IsFiniteSet(L) /\ Cardinality(L) \in Nat /\ IsFiniteSet(B) /\ Cardinality(B) \in Nat
        /\ IsFiniteSet(O) /\ Cardinality(O) \in Nat /\ Cardinality(L) + Cardinality(B) <= Cardinality(O)
    BY <1>1, Countable DEF Accounted
  <2>2. Cardinality(L') \in Nat /\ Cardinality(B') \in Nat /\ Cardinality(O') \in Nat
    <3>1. Leaked(u)' \in SUBSET (DOMAIN hist) /\ Bereft(u)' \in SUBSET (DOMAIN hist)
          /\ Of(u, orphans)' \in SUBSET (DOMAIN hist)
      BY <1>4, <1>6 DEF BrowserOk, Leaked, Replays, Bereft, Of
    <3> QED  BY <1>1, <3>1, FiniteTimes DEF BrowserOk
  <2>3. CASE T = {} /\ t \in B
    <3>1. L' \subseteq L \union {t} /\ B' \subseteq B \ {t} /\ O' = O
      BY <1>4, <2>3 DEF Leaked, Replays, Bereft, Of
    <3>2. Cardinality(L') <= Cardinality(L) + 1
      <4> HIDE DEF L
      <4> QED  BY <2>1, <3>1, OneMore
    <3>3. Cardinality(B') <= Cardinality(B) - 1
      <4> HIDE DEF B
      <4>1. IsFiniteSet(B \ {t}) /\ Cardinality(B \ {t}) = Cardinality(B) - 1
        BY <2>1, <2>3, FS_RemoveElement
      <4> QED  BY <3>1, <4>1, FS_Subset
    <3> HIDE DEF L, B, O
    <3>4. Cardinality(O') = Cardinality(O)
      BY <3>1
    <3>5. Cardinality(L') + Cardinality(B') <= Cardinality(O')
      BY <2>1, <2>2, <3>2, <3>3, <3>4
    <3> QED  BY <3>5 DEF L, B, O
  <2>4. CASE T = {} /\ t \notin B
    <3>1. \A x \in windows : x.from + 1 # t
      BY <1>2, <1>3, <2>4
    <3>2. ~(hist[t].kind = "replay" /\ hist[t].url = u)
      BY <1>2, <2>4, <3>1 DEF Bereft
    <3>3. L' = L /\ B' = B /\ O' = O
      BY <1>4, <2>4, <3>2 DEF Leaked, Replays, Bereft, Of
    <3> QED  BY <2>1, <3>3
  <2>5. CASE T # {}
    <3>1. PICK w \in T : TRUE
      BY <2>5
    <3>2. T = {w}
      BY <1>2, <1>3, <3>1
    <3> DEFINE o == w.from + 1
    <3>3. /\ o \in DOMAIN hist /\ hist[o].kind = "replay" /\ hist[o].url = hist[t].url /\ o \notin orphans
          /\ \A x \in windows : x.from + 1 = o => x = w
          /\ \A x \in windows : x.from + 1 = t => o <= t
      BY <1>1, <1>2, <1>3, <1>5, <3>1 DEF WindowsOk, WindowRecord
    <3>4. L' = L /\ windows' = windows \ {w}
      BY <1>4, <2>5, <3>2 DEF Leaked, Replays, Of
    <3>5. CASE hist[t].url # u
      <4>1. B' = B /\ O' = O
        BY <1>4, <3>2, <3>3, <3>4, <3>5 DEF Bereft, Of
      <4> QED  BY <2>1, <3>4, <4>1
    <3>6. CASE hist[t].url = u /\ hist[t].kind = "user"
      <4>1. B' \subseteq B \union {o} /\ O' = O \union {o} /\ o \notin O
        BY <1>4, <3>2, <3>3, <3>4, <3>6 DEF Bereft, Of
      <4> HIDE DEF L, B, O, o
      <4>2. Cardinality(B') <= Cardinality(B) + 1
        BY <2>1, <4>1, OneMore
      <4>3. Cardinality(O') = Cardinality(O) + 1
        BY <2>1, <4>1, FS_AddElement
      <4>4. Cardinality(L') = Cardinality(L)
        BY <3>4
      <4>5. Cardinality(L') + Cardinality(B') <= Cardinality(O')
        BY <2>1, <2>2, <4>2, <4>3, <4>4
      <4> QED  BY <4>5 DEF L, B, O
    <3>7. CASE hist[t].url = u /\ hist[t].kind = "replay"
      <4>1. O' = O
        BY <1>4, <3>7 DEF Of
      <4>2. Cardinality(B') <= Cardinality(B)
        <5>1. CASE t \in B
          <6>1. B' \subseteq (B \ {t}) \union {o} /\ B' \subseteq B \union {o}
            BY <1>4, <3>3, <3>4 DEF Bereft
          <6> HIDE DEF B, o
          <6> QED  BY <2>1, <5>1, <6>1, OneMore
        <5>2. CASE t \notin B
          <6>1. PICK x \in windows : x.from + 1 = t
            BY <1>2, <3>7, <5>2 DEF Bereft
          <6>2. o <= t
            BY <3>3, <6>1
          <6>3. o \in Nat /\ t \in Nat
            BY <1>1, <1>2, <3>3, FiniteTimes DEF BrowserOk
          <6>4. o \notin events \ {t}
            BY <1>2, <6>2, <6>3
          <6> HIDE DEF o
          <6>5. \A s \in events' : (\A y \in windows' : y.from + 1 # s) => \A y \in windows : y.from + 1 # s
            BY <1>4, <3>4, <6>4 DEF o
          <6>6. B' \subseteq B
            BY <1>4, <6>5 DEF Bereft
          <6> HIDE DEF B
          <6> QED  BY <2>1, <6>6, FS_Subset
        <5> QED  BY <5>1, <5>2
      <4> HIDE DEF L, B, O
      <4>3. Cardinality(L') = Cardinality(L) /\ Cardinality(O') = Cardinality(O)
        BY <3>4, <4>1
      <4>4. Cardinality(L') + Cardinality(B') <= Cardinality(O')
        BY <2>1, <2>2, <4>2, <4>3
      <4> QED  BY <4>4 DEF L, B, O
    <3>8. hist[t].kind \in {"user", "replay"}
      <4>1. hist[t] \in VisitRecord /\ hist[t].kind # "frame"
        BY <1>1, <1>2 DEF BrowserOk
      <4> QED  BY <4>1 DEF VisitRecord
    <3> QED  BY <3>5, <3>6, <3>7, <3>8
  <2> QED  BY <2>3, <2>4, <2>5
<1> QED  BY <1>6, <1>7, <1>8, <1>9 DEF ReplayInv

\* The worker stops: every echo on its way is bereft, and an orphan.
LEMMA StopReplay ==
  ASSUME ReplayInv, StopWorker
  PROVE  ReplayInv'
<1>1. BrowserOk /\ WindowsOk /\ KeptOnce /\ PlayOk /\ Accounted
  BY DEF ReplayInv
<1>2. /\ windows' = {} /\ play' = NoReplay /\ UNCHANGED <<hist, events, live>>
      /\ orphans' = orphans \union {t \in events : hist[t].kind = "replay"}
  BY DEF StopWorker, browser
<1>3. BrowserOk' /\ WindowsOk'
  BY <1>1, <1>2 DEF BrowserOk, WindowsOk
<1>4. KeptOnce'
  BY <1>1, <1>2 DEF KeptOnce, Kept, Replays, At, Of
<1>5. PlayOk'
  <2>1. play' = Go(<< >>) /\ << >> \in Seq(Urls) /\ Len(<< >>) = 0
    BY <1>2 DEF Go
  <2>2. \A i \in 1 .. Len(<< >>) : FALSE
    BY <2>1
  <2> QED  BY <2>1, <2>2, GoOk
<1>6. Accounted'
  <2> SUFFICES ASSUME NEW u \in Urls
               PROVE  (Cardinality(Leaked(u)) + Cardinality(Bereft(u)) <= Cardinality(Of(u, orphans)))'
    BY DEF Accounted
  <2> DEFINE L == Leaked(u)
             B == Bereft(u)
             O == Of(u, orphans)
             P == {t \in events : hist[t].kind = "replay" /\ hist[t].url = u}
  <2>1. /\ IsFiniteSet(L) /\ Cardinality(L) \in Nat /\ IsFiniteSet(B) /\ Cardinality(B) \in Nat
        /\ IsFiniteSet(O) /\ Cardinality(O) \in Nat /\ Cardinality(L) + Cardinality(B) <= Cardinality(O)
    BY <1>1, Countable DEF Accounted
  <2>2. IsFiniteSet(P) /\ Cardinality(P) \in Nat
    <3>1. P \in SUBSET (DOMAIN hist)
      BY <1>1 DEF BrowserOk
    <3> HIDE DEF P
    <3> QED  BY <1>1, <3>1, FiniteTimes DEF BrowserOk
  <2>3. L' = L /\ B' = P /\ O' = O \union P
    BY <1>2 DEF Leaked, Replays, Bereft, Of
  <2>4. B \subseteq P /\ O \cap (P \ B) = {}
    BY <1>1 DEF Bereft, Of, WindowsOk
  <2>5. PICK new : new = P \ B
    OBVIOUS
  <2> HIDE DEF L, B, O, P
  <2>6. IsFiniteSet(new) /\ Cardinality(new) \in Nat
    BY <2>2, <2>5, FS_Subset, FS_CardinalityType
  <2>7. P = B \union new /\ B \cap new = {} /\ O \cap new = {} /\ O \union new \subseteq O \union P
    BY <2>4, <2>5
  <2>8. Cardinality(P) = Cardinality(B) + Cardinality(new)
    <3>1. Cardinality(B \union new) = Cardinality(B) + Cardinality(new) - Cardinality(B \cap new)
      BY <2>1, <2>6, FS_Union
    <3>2. Cardinality(B \cap new) = 0
      BY <2>7, FS_EmptySet
    <3>3. Cardinality(P) = Cardinality(B \union new)
      BY <2>7
    <3> QED  BY <2>1, <2>6, <3>1, <3>2, <3>3
  <2>9. IsFiniteSet(O \union new) /\ Cardinality(O \union new) = Cardinality(O) + Cardinality(new)
    <3>1. IsFiniteSet(O \union new)
          /\ Cardinality(O \union new) = Cardinality(O) + Cardinality(new) - Cardinality(O \cap new)
      BY <2>1, <2>6, FS_Union
    <3>2. Cardinality(O \cap new) = 0
      BY <2>7, FS_EmptySet
    <3> QED  BY <2>1, <2>6, <3>1, <3>2
  <2>10. IsFiniteSet(O \union P)
    BY <2>1, <2>2, FS_Union
  <2>11. Cardinality(O \union new) <= Cardinality(O \union P) /\ Cardinality(O \union P) \in Nat
    BY <2>7, <2>10, FS_Subset, FS_CardinalityType
  <2>12. Cardinality(L) + Cardinality(P) <= Cardinality(O \union P)
    BY <2>1, <2>6, <2>8, <2>9, <2>11
  <2>13. Cardinality(L') + Cardinality(B') <= Cardinality(O')
    BY <2>3, <2>12
  <2> QED  BY <2>13 DEF L, B, O
<1> QED  BY <1>3, <1>4, <1>5, <1>6 DEF ReplayInv

\* The startup, the import and the boundary leave the replay alone.
LEMMA ReplayStep ==
  ASSUME ReplayInv, [Next]_vars
  PROVE  ReplayInv'
<1>1. ASSUME UNCHANGED <<hist, events, live, windows, orphans, play>> PROVE ReplayInv'
  BY <1>1, PlayOnly
<1>2. CASE \E u \in Urls : UserVisit(u) \/ DeletePage(u)
  BY <1>2, UserVisitReplay, DeletePageReplay
<1>3. CASE Hear
  BY <1>3, HearReplay
<1>4. CASE Startup \/ PutBoundary("replay")
  BY <1>1, <1>4 DEF Startup, ReadBoundary, PutBoundary, StartupDone, browser, capture, ghosts
<1>5. CASE Search \/ Resolve \/ Upload
  BY <1>1, <1>5 DEF Search, Resolve, Upload, browser, capture, ghosts
<1>6. CASE Checkpoint \/ Finish \/ Stamp \/ SkipInitial
  BY <1>1, <1>6 DEF Checkpoint, Finish, Stamp, SkipInitial, browser, capture, ghosts
<1>7. CASE \E c \in Cutoffs : BeginInitial(c) \/ BeginOlder(c)
  BY <1>1, <1>7 DEF BeginInitial, BeginOlder, browser, capture, ghosts
<1>8. CASE BeginReplay \/ CheckKnown \/ AddUrl \/ ReturnAdd \/ SkipUrl
  BY <1>8, BeginReplayReplay, CheckKnownReplay, AddUrlReplay, ReturnAddReplay, SkipUrlReplay
<1>9. CASE Crash \/ Restart
  BY <1>9, StopReplay DEF Crash, Restart
<1>10. CASE UNCHANGED vars
  BY <1>1, <1>10 DEF vars, browser, capture, ghosts
<1> QED  BY <1>2, <1>3, <1>4, <1>5, <1>6, <1>7, <1>8, <1>9, <1>10 DEF Next, Import

--------------------------------------------------------------------------------
(***************************************************************************)
(* The import and the boundary.                                            *)
(***************************************************************************)
\* A step that leaves the import and the boundary alone.
LEMMA ImportKept ==
  ASSUME ImportInv, UNCHANGED <<dev, imp, bulk, setters, moved>>,
         hist \in Seq(VisitRecord), hist' \in Seq(VisitRecord), Len(hist) <= Len(hist'),
         ~moved => /\ Bounded' => dev.end # Never
                   /\ \A t \in DOMAIN hist' : hist'[t].kind = "replay" => dev.end # Never /\ dev.end <= t
                   /\ \A t \in live' \ early' : dev.end # Never /\ dev.end <= t
  PROVE  ImportInv'
<1>1. Now \in Nat /\ Now' \in Nat /\ Now <= Now'
  BY DEF Now
<1>2. RecordOk(dev)'
  BY <1>1 DEF ImportInv, RecordOk
<1>3. ImportOk'
  BY DEF ImportInv, ImportOk
<1>4. SettersOk'
  <2>1. SettersOk
    BY DEF ImportInv
  <2>2. \A p \in DOMAIN setters : setters[p].end \in Nat /\ setters[p].end <= Now'
    BY <1>1, <2>1 DEF SettersOk, RecordOk
  <2> QED  BY <2>1, <2>2 DEF SettersOk, RecordOk, Within
<1>5. \A c \in Cutoffs : c <= Now'
  BY <1>1, SizesAssumption DEF ImportInv
<1>6. (~moved => BoundaryOk)'
  BY DEF ImportInv, BoundaryOk, Within
<1> QED  BY <1>2, <1>3, <1>4, <1>5, <1>6 DEF ImportInv

LEMMA BrowserImport ==
  ASSUME HistoryInv, NEW u \in Urls, UserVisit(u) \/ DeletePage(u)
  PROVE  ImportInv'
<1>1. ImportInv /\ BrowserOk
  BY DEF HistoryInv, ReplayInv
<1>2. CASE UserVisit(u)
  <2>1. hist' = Visit(u, "user") /\ UNCHANGED <<live, early, started, play, dev, imp, bulk, setters, moved>>
    BY <1>2 DEF UserVisit, capture, ghosts
  <2>2. /\ hist' \in Seq(VisitRecord) /\ Len(hist') = Len(hist) + 1
        /\ DOMAIN hist' = DOMAIN hist \union {Now} /\ Now \notin DOMAIN hist
        /\ \A t \in DOMAIN hist : hist'[t] = hist[t]
        /\ hist'[Now] = [url |-> u, kind |-> "user", gone |-> FALSE]
    BY <1>1, <2>1, VisitFacts DEF BrowserOk
  <2>3. hist \in Seq(VisitRecord) /\ Len(hist) <= Len(hist')
    BY <1>1, <2>2 DEF BrowserOk
  <2>4. ~moved => /\ Bounded' => dev.end # Never
                  /\ \A t \in DOMAIN hist' : hist'[t].kind = "replay" => dev.end # Never /\ dev.end <= t
                  /\ \A t \in live' \ early' : dev.end # Never /\ dev.end <= t
    BY <1>1, <2>1, <2>2 DEF ImportInv, BoundaryOk, Bounded
  <2> QED  BY <1>1, <2>1, <2>2, <2>3, <2>4, ImportKept
<1>3. CASE DeletePage(u)
  <2>1. hist' = [t \in DOMAIN hist |-> IF hist[t].url = u THEN [hist[t] EXCEPT !.gone = TRUE] ELSE hist[t]]
        /\ UNCHANGED <<live, early, started, play, dev, imp, bulk, setters, moved>>
    BY <1>3 DEF DeletePage, capture
  <2>2. BrowserOk'
    BY <1>3, DeletePageReplay DEF HistoryInv, ReplayInv
  <2>3. DOMAIN hist' = DOMAIN hist /\ \A t \in DOMAIN hist : hist'[t].kind = hist[t].kind
    <3>1. \A t \in DOMAIN hist : hist[t] \in VisitRecord
      BY <1>1 DEF BrowserOk
    <3> QED  BY <2>1, <3>1 DEF VisitRecord
  <2>4. hist \in Seq(VisitRecord) /\ hist' \in Seq(VisitRecord)
    BY <1>1, <2>2 DEF BrowserOk
  <2>5. Len(hist') = Len(hist) /\ Len(hist) \in Nat
    BY <2>3, <2>4
  <2>6. ~moved => /\ Bounded' => dev.end # Never
                  /\ \A t \in DOMAIN hist' : hist'[t].kind = "replay" => dev.end # Never /\ dev.end <= t
                  /\ \A t \in live' \ early' : dev.end # Never /\ dev.end <= t
    BY <1>1, <2>1, <2>3 DEF ImportInv, BoundaryOk, Bounded
  <2> QED  BY <1>1, <2>1, <2>4, <2>5, <2>6, ImportKept
<1> QED  BY <1>2, <1>3

\* A visit is captured live when it is not before the boundary, or when there
\* is none yet.
LEMMA HearImport ==
  ASSUME HistoryInv, Hear
  PROVE  ImportInv'
<1>1. ImportInv /\ BrowserOk
  BY DEF HistoryInv, ReplayInv
<1>2. PICK t : /\ live' = live \/ (Fresh(t) /\ live' = live \union {t})
               /\ early' = IF t \in live' /\ dev.end = Never THEN early \union {t} ELSE early
  BY DEF Hear
<1>3. UNCHANGED <<hist, started, play, dev, imp, bulk, setters, moved>>
  BY DEF Hear
<1>4. hist \in Seq(VisitRecord) /\ Len(hist) \in Nat
  BY <1>1 DEF BrowserOk
<1>5. ASSUME ~moved
      PROVE  /\ Bounded' => dev.end # Never
             /\ \A s \in DOMAIN hist' : hist'[s].kind = "replay" => dev.end # Never /\ dev.end <= s
             /\ \A s \in live' \ early' : dev.end # Never /\ dev.end <= s
  <2>1. BoundaryOk
    BY <1>1, <1>5 DEF ImportInv
  <2>2. \A s \in live' \ early' : dev.end # Never /\ dev.end <= s
    <3> SUFFICES ASSUME NEW s \in live', s \notin early' PROVE dev.end # Never /\ dev.end <= s
      OBVIOUS
    <3>1. s \notin early /\ (s = t => dev.end # Never)
      BY <1>2
    <3>2. CASE s \in live
      BY <2>1, <3>1, <3>2 DEF BoundaryOk
    <3>3. CASE s \notin live
      <4>1. s = t /\ Fresh(t)
        BY <1>2, <3>3
      <4> QED  BY <3>1, <4>1, <1>1 DEF Fresh, ImportInv, RecordOk
    <3> QED  BY <3>2, <3>3
  <2> QED  BY <1>3, <2>1, <2>2 DEF BoundaryOk, Bounded
<1> QED  BY <1>1, <1>3, <1>4, <1>5, ImportKept

LEMMA StartupDoneImport ==
  ASSUME HistoryInv, StartupDone
  PROVE  ImportInv'
<1>1. ImportInv /\ BrowserOk
  BY DEF HistoryInv, ReplayInv
<1>2. UNCHANGED <<hist, live, early, play, dev, imp, bulk, setters, moved>>
  BY DEF StartupDone, browser, ghosts
<1>3. hist \in Seq(VisitRecord) /\ Len(hist) \in Nat
  BY <1>1 DEF BrowserOk
<1>4. ASSUME ~moved PROVE BoundaryOk /\ dev.end # Never
  BY <1>1, <1>4 DEF ImportInv, BoundaryOk, Bounded, StartupDone, NeedsBoundary
<1>5. ~moved => /\ Bounded' => dev.end # Never
                /\ \A t \in DOMAIN hist' : hist'[t].kind = "replay" => dev.end # Never /\ dev.end <= t
                /\ \A t \in live' \ early' : dev.end # Never /\ dev.end <= t
  BY <1>2, <1>4 DEF BoundaryOk
<1> QED  BY <1>1, <1>2, <1>3, <1>5, ImportKept

\* The steps of a replay, which come after the boundary.
LEMMA PlayImport ==
  ASSUME HistoryInv, CheckKnown \/ ReturnAdd \/ SkipUrl
  PROVE  ImportInv'
<1>1. ImportInv /\ BrowserOk
  BY DEF HistoryInv, ReplayInv
<1>2. UNCHANGED <<hist, live, early, dev, imp, bulk, setters, moved>>
  BY DEF CheckKnown, ReturnAdd, SkipUrl, browser, capture, ghosts
<1>3. hist \in Seq(VisitRecord) /\ Len(hist) \in Nat
  BY <1>1 DEF BrowserOk
<1>4. Bounded
  BY DEF Bounded, CheckKnown, ReturnAdd, SkipUrl
<1>5. ~moved => /\ Bounded' => dev.end # Never
                /\ \A t \in DOMAIN hist' : hist'[t].kind = "replay" => dev.end # Never /\ dev.end <= t
                /\ \A t \in live' \ early' : dev.end # Never /\ dev.end <= t
  BY <1>1, <1>2, <1>4 DEF ImportInv, BoundaryOk
<1> QED  BY <1>1, <1>2, <1>3, <1>5, ImportKept

\* A visit is replayed after the boundary.
LEMMA AddUrlImport ==
  ASSUME HistoryInv, AddUrl
  PROVE  ImportInv'
<1>1. ImportInv /\ BrowserOk /\ PlayOk
  BY DEF HistoryInv, ReplayInv
<1>2. PICK u \in Urls : u = Head(play.todo)
  BY <1>1, TailFacts DEF AddUrl, PlayOk
<1>3. /\ hist' = Visit(u, "replay")
      /\ UNCHANGED <<live, early, started, dev, imp, bulk, setters, moved>>
  BY <1>2 DEF AddUrl, capture, ghosts
<1>4. /\ hist' \in Seq(VisitRecord) /\ Len(hist') = Len(hist) + 1
      /\ DOMAIN hist' = DOMAIN hist \union {Now}
      /\ \A t \in DOMAIN hist : hist'[t] = hist[t]
  BY <1>1, <1>3, VisitFacts DEF BrowserOk
<1>5. hist \in Seq(VisitRecord) /\ Len(hist) <= Len(hist')
  BY <1>1, <1>4 DEF BrowserOk
<1>6. Bounded
  BY DEF Bounded, AddUrl
<1>7. ~moved => /\ Bounded' => dev.end # Never
                /\ \A t \in DOMAIN hist' : hist'[t].kind = "replay" => dev.end # Never /\ dev.end <= t
                /\ \A t \in live' \ early' : dev.end # Never /\ dev.end <= t
  BY <1>1, <1>3, <1>4, <1>6 DEF ImportInv, BoundaryOk, RecordOk
<1> QED  BY <1>1, <1>3, <1>4, <1>5, <1>7, ImportKept

\* Reading the boundary, to be written later.
LEMMA ReadsImport ==
  ASSUME HistoryInv, NEW p, NeedsBoundary, Reads(p),
         UNCHANGED <<hist, live, early, dev, imp, bulk, moved>>, Bounded' => Bounded
  PROVE  ImportInv'
<1>1. ImportInv /\ BrowserOk
  BY DEF HistoryInv, ReplayInv
<1>2. Now' = Now /\ Now \in Nat /\ Now # 0
  BY <1>1 DEF Now, BrowserOk
<1> DEFINE r == [dev EXCEPT !.end = Now]
<1>3. /\ DOMAIN r = DevFields /\ r.cut = dev.cut /\ r.oCut = dev.oCut /\ r.oEnd = dev.oEnd /\ r.end = Now
      /\ r.visits = dev.visits /\ r.oVisits = dev.oVisits
  BY <1>1 DEF ImportInv, RecordOk, DevFields
<1>4. DOMAIN setters' = DOMAIN setters \union {p}
      /\ \A q \in DOMAIN setters' : setters'[q] = r \/ (q \in DOMAIN setters /\ setters'[q] = setters[q])
  BY DEF Reads, With
<1> HIDE DEF r
<1>5. RecordOk(r)
  BY <1>1, <1>2, <1>3 DEF ImportInv, RecordOk
<1>6. ~moved => Within(r)
  BY <1>1, <1>2, <1>3 DEF ImportInv, BoundaryOk, Within, NeedsBoundary, Never, RecordOk
<1>7. SettersOk'
  <2> SUFFICES ASSUME NEW q \in DOMAIN setters'
               PROVE  /\ RecordOk(setters'[q]) /\ setters'[q].end # Never
                      /\ \A c \in Cutoffs : c <= setters'[q].end
                      /\ ~moved' => Within(setters'[q])
    BY <1>2 DEF SettersOk, RecordOk, Within
  <2>1. CASE setters'[q] = r
    BY <1>1, <1>2, <1>3, <1>5, <1>6, <2>1 DEF ImportInv, RecordOk, Never
  <2>2. CASE q \in DOMAIN setters /\ setters'[q] = setters[q]
    BY <1>1, <1>2, <2>2 DEF ImportInv, SettersOk, RecordOk, Within
  <2> QED  BY <1>4, <2>1, <2>2
<1>8. (~moved => BoundaryOk)'
  BY <1>1 DEF ImportInv, BoundaryOk, Within
<1>9. RecordOk(dev)' /\ ImportOk'
  BY <1>1, <1>2 DEF ImportInv, RecordOk, ImportOk
<1> QED  BY <1>1, <1>2, <1>7, <1>8, <1>9 DEF ImportInv

LEMMA BoundaryImport ==
  ASSUME HistoryInv, ReadBoundary \/ BeginReplay
  PROVE  ImportInv'
<1>1. ImportInv /\ BrowserOk
  BY DEF HistoryInv, ReplayInv
<1>2. UNCHANGED <<hist, live, early, started, dev, imp, bulk, moved>>
  BY DEF ReadBoundary, BeginReplay, browser, capture, ghosts
<1>3. CASE ReadBoundary
  <2>1. NeedsBoundary /\ Reads("startup") /\ play' = play
    BY <1>3 DEF ReadBoundary
  <2>2. Bounded' => Bounded
    BY <1>2, <2>1 DEF Bounded, Reads, With
  <2> QED  BY <1>2, <2>1, <2>2, ReadsImport
<1>4. CASE BeginReplay /\ NeedsBoundary
  <2>1. Reads("replay") /\ play' = [play EXCEPT !.at = "check"] /\ play.at = "idle"
    BY <1>4 DEF BeginReplay
  <2>2. "replay" \in DOMAIN setters' /\ play'.at \notin {"add", "return"}
    BY <2>1 DEF Reads, With, HistoryInv, ReplayInv, PlayOk
  <2>3. Bounded' => Bounded
    BY <1>2, <2>2 DEF Bounded
  <2> QED  BY <1>2, <1>4, <2>1, <2>3, ReadsImport
<1>5. CASE BeginReplay /\ ~NeedsBoundary
  <2>1. UNCHANGED setters
    BY <1>5 DEF BeginReplay
  <2>2. hist \in Seq(VisitRecord) /\ Len(hist) \in Nat
    BY <1>1 DEF BrowserOk
  <2>3. ASSUME ~moved PROVE BoundaryOk /\ dev.end # Never
    BY <1>1, <1>5, <2>3 DEF ImportInv, BoundaryOk, Bounded, NeedsBoundary
  <2>4. ~moved => /\ Bounded' => dev.end # Never
                  /\ \A t \in DOMAIN hist' : hist'[t].kind = "replay" => dev.end # Never /\ dev.end <= t
                  /\ \A t \in live' \ early' : dev.end # Never /\ dev.end <= t
    BY <1>2, <2>3 DEF BoundaryOk
  <2> QED  BY <1>1, <1>2, <2>1, <2>2, <2>4, ImportKept
<1> QED  BY <1>3, <1>4, <1>5

\* The first boundary is written before anyone has gone by it.
LEMMA PutBoundaryImport ==
  ASSUME HistoryInv, NEW p, PutBoundary(p)
  PROVE  ImportInv'
<1>1. ImportInv /\ BrowserOk
  BY DEF HistoryInv, ReplayInv
<1>2. /\ p \in DOMAIN setters /\ dev' = setters[p]
      /\ setters' = [q \in DOMAIN setters \ {p} |-> setters[q]]
      /\ moved' = (moved \/ dev.end # Never)
      /\ UNCHANGED <<hist, live, early, started, play, imp, bulk>>
  BY DEF PutBoundary, browser, capture
<1>3. Now' = Now
  BY <1>2 DEF Now
<1>4. /\ RecordOk(dev') /\ dev'.end # Never /\ (\A c \in Cutoffs : c <= dev'.end)
      /\ ~moved => Within(dev')
  BY <1>1, <1>2 DEF ImportInv, SettersOk
<1>5. RecordOk(dev)'
  BY <1>3, <1>4 DEF RecordOk
<1>6. SettersOk'
  <2>1. \A q \in DOMAIN setters' : q \in DOMAIN setters /\ setters'[q] = setters[q]
    BY <1>2
  <2>2. ~moved' => ~moved
    BY <1>2
  <2> QED  BY <1>1, <1>3, <2>1, <2>2 DEF ImportInv, SettersOk, RecordOk, Within
<1>7. ImportOk'
  BY <1>1, <1>2 DEF ImportInv, ImportOk
<1>8. ASSUME ~moved' PROVE BoundaryOk'
  <2>1. ~moved /\ dev.end = 0 /\ BoundaryOk
    BY <1>1, <1>2, <1>8 DEF ImportInv, Never
  <2>2. imp.cut = 0 /\ imp.end = 0
    BY <1>1, <2>1 DEF BoundaryOk, ImportInv, ImportOk
  <2>3. \A i \in 1 .. Len(imp.chunk) : FALSE
    <3> SUFFICES ASSUME NEW i \in 1 .. Len(imp.chunk) PROVE FALSE
      OBVIOUS
    <3>1. imp.chunk[i] \in Nat
      BY <1>1 DEF ImportInv, ImportOk
    <3>2. imp.chunk[i] < 0
      BY <2>1 DEF BoundaryOk
    <3> QED  BY <3>1, <3>2
  <2>4. \A id \in DOMAIN bulk : \A t \in bulk[id] : FALSE
    <3> SUFFICES ASSUME NEW id \in DOMAIN bulk, NEW t \in bulk[id] PROVE FALSE
      OBVIOUS
    <3>1. t \in Nat
      BY <1>1 DEF ImportInv, ImportOk
    <3>2. t < 0
      BY <2>1 DEF BoundaryOk
    <3> QED  BY <3>1, <3>2
  <2>5. (\A t \in DOMAIN hist : hist[t].kind # "replay") /\ live \ early = {}
    BY <2>1 DEF BoundaryOk, Never
  <2>6. Within(dev)' /\ dev'.end \in Nat
    BY <1>4, <2>1 DEF RecordOk, Within
  <2> QED  BY <1>2, <1>4, <2>2, <2>3, <2>4, <2>5, <2>6 DEF BoundaryOk
<1>9. (\A c \in Cutoffs : c <= Now') /\ moved' \in BOOLEAN
  BY <1>1, <1>2, <1>3 DEF ImportInv
<1> QED  BY <1>5, <1>6, <1>7, <1>8, <1>9 DEF ImportInv

\* A step of the import.
LEMMA ImportMoves ==
  ASSUME HistoryInv, UNCHANGED <<hist, live, early, moved>>,
         setters' = setters \/ DOMAIN setters' = {},
         RecordOk(dev'), dev'.end = dev.end, ImportOk',
         ~moved => /\ Bounded' => dev.end # Never
                   /\ Within(dev') /\ imp'.cut <= dev.end /\ imp'.end <= dev.end
                   /\ \A i \in 1 .. Len(imp'.chunk) : imp'.chunk[i] < dev.end
                   /\ \A id \in DOMAIN bulk' : \A t \in bulk'[id] : t < dev.end
  PROVE  ImportInv'
<1>1. ImportInv
  BY DEF HistoryInv
<1>2. Now' = Now
  BY DEF Now
<1>3. RecordOk(dev)'
  BY <1>2 DEF RecordOk
<1>4. SettersOk'
  <2>1. CASE setters' = setters
    BY <1>1, <1>2, <2>1 DEF ImportInv, SettersOk, RecordOk, Within
  <2>2. CASE DOMAIN setters' = {}
    BY <2>2 DEF SettersOk
  <2> QED  BY <2>1, <2>2
<1>5. ASSUME ~moved' PROVE BoundaryOk'
  <2>1. BoundaryOk /\ ~moved
    BY <1>1, <1>5 DEF ImportInv
  <2>2. Within(dev)'
    BY <2>1 DEF Within
  <2> QED  BY <2>1, <2>2 DEF BoundaryOk
<1> QED  BY <1>1, <1>2, <1>3, <1>4, <1>5 DEF ImportInv

\* The fields of a record that is given new ones.
LEMMA FieldsOf ==
  ASSUME NEW r, DOMAIN r = DevFields, NEW x, NEW y
  PROVE  /\ \A s \in {[r EXCEPT !.cut = x], [r EXCEPT !.done = x], [r EXCEPT !.oCut = x, !.oEnd = y],
                      [r EXCEPT !.chunks = x, !.visits = y], [r EXCEPT !.oChunks = x, !.oVisits = y]} :
              DOMAIN s = DevFields /\ s.end = r.end
         /\ \A s \in {[r EXCEPT !.done = x], [r EXCEPT !.oCut = x, !.oEnd = y],
                      [r EXCEPT !.chunks = x, !.visits = y], [r EXCEPT !.oChunks = x, !.oVisits = y]} :
              s.cut = r.cut
         /\ \A s \in {[r EXCEPT !.cut = x], [r EXCEPT !.done = x],
                      [r EXCEPT !.chunks = x, !.visits = y], [r EXCEPT !.oChunks = x, !.oVisits = y]} :
              s.oCut = r.oCut /\ s.oEnd = r.oEnd
         /\ \A s \in {[r EXCEPT !.cut = x], [r EXCEPT !.done = x], [r EXCEPT !.oCut = x, !.oEnd = y]} :
              s.visits = r.visits /\ s.oVisits = r.oVisits /\ s.chunks = r.chunks /\ s.oChunks = r.oChunks
         /\ [r EXCEPT !.cut = x].cut = x
         /\ [r EXCEPT !.oCut = x, !.oEnd = y].oCut = x /\ [r EXCEPT !.oCut = x, !.oEnd = y].oEnd = y
         /\ [r EXCEPT !.chunks = x, !.visits = y].visits = y /\ [r EXCEPT !.chunks = x, !.visits = y].oVisits = r.oVisits
         /\ [r EXCEPT !.oChunks = x, !.oVisits = y].oVisits = y /\ [r EXCEPT !.oChunks = x, !.oVisits = y].visits = r.visits
BY DEF DevFields

\* A scope as it opens.
LEMMA ScopeFacts ==
  ASSUME NEW name, NEW cut, NEW end, NEW chunks, NEW visits, imp' = Scope(name, cut, end, chunks, visits)
  PROVE  /\ DOMAIN imp' = DOMAIN NoImport /\ imp'.cut = cut /\ imp'.end = end
         /\ imp'.skip = visits /\ imp'.size = visits
         /\ imp'.chunk \in Seq(Nat) /\ \A i \in 1 .. Len(imp'.chunk) : FALSE
<1>1. /\ DOMAIN imp' = DOMAIN NoImport /\ imp'.cut = cut /\ imp'.end = end /\ imp'.chunk = << >>
      /\ imp'.skip = visits /\ imp'.size = visits
  BY DEF Scope, NoImport
<1> QED  BY <1>1

\* Opening a scope: it ends at the boundary, or where the import began.
LEMMA BeginImport ==
  ASSUME HistoryInv, NEW c \in Cutoffs, BeginInitial(c) \/ BeginOlder(c)
  PROVE  ImportInv'
<1>1. ImportInv /\ RecordOk(dev) /\ ImportOk /\ c \in Nat
  BY SizesAssumption DEF HistoryInv, ImportInv
<1>2. UNCHANGED <<hist, live, early, moved, started, play, setters, bulk>> /\ started
  BY DEF BeginInitial, BeginOlder, browser, capture, ghosts
<1>3. ~moved => BoundaryOk /\ dev.end # Never /\ Within(dev) /\ c <= dev.end
  BY <1>1, <1>2 DEF ImportInv, BoundaryOk, Bounded
<1>4. CASE BeginInitial(c)
  <2>1. PICK cut : /\ cut = IF dev.cut = Never THEN c ELSE dev.cut
                   /\ dev' = [dev EXCEPT !.cut = cut]
                   /\ imp' = Scope("initial", cut, dev.end, dev.chunks, dev.visits)
    BY <1>4 DEF BeginInitial
  <2>2. /\ DOMAIN imp' = DOMAIN NoImport /\ imp'.cut = cut /\ imp'.end = dev.end
        /\ imp'.skip = dev.visits /\ imp'.size = dev.visits
        /\ imp'.chunk \in Seq(Nat) /\ \A i \in 1 .. Len(imp'.chunk) : FALSE
    <3>1. PICK end, chunks, visits : end = dev.end /\ chunks = dev.chunks /\ visits = dev.visits
      OBVIOUS
    <3> QED  BY <2>1, <3>1, ScopeFacts
  <2>3. /\ DOMAIN dev' = DevFields /\ dev'.cut = cut /\ dev'.end = dev.end
        /\ dev'.oCut = dev.oCut /\ dev'.oEnd = dev.oEnd /\ dev'.visits = dev.visits /\ dev'.oVisits = dev.oVisits
    BY <1>1, <2>1, FieldsOf DEF RecordOk
  <2>4. cut \in Nat /\ (~moved => cut <= dev.end)
    BY <1>1, <1>3, <2>1 DEF RecordOk, Within
  <2>5. RecordOk(dev') /\ ImportOk'
    BY <1>1, <1>2, <2>2, <2>3, <2>4 DEF RecordOk, ImportOk, NoImport
  <2>6. ~moved => /\ Bounded' => dev.end # Never
                  /\ Within(dev') /\ imp'.cut <= dev.end /\ imp'.end <= dev.end
                  /\ \A i \in 1 .. Len(imp'.chunk) : imp'.chunk[i] < dev.end
                  /\ \A id \in DOMAIN bulk' : \A t \in bulk'[id] : t < dev.end
    BY <1>1, <1>2, <1>3, <2>2, <2>3, <2>4 DEF Within, RecordOk, BoundaryOk
  <2> QED  BY <1>2, <2>3, <2>5, <2>6, ImportMoves
<1>5. CASE BeginOlder(c)
  <2>1. PICK cut, end :
          /\ cut = IF dev.oCut = Never THEN c ELSE dev.oCut
          /\ end = IF dev.oCut = Never THEN dev.cut ELSE dev.oEnd
          /\ dev' = [dev EXCEPT !.oCut = cut, !.oEnd = end]
          /\ imp' = Scope("older", cut, end, dev.oChunks, dev.oVisits)
    BY <1>5 DEF BeginOlder
  <2>2. /\ DOMAIN imp' = DOMAIN NoImport /\ imp'.cut = cut /\ imp'.end = end
        /\ imp'.skip = dev.oVisits /\ imp'.size = dev.oVisits
        /\ imp'.chunk \in Seq(Nat) /\ \A i \in 1 .. Len(imp'.chunk) : FALSE
    <3>1. PICK chunks, visits : chunks = dev.oChunks /\ visits = dev.oVisits
      OBVIOUS
    <3> QED  BY <2>1, <3>1, ScopeFacts
  <2>3. /\ DOMAIN dev' = DevFields /\ dev'.cut = dev.cut /\ dev'.end = dev.end
        /\ dev'.oCut = cut /\ dev'.oEnd = end /\ dev'.visits = dev.visits /\ dev'.oVisits = dev.oVisits
    BY <1>1, <2>1, FieldsOf DEF RecordOk
  <2>4. cut \in Nat /\ end \in Nat /\ (~moved => cut <= dev.end /\ end <= dev.end)
    BY <1>1, <1>3, <2>1 DEF RecordOk, Within
  <2>5. RecordOk(dev') /\ ImportOk'
    BY <1>1, <1>2, <2>2, <2>3, <2>4 DEF RecordOk, ImportOk, NoImport
  <2>6. ~moved => /\ Bounded' => dev.end # Never
                  /\ Within(dev') /\ imp'.cut <= dev.end /\ imp'.end <= dev.end
                  /\ \A i \in 1 .. Len(imp'.chunk) : imp'.chunk[i] < dev.end
                  /\ \A id \in DOMAIN bulk' : \A t \in bulk'[id] : t < dev.end
    BY <1>1, <1>2, <1>3, <2>2, <2>3, <2>4 DEF Within, RecordOk, BoundaryOk
  <2> QED  BY <1>2, <2>3, <2>5, <2>6, ImportMoves
<1> QED  BY <1>4, <1>5

\* The bookkeeping between chunks and after the last.
LEMMA ProgressImport ==
  ASSUME HistoryInv, SkipInitial \/ Checkpoint \/ Finish \/ Stamp
  PROVE  ImportInv'
<1>1. ImportInv /\ RecordOk(dev) /\ ImportOk
  BY DEF HistoryInv, ImportInv
<1>2. UNCHANGED <<hist, live, early, moved, started, play, setters, bulk>> /\ Bounded
  BY DEF SkipInitial, Checkpoint, Finish, Stamp, browser, capture, ghosts, Bounded
<1>3. ~moved => BoundaryOk /\ dev.end # Never /\ Within(dev)
  BY <1>1, <1>2 DEF ImportInv, BoundaryOk
<1>4. /\ DOMAIN dev' = DevFields /\ dev'.end = dev.end /\ dev'.visits \in {dev.visits, imp.size, 0}
      /\ dev'.oVisits \in {dev.oVisits, imp.size, 0}
      /\ (dev'.cut = dev.cut /\ dev'.oCut = dev.oCut /\ dev'.oEnd = dev.oEnd)
         \/ (dev'.cut = imp.cut /\ dev'.oCut = 0 /\ dev'.oEnd = 0)
  <2>1. CASE SkipInitial
    BY <1>1, <2>1, FieldsOf DEF RecordOk, SkipInitial
  <2>2. CASE Checkpoint \/ Finish
    <3>1. PICK x, y : y \in {imp.size, 0} /\ dev' = Checkpointed(x, y)
      BY <2>2 DEF Checkpoint, Finish
    <3>2. DOMAIN dev = DevFields
      BY <1>1 DEF RecordOk
    <3>3. CASE dev' = [dev EXCEPT !.chunks = x, !.visits = y]
      BY <3>1, <3>2, <3>3 DEF DevFields
    <3>4. CASE dev' = [dev EXCEPT !.oChunks = x, !.oVisits = y]
      BY <3>1, <3>2, <3>4 DEF DevFields
    <3> QED  BY <3>1, <3>3, <3>4 DEF Checkpointed
  <2>3. CASE Stamp
    <3>1. dev' = [dev EXCEPT !.done = TRUE] \/ dev' = [dev EXCEPT !.cut = imp.cut, !.oCut = Never, !.oEnd = Never]
      BY <2>3 DEF Stamp
    <3>2. CASE dev' = [dev EXCEPT !.done = TRUE]
      BY <1>1, <3>2, FieldsOf DEF RecordOk
    <3>3. CASE dev' = [dev EXCEPT !.cut = imp.cut, !.oCut = Never, !.oEnd = Never]
      BY <1>1, <3>3 DEF RecordOk, DevFields, Never
    <3> QED  BY <3>1, <3>2, <3>3
  <2> QED  BY <2>1, <2>2, <2>3
<1>5. /\ DOMAIN imp' = DOMAIN NoImport
      /\ imp'.cut \in {imp.cut, 0} /\ imp'.end \in {imp.end, 0} /\ imp'.chunk \in {imp.chunk, << >>}
      /\ imp'.skip \in {imp.skip, 0} /\ imp'.size \in {imp.size, 0}
  <2>1. CASE SkipInitial
    BY <1>1, <2>1 DEF ImportOk, SkipInitial
  <2>2. CASE Checkpoint
    BY <1>1, <2>2 DEF ImportOk, NoImport, Checkpoint
  <2>3. CASE Finish
    BY <2>3 DEF NoImport, Finish
  <2>4. CASE Stamp
    BY <2>4 DEF NoImport, Stamp
  <2> QED  BY <2>1, <2>2, <2>3, <2>4
<1>6. imp'.chunk \in Seq(Nat) /\ imp.cut \in Nat /\ imp.end \in Nat
  <2>1. imp.chunk \in Seq(Nat) /\ << >> \in Seq(Nat) /\ imp.cut \in Nat /\ imp.end \in Nat
    BY <1>1 DEF ImportOk
  <2> QED  BY <1>5, <2>1
<1>7. RecordOk(dev') /\ ImportOk'
  <2>1. RecordOk(dev')
    <3>1. dev'.visits \in Nat /\ dev'.oVisits \in Nat
      BY <1>1, <1>4 DEF RecordOk, ImportOk
    <3> QED  BY <1>1, <1>4, <1>6, <3>1 DEF RecordOk
  <2>2. imp'.cut \in Nat /\ imp'.end \in Nat /\ imp'.skip \in Nat /\ imp'.size \in Nat
    BY <1>1, <1>5 DEF ImportOk
  <2>3. ImportOk'
    BY <1>1, <1>2, <1>5, <1>6, <2>2 DEF ImportOk, NoImport
  <2> QED  BY <2>1, <2>3
<1>8. ASSUME ~moved
      PROVE  /\ Bounded' => dev.end # Never
             /\ Within(dev') /\ imp'.cut <= dev.end /\ imp'.end <= dev.end
             /\ \A i \in 1 .. Len(imp'.chunk) : imp'.chunk[i] < dev.end
             /\ \A id \in DOMAIN bulk' : \A t \in bulk'[id] : t < dev.end
  <2>1. BoundaryOk /\ dev.end # Never /\ Within(dev) /\ dev.end \in Nat
    BY <1>1, <1>3, <1>8 DEF RecordOk
  <2>2. Within(dev') /\ imp'.cut <= dev.end /\ imp'.end <= dev.end
    BY <1>4, <1>5, <1>6, <2>1 DEF Within, BoundaryOk
  <2>3. \A i \in 1 .. Len(imp'.chunk) : imp'.chunk[i] < dev.end
    <3>1. CASE imp'.chunk = imp.chunk
      BY <2>1, <3>1 DEF BoundaryOk
    <3>2. CASE imp'.chunk = << >>
      BY <3>2
    <3> QED  BY <1>5, <3>1, <3>2
  <2> QED  BY <1>2, <2>1, <2>2, <2>3 DEF BoundaryOk
<1> QED  BY <1>2, <1>4, <1>7, <1>8, ImportMoves

LEMMA StopImport ==
  ASSUME HistoryInv, StopWorker
  PROVE  ImportInv'
<1>1. ImportInv /\ RecordOk(dev) /\ ImportOk
  BY DEF HistoryInv, ImportInv
<1>2. /\ UNCHANGED <<hist, live, early, moved, bulk, dev>>
      /\ started' = FALSE /\ imp' = NoImport /\ play' = NoReplay /\ setters' = << >>
  BY DEF StopWorker, browser
<1>3. /\ imp'.at = "idle" /\ imp'.cut = 0 /\ imp'.end = 0 /\ imp'.chunk = << >> /\ play'.at = "idle"
      /\ imp'.skip = 0 /\ imp'.size = 0
  BY <1>2 DEF NoImport, NoReplay
<1>4. DOMAIN setters' = {} /\ << >> \in Seq(Nat) /\ \A i \in 1 .. Len(imp'.chunk) : FALSE
  BY <1>2, <1>3
<1>5. Bounded' => Bounded
  BY <1>2, <1>3 DEF Bounded
<1>6. ImportOk'
  BY <1>1, <1>2, <1>3, <1>4 DEF ImportOk, NoImport
<1>7. ~moved => /\ Bounded' => dev.end # Never
                /\ Within(dev') /\ imp'.cut <= dev.end /\ imp'.end <= dev.end
                /\ \A i \in 1 .. Len(imp'.chunk) : imp'.chunk[i] < dev.end
                /\ \A id \in DOMAIN bulk' : \A t \in bulk'[id] : t < dev.end
  BY <1>1, <1>2, <1>3, <1>4, <1>5 DEF ImportInv, BoundaryOk, RecordOk
<1> QED  BY <1>1, <1>2, <1>4, <1>6, <1>7, ImportMoves

\* Searching leaves the chunk alone.
LEMMA SearchImport ==
  ASSUME HistoryInv, Search
  PROVE  ImportInv'
<1>1. ImportInv /\ RecordOk(dev) /\ ImportOk
  BY DEF HistoryInv, ImportInv
<1>2. UNCHANGED <<hist, live, early, moved, started, play, setters, bulk, dev>> /\ Bounded
  BY DEF Search, browser, capture, ghosts, Bounded
<1>3. PICK page, bound, full, last :
        imp' = [imp EXCEPT !.at = "walk", !.page = page, !.bound = bound, !.full = full, !.last = last]
  <2>1. PICK found \in {Results(imp.cut, Bound)} : \E page \in {SubSeq(found, 1, Min({PageSize, Len(found)}))} :
          imp' = [imp EXCEPT !.at = "walk", !.page = Latest(Range(page) \ DOMAIN imp.seen, imp.cut, Bound),
                             !.bound = Bound, !.full = Len(page) = PageSize,
                             !.last = IF page = << >> THEN Never ELSE Last(page)]
    BY DEF Search
  <2>2. PICK page \in {SubSeq(found, 1, Min({PageSize, Len(found)}))} :
          imp' = [imp EXCEPT !.at = "walk", !.page = Latest(Range(page) \ DOMAIN imp.seen, imp.cut, Bound),
                             !.bound = Bound, !.full = Len(page) = PageSize,
                             !.last = IF page = << >> THEN Never ELSE Last(page)]
    BY <2>1
  <2>3. PICK next, last : next = Latest(Range(page) \ DOMAIN imp.seen, imp.cut, Bound)
                          /\ last = IF page = << >> THEN Never ELSE Last(page)
    OBVIOUS
  <2> QED  BY <2>2, <2>3
<1>4. DOMAIN imp' = DOMAIN NoImport /\ imp'.cut = imp.cut /\ imp'.end = imp.end /\ imp'.chunk = imp.chunk
      /\ imp'.skip = imp.skip /\ imp'.size = imp.size
  BY <1>1, <1>3 DEF ImportOk, NoImport
<1>5. ImportOk'
  BY <1>1, <1>2, <1>4 DEF ImportOk, NoImport
<1>6. ~moved => /\ Bounded' => dev.end # Never
                /\ Within(dev') /\ imp'.cut <= dev.end /\ imp'.end <= dev.end
                /\ \A i \in 1 .. Len(imp'.chunk) : imp'.chunk[i] < dev.end
                /\ \A id \in DOMAIN bulk' : \A t \in bulk'[id] : t < dev.end
  BY <1>1, <1>2, <1>4 DEF ImportInv, BoundaryOk
<1> QED  BY <1>1, <1>2, <1>5, <1>6, ImportMoves

\* The visits read from a page are between the scope's bounds.
LEMMA ResolveImport ==
  ASSUME HistoryInv, Resolve
  PROVE  ImportInv'
<1>1. ImportInv /\ RecordOk(dev) /\ ImportOk /\ BrowserOk
  BY DEF HistoryInv, ImportInv, ReplayInv
<1>2. UNCHANGED <<hist, live, early, moved, started, play, setters, bulk, dev>> /\ Bounded
  BY DEF Resolve, browser, capture, ghosts, Bounded
<1>3. PICK S : S = InScope(Head(imp.page))
  OBVIOUS
<1>4. PICK times : times = Ascending(S)
  OBVIOUS
<1>5. PICK n, page, seen :
        /\ n = Skipped(times)
        /\ imp' = [imp EXCEPT !.page = page, !.seen = seen, !.skip = imp.skip - n,
                              !.chunk = imp.chunk \o SubSeq(times, n + 1, Len(times))]
  BY <1>1, <1>3, <1>4 DEF Resolve, Pushed, ImportOk, NoImport
<1>6. S \in SUBSET (DOMAIN hist) /\ S \in SUBSET Nat /\ IsFiniteSet(S)
  <2>1. S \in SUBSET (DOMAIN hist)
    BY <1>3 DEF InScope, At
  <2> QED  BY <1>1, <2>1, FiniteTimes DEF BrowserOk
<1>7. times \in [1 .. Cardinality(S) -> S] /\ Cardinality(S) \in Nat
  BY <1>4, <1>6, AscendingIn
<1>8. times \in Seq(S) /\ Len(times) = Cardinality(S)
  BY <1>7
<1>9. n \in 0 .. Len(times) /\ n <= imp.skip /\ imp.skip - n \in Nat
  BY <1>1, <1>5, <1>7, <1>8 DEF Skipped, ImportOk
<1>10. PICK rest : rest = SubSeq(times, n + 1, Len(times))
  OBVIOUS
<1>11. rest \in Seq(S)
  BY <1>7, <1>8, <1>9, <1>10
<1>12. rest \in Seq(Nat) /\ \A i \in 1 .. Len(rest) : rest[i] \in S
  BY <1>6, <1>11
<1>13. /\ imp'.cut = imp.cut /\ imp'.end = imp.end /\ imp'.skip = imp.skip - n /\ imp'.size = imp.size
       /\ imp'.chunk = imp.chunk \o rest /\ DOMAIN imp' = DOMAIN NoImport
  BY <1>1, <1>5, <1>10 DEF ImportOk, NoImport
<1>14. /\ imp'.chunk \in Seq(Nat)
       /\ \A i \in 1 .. Len(imp'.chunk) : \/ \E j \in 1 .. Len(imp.chunk) : imp'.chunk[i] = imp.chunk[j]
                                          \/ \E j \in 1 .. Len(rest) : imp'.chunk[i] = rest[j]
  <2>1. imp.chunk \in Seq(Nat)
    BY <1>1 DEF ImportOk
  <2>2. PICK old \in Seq(Nat) : old = imp.chunk
    BY <2>1
  <2>3. old \o rest \in Seq(Nat) /\ Len(old \o rest) = Len(old) + Len(rest)
        /\ Len(old) \in Nat /\ Len(rest) \in Nat
        /\ \A i \in 1 .. Len(old) + Len(rest) :
             (old \o rest)[i] = IF i <= Len(old) THEN old[i] ELSE rest[i - Len(old)]
    BY <1>12, ConcatProperties
  <2>4. \A i \in 1 .. Len(old \o rest) : i <= Len(old) \/ i - Len(old) \in 1 .. Len(rest)
    BY <2>3
  <2>5. \A i \in 1 .. Len(old \o rest) : \/ \E j \in 1 .. Len(old) : (old \o rest)[i] = old[j]
                                         \/ \E j \in 1 .. Len(rest) : (old \o rest)[i] = rest[j]
    BY <2>3, <2>4
  <2>6. imp'.chunk = old \o rest
    BY <1>13, <2>2
  <2> QED  BY <2>2, <2>3, <2>5, <2>6
<1>15. ImportOk'
  BY <1>1, <1>2, <1>9, <1>13, <1>14 DEF ImportOk, NoImport
<1>16. ASSUME ~moved
       PROVE  /\ Bounded' => dev.end # Never
              /\ Within(dev') /\ imp'.cut <= dev.end /\ imp'.end <= dev.end
              /\ \A i \in 1 .. Len(imp'.chunk) : imp'.chunk[i] < dev.end
              /\ \A id \in DOMAIN bulk' : \A t \in bulk'[id] : t < dev.end
  <2>1. BoundaryOk /\ dev.end # Never /\ dev.end \in Nat /\ imp.end \in Nat
    BY <1>1, <1>2, <1>16 DEF ImportInv, BoundaryOk, RecordOk, ImportOk
  <2>2. \A t \in S : t < dev.end
    BY <1>3, <1>6, <2>1 DEF InScope, BoundaryOk
  <2>3. \A i \in 1 .. Len(imp'.chunk) : imp'.chunk[i] < dev.end
    BY <1>12, <1>14, <2>1, <2>2 DEF BoundaryOk
  <2> QED  BY <1>2, <1>13, <2>1, <2>3 DEF BoundaryOk
<1> QED  BY <1>1, <1>2, <1>15, <1>16, ImportMoves

\* A chunk goes up, or is thought to have failed.
LEMMA UploadImport ==
  ASSUME HistoryInv, Upload
  PROVE  ImportInv'
<1>1. ImportInv /\ RecordOk(dev) /\ ImportOk
  BY DEF HistoryInv, ImportInv
<1>2. UNCHANGED <<hist, live, early, moved, started, play, setters, dev>> /\ Bounded
  BY DEF Upload, browser, capture, ghosts, Bounded
<1>3. PICK n, chunk, times :
        /\ chunk = imp.chunk /\ n = (IF Ready THEN ChunkVisits ELSE Len(chunk))
        /\ times = Range(SubSeq(chunk, 1, n))
        /\ bulk' = bulk \/ bulk' = Accepted(times)
        /\ \/ imp' = [imp EXCEPT !.at = "sent", !.index = imp.index + 1, !.size = imp.size + n,
                                 !.chunk = SubSeq(chunk, n + 1, Len(chunk))]
           \/ imp' = [NoImport EXCEPT !.at = "failed"]
  BY <1>1 DEF Upload, ImportOk, NoImport
<1>4. chunk \in Seq(Nat) /\ n \in Nat /\ n <= Len(chunk) /\ Len(chunk) \in Nat
  BY <1>1, <1>3, SizesAssumption DEF ImportOk, Ready
<1>5. \A t \in times : \E i \in 1 .. Len(chunk) : t = chunk[i]
  <2>1. PICK first : first = SubSeq(chunk, 1, n)
    OBVIOUS
  <2>2. first \in Seq(Nat) /\ Len(first) = n /\ \A i \in 1 .. n : first[i] = chunk[i]
    BY <1>4, <2>1
  <2>3. DOMAIN first = 1 .. n /\ \A i \in 1 .. n : i \in 1 .. Len(chunk)
    BY <1>4, <2>2
  <2>4. times = {first[i] : i \in DOMAIN first}
    BY <1>3, <2>1 DEF Range
  <2> QED  BY <2>2, <2>3, <2>4
<1>6. PICK rest \in Seq(Nat) :
        /\ rest = SubSeq(chunk, n + 1, Len(chunk))
        /\ \A i \in 1 .. Len(rest) : \E j \in 1 .. Len(chunk) : rest[i] = chunk[j]
  <2>1. PICK rest : rest = SubSeq(chunk, n + 1, Len(chunk))
    OBVIOUS
  <2>2. \A i \in n + 1 .. Len(chunk) : chunk[i] \in Nat /\ i \in 1 .. Len(chunk)
    BY <1>4
  <2>3. rest \in Seq(Nat) /\ Len(rest) = Len(chunk) - n /\ \A i \in 1 .. Len(rest) : rest[i] = chunk[n + i]
    BY <1>4, <2>1
  <2>4. \A i \in 1 .. Len(rest) : n + i \in 1 .. Len(chunk)
    BY <1>4, <2>3
  <2> QED  BY <2>1, <2>3, <2>4
<1>7. \A id \in DOMAIN bulk' : (id \in DOMAIN bulk /\ bulk'[id] = bulk[id]) \/ bulk'[id] = times
  BY <1>3 DEF Accepted, With
<1>8. /\ DOMAIN imp' = DOMAIN NoImport
      /\ imp'.cut \in {imp.cut, 0} /\ imp'.end \in {imp.end, 0} /\ imp'.chunk \in {rest, << >>}
      /\ imp'.skip \in {imp.skip, 0} /\ imp'.size \in {imp.size + n, 0}
  <2>1. CASE imp' = [imp EXCEPT !.at = "sent", !.index = imp.index + 1, !.size = imp.size + n,
                                !.chunk = SubSeq(chunk, n + 1, Len(chunk))]
    BY <1>1, <1>6, <2>1 DEF ImportOk, NoImport
  <2>2. CASE imp' = [NoImport EXCEPT !.at = "failed"]
    BY <2>2 DEF NoImport
  <2> QED  BY <1>3, <2>1, <2>2
<1>9. imp'.chunk \in Seq(Nat) /\ \A i \in 1 .. Len(imp'.chunk) : \E j \in 1 .. Len(chunk) : imp'.chunk[i] = chunk[j]
  <2>1. CASE imp'.chunk = rest
    BY <1>6, <2>1
  <2>2. CASE imp'.chunk = << >>
    BY <2>2
  <2> QED  BY <1>8, <2>1, <2>2
<1>10. ImportOk'
  <2>1. imp'.cut \in Nat /\ imp'.end \in Nat /\ imp'.skip \in Nat /\ imp'.size \in Nat
    <3>1. imp.cut \in Nat /\ imp.end \in Nat /\ imp.skip \in Nat /\ imp.size \in Nat
      BY <1>1 DEF ImportOk
    <3>2. imp.size + n \in Nat
      BY <1>4, <3>1
    <3> QED  BY <1>8, <3>1, <3>2
  <2>2. times \in SUBSET Nat
    BY <1>4, <1>5
  <2>3. \A id \in DOMAIN bulk' : bulk'[id] \in SUBSET Nat
    BY <1>1, <1>7, <2>2 DEF ImportOk
  <2> QED  BY <1>8, <1>9, <2>1, <2>3 DEF ImportOk, NoImport
<1>11. ASSUME ~moved
       PROVE  /\ Bounded' => dev.end # Never
              /\ Within(dev') /\ imp'.cut <= dev.end /\ imp'.end <= dev.end
              /\ \A i \in 1 .. Len(imp'.chunk) : imp'.chunk[i] < dev.end
              /\ \A id \in DOMAIN bulk' : \A t \in bulk'[id] : t < dev.end
  <2>1. BoundaryOk /\ dev.end # Never /\ dev.end \in Nat
    BY <1>1, <1>2, <1>11 DEF ImportInv, BoundaryOk, RecordOk
  <2>2. \A i \in 1 .. Len(chunk) : chunk[i] < dev.end
    BY <1>3, <2>1 DEF BoundaryOk
  <2>3. \A t \in times : t < dev.end
    BY <1>5, <2>2
  <2>4. imp'.cut <= dev.end /\ imp'.end <= dev.end
    BY <1>8, <2>1 DEF BoundaryOk
  <2>5. \A i \in 1 .. Len(imp'.chunk) : imp'.chunk[i] < dev.end
    BY <1>9, <2>2
  <2>6. \A id \in DOMAIN bulk' : \A t \in bulk'[id] : t < dev.end
    BY <1>7, <2>1, <2>3 DEF BoundaryOk
  <2> QED  BY <1>2, <2>1, <2>4, <2>5, <2>6 DEF BoundaryOk
<1> QED  BY <1>1, <1>2, <1>10, <1>11, ImportMoves

LEMMA ImportStep ==
  ASSUME HistoryInv, [Next]_vars
  PROVE  ImportInv'
<1>1. CASE \E u \in Urls : UserVisit(u) \/ DeletePage(u)
  BY <1>1, BrowserImport
<1>2. CASE Hear
  BY <1>2, HearImport
<1>3. CASE Startup \/ PutBoundary("replay")
  BY <1>3, BoundaryImport, PutBoundaryImport, StartupDoneImport DEF Startup
<1>4. CASE Import
  <2>1. CASE Search \/ Resolve \/ Upload
    BY <2>1, SearchImport, ResolveImport, UploadImport
  <2>2. CASE Checkpoint \/ Finish \/ Stamp
    BY <2>2, ProgressImport
  <2>3. CASE Restart
    BY <2>3, StopImport DEF Restart
  <2>4. CASE \E c \in Cutoffs : BeginInitial(c)
    BY <2>4, BeginImport
  <2> QED  BY <1>4, <2>1, <2>2, <2>3, <2>4 DEF Import
<1>5. CASE SkipInitial
  BY <1>5, ProgressImport
<1>6. CASE \E c \in Cutoffs : BeginOlder(c)
  BY <1>6, BeginImport
<1>7. CASE BeginReplay \/ CheckKnown \/ AddUrl \/ ReturnAdd \/ SkipUrl
  BY <1>7, BoundaryImport, PlayImport, AddUrlImport
<1>8. CASE Crash
  BY <1>8, StopImport DEF Crash
<1>9. CASE UNCHANGED vars
  <2>1. ImportInv /\ BrowserOk
    BY DEF HistoryInv, ReplayInv
  <2>2. UNCHANGED <<hist, live, early, started, play, dev, imp, bulk, setters, moved>>
    BY <1>9 DEF vars, browser, capture, ghosts
  <2>3. hist \in Seq(VisitRecord) /\ Len(hist) \in Nat
    BY <2>1 DEF BrowserOk
  <2>4. ~moved => /\ Bounded' => dev.end # Never
                  /\ \A t \in DOMAIN hist' : hist'[t].kind = "replay" => dev.end # Never /\ dev.end <= t
                  /\ \A t \in live' \ early' : dev.end # Never /\ dev.end <= t
    BY <2>1, <2>2 DEF ImportInv, BoundaryOk, Bounded
  <2> QED  BY <2>1, <2>2, <2>3, <2>4, ImportKept
<1> QED  BY <1>1, <1>2, <1>3, <1>4, <1>5, <1>6, <1>7, <1>8, <1>9 DEF Next

--------------------------------------------------------------------------------
(***************************************************************************)
(* The theorems.                                                           *)
(***************************************************************************)
LEMMA InitHistory ==
  ASSUME Init
  PROVE  HistoryInv
<1>1. /\ hist \in Seq(VisitRecord) /\ \A t \in DOMAIN hist : hist[t].kind # "replay"
  <2>1. hist \in Seq([url : Urls, kind : {"user", "frame"}, gone : {FALSE}])
    BY SizesAssumption DEF Init
  <2>2. Len(hist) \in Nat /\ DOMAIN hist = 1 .. Len(hist)
    BY <2>1
  <2>3. \A t \in DOMAIN hist : hist[t] \in VisitRecord /\ hist[t].kind # "replay"
    <3> DEFINE R == [url : Urls, kind : {"user", "frame"}, gone : {FALSE}]
    <3>1. hist \in Seq(R)
      BY <2>1
    <3>2. \A t \in DOMAIN hist : hist[t] \in R
      <4> HIDE DEF R
      <4> QED  BY <2>2, <3>1, ElementOfSeq
    <3> QED  BY <3>2 DEF VisitRecord
  <2>4. hist \in [1 .. Len(hist) -> VisitRecord]
    BY <2>1, <2>2, <2>3
  <2> QED  BY <2>2, <2>3, <2>4
<1>2. /\ events = {} /\ live = {} /\ windows = {} /\ orphans = {} /\ started = FALSE /\ early = {}
      /\ play = NoReplay /\ imp = NoImport /\ setters = << >> /\ bulk = << >> /\ moved = FALSE
      /\ dev = [cut |-> Never, end |-> Never, chunks |-> 0, visits |-> 0,
                oCut |-> Never, oEnd |-> Never, oChunks |-> 0, oVisits |-> 0, done |-> FALSE]
  BY DEF Init
<1>3. BrowserOk /\ WindowsOk
  BY <1>1, <1>2 DEF BrowserOk, WindowsOk
<1>4. \A u : Replays(u) = {} /\ Kept(u) = {} /\ Leaked(u) = {} /\ Bereft(u) = {} /\ Of(u, orphans) = {}
  BY <1>1, <1>2 DEF Replays, Kept, Leaked, Bereft, Of
<1>5. KeptOnce /\ Accounted
  BY <1>4, FS_EmptySet DEF KeptOnce, Accounted
<1>6. play.at = "idle" /\ play.todo = << >> /\ play \in [at : {"idle", "check", "add", "return"}, todo : Seq(Urls)]
  BY <1>2 DEF NoReplay
<1>7. PlayOk
  <2>1. \A i \in 1 .. Len(play.todo) : FALSE
    BY <1>6
  <2> QED  BY <1>6, <2>1 DEF PlayOk
<1>8. /\ DOMAIN dev = DevFields /\ dev.cut = 0 /\ dev.end = 0 /\ dev.oCut = 0 /\ dev.oEnd = 0
      /\ dev.visits = 0 /\ dev.oVisits = 0 /\ ~dev.done
  BY <1>2 DEF DevFields, Never
<1>9. Now \in Nat /\ \A c \in Cutoffs : c <= Now
  BY <1>1, RetentionAssumption DEF Init, Now
<1>10. RecordOk(dev) /\ Within(dev)
  BY <1>8, <1>9 DEF RecordOk, Within
<1>11. /\ DOMAIN imp = DOMAIN NoImport /\ imp.at = "idle" /\ imp.cut = 0 /\ imp.end = 0 /\ imp.chunk = << >>
       /\ imp.skip = 0 /\ imp.size = 0
  BY <1>2 DEF NoImport
<1>12. DOMAIN setters = {} /\ DOMAIN bulk = {} /\ << >> \in Seq(Nat) /\ \A i \in 1 .. Len(imp.chunk) : FALSE
  BY <1>2, <1>11
<1>13. ImportOk /\ SettersOk
  BY <1>11, <1>12 DEF ImportOk, SettersOk
<1>14. BoundaryOk
  <2>1. ~Bounded
    BY <1>2, <1>6, <1>8, <1>11 DEF Bounded
  <2> QED  BY <1>1, <1>2, <1>8, <1>10, <1>11, <1>12, <2>1 DEF BoundaryOk, Never
<1> QED  BY <1>2, <1>3, <1>5, <1>7, <1>9, <1>10, <1>13, <1>14 DEF HistoryInv, ReplayInv, ImportInv

(***************************************************************************)
(* The inductive invariant: who owns each echo window, how many replayed   *)
(* visits leaked and may still leak, and on which side of the boundary     *)
(* everything captured, imported or replayed lies (replay.ts,              *)
(* consumeReplayEcho; index.ts, ensureHistoryBulkBoundary; bulk.ts).       *)
(***************************************************************************)
THEOREM HistoryConsistent == Spec => []HistoryInv
<1>1. Init => HistoryInv
  BY InitHistory
<1>2. HistoryInv /\ [Next]_vars => HistoryInv'
  BY ReplayStep, ImportStep DEF HistoryInv
<1> QED  BY <1>1, <1>2, PTL DEF Spec

\* What is imported is before the boundary.
LEMMA ImportedBefore ==
  ASSUME ImportInv, ~moved
  PROVE  BoundaryOk /\ \A t \in Imported : t \in Nat /\ t < dev.end /\ dev.end \in Nat
<1>1. BoundaryOk /\ RecordOk(dev) /\ ImportOk
  BY DEF ImportInv
<1>2. \A t \in Imported : \E id \in DOMAIN bulk : t \in bulk[id]
  BY DEF Imported
<1> QED  BY <1>1, <1>2 DEF BoundaryOk, RecordOk, ImportOk

(***************************************************************************)
(* Replayed visits neither go back to the account, but for echoes whose    *)
(* window was lost, nor multiply in the browser (replay.ts,                *)
(* consumeReplayEcho and replayVisitsIntoBrowserHistory), however many     *)
(* pages, visits, crashes and deletions there are.                         *)
(***************************************************************************)
THEOREM ReplayHarmlessHolds == Spec => []ReplayHarmless
<1>1. HistoryInv => ReplayHarmless
  <2> SUFFICES ASSUME HistoryInv PROVE ReplayHarmless
    OBVIOUS
  <2>1. BrowserOk /\ KeptOnce /\ Accounted /\ ImportInv
    BY DEF HistoryInv, ReplayInv
  <2>2. NoFeedback
    <3> SUFFICES ASSUME ~moved, NEW u \in Urls
                 PROVE  Cardinality(Replays(u) \cap (live \union Imported)) <= Cardinality(Of(u, orphans))
      BY DEF NoFeedback
    <3>1. BoundaryOk /\ \A t \in Imported : t \in Nat /\ t < dev.end /\ dev.end \in Nat
      BY <2>1, ImportedBefore
    <3>2. \A t \in Replays(u) : dev.end <= t
      BY <3>1 DEF BoundaryOk, Replays, Of
    <3>3. Replays(u) \cap Imported = {}
      BY <3>1, <3>2
    <3>4. Replays(u) \cap (live \union Imported) = Leaked(u)
      BY <3>3 DEF Leaked
    <3>5. /\ Cardinality(Leaked(u)) \in Nat /\ Cardinality(Bereft(u)) \in Nat
          /\ Cardinality(Of(u, orphans)) \in Nat
          /\ Cardinality(Leaked(u)) + Cardinality(Bereft(u)) <= Cardinality(Of(u, orphans))
      BY <2>1, Countable DEF Accounted
    <3>6. Cardinality(Leaked(u)) <= Cardinality(Of(u, orphans))
      BY <3>5
    <3> QED  BY <3>4, <3>6
  <2>3. NoPileUp
    <3> SUFFICES ASSUME NEW u \in Urls PROVE Cardinality(Kept(u)) <= 1
      BY DEF NoPileUp, Kept
    <3>1. CASE Kept(u) = {}
      BY <3>1, FS_EmptySet
    <3>2. CASE Kept(u) # {}
      <4>1. PICK t \in Kept(u) : TRUE
        BY <3>2
      <4>2. \A s \in Kept(u) : s = t
        BY <2>1 DEF KeptOnce
      <4>3. Kept(u) = {t}
        BY <4>1, <4>2
      <4> QED  BY <4>3, FS_Singleton
    <3> QED  BY <3>1, <3>2
  <2> QED  BY <2>2, <2>3 DEF ReplayHarmless
<1> QED  BY <1>1, HistoryConsistent, PTL

(***************************************************************************)
(* A visit captured live, once there is a boundary, is in no chunk of the  *)
(* import: flushVisitEvents drops what is before the boundary, and no      *)
(* scope reaches beyond it (history/index.ts; bulk.ts, runInitialImport    *)
(* and importOlderHistoryPass).                                            *)
(***************************************************************************)
THEOREM CapturedNotImported == Spec => [](~moved => (live \ early) \cap Imported = {})
<1>1. HistoryInv => (~moved => (live \ early) \cap Imported = {})
  <2> SUFFICES ASSUME HistoryInv, ~moved, NEW t \in live \ early, t \in Imported PROVE FALSE
    OBVIOUS
  <2>1. BoundaryOk /\ t \in Nat /\ t < dev.end /\ dev.end \in Nat
    BY ImportedBefore DEF HistoryInv
  <2>2. dev.end <= t
    BY <2>1 DEF BoundaryOk
  <2> QED  BY <2>1, <2>2
<1> QED  BY <1>1, HistoryConsistent, PTL

--------------------------------------------------------------------------------
(***************************************************************************)
(* The import is complete and counts nothing twice.  A walk reads visits   *)
(* in one order, their rank, whatever the pages of results; a chunk is     *)
(* named after its place in that order; and a resumed walk skips by count. *)
(* A page deleted lowers ranks and never raises them, so a visit the       *)
(* server has cannot come up again in a later chunk.                       *)
(***************************************************************************)
\* The visits that j full chunks hold.
Full(j) == j * ChunkVisits

LEMMA FullFacts ==
  /\ Full(0) = 0 /\ ChunkVisits \in Nat /\ ChunkVisits # 0
  /\ \A j \in Nat : Full(j) \in Nat /\ Full(j + 1) = Full(j) + ChunkVisits
  /\ \A i, j \in Nat : i <= j => Full(i) <= Full(j)
  /\ \A i, j \in Nat : i < j => Full(i + 1) <= Full(j)
<1>1. ChunkVisits \in Nat /\ ChunkVisits # 0
  BY SizesAssumption
<1>2. Full(0) = 0
  BY <1>1 DEF Full
<1>3. \A j \in Nat : Full(j) \in Nat /\ Full(j + 1) = Full(j) + ChunkVisits
  BY <1>1 DEF Full
<1>4. \A i, d \in Nat : Full(i + d) = Full(i) + Full(d)
  BY <1>1 DEF Full
<1>5. ASSUME NEW i \in Nat, NEW j \in Nat, i <= j PROVE Full(i) <= Full(j)
  <2>1. PICK d \in Nat : d = j - i
    BY <1>5
  <2>2. j = i + d
    BY <2>1
  <2>3. Full(j) = Full(i) + Full(d) /\ Full(d) \in Nat /\ Full(i) \in Nat
    BY <1>3, <1>4, <2>2
  <2> QED  BY <2>3
<1>6. \A i, j \in Nat : i < j => i + 1 <= j /\ i + 1 \in Nat
  OBVIOUS
<1> QED  BY <1>1, <1>2, <1>3, <1>5, <1>6

\* The latest of some times.
LEMMA Greatest ==
  ASSUME NEW S \in SUBSET Nat, S # {}, NEW n \in Nat, \A x \in S : x <= n
  PROVE  Max(S) \in S /\ \A y \in S : y <= Max(S)
<1> DEFINE D == {d \in Nat : \E x \in S : d = n - x}
<1>1. D \in SUBSET Nat /\ D # {}
  <2>1. PICK x \in S : TRUE
    OBVIOUS
  <2>2. n - x \in D
    OBVIOUS
  <2> QED  BY <2>2
<1>2. PICK d \in D : \A y \in D : d <= y
  <2> HIDE DEF D
  <2> QED  BY <1>1, LeastNumber
<1>3. PICK x \in S : d = n - x
  OBVIOUS
<1>4. \A y \in S : y <= x
  <2> SUFFICES ASSUME NEW y \in S PROVE y <= x
    OBVIOUS
  <2>1. n - y \in D
    OBVIOUS
  <2>2. d <= n - y
    BY <1>2, <2>1
  <2> QED  BY <1>3, <2>2
<1>5. \E m \in S : \A y \in S : m >= y
  BY <1>4
<1> QED  BY <1>5 DEF Max

\* f lists the n times in S; the i-th is the one that i are not after.
Lists(f, S, n) ==
  /\ n \in Nat /\ f \in [1 .. n -> S] /\ f \in Seq(S) /\ Len(f) = n
  /\ \A x \in S : \E i \in 1 .. n : f[i] = x
  /\ \A i, j \in 1 .. n : f[i] = f[j] => i = j
  /\ \A i \in 1 .. n : Cardinality({x \in S : x <= f[i]}) = i

LEMMA AscendingAll ==
  ASSUME NEW S \in SUBSET Nat, IsFiniteSet(S)
  PROVE  Lists(Ascending(S), S, Cardinality(S))
<1> DEFINE f == Ascending(S)
           n == Cardinality(S)
<1> HIDE DEF f, n
<1>1. n \in Nat /\ f \in [1 .. n -> S] /\ Climbs(f)
  BY AscendingIn DEF f, n
<1>2. f \in Seq(S) /\ Len(f) = n
  BY <1>1
<1>3. \A i \in 1 .. n : f[i] \in S /\ f[i] \in Nat
  BY <1>1
<1>4. ASSUME NEW i \in 1 .. n, NEW j \in 1 .. n
      PROVE  (f[i] = f[j] => i = j) /\ (i <= j <=> f[i] <= f[j])
  <2>1. (i < j => f[i] < f[j]) /\ (j < i => f[j] < f[i])
    BY <1>1 DEF Climbs
  <2> QED  BY <1>3, <2>1
<1>5. f \in Injection(1 .. n, S)
  BY <1>1, <1>4 DEF Injection, IsInjective
<1>6. f \in Surjection(1 .. n, S)
  <2>1. Cardinality(1 .. n) = n
    BY <1>1, FS_Interval
  <2>2. Cardinality(S) = n
    BY DEF n
  <2> QED  BY <1>5, <2>1, <2>2, FS_Injection
<1>7. \A x \in S : \E i \in 1 .. n : f[i] = x
  BY <1>6 DEF Surjection
<1>8. ASSUME NEW i \in 1 .. n
      PROVE  IsFiniteSet({x \in S : x <= f[i]}) /\ Cardinality({x \in S : x <= f[i]}) = i
  <2> DEFINE g == [k \in 1 .. i |-> f[k]]
             T == {x \in S : x <= f[i]}
  <2>1. \A k \in 1 .. i : k \in 1 .. n /\ k <= i
    BY <1>1
  <2>2. g \in [1 .. i -> T]
    BY <1>3, <1>4, <2>1
  <2>3. \A k, l \in 1 .. i : g[k] = g[l] => k = l
    BY <1>4, <2>1
  <2>4. \A x \in T : \E k \in 1 .. i : g[k] = x
    <3> SUFFICES ASSUME NEW x \in T PROVE \E k \in 1 .. i : g[k] = x
      OBVIOUS
    <3>1. PICK k \in 1 .. n : f[k] = x
      BY <1>7
    <3>2. k <= i
      BY <1>4, <3>1
    <3> QED  BY <3>1, <3>2
  <2>5. ExistsBijection(1 .. i, T)
    <3> HIDE DEF g, T
    <3> QED  BY <2>2, <2>3, <2>4 DEF ExistsBijection, Bijection, Injection, Surjection, IsInjective
  <2>6. IsFiniteSet(1 .. i) /\ Cardinality(1 .. i) = i
    BY FS_Interval
  <2> HIDE DEF T
  <2>7. IsFiniteSet(T) /\ Cardinality(T) = i
    BY <2>5, <2>6, FS_Bijection
  <2> QED  BY <2>7 DEF T
<1>9. Lists(f, S, n)
  BY <1>1, <1>2, <1>4, <1>7, <1>8 DEF Lists
<1> QED  BY <1>9 DEF f, n

--------------------------------------------------------------------------------
(***************************************************************************)
(* The order in which an import reads visits: the pages by their latest    *)
(* visit between the bounds, and of a page the oldest visit first.         *)
(***************************************************************************)
\* The visits of the history h between the bounds c and e that an import reads.
VisOf(h, c, e) == {t \in DOMAIN h : h[t].kind # "frame" /\ ~h[t].gone /\ c <= t /\ t < e}

Page(h, V, u) == {t \in V : h[t].url = u}

\* The page u has a visit in V later than any of v.
Ahead(h, V, u, v) == \E z \in V : h[z].url = u /\ \A y \in V : h[y].url = v => y < z

\* The visits up to t in that order.
Upto(h, V, t) ==
  {x \in V : (h[x].url = h[t].url /\ x <= t) \/ Ahead(h, V, h[x].url, h[t].url)}

Rank(h, V, t) == Cardinality(Upto(h, V, t))

\* The visits of pages other than us.
Todo(h, V, us) == {t \in V : h[t].url \notin us}

SameUrls(h, g, V) == \A t \in V : g[t].url = h[t].url

\* Without some pages, the order of the others is the same.
LEMMA Without ==
  ASSUME NEW h, NEW g, NEW V, NEW us, NEW W, W = Todo(h, V, us), SameUrls(h, g, V)
  PROVE  /\ \A u, v : u \notin us /\ v \notin us => (Ahead(g, W, u, v) <=> Ahead(h, V, u, v))
         /\ \A t \in W : Upto(g, W, t) = Upto(h, V, t) \cap W
         /\ \A u : u \notin us => Page(g, W, u) = Page(h, V, u)
<1>1. W \subseteq V /\ (\A t \in V : t \in W <=> h[t].url \notin us) /\ \A t \in V : g[t].url = h[t].url
  BY DEF Todo, SameUrls
<1>2. ASSUME NEW u, NEW v, u \notin us, v \notin us PROVE Ahead(g, W, u, v) <=> Ahead(h, V, u, v)
  BY <1>1, <1>2 DEF Ahead
<1>3. ASSUME NEW t \in W PROVE Upto(g, W, t) = Upto(h, V, t) \cap W
  <2>1. \A x \in W : Ahead(g, W, g[x].url, g[t].url) <=> Ahead(h, V, h[x].url, h[t].url)
    BY <1>1, <1>2, <1>3
  <2> QED  BY <1>1, <1>3, <2>1 DEF Upto
<1>4. \A u : u \notin us => Page(g, W, u) = Page(h, V, u)
  BY <1>1 DEF Page
<1> QED  BY <1>2, <1>3, <1>4

\* Ranks are counts.
LEMMA RankTypes ==
  ASSUME NEW h, NEW V \in SUBSET Nat, IsFiniteSet(V)
  PROVE  /\ Cardinality(V) \in Nat
         /\ \A t : IsFiniteSet(Upto(h, V, t)) /\ Rank(h, V, t) \in Nat /\ Rank(h, V, t) <= Cardinality(V)
         /\ \A t \in V : t \in Upto(h, V, t) /\ Rank(h, V, t) # 0
<1>1. \A t : Upto(h, V, t) \in SUBSET V
  BY DEF Upto
<1>2. \A t : IsFiniteSet(Upto(h, V, t)) /\ Cardinality(Upto(h, V, t)) <= Cardinality(V)
  BY <1>1, FS_Subset
<1>3. \A t \in V : t \in Upto(h, V, t)
  BY DEF Upto
<1>4. \A t \in V : Cardinality(Upto(h, V, t)) # 0
  BY <1>2, <1>3, FS_EmptySet
<1> QED  BY <1>2, <1>3, <1>4, FS_CardinalityType DEF Rank

\* The pages that have visits outside T come before the others.
Order(h, V, T) == \A x \in V \ T, y \in T : Ahead(h, V, h[x].url, h[y].url)

\* So the visits in T rank after all the others.
RanksAfter(h, V, T) ==
  /\ Cardinality(V \ T) \in Nat /\ Cardinality(T) \in Nat
  /\ Cardinality(V) = Cardinality(V \ T) + Cardinality(T)
  /\ \A t \in T : Rank(h, V, t) = Cardinality(V \ T) + Rank(h, T, t)
  /\ \A t \in V \ T : Rank(h, V, t) <= Cardinality(V \ T)

LEMMA Split ==
  ASSUME NEW h, NEW V \in SUBSET Nat, IsFiniteSet(V), NEW us, NEW T, T = Todo(h, V, us),
         Order(h, V, T)
  PROVE  RanksAfter(h, V, T)
<1>1. T \subseteq V /\ \A t \in V : t \in T <=> h[t].url \notin us
  BY DEF Todo
<1>2. T \in SUBSET Nat /\ IsFiniteSet(T) /\ IsFiniteSet(V \ T) /\ Cardinality(T) \in Nat /\ Cardinality(V \ T) \in Nat
  BY <1>1, FS_Subset, FS_Difference, FS_CardinalityType
<1>3. ASSUME NEW A, IsFiniteSet(A), NEW B, IsFiniteSet(B), A \cap B = {}
      PROVE  Cardinality(A \cup B) = Cardinality(A) + Cardinality(B)
  <2>1. Cardinality(A \cup B) = Cardinality(A) + Cardinality(B) - Cardinality({})
    BY <1>3, FS_Union
  <2> QED  BY <1>3, <2>1, FS_EmptySet, FS_CardinalityType
<1>4. Cardinality(V) = Cardinality(V \ T) + Cardinality(T)
  <2>1. (V \ T) \cup T = V /\ (V \ T) \cap T = {}
    BY <1>1
  <2>2. Cardinality((V \ T) \cup T) = Cardinality(V \ T) + Cardinality(T)
    BY <1>2, <1>3, <2>1
  <2> QED  BY <2>1, <2>2
<1>5. ASSUME NEW t \in T PROVE Rank(h, V, t) = Cardinality(V \ T) + Rank(h, T, t)
  <2>1. Upto(h, T, t) = Upto(h, V, t) \cap T
    <3>1. SameUrls(h, h, V)
      BY DEF SameUrls
    <3> QED  BY <3>1, Without
  <2>2. V \ T \subseteq Upto(h, V, t)
    BY <1>1 DEF Upto, Order
  <2>3. Upto(h, V, t) = (V \ T) \cup Upto(h, T, t) /\ (V \ T) \cap Upto(h, T, t) = {}
    <3>1. Upto(h, V, t) \subseteq V
      BY DEF Upto
    <3> QED  BY <2>1, <2>2, <3>1
  <2>4. IsFiniteSet(Upto(h, T, t))
    BY <1>2, RankTypes
  <2>5. Cardinality((V \ T) \cup Upto(h, T, t)) = Cardinality(V \ T) + Cardinality(Upto(h, T, t))
    BY <1>2, <1>3, <2>3, <2>4
  <2> QED  BY <2>3, <2>5 DEF Rank
<1>6. ASSUME NEW t \in V \ T PROVE Rank(h, V, t) <= Cardinality(V \ T)
  <2>1. ASSUME NEW x \in Upto(h, V, t), x \in T PROVE FALSE
    <3>1. x \in V /\ h[x].url # h[t].url
      BY <1>1, <2>1
    <3>2. Ahead(h, V, h[x].url, h[t].url) /\ Ahead(h, V, h[t].url, h[x].url)
      BY <2>1, <3>1 DEF Upto, Order
    <3>3. PICK y \in V, z \in V : h[y].url = h[x].url /\ h[z].url = h[t].url /\ z < y /\ y < z
      BY <3>2 DEF Ahead
    <3> QED  BY <3>3
  <2>2. Upto(h, V, t) \in SUBSET (V \ T)
    BY <2>1 DEF Upto
  <2> QED  BY <1>2, <2>2, FS_Subset DEF Rank
<1> QED  BY <1>2, <1>4, <1>5, <1>6 DEF RanksAfter

\* The visits of the first page rank first.
LEMMA FirstPage ==
  ASSUME NEW h, NEW V \in SUBSET Nat, NEW u, NEW S, S = Page(h, V, u), Order(h, V, V \ S)
  PROVE  \A t \in S : Upto(h, V, t) = {x \in S : x <= t}
<1>0. \A x \in S, y \in V \ S : Ahead(h, V, h[x].url, h[y].url)
  BY DEF Order, Page
<1> SUFFICES ASSUME NEW t \in S PROVE Upto(h, V, t) = {x \in S : x <= t}
  OBVIOUS
<1>1. S \subseteq V /\ (\A x \in V : x \in S <=> h[x].url = u) /\ t \in V /\ h[t].url = u
  BY DEF Page
<1>2. \A v : ~Ahead(h, V, v, v)
  <2> SUFFICES ASSUME NEW v, Ahead(h, V, v, v) PROVE FALSE
    OBVIOUS
  <2>1. PICK z \in V : z < z
    BY DEF Ahead
  <2> QED  BY <2>1
<1>3. ASSUME NEW x \in V \ S PROVE x \notin Upto(h, V, t)
  <2>1. SUFFICES ASSUME Ahead(h, V, h[x].url, h[t].url) PROVE FALSE
    BY <1>1, <1>3 DEF Upto
  <2>2. Ahead(h, V, h[t].url, h[x].url)
    BY <1>0, <1>3
  <2>3. PICK y \in V, z \in V : z < y /\ y < z
    BY <1>3, <2>1, <2>2 DEF Ahead
  <2> QED  BY <2>3
<1> QED  BY <1>1, <1>2, <1>3 DEF Upto

--------------------------------------------------------------------------------
(***************************************************************************)
(* A scope of the import: h is the history, V the scope's visits, c its    *)
(* cutoff, b the server's chunks, d whether the scope was disturbed.       *)
(***************************************************************************)
Sent(b, c) == {j \in Nat : <<c, j>> \in DOMAIN b}

\* A checkpoint counts what the chunks sent hold, and only the last is short.
Resumable(b, c, V, chunks, visits) ==
  /\ chunks \in Nat /\ visits \in Nat
  /\ \A j \in Nat : j < chunks => j \in Sent(b, c)
  /\ visits <= Full(chunks)
  /\ visits = Full(chunks) \/ Cardinality(V) <= visits

\* A visit in a chunk ranks no later than that chunk; when nothing disturbed
\* the scope, the chunk holds all the visits of its ranks.
ChunksOk(h, V, b, c, d) ==
  /\ \A i, j \in Nat : i <= j /\ j \in Sent(b, c) => i \in Sent(b, c)
  /\ \A j \in Sent(b, c), t \in V : t \in b[<<c, j>>] => Rank(h, V, t) <= Full(j + 1)
  /\ ~d => \A j \in Sent(b, c), t \in V :
             Full(j) < Rank(h, V, t) /\ Rank(h, V, t) <= Full(j + 1) => t \in b[<<c, j>>]

(***************************************************************************)
(* A walk m through the scope, T being the visits of the pages it has not  *)
(* read.                                                                   *)
(***************************************************************************)
\* The visits the walk has come past, those it skipped included.
Walked(m) == m.size + Len(m.chunk) - m.skip

Counts(V, T, b, m, d) ==
  /\ m.index \in Nat /\ m.skip <= m.size /\ (m.skip # 0 => m.chunk = << >>)
  /\ \A j \in Nat : j < m.index => j \in Sent(b, m.cut)
  /\ m.size <= Full(m.index)
  /\ m.size = Full(m.index) \/ (m.chunk = << >> /\ Cardinality(T) <= m.skip)
  /\ Cardinality(V \ T) <= Walked(m)
  /\ ~d => Cardinality(V \ T) = Walked(m)

\* The visits about to be sent are read, and there once.
ChunkOk(h, m) ==
  /\ \A p, q \in 1 .. Len(m.chunk) : m.chunk[p] = m.chunk[q] => p = q
  /\ \A p \in 1 .. Len(m.chunk) :
       /\ m.chunk[p] \in DOMAIN h /\ m.cut <= m.chunk[p] /\ m.chunk[p] < m.end
       /\ h[m.chunk[p]].url \in DOMAIN m.seen

\* A visit the server has in a chunk comes up again, if at all, before that
\* chunk's end; with nothing disturbed, a visit comes up at its rank.
Places(h, V, T, b, m, d) ==
  /\ \A p \in 1 .. Len(m.chunk) : m.chunk[p] \in V => Rank(h, V, m.chunk[p]) <= m.size + p
  /\ \A p \in 1 .. Len(m.chunk), j \in Sent(b, m.cut) :
       m.chunk[p] \in b[<<m.cut, j>>] => m.size + p <= Full(j + 1)
  /\ \A t \in T, j \in Sent(b, m.cut) :
       t \in b[<<m.cut, j>>] => Walked(m) + Rank(h, T, t) <= Full(j + 1)
  /\ ~d => \A t \in V \ T : Rank(h, V, t) > m.size =>
             \E p \in 1 .. Len(m.chunk) : Rank(h, V, t) = m.size + p /\ m.chunk[p] = t

\* What was read of a page is what it has, if it was not deleted since.
SeenOk(h, V, m) ==
  \A u \in DOMAIN m.seen : /\ m.seen[u] \in SUBSET (DOMAIN h)
                           /\ Page(h, V, u) # {} => m.seen[u] = Page(h, V, u)

Walk(h, V, T, b, m, d) ==
  Counts(V, T, b, m, d) /\ ChunkOk(h, m) /\ Places(h, V, T, b, m, d) /\ Order(h, V, T) /\ SeenOk(h, V, m)

\* The pages found and not read yet, in order, come before those not found;
\* and those will be, below the cursor.
Paging(h, V, T, m) ==
  /\ m.bound \in Int /\ m.bound <= m.end /\ \A y \in T : y < m.bound
  /\ m.page \in Seq(Urls) /\ \A i \in 1 .. Len(m.page) : m.page[i] \notin DOMAIN m.seen
  /\ \A i, j \in 1 .. Len(m.page) : i < j => /\ m.page[i] # m.page[j]
                                             /\ Page(h, V, m.page[i]) # {} => Ahead(h, V, m.page[i], m.page[j])
  /\ m.full => m.last \in DOMAIN m.seen \/ \E i \in 1 .. Len(m.page) : m.last = m.page[i]
  /\ \A y \in T : (\A i \in 1 .. Len(m.page) : m.page[i] # h[y].url) =>
       /\ m.full /\ y < m.bound - 1
       /\ \A i \in 1 .. Len(m.page) : Page(h, V, m.page[i]) # {} => Ahead(h, V, m.page[i], h[y].url)
       /\ m.last \in DOMAIN m.seen => \/ \E z \in m.seen[m.last] : y < z /\ z < m.bound
                                      \/ \A z \in m.seen[m.last] : z >= m.bound

\* The history moves on, and may lose the pages us.
Loses(h, g, V, us, W) ==
  /\ V \in SUBSET Nat /\ IsFiniteSet(V) /\ V \subseteq DOMAIN h
  /\ W = Todo(h, V, us) /\ DOMAIN h \subseteq DOMAIN g /\ \A t \in DOMAIN h : g[t].url = h[t].url

LEMMA LosesFacts ==
  ASSUME NEW h, NEW g, NEW V, NEW us, NEW W, Loses(h, g, V, us, W)
  PROVE  /\ W \in SUBSET V /\ W \in SUBSET Nat /\ IsFiniteSet(W) /\ Cardinality(W) <= Cardinality(V)
         /\ Cardinality(W) \in Nat /\ Cardinality(V) \in Nat
         /\ \A t \in W : /\ h[t].url \notin us /\ g[t].url = h[t].url
                         /\ Rank(g, W, t) <= Rank(h, V, t) /\ Rank(g, W, t) \in Nat /\ Rank(h, V, t) \in Nat
         /\ W = V => \A t \in W : Rank(g, W, t) = Rank(h, V, t)
         /\ \A v : \A x \in W : Ahead(h, V, h[x].url, v) => Ahead(g, W, h[x].url, v)
         /\ \A u : Page(g, W, u) # {} => u \notin us /\ Page(g, W, u) = Page(h, V, u)
<1>1. W \in SUBSET V /\ (\A t \in V : g[t].url = h[t].url) /\ W = Todo(h, V, us) /\ V \in SUBSET Nat /\ IsFiniteSet(V)
  <2>1. /\ V \in SUBSET Nat /\ IsFiniteSet(V) /\ V \subseteq DOMAIN h
        /\ W = Todo(h, V, us) /\ \A t \in DOMAIN h : g[t].url = h[t].url
    BY DEF Loses
  <2>2. W \in SUBSET V
    BY <2>1 DEF Todo
  <2> QED  BY <2>1, <2>2
<1>2. \A t \in W : Upto(g, W, t) = Upto(h, V, t) \cap W
  <2>1. SameUrls(h, g, V) /\ W = Todo(h, V, us)
    BY <1>1 DEF SameUrls
  <2> QED  BY <2>1, Without
<1>3. IsFiniteSet(W) /\ Cardinality(W) <= Cardinality(V) /\ W \in SUBSET Nat
  BY <1>1, FS_Subset
<1>4. Cardinality(W) \in Nat /\ Cardinality(V) \in Nat
  BY <1>1, <1>3, FS_CardinalityType
<1>5. ASSUME NEW t \in W
      PROVE  /\ h[t].url \notin us /\ g[t].url = h[t].url
             /\ Rank(g, W, t) <= Rank(h, V, t) /\ Rank(g, W, t) \in Nat /\ Rank(h, V, t) \in Nat
             /\ W = V => Rank(g, W, t) = Rank(h, V, t)
  <2>1. IsFiniteSet(Upto(h, V, t)) /\ Rank(h, V, t) \in Nat /\ Rank(g, W, t) \in Nat
    BY <1>1, <1>3, RankTypes
  <2>2. Upto(g, W, t) \in SUBSET Upto(h, V, t)
    BY <1>2
  <2>3. Rank(g, W, t) <= Rank(h, V, t)
    BY <2>1, <2>2, FS_Subset DEF Rank
  <2>4. W = V => Upto(g, W, t) = Upto(h, V, t)
    BY <1>2 DEF Upto
  <2>5. h[t].url \notin us /\ g[t].url = h[t].url
    BY <1>1, <1>5 DEF Todo
  <2> QED  BY <2>1, <2>3, <2>4, <2>5 DEF Rank
<1>6. ASSUME NEW x \in W, NEW v, Ahead(h, V, h[x].url, v) PROVE Ahead(g, W, h[x].url, v)
  <2>1. PICK z \in V : h[z].url = h[x].url /\ \A y \in V : h[y].url = v => y < z
    BY <1>6 DEF Ahead
  <2>2. z \in W
    BY <1>1, <2>1 DEF Todo
  <2> QED  BY <1>1, <2>1, <2>2 DEF Ahead
<1>7. ASSUME NEW u, Page(g, W, u) # {} PROVE u \notin us /\ Page(g, W, u) = Page(h, V, u)
  <2>1. PICK t \in W : g[t].url = u
    BY <1>7 DEF Page
  <2>2. u \notin us
    BY <1>1, <2>1 DEF Todo
  <2>3. SameUrls(h, g, V) /\ W = Todo(h, V, us)
    BY <1>1 DEF SameUrls
  <2>4. Page(g, W, u) = Page(h, V, u)
    BY <2>2, <2>3, Without
  <2> QED  BY <2>2, <2>4
<1> QED  BY <1>1, <1>3, <1>4, <1>5, <1>6, <1>7

\* The chunks sent and the checkpoint bear a loss.
LEMMA LosesChunks ==
  ASSUME NEW h, NEW g, NEW V, NEW us, NEW W, Loses(h, g, V, us, W), NEW b, NEW c, NEW d, NEW f,
         ~f => ~d /\ W = V
  PROVE  /\ ChunksOk(h, V, b, c, d) => ChunksOk(g, W, b, c, f)
         /\ \A n, v : Resumable(b, c, V, n, v) => Resumable(b, c, W, n, v)
<1>1. /\ W \in SUBSET V /\ Cardinality(W) <= Cardinality(V) /\ Cardinality(W) \in Nat /\ Cardinality(V) \in Nat
      /\ \A t \in W : Rank(g, W, t) <= Rank(h, V, t) /\ Rank(g, W, t) \in Nat /\ Rank(h, V, t) \in Nat
      /\ W = V => \A t \in W : Rank(g, W, t) = Rank(h, V, t)
  BY LosesFacts
<1>2. \A n, v : Resumable(b, c, V, n, v) => Resumable(b, c, W, n, v)
  BY <1>1 DEF Resumable
<1>3. ASSUME ChunksOk(h, V, b, c, d) PROVE ChunksOk(g, W, b, c, f)
  <2>1. ASSUME NEW j \in Sent(b, c), NEW t \in W, t \in b[<<c, j>>] PROVE Rank(g, W, t) <= Full(j + 1)
    <3>1. Rank(h, V, t) <= Full(j + 1) /\ j \in Nat
      BY <1>1, <1>3, <2>1 DEF ChunksOk, Sent
    <3>2. Full(j + 1) \in Nat
      BY <3>1, FullFacts
    <3> QED  BY <1>1, <3>1, <3>2
  <2>2. ASSUME ~f, NEW j \in Sent(b, c), NEW t \in W, Full(j) < Rank(g, W, t), Rank(g, W, t) <= Full(j + 1)
        PROVE  t \in b[<<c, j>>]
    BY <1>1, <1>3, <2>2 DEF ChunksOk
  <2> QED  BY <1>3, <2>1, <2>2 DEF ChunksOk
<1> QED  BY <1>2, <1>3

WalkTypes(m) == m.chunk \in Seq(Nat) /\ m.skip \in Nat /\ m.size \in Nat

LEMMA WalkedType ==
  ASSUME NEW m, WalkTypes(m), m.skip <= m.size
  PROVE  Walked(m) \in Nat /\ Len(m.chunk) \in Nat
BY DEF WalkTypes, Walked

\* So does the walk.
LEMMA LosesWalk ==
  ASSUME NEW h, NEW g, NEW V, NEW us, NEW W, Loses(h, g, V, us, W), NEW b, NEW m, NEW d, NEW f,
         ~f => ~d /\ W = V, WalkTypes(m),
         NEW T, T = Todo(h, V, DOMAIN m.seen), NEW X, X = Todo(g, W, DOMAIN m.seen),
         Walk(h, V, T, b, m, d)
  PROVE  Walk(g, W, X, b, m, f) /\ (Paging(h, V, T, m) => Paging(g, W, X, m))
<1>1. /\ W \in SUBSET V /\ W \in SUBSET Nat /\ IsFiniteSet(W)
      /\ \A t \in W : /\ h[t].url \notin us /\ g[t].url = h[t].url
                      /\ Rank(g, W, t) <= Rank(h, V, t) /\ Rank(g, W, t) \in Nat /\ Rank(h, V, t) \in Nat
      /\ W = V => \A t \in W : Rank(g, W, t) = Rank(h, V, t)
      /\ \A v : \A x \in W : Ahead(h, V, h[x].url, v) => Ahead(g, W, h[x].url, v)
      /\ \A u : Page(g, W, u) # {} => u \notin us /\ Page(g, W, u) = Page(h, V, u)
  BY LosesFacts
<1>2. /\ V \in SUBSET Nat /\ IsFiniteSet(V) /\ V \subseteq DOMAIN h /\ W = Todo(h, V, us)
      /\ DOMAIN h \subseteq DOMAIN g /\ \A t \in DOMAIN h : g[t].url = h[t].url
  BY DEF Loses
<1>3. T \in SUBSET V /\ X = T \cap W /\ X = Todo(h, T, us) /\ X \in SUBSET T /\ W \ X \subseteq V \ T
  <2>1. \A t \in V : (t \in T <=> h[t].url \notin DOMAIN m.seen) /\ (t \in W <=> h[t].url \notin us)
    BY <1>2 DEF Todo
  <2>2. \A t \in W : t \in X <=> h[t].url \notin DOMAIN m.seen
    BY <1>1 DEF Todo
  <2>3. T \subseteq V /\ X \subseteq W
    BY DEF Todo
  <2>4. X = T \cap W
    BY <1>1, <2>1, <2>2, <2>3
  <2>5. Todo(h, T, us) = T \cap W
    BY <2>1, <2>3 DEF Todo
  <2> QED  BY <1>1, <2>3, <2>4, <2>5
<1>4. Loses(h, g, T, us, X)
  <2>1. IsFiniteSet(T) /\ T \in SUBSET Nat
    BY <1>2, <1>3, FS_Subset
  <2> QED  BY <1>2, <1>3, <2>1 DEF Loses
<1>5. /\ Cardinality(X) <= Cardinality(T) /\ Cardinality(X) \in Nat /\ Cardinality(T) \in Nat
      /\ \A t \in X : Rank(g, X, t) <= Rank(h, T, t) /\ Rank(g, X, t) \in Nat /\ Rank(h, T, t) \in Nat
  BY <1>4, LosesFacts
<1>6. Cardinality(W \ X) <= Cardinality(V \ T) /\ Cardinality(W \ X) \in Nat /\ Cardinality(V \ T) \in Nat
  <2>1. IsFiniteSet(V \ T)
    BY <1>2, FS_Difference
  <2>2. W \ X \in SUBSET (V \ T)
    BY <1>3
  <2> QED  BY <2>1, <2>2, FS_Subset, FS_CardinalityType
<1>7. W = V => X = T /\ W \ X = V \ T
  BY <1>3
<1>8. Counts(V, T, b, m, d) /\ ChunkOk(h, m) /\ Places(h, V, T, b, m, d) /\ Order(h, V, T) /\ SeenOk(h, V, m)
  BY DEF Walk
<1>9. Walked(m) \in Nat /\ Len(m.chunk) \in Nat /\ m.size \in Nat /\ m.skip \in Nat
  BY <1>8, WalkedType DEF Counts, WalkTypes
<1>10. Counts(W, X, b, m, f)
  <2>1. m.size = Full(m.index) \/ (m.chunk = << >> /\ Cardinality(X) <= m.skip)
    BY <1>5, <1>8, <1>9 DEF Counts
  <2>2. Cardinality(W \ X) <= Walked(m) /\ (~f => Cardinality(W \ X) = Walked(m))
    <3>1. Cardinality(V \ T) <= Walked(m) /\ (~d => Cardinality(V \ T) = Walked(m))
      BY <1>8 DEF Counts
    <3>2. Cardinality(W \ X) <= Walked(m)
      BY <1>6, <1>9, <3>1
    <3>3. ASSUME ~f PROVE Cardinality(W \ X) = Walked(m)
      <4>1. ~d /\ W \ X = V \ T
        BY <1>7, <3>3
      <4> QED  BY <3>1, <4>1
    <3> QED  BY <3>2, <3>3
  <2> QED  BY <1>8, <2>1, <2>2 DEF Counts
<1>11. ChunkOk(g, m)
  <2>1. ASSUME NEW p \in 1 .. Len(m.chunk)
        PROVE  /\ m.chunk[p] \in DOMAIN g /\ m.cut <= m.chunk[p] /\ m.chunk[p] < m.end
               /\ g[m.chunk[p]].url \in DOMAIN m.seen
    BY <1>2, <1>8, <2>1 DEF ChunkOk
  <2> QED  BY <1>8, <2>1 DEF ChunkOk
<1>12. Places(g, W, X, b, m, f)
  <2>1. ASSUME NEW p \in 1 .. Len(m.chunk), m.chunk[p] \in W PROVE Rank(g, W, m.chunk[p]) <= m.size + p
    <3>1. PICK t \in W : t = m.chunk[p]
      BY <2>1
    <3>2. Rank(h, V, t) <= m.size + p
      BY <1>1, <1>8, <2>1, <3>1 DEF Places
    <3>3. Rank(g, W, t) <= m.size + p
      BY <1>1, <1>9, <2>1, <3>2
    <3> QED  BY <3>1, <3>3
  <2>2. ASSUME NEW t \in X, NEW j \in Sent(b, m.cut), t \in b[<<m.cut, j>>]
        PROVE  Walked(m) + Rank(g, X, t) <= Full(j + 1)
    <3>1. Walked(m) + Rank(h, T, t) <= Full(j + 1)
      BY <1>3, <1>8, <2>2 DEF Places
    <3>2. Full(j + 1) \in Nat
      BY FullFacts DEF Sent
    <3> QED  BY <1>5, <1>9, <2>2, <3>1, <3>2
  <2>3. ASSUME ~f, NEW t \in W \ X, Rank(g, W, t) > m.size
        PROVE  \E p \in 1 .. Len(m.chunk) : Rank(g, W, t) = m.size + p /\ m.chunk[p] = t
    <3>1. W = V /\ t \in V \ T /\ ~d /\ Rank(g, W, t) = Rank(h, V, t)
      BY <1>1, <1>7, <2>3
    <3> QED  BY <1>8, <2>3, <3>1 DEF Places
  <2>4. \A p \in 1 .. Len(m.chunk), j \in Sent(b, m.cut) :
          m.chunk[p] \in b[<<m.cut, j>>] => m.size + p <= Full(j + 1)
    BY <1>8 DEF Places
  <2> QED  BY <2>1, <2>2, <2>3, <2>4 DEF Places
<1>13. Order(g, W, X)
  <2> SUFFICES ASSUME NEW x \in W \ X, NEW y \in X PROVE Ahead(g, W, g[x].url, g[y].url)
    BY DEF Order
  <2>1. Ahead(h, V, h[x].url, h[y].url)
    BY <1>3, <1>8 DEF Order
  <2>2. y \in W /\ g[x].url = h[x].url /\ g[y].url = h[y].url
    BY <1>1, <1>3
  <2> QED  BY <1>1, <2>1, <2>2
<1>14. SeenOk(g, W, m)
  BY <1>1, <1>2, <1>8 DEF SeenOk
<1>15. ASSUME Paging(h, V, T, m) PROVE Paging(g, W, X, m)
  <2>1. ASSUME NEW u, Page(g, W, u) # {} PROVE Page(h, V, u) # {} /\ \A v : Ahead(h, V, u, v) => Ahead(g, W, u, v)
    <3>1. PICK x \in W : g[x].url = u
      BY <2>1 DEF Page
    <3>2. h[x].url = u
      BY <1>1, <3>1
    <3> QED  BY <1>1, <2>1, <3>1, <3>2
  <2>2. m.bound \in Int /\ m.bound <= m.end /\ \A y \in X : y < m.bound
    BY <1>3, <1>15 DEF Paging
  <2>3. \A i, j \in 1 .. Len(m.page) : i < j => /\ m.page[i] # m.page[j]
                                                /\ Page(g, W, m.page[i]) # {} => Ahead(g, W, m.page[i], m.page[j])
    BY <1>15, <2>1 DEF Paging
  <2>4. ASSUME NEW y \in X, \A i \in 1 .. Len(m.page) : m.page[i] # g[y].url
        PROVE  /\ m.full /\ y < m.bound - 1
               /\ \A i \in 1 .. Len(m.page) : Page(g, W, m.page[i]) # {} => Ahead(g, W, m.page[i], g[y].url)
               /\ m.last \in DOMAIN m.seen => \/ \E z \in m.seen[m.last] : y < z /\ z < m.bound
                                              \/ \A z \in m.seen[m.last] : z >= m.bound
    <3>1. y \in T /\ g[y].url = h[y].url /\ \A i \in 1 .. Len(m.page) : m.page[i] # h[y].url
      BY <1>1, <1>3, <2>4
    <3>2. /\ m.full /\ y < m.bound - 1
          /\ \A i \in 1 .. Len(m.page) : Page(h, V, m.page[i]) # {} => Ahead(h, V, m.page[i], h[y].url)
          /\ m.last \in DOMAIN m.seen => \/ \E z \in m.seen[m.last] : y < z /\ z < m.bound
                                         \/ \A z \in m.seen[m.last] : z >= m.bound
      BY <1>15, <3>1 DEF Paging
    <3> QED  BY <2>1, <3>1, <3>2
  <2>5. /\ m.page \in Seq(Urls) /\ \A i \in 1 .. Len(m.page) : m.page[i] \notin DOMAIN m.seen
        /\ m.full => m.last \in DOMAIN m.seen \/ \E i \in 1 .. Len(m.page) : m.last = m.page[i]
    BY <1>15 DEF Paging
  <2> QED  BY <2>2, <2>3, <2>4, <2>5 DEF Paging
<1> QED  BY <1>10, <1>11, <1>12, <1>13, <1>14, <1>15 DEF Walk

--------------------------------------------------------------------------------
(***************************************************************************)
(* Reading a page: its visits S, f in order, of which the first k are      *)
(* skipped, come after all that was read before.                           *)
(***************************************************************************)
Resolves(h, V, T, X, m, n, u, S, f, k) ==
  /\ m.page # << >> /\ u = Head(m.page) /\ S = Page(h, V, u) /\ f = Ascending(S)
  /\ k = IF m.skip < Len(f) THEN m.skip ELSE Len(f)
  /\ n.cut = m.cut /\ n.end = m.end /\ n.index = m.index /\ n.size = m.size
  /\ n.bound = m.bound /\ n.full = m.full /\ n.last = m.last
  /\ n.page = Tail(m.page) /\ n.seen = With(m.seen, u, S)
  /\ n.skip = m.skip - k /\ n.chunk = m.chunk \o SubSeq(f, k + 1, Len(f))
  /\ V \in SUBSET Nat /\ IsFiniteSet(V) /\ V \subseteq DOMAIN h /\ WalkTypes(m)
  /\ \A t \in V : m.cut <= t /\ t < m.end
  /\ T = Todo(h, V, DOMAIN m.seen) /\ X = Todo(h, V, DOMAIN n.seen)

\* The first page found is read, T being the visits not read before and X after.
Turns(h, V, T, X, m, n, u, S) ==
  /\ Len(m.page) \in Nat /\ Len(m.page) # 0 /\ u = m.page[1] /\ u \in Urls
  /\ n.page \in Seq(Urls) /\ Len(n.page) = Len(m.page) - 1
  /\ \A i \in 1 .. Len(n.page) : i + 1 \in 1 .. Len(m.page) /\ n.page[i] = m.page[i + 1]
  /\ u \notin DOMAIN m.seen /\ DOMAIN n.seen = DOMAIN m.seen \union {u}
  /\ n.seen[u] = S /\ \A v \in DOMAIN m.seen : n.seen[v] = m.seen[v]
  /\ T \in SUBSET V /\ S \in SUBSET T /\ X = T \ S /\ X = Todo(h, T, {u}) /\ S = T \ X
  /\ \A x \in S : h[x].url = u
  /\ \A y \in X : h[y].url # u
  /\ \A x \in S, y \in X : Ahead(h, V, h[x].url, h[y].url)

LEMMA ResolvePages ==
  ASSUME NEW h, NEW V, NEW T, NEW X, NEW m, NEW n, NEW u, NEW S, NEW f, NEW k,
         Resolves(h, V, T, X, m, n, u, S, f, k),
         Paging(h, V, T, m)
  PROVE  Turns(h, V, T, X, m, n, u, S)
<1>1. /\ m.page # << >> /\ u = Head(m.page) /\ S = Page(h, V, u)
      /\ n.page = Tail(m.page) /\ n.seen = With(m.seen, u, S)
      /\ T = Todo(h, V, DOMAIN m.seen) /\ X = Todo(h, V, DOMAIN n.seen)
  BY DEF Resolves
<1>2. m.page \in Seq(Urls) /\ \A i \in 1 .. Len(m.page) : m.page[i] \notin DOMAIN m.seen
  BY DEF Paging
<1>3. /\ Len(m.page) \in Nat /\ Len(m.page) # 0 /\ u = m.page[1] /\ u \in Urls
      /\ n.page \in Seq(Urls) /\ Len(n.page) = Len(m.page) - 1
      /\ \A i \in 1 .. Len(n.page) : n.page[i] = m.page[i + 1]
  <2>1. PICK page \in Seq(Urls) : page = m.page
    BY <1>2
  <2>2. page # << >> /\ u = Head(page) /\ n.page = Tail(page)
    BY <1>1, <2>1
  <2>3. /\ Len(page) \in Nat /\ Len(page) # 0 /\ u = page[1] /\ u \in Urls
        /\ n.page \in Seq(Urls) /\ Len(n.page) = Len(page) - 1
        /\ \A i \in 1 .. Len(n.page) : n.page[i] = page[i + 1]
    BY <2>2
  <2> QED  BY <2>1, <2>3
<1>4. \A i \in 1 .. Len(n.page) : i + 1 \in 1 .. Len(m.page)
  BY <1>3
<1>5. 1 \in 1 .. Len(m.page) /\ u \notin DOMAIN m.seen
  BY <1>2, <1>3
<1>6. DOMAIN n.seen = DOMAIN m.seen \union {u} /\ n.seen[u] = S /\ \A v \in DOMAIN m.seen : n.seen[v] = m.seen[v]
  BY <1>1, <1>5 DEF With
<1>7. T \in SUBSET V /\ S \in SUBSET T /\ X = T \ S /\ X = Todo(h, T, {u}) /\ S = T \ X
  BY <1>1, <1>5, <1>6 DEF Todo, Page
<1>8. (\A x \in S : h[x].url = u) /\ \A y \in X : h[y].url # u
  BY <1>1, <1>6 DEF Page, Todo
<1>9. ASSUME NEW x \in S, NEW y \in X PROVE Ahead(h, V, h[x].url, h[y].url)
  <2>1. Page(h, V, m.page[1]) # {} /\ h[x].url = m.page[1] /\ y \in T /\ h[y].url # m.page[1]
    BY <1>1, <1>3, <1>7, <1>8, <1>9
  <2>2. CASE \E i \in 1 .. Len(m.page) : m.page[i] = h[y].url
    <3>1. PICK i \in 1 .. Len(m.page) : m.page[i] = h[y].url
      BY <2>2
    <3>2. 1 < i
      BY <2>1, <3>1
    <3> QED  BY <1>5, <2>1, <3>1, <3>2 DEF Paging
  <2>3. CASE \A i \in 1 .. Len(m.page) : m.page[i] # h[y].url
    BY <1>5, <2>1, <2>3 DEF Paging
  <2> QED  BY <2>2, <2>3
<1> QED  BY <1>3, <1>4, <1>5, <1>6, <1>7, <1>8, <1>9 DEF Turns

\* Its visits rank right after those read before.
TurnRanks(h, V, T, X, S, f, s) ==
  /\ s \in Nat /\ Cardinality(T) \in Nat /\ Cardinality(X) \in Nat
  /\ Cardinality(V \ T) \in Nat /\ Cardinality(V \ X) \in Nat
  /\ Cardinality(T) = s + Cardinality(X) /\ Cardinality(V \ X) = Cardinality(V \ T) + s
  /\ f \in Seq(S) /\ Len(f) = s
  /\ \A x \in S : \E i \in 1 .. s : f[i] = x
  /\ \A i, j \in 1 .. s : f[i] = f[j] => i = j
  /\ \A i \in 1 .. s : f[i] \in S /\ Rank(h, T, f[i]) = i /\ Rank(h, V, f[i]) = Cardinality(V \ T) + i
  /\ \A y \in X : Rank(h, T, y) = s + Rank(h, X, y) /\ Rank(h, X, y) \in Nat

LEMMA ResolveRanks ==
  ASSUME NEW h, NEW V, NEW T, NEW X, NEW m, NEW n, NEW u, NEW S, NEW f, NEW k,
         Resolves(h, V, T, X, m, n, u, S, f, k),
         Paging(h, V, T, m), Order(h, V, T), NEW s, s = Cardinality(S)
  PROVE  TurnRanks(h, V, T, X, S, f, s)
<1>1. /\ T \in SUBSET V /\ S \in SUBSET T /\ X = T \ S /\ X = Todo(h, T, {u}) /\ S = T \ X
      /\ (\A x \in S : h[x].url = u) /\ (\A y \in X : h[y].url # u)
      /\ \A x \in S, y \in X : Ahead(h, V, h[x].url, h[y].url)
  <2>1. Turns(h, V, T, X, m, n, u, S)
    BY ResolvePages
  <2> QED  BY <2>1 DEF Turns
<1>2. V \in SUBSET Nat /\ IsFiniteSet(V) /\ f = Ascending(S) /\ T = Todo(h, V, DOMAIN m.seen)
  BY DEF Resolves
<1>3. T \in SUBSET Nat /\ IsFiniteSet(T) /\ S \in SUBSET Nat /\ IsFiniteSet(S) /\ IsFiniteSet(V \ T) /\ IsFiniteSet(X)
  BY <1>1, <1>2, FS_Subset, FS_Difference
<1>4. /\ s \in Nat /\ f \in [1 .. s -> S] /\ f \in Seq(S) /\ Len(f) = s
      /\ \A x \in S : \E i \in 1 .. s : f[i] = x
      /\ \A i, j \in 1 .. s : f[i] = f[j] => i = j
      /\ \A i \in 1 .. s : Cardinality({x \in S : x <= f[i]}) = i
  <2>1. Lists(f, S, s)
    BY <1>2, <1>3, AscendingAll
  <2> QED  BY <2>1 DEF Lists
<1>5. \A x \in T \ X, y \in X : Ahead(h, T, h[x].url, h[y].url)
  <2>1. SameUrls(h, h, V) /\ T = Todo(h, V, DOMAIN m.seen)
    BY <1>2 DEF SameUrls
  <2>2. \A v, w : v \notin DOMAIN m.seen /\ w \notin DOMAIN m.seen => (Ahead(h, T, v, w) <=> Ahead(h, V, v, w))
    BY <2>1, Without
  <2>3. \A x \in T : h[x].url \notin DOMAIN m.seen
    BY <1>2 DEF Todo
  <2> QED  BY <1>1, <2>2, <2>3
<1>6. /\ Cardinality(T) = s + Cardinality(X) /\ Cardinality(X) \in Nat
      /\ \A y \in X : Rank(h, T, y) = s + Rank(h, X, y)
  <2>1. X = Todo(h, T, {u}) /\ T \ X = S
    BY <1>1
  <2>2. /\ Cardinality(X) \in Nat /\ Cardinality(T) = Cardinality(T \ X) + Cardinality(X)
        /\ \A y \in X : Rank(h, T, y) = Cardinality(T \ X) + Rank(h, X, y)
    <3>1. Order(h, T, X)
      BY <1>5 DEF Order
    <3>2. RanksAfter(h, T, X)
      BY <1>3, <2>1, <3>1, Split
    <3> QED  BY <3>2 DEF RanksAfter
  <2> QED  BY <2>1, <2>2
<1>7. /\ Cardinality(V \ T) \in Nat /\ Cardinality(T) \in Nat
      /\ \A t \in T : Rank(h, V, t) = Cardinality(V \ T) + Rank(h, T, t)
  <2>1. RanksAfter(h, V, T)
    BY <1>2, Split
  <2> QED  BY <2>1 DEF RanksAfter
<1>8. Cardinality(V \ X) = Cardinality(V \ T) + s
  <2>1. V \ X = (V \ T) \cup S /\ (V \ T) \cap S = {}
    BY <1>1
  <2>2. Cardinality((V \ T) \cup S) = Cardinality(V \ T) + Cardinality(S) - Cardinality({})
    BY <1>3, <2>1, FS_Union
  <2>3. Cardinality({}) = 0
    BY FS_EmptySet
  <2>4. Cardinality(V \ X) = Cardinality((V \ T) \cup S)
    BY <2>1
  <2>5. s \in Nat /\ Cardinality(V \ T) \in Nat
    BY <1>4, <1>7
  <2> QED  BY <2>2, <2>3, <2>4, <2>5
<1>9. ASSUME NEW i \in 1 .. s PROVE f[i] \in S /\ Rank(h, T, f[i]) = i /\ Rank(h, V, f[i]) = Cardinality(V \ T) + i
  <2>1. PICK t \in S : t = f[i]
    BY <1>4
  <2>2. S = Page(h, T, u)
    BY <1>1 DEF Page
  <2>3. Order(h, T, T \ S)
    BY <1>1, <1>5 DEF Order
  <2>4. Upto(h, T, t) = {x \in S : x <= t}
    BY <1>3, <2>2, <2>3, FirstPage
  <2>5. Rank(h, T, t) = i
    BY <1>4, <2>1, <2>4 DEF Rank
  <2> QED  BY <1>1, <1>7, <2>1, <2>5
<1>10. \A y \in X : Rank(h, X, y) \in Nat
  <2>1. X \in SUBSET Nat
    BY <1>1, <1>3
  <2> QED  BY <1>3, <2>1, RankTypes
<1>11. Cardinality(V \ X) \in Nat
  BY <1>4, <1>7, <1>8
<1> QED  BY <1>4, <1>6, <1>7, <1>8, <1>9, <1>10, <1>11 DEF TurnRanks

\* The chunk: the page's visits follow the ones there, but for those skipped.
Pushes(m, n, f, k, s, l) ==
  /\ l \in Nat /\ l = Len(m.chunk) /\ k \in Nat /\ k <= s /\ k <= m.skip /\ (k < s => k = m.skip)
  /\ m.skip \in Nat /\ m.size \in Nat /\ n.skip \in Nat
  /\ n.skip = m.skip - k /\ n.size = m.size /\ n.index = m.index
  /\ Len(n.chunk) = l + (s - k) /\ Walked(n) = Walked(m) + s
  /\ \A p \in 1 .. Len(n.chunk) : p <= l => p \in 1 .. Len(m.chunk) /\ n.chunk[p] = m.chunk[p]
  /\ \A p \in 1 .. Len(n.chunk) : p > l => k + (p - l) \in 1 .. s /\ n.chunk[p] = f[k + (p - l)]

\* In new, all but the first k of f follow old.
Follows(new, old, f, k, l, s) ==
  /\ new \in Seq(Nat) /\ l \in Nat /\ s \in Nat /\ Len(new) = l + (s - k)
  /\ \A p \in 1 .. Len(new) : p <= l => p \in 1 .. l /\ new[p] = old[p]
  /\ \A p \in 1 .. Len(new) : p > l => k + (p - l) \in 1 .. s /\ new[p] = f[k + (p - l)]

LEMMA Appended ==
  ASSUME NEW old \in Seq(Nat), NEW f \in Seq(Nat), NEW k \in Nat, NEW l, l = Len(old), NEW s, s = Len(f), k <= s,
         NEW new, new = old \o SubSeq(f, k + 1, s)
  PROVE  Follows(new, old, f, k, l, s)
<1>1. l \in Nat /\ s \in Nat
  OBVIOUS
<1>2. PICK rest : rest = SubSeq(f, k + 1, s)
  OBVIOUS
<1>3. \A i \in k + 1 .. s : f[i] \in Nat /\ i \in 1 .. s
  BY <1>1
<1>4. rest \in Seq(Nat) /\ Len(rest) = s - k /\ \A i \in 1 .. s - k : rest[i] = f[k + i]
  BY <1>1, <1>2, <1>3
<1>5. /\ old \o rest \in Seq(Nat) /\ Len(old \o rest) = Len(old) + Len(rest)
      /\ \A i \in 1 .. Len(old) + Len(rest) : (old \o rest)[i] = IF i <= Len(old) THEN old[i] ELSE rest[i - Len(old)]
  <2>1. rest \in Seq(Nat)
    BY <1>4
  <2> QED  BY <2>1, ConcatProperties
<1>6. new = old \o rest /\ Len(new) = l + (s - k)
  BY <1>2, <1>4, <1>5
<1>7. \A p \in 1 .. Len(new) : p <= l => p \in 1 .. l /\ new[p] = old[p]
  BY <1>1, <1>4, <1>5, <1>6
<1>8. ASSUME NEW p \in 1 .. Len(new), p > l PROVE k + (p - l) \in 1 .. s /\ new[p] = f[k + (p - l)]
  <2>1. p - l \in 1 .. s - k /\ k + (p - l) \in 1 .. s /\ ~(p <= l)
    BY <1>1, <1>6, <1>8
  <2>2. new[p] = rest[p - l]
    BY <1>4, <1>5, <1>6, <2>1
  <2> QED  BY <1>4, <2>1, <2>2
<1> QED  BY <1>1, <1>5, <1>6, <1>7, <1>8 DEF Follows

LEMMA Balance == \A a, b, k, l, s \in Nat : a + (l + (s - k)) - (b - k) = a + l - b + s
OBVIOUS

LEMMA InNat ==
  ASSUME NEW S \in SUBSET Nat, NEW f \in Seq(S)
  PROVE  f \in Seq(Nat)
<1>1. \A i \in 1 .. Len(f) : f[i] \in S
  BY ElementOfSeq
<1>2. Len(f) \in Nat /\ f \in [1 .. Len(f) -> S]
  BY LenProperties
<1>3. f \in [1 .. Len(f) -> Nat]
  BY <1>2
<1> QED  BY <1>2, <1>3

LEMMA ResolveChunk ==
  ASSUME NEW h, NEW V, NEW T, NEW X, NEW m, NEW n, NEW u, NEW S, NEW f, NEW k,
         Resolves(h, V, T, X, m, n, u, S, f, k), NEW s \in Nat, f \in Seq(S), Len(f) = s, S \in SUBSET Nat,
         NEW l, l = Len(m.chunk)
  PROVE  Pushes(m, n, f, k, s, l) /\ WalkTypes(n)
<1>1. /\ k = IF m.skip < s THEN m.skip ELSE s
      /\ m.skip \in Nat /\ m.size \in Nat /\ m.chunk \in Seq(Nat) /\ n.skip = m.skip - k /\ n.size = m.size
      /\ n.index = m.index /\ n.chunk = m.chunk \o SubSeq(f, k + 1, s)
  BY DEF Resolves, WalkTypes
<1>2. l \in Nat /\ k \in Nat /\ k <= s /\ k <= m.skip /\ (k < s => k = m.skip) /\ n.skip \in Nat
  BY <1>1
<1>3. f \in Seq(Nat)
  BY InNat
<1>4. PICK old, new : old \in Seq(Nat) /\ old = m.chunk /\ new = n.chunk
  BY <1>1
<1>5. /\ new \in Seq(Nat) /\ Len(new) = l + (s - k)
      /\ \A p \in 1 .. Len(new) : p <= l => p \in 1 .. l /\ new[p] = old[p]
      /\ \A p \in 1 .. Len(new) : p > l => k + (p - l) \in 1 .. s /\ new[p] = f[k + (p - l)]
  <2>1. new = old \o SubSeq(f, k + 1, s) /\ l = Len(old) /\ s = Len(f) /\ k <= s /\ k \in Nat
    BY <1>1, <1>2, <1>4
  <2>2. Follows(new, old, f, k, l, s)
    BY <1>3, <1>4, <2>1, Appended
  <2> QED  BY <2>2 DEF Follows
<1>6. n.chunk = new /\ m.chunk = old
  BY <1>4
<1>7. \A p \in 1 .. Len(n.chunk) : p <= l => p \in 1 .. Len(m.chunk) /\ n.chunk[p] = m.chunk[p]
  BY <1>5, <1>6
<1>8. \A p \in 1 .. Len(n.chunk) : p > l => k + (p - l) \in 1 .. s /\ n.chunk[p] = f[k + (p - l)]
  BY <1>5, <1>6
<1>9. Walked(n) = Walked(m) + s
  <2>1. Len(n.chunk) = l + (s - k)
    BY <1>5, <1>6
  <2>2. PICK a \in Nat, b \in Nat, c \in Nat : a = m.size /\ b = m.skip /\ c = n.skip /\ c = b - k
    BY <1>1, <1>2
  <2>3. a + (l + (s - k)) - c = a + l - b + s
    <3>1. k \in Nat /\ l \in Nat
      BY <1>2
    <3>2. a + (l + (s - k)) - (b - k) = a + l - b + s
      BY <3>1, Balance
    <3> QED  BY <2>2, <3>2
  <2> QED  BY <1>1, <2>1, <2>2, <2>3 DEF Walked
<1>10. Len(n.chunk) = l + (s - k) /\ n.chunk \in Seq(Nat)
  BY <1>5, <1>6
<1> QED  BY <1>1, <1>2, <1>7, <1>8, <1>9, <1>10 DEF Pushes, WalkTypes

\* The counters.
LEMMA ResolveCounts ==
  ASSUME NEW h, NEW V, NEW T, NEW X, NEW m, NEW n, NEW S, NEW f, NEW k, NEW s, NEW l, NEW b, NEW d,
         TurnRanks(h, V, T, X, S, f, s), Pushes(m, n, f, k, s, l), WalkTypes(m), WalkTypes(n), n.cut = m.cut,
         Counts(V, T, b, m, d)
  PROVE  Counts(V, X, b, n, d)
<1>1. /\ s \in Nat /\ Cardinality(T) \in Nat /\ Cardinality(X) \in Nat /\ Cardinality(V \ T) \in Nat
      /\ Cardinality(T) = s + Cardinality(X) /\ Cardinality(V \ X) = Cardinality(V \ T) + s
  BY DEF TurnRanks
<1>2. /\ l \in Nat /\ l = Len(m.chunk) /\ k \in Nat /\ k <= s /\ k <= m.skip /\ (k < s => k = m.skip)
      /\ m.skip \in Nat /\ m.size \in Nat /\ n.skip \in Nat
      /\ n.skip = m.skip - k /\ n.size = m.size /\ n.index = m.index
      /\ Len(n.chunk) = l + (s - k) /\ Walked(n) = Walked(m) + s
  BY DEF Pushes
<1>3. /\ m.index \in Nat /\ m.skip <= m.size /\ (m.skip # 0 => m.chunk = << >>)
      /\ \A j \in Nat : j < m.index => j \in Sent(b, m.cut)
      /\ m.size <= Full(m.index)
      /\ m.size = Full(m.index) \/ (m.chunk = << >> /\ Cardinality(T) <= m.skip)
      /\ Cardinality(V \ T) <= Walked(m)
      /\ ~d => Cardinality(V \ T) = Walked(m)
  BY DEF Counts
<1>4. n.chunk \in Seq(Nat) /\ (m.chunk = << >> => l = 0) /\ (Len(n.chunk) = 0 => n.chunk = << >>)
  BY <1>2 DEF WalkTypes
<1>5. ASSUME n.skip # 0 PROVE n.chunk = << >>
  <2>1. k = s /\ m.skip # 0
    BY <1>1, <1>2, <1>5
  <2>2. l = 0
    BY <1>3, <1>4, <2>1
  <2> QED  BY <1>1, <1>2, <1>4, <2>1, <2>2
<1>6. n.size = Full(n.index) \/ (n.chunk = << >> /\ Cardinality(X) <= n.skip)
  <2>1. ASSUME m.chunk = << >>, Cardinality(T) <= m.skip PROVE n.chunk = << >> /\ Cardinality(X) <= n.skip
    BY <1>1, <1>2, <1>4, <2>1
  <2> QED  BY <1>2, <1>3, <2>1
<1>7. Walked(m) \in Nat
  BY <1>3, WalkedType
<1>8. Cardinality(V \ X) <= Walked(n) /\ (~d => Cardinality(V \ X) = Walked(n))
  BY <1>1, <1>2, <1>3, <1>7
<1>9. n.skip <= n.size
  BY <1>2, <1>3
<1> QED  BY <1>2, <1>3, <1>5, <1>6, <1>8, <1>9 DEF Counts

LEMMA PlaceAt == \A a, k, l, p \in Nat : (a + l - k) + (k + (p - l)) = a + p
OBVIOUS

\* What is pushed comes up where it ranks.
LEMMA ResolvePlaces ==
  ASSUME NEW h, NEW V, NEW T, NEW X, NEW m, NEW n, NEW u, NEW S, NEW f, NEW k, NEW s, NEW l, NEW b, NEW d,
         Turns(h, V, T, X, m, n, u, S), TurnRanks(h, V, T, X, S, f, s), Pushes(m, n, f, k, s, l),
         WalkTypes(m), n.cut = m.cut, Counts(V, T, b, m, d), Places(h, V, T, b, m, d)
  PROVE  Places(h, V, X, b, n, d)
<1>1. /\ s \in Nat /\ Cardinality(V \ T) \in Nat
      /\ \A x \in S : \E i \in 1 .. s : f[i] = x
      /\ \A i \in 1 .. s : f[i] \in S /\ Rank(h, T, f[i]) = i /\ Rank(h, V, f[i]) = Cardinality(V \ T) + i
      /\ \A y \in X : Rank(h, T, y) = s + Rank(h, X, y) /\ Rank(h, X, y) \in Nat
  BY DEF TurnRanks
<1>2. /\ l \in Nat /\ l = Len(m.chunk) /\ k \in Nat /\ k <= s /\ k <= m.skip /\ (k < s => k = m.skip)
      /\ m.skip \in Nat /\ m.size \in Nat /\ n.size = m.size
      /\ Len(n.chunk) = l + (s - k) /\ Walked(n) = Walked(m) + s
      /\ \A p \in 1 .. Len(n.chunk) : p <= l => p \in 1 .. Len(m.chunk) /\ n.chunk[p] = m.chunk[p]
      /\ \A p \in 1 .. Len(n.chunk) : p > l => k + (p - l) \in 1 .. s /\ n.chunk[p] = f[k + (p - l)]
  BY DEF Pushes
<1>3. /\ m.skip <= m.size /\ (m.skip # 0 => m.chunk = << >>) /\ Cardinality(V \ T) <= Walked(m)
      /\ ~d => Cardinality(V \ T) = Walked(m)
  BY DEF Counts
<1>4. Walked(m) \in Nat /\ Walked(m) = m.size + l - m.skip
  BY <1>2, <1>3, WalkedType DEF Walked
<1>5. S \subseteq T /\ X \subseteq T /\ S = T \ X /\ X = T \ S /\ T \subseteq V
  BY DEF Turns
<1>6. ASSUME NEW p \in 1 .. Len(n.chunk), p > l
      PROVE  \E i \in 1 .. s : n.chunk[p] = f[i] /\ Walked(m) + i = m.size + p
  <2>1. PICK i \in 1 .. s : i = k + (p - l) /\ n.chunk[p] = f[i]
    BY <1>2, <1>6
  <2>2. k < s
    BY <1>1, <1>2, <1>6, <2>1
  <2>3. PICK a \in Nat : a = m.size
    BY <1>2
  <2>4. Walked(m) = a + l - k
    BY <1>2, <1>4, <2>2, <2>3
  <2>5. (a + l - k) + (k + (p - l)) = a + p
    <3>1. k \in Nat /\ l \in Nat /\ p \in Nat
      BY <1>2
    <3> QED  BY <3>1, PlaceAt
  <2> QED  BY <2>1, <2>3, <2>4, <2>5
<1>7. ASSUME NEW p \in 1 .. Len(n.chunk), n.chunk[p] \in V PROVE Rank(h, V, n.chunk[p]) <= n.size + p
  <2>1. CASE p <= l
    <3>1. p \in 1 .. Len(m.chunk) /\ n.chunk[p] = m.chunk[p]
      BY <1>2, <2>1
    <3> QED  BY <1>2, <1>7, <3>1 DEF Places
  <2>2. CASE p > l
    <3>1. PICK i \in 1 .. s : n.chunk[p] = f[i] /\ Walked(m) + i = m.size + p
      BY <1>6, <2>2
    <3>2. Rank(h, V, n.chunk[p]) = Cardinality(V \ T) + i
      BY <1>1, <3>1
    <3>3. Cardinality(V \ T) + i <= m.size + p
      BY <1>1, <1>3, <1>4, <3>1
    <3> QED  BY <1>2, <3>2, <3>3
  <2> QED  BY <1>2, <2>1, <2>2
<1>8. ASSUME NEW p \in 1 .. Len(n.chunk), NEW j \in Sent(b, n.cut), n.chunk[p] \in b[<<n.cut, j>>]
      PROVE  n.size + p <= Full(j + 1)
  <2>1. CASE p <= l
    <3>1. p \in 1 .. Len(m.chunk) /\ n.chunk[p] = m.chunk[p]
      BY <1>2, <2>1
    <3> QED  BY <1>2, <1>8, <3>1 DEF Places
  <2>2. CASE p > l
    <3>1. PICK i \in 1 .. s : n.chunk[p] = f[i] /\ Walked(m) + i = m.size + p
      BY <1>6, <2>2
    <3>2. f[i] \in T /\ f[i] \in b[<<m.cut, j>>] /\ j \in Sent(b, m.cut) /\ Rank(h, T, f[i]) = i
      BY <1>1, <1>5, <1>8, <3>1
    <3>3. Walked(m) + Rank(h, T, f[i]) <= Full(j + 1)
      BY <3>2 DEF Places
    <3> QED  BY <1>2, <3>1, <3>2, <3>3
  <2> QED  BY <1>2, <2>1, <2>2
<1>9. ASSUME NEW t \in X, NEW j \in Sent(b, n.cut), t \in b[<<n.cut, j>>]
      PROVE  Walked(n) + Rank(h, X, t) <= Full(j + 1)
  <2>1. Walked(m) + Rank(h, T, t) <= Full(j + 1)
    BY <1>5, <1>9 DEF Places
  <2>2. Rank(h, T, t) = s + Rank(h, X, t) /\ Rank(h, X, t) \in Nat
    BY <1>1, <1>9
  <2>3. Walked(n) + Rank(h, X, t) = Walked(m) + Rank(h, T, t)
    BY <1>1, <1>2, <1>4, <2>2
  <2> QED  BY <2>1, <2>3
<1>10. ASSUME ~d, NEW t \in V \ X, Rank(h, V, t) > n.size
       PROVE  \E p \in 1 .. Len(n.chunk) : Rank(h, V, t) = n.size + p /\ n.chunk[p] = t
  <2>1. CASE t \in V \ T
    <3>1. PICK p \in 1 .. Len(m.chunk) : Rank(h, V, t) = m.size + p /\ m.chunk[p] = t
      BY <1>2, <1>10, <2>1 DEF Places
    <3>2. p \in 1 .. Len(n.chunk) /\ p <= l
      BY <1>1, <1>2
    <3> QED  BY <1>2, <3>1, <3>2
  <2>2. CASE t \in S
    <3>1. PICK i \in 1 .. s : f[i] = t
      BY <1>1, <2>2
    <3>2. Rank(h, V, t) = Walked(m) + i
      BY <1>1, <1>3, <1>10, <3>1
    <3>3. m.skip # 0 => l = 0
      BY <1>2, <1>3
    <3>4. PICK a \in Nat, z \in Nat : a = m.size /\ z = m.skip
      BY <1>2
    <3>5. l \in Nat /\ k \in Nat /\ k <= s /\ (k < s => k = z) /\ s \in Nat /\ (z # 0 => l = 0) /\ k <= z
      BY <1>1, <1>2, <3>3, <3>4
    <3>6. a + l - z + i > a
      BY <1>2, <1>4, <1>10, <3>2, <3>4
    <3>7. i > z
      BY <3>5, <3>6
    <3>8. k = z
      BY <3>5, <3>7
    <3>9. PICK p : p = l + (i - k)
      OBVIOUS
    <3>10. p \in 1 .. l + (s - k) /\ p > l /\ k + (p - l) = i /\ a + l - z + i = a + p
      BY <3>5, <3>7, <3>8, <3>9
    <3>11. p \in 1 .. Len(n.chunk) /\ n.chunk[p] = f[i]
      BY <1>2, <3>10
    <3>12. Rank(h, V, t) = n.size + p
      BY <1>2, <1>4, <3>2, <3>4, <3>10
    <3> QED  BY <3>1, <3>11, <3>12
  <2> QED  BY <1>5, <1>10, <2>1, <2>2
<1> QED  BY <1>7, <1>8, <1>9, <1>10 DEF Places

\* The rest of the walk.
LEMMA ResolveOthers ==
  ASSUME NEW h, NEW V, NEW T, NEW X, NEW m, NEW n, NEW u, NEW S, NEW f, NEW k, NEW s, NEW l,
         Resolves(h, V, T, X, m, n, u, S, f, k), Turns(h, V, T, X, m, n, u, S), TurnRanks(h, V, T, X, S, f, s),
         Pushes(m, n, f, k, s, l), ChunkOk(h, m), Order(h, V, T), SeenOk(h, V, m)
  PROVE  ChunkOk(h, n) /\ Order(h, V, X) /\ SeenOk(h, V, n)
<1>1. /\ \A i, j \in 1 .. s : f[i] = f[j] => i = j
      /\ \A i \in 1 .. s : f[i] \in S
      /\ s \in Nat
  BY DEF TurnRanks
<1>2. /\ l \in Nat /\ l = Len(m.chunk) /\ k \in Nat /\ k <= s /\ Len(n.chunk) = l + (s - k)
      /\ \A p \in 1 .. Len(n.chunk) : p <= l => p \in 1 .. Len(m.chunk) /\ n.chunk[p] = m.chunk[p]
      /\ \A p \in 1 .. Len(n.chunk) : p > l => k + (p - l) \in 1 .. s /\ n.chunk[p] = f[k + (p - l)]
  BY DEF Pushes
<1>3. /\ u \notin DOMAIN m.seen /\ DOMAIN n.seen = DOMAIN m.seen \union {u}
      /\ n.seen[u] = S /\ \A v \in DOMAIN m.seen : n.seen[v] = m.seen[v]
      /\ T \in SUBSET V /\ S \in SUBSET T /\ X = T \ S
      /\ \A x \in S : h[x].url = u
      /\ \A x \in S, y \in X : Ahead(h, V, h[x].url, h[y].url)
  BY DEF Turns
<1>4. V \subseteq DOMAIN h /\ (\A t \in V : m.cut <= t /\ t < m.end) /\ n.cut = m.cut /\ n.end = m.end /\ S = Page(h, V, u)
  BY DEF Resolves
<1>5. \A p \in 1 .. Len(m.chunk) :
        /\ m.chunk[p] \in DOMAIN h /\ m.cut <= m.chunk[p] /\ m.chunk[p] < m.end
        /\ h[m.chunk[p]].url \in DOMAIN m.seen
  BY DEF ChunkOk
<1>6. ASSUME NEW p \in 1 .. Len(n.chunk)
      PROVE  /\ n.chunk[p] \in DOMAIN h /\ n.cut <= n.chunk[p] /\ n.chunk[p] < n.end
             /\ h[n.chunk[p]].url \in DOMAIN n.seen
             /\ p > l => n.chunk[p] \in S /\ h[n.chunk[p]].url \notin DOMAIN m.seen
  <2>1. CASE p <= l
    BY <1>2, <1>3, <1>4, <1>5, <2>1
  <2>2. CASE p > l
    <3>1. n.chunk[p] \in S
      BY <1>1, <1>2, <2>2
    <3>2. n.chunk[p] \in V /\ h[n.chunk[p]].url = u
      BY <1>3, <3>1
    <3> QED  BY <1>3, <1>4, <3>1, <3>2
  <2> QED  BY <1>2, <2>1, <2>2
<1>7. ASSUME NEW p \in 1 .. Len(n.chunk), NEW q \in 1 .. Len(n.chunk), n.chunk[p] = n.chunk[q] PROVE p = q
  <2>1. CASE p <= l /\ q <= l
    BY <1>2, <1>7, <2>1 DEF ChunkOk
  <2>2. CASE p > l /\ q > l
    <3>1. k + (p - l) = k + (q - l)
      BY <1>1, <1>2, <1>7, <2>2
    <3> QED  BY <1>2, <3>1
  <2>3. CASE (p <= l /\ q > l) \/ (p > l /\ q <= l)
    <3>1. CASE p <= l /\ q > l
      BY <1>2, <1>5, <1>6, <1>7, <3>1
    <3>2. CASE p > l /\ q <= l
      BY <1>2, <1>5, <1>6, <1>7, <3>2
    <3> QED  BY <2>3, <3>1, <3>2
  <2> QED  BY <1>2, <2>1, <2>2, <2>3
<1>8. ChunkOk(h, n)
  BY <1>6, <1>7 DEF ChunkOk
<1>9. Order(h, V, X)
  BY <1>3 DEF Order
<1>10. SeenOk(h, V, n)
  BY <1>3, <1>4 DEF SeenOk
<1> QED  BY <1>8, <1>9, <1>10

\* The pages that are left.
LEMMA ResolvePaging ==
  ASSUME NEW h, NEW V, NEW T, NEW X, NEW m, NEW n, NEW u, NEW S, NEW f, NEW k,
         Resolves(h, V, T, X, m, n, u, S, f, k), Turns(h, V, T, X, m, n, u, S), Paging(h, V, T, m)
  PROVE  Paging(h, V, X, n)
<1>1. /\ Len(m.page) \in Nat /\ Len(m.page) # 0 /\ u = m.page[1] /\ u \in Urls
      /\ n.page \in Seq(Urls) /\ Len(n.page) = Len(m.page) - 1
      /\ \A i \in 1 .. Len(n.page) : i + 1 \in 1 .. Len(m.page) /\ n.page[i] = m.page[i + 1]
      /\ u \notin DOMAIN m.seen /\ DOMAIN n.seen = DOMAIN m.seen \union {u}
      /\ n.seen[u] = S /\ \A v \in DOMAIN m.seen : n.seen[v] = m.seen[v]
      /\ T \in SUBSET V /\ S \in SUBSET T /\ X = T \ S
      /\ \A y \in X : h[y].url # u
  BY DEF Turns
<1>2. n.bound = m.bound /\ n.end = m.end /\ n.full = m.full /\ n.last = m.last /\ S = Page(h, V, u)
  BY DEF Resolves
<1>3. n.bound \in Int /\ n.bound <= n.end /\ \A y \in T : y < n.bound
  BY <1>2 DEF Paging
<1>4. \A i, j \in 1 .. Len(m.page) : i < j => m.page[i] # m.page[j]
  BY DEF Paging
<1>5. \A i \in 1 .. Len(n.page) : n.page[i] \notin DOMAIN n.seen
  <2> SUFFICES ASSUME NEW i \in 1 .. Len(n.page) PROVE n.page[i] \notin DOMAIN n.seen
    OBVIOUS
  <2>1. i + 1 \in 1 .. Len(m.page) /\ 1 \in 1 .. Len(m.page) /\ 1 < i + 1
    BY <1>1
  <2>2. m.page[i + 1] # u
    BY <1>1, <1>4, <2>1
  <2>3. m.page[i + 1] \notin DOMAIN m.seen
    BY <2>1 DEF Paging
  <2> QED  BY <1>1, <2>2, <2>3
<1>6. \A i, j \in 1 .. Len(n.page) : i < j => /\ n.page[i] # n.page[j]
                                              /\ Page(h, V, n.page[i]) # {} => Ahead(h, V, n.page[i], n.page[j])
  <2> SUFFICES ASSUME NEW i \in 1 .. Len(n.page), NEW j \in 1 .. Len(n.page), i < j
               PROVE  /\ n.page[i] # n.page[j]
                      /\ Page(h, V, n.page[i]) # {} => Ahead(h, V, n.page[i], n.page[j])
    OBVIOUS
  <2>1. /\ i + 1 \in 1 .. Len(m.page) /\ j + 1 \in 1 .. Len(m.page) /\ i + 1 < j + 1
        /\ n.page[i] = m.page[i + 1] /\ n.page[j] = m.page[j + 1]
    BY <1>1
  <2>2. /\ m.page[i + 1] # m.page[j + 1]
        /\ Page(h, V, m.page[i + 1]) # {} => Ahead(h, V, m.page[i + 1], m.page[j + 1])
    BY <2>1 DEF Paging
  <2> QED  BY <2>1, <2>2
<1>7. ASSUME NEW i \in 1 .. Len(m.page), m.page[i] # u PROVE \E j \in 1 .. Len(n.page) : n.page[j] = m.page[i]
  <2>1. PICK j : j = i - 1
    OBVIOUS
  <2>2. j \in 1 .. Len(n.page) /\ i = j + 1
    BY <1>1, <1>7, <2>1
  <2> QED  BY <1>1, <2>2
<1>8. n.full => n.last \in DOMAIN n.seen \/ \E i \in 1 .. Len(n.page) : n.last = n.page[i]
  <2>1. m.full => m.last \in DOMAIN m.seen \/ \E i \in 1 .. Len(m.page) : m.last = m.page[i]
    BY DEF Paging
  <2> QED  BY <1>1, <1>2, <1>7, <2>1
<1>9. ASSUME NEW y \in X, \A i \in 1 .. Len(n.page) : n.page[i] # h[y].url
      PROVE  /\ n.full /\ y < n.bound - 1
             /\ \A i \in 1 .. Len(n.page) : Page(h, V, n.page[i]) # {} => Ahead(h, V, n.page[i], h[y].url)
             /\ n.last \in DOMAIN n.seen => \/ \E z \in n.seen[n.last] : y < z /\ z < n.bound
                                            \/ \A z \in n.seen[n.last] : z >= n.bound
  <2>1. y \in T /\ \A i \in 1 .. Len(m.page) : m.page[i] # h[y].url
    BY <1>1, <1>7, <1>9
  <2>2. /\ m.full /\ y < m.bound - 1
        /\ \A i \in 1 .. Len(m.page) : Page(h, V, m.page[i]) # {} => Ahead(h, V, m.page[i], h[y].url)
        /\ m.last \in DOMAIN m.seen => \/ \E z \in m.seen[m.last] : y < z /\ z < m.bound
                                       \/ \A z \in m.seen[m.last] : z >= m.bound
    BY <2>1 DEF Paging
  <2>3. n.full /\ y < n.bound - 1
    BY <1>2, <2>2
  <2>4. \A i \in 1 .. Len(n.page) : Page(h, V, n.page[i]) # {} => Ahead(h, V, n.page[i], h[y].url)
    BY <1>1, <2>2
  <2>5. CASE m.last \in DOMAIN m.seen
    BY <1>1, <1>2, <2>2, <2>3, <2>4, <2>5
  <2>6. CASE m.last = u /\ S = {}
    BY <1>1, <1>2, <2>3, <2>4, <2>6
  <2>7. CASE m.last = u /\ S # {}
    <3>1. 1 \in 1 .. Len(m.page) /\ Page(h, V, m.page[1]) # {}
      BY <1>1, <1>2, <2>7
    <3>2. Ahead(h, V, u, h[y].url)
      BY <1>1, <2>2, <3>1
    <3>3. PICK z \in V : h[z].url = u /\ y < z
      BY <1>1, <2>1, <3>2 DEF Ahead
    <3>4. z \in S /\ z < n.bound
      BY <1>1, <1>2, <1>3, <3>3 DEF Page
    <3> QED  BY <1>1, <1>2, <2>3, <2>4, <2>7, <3>3, <3>4
  <2>8. n.last \in DOMAIN n.seen => m.last \in DOMAIN m.seen \/ m.last = u
    BY <1>1, <1>2
  <2> QED  BY <2>3, <2>4, <2>5, <2>6, <2>7, <2>8
<1>10. n.bound \in Int /\ n.bound <= n.end /\ (\A y \in X : y < n.bound) /\ n.page \in Seq(Urls)
  BY <1>1, <1>3
<1>11. \A y \in X : (\A i \in 1 .. Len(n.page) : n.page[i] # h[y].url) =>
         /\ n.full /\ y < n.bound - 1
         /\ \A i \in 1 .. Len(n.page) : Page(h, V, n.page[i]) # {} => Ahead(h, V, n.page[i], h[y].url)
         /\ n.last \in DOMAIN n.seen => \/ \E z \in n.seen[n.last] : y < z /\ z < n.bound
                                        \/ \A z \in n.seen[n.last] : z >= n.bound
  BY <1>9
<1> QED  BY <1>5, <1>6, <1>8, <1>10, <1>11 DEF Paging

\* Reading a page keeps the walk as it should be.
LEMMA ResolveWalk ==
  ASSUME NEW h, NEW V, NEW T, NEW X, NEW m, NEW n, NEW u, NEW S, NEW f, NEW k, NEW b, NEW d,
         Resolves(h, V, T, X, m, n, u, S, f, k), Walk(h, V, T, b, m, d), Paging(h, V, T, m)
  PROVE  Walk(h, V, X, b, n, d) /\ Paging(h, V, X, n) /\ WalkTypes(n)
<1>1. Counts(V, T, b, m, d) /\ ChunkOk(h, m) /\ Places(h, V, T, b, m, d) /\ Order(h, V, T) /\ SeenOk(h, V, m)
  BY DEF Walk
<1>2. WalkTypes(m) /\ n.cut = m.cut /\ V \in SUBSET Nat
  BY DEF Resolves
<1>3. Turns(h, V, T, X, m, n, u, S)
  BY ResolvePages
<1>4. PICK s, l : s = Cardinality(S) /\ l = Len(m.chunk)
  OBVIOUS
<1>5. TurnRanks(h, V, T, X, S, f, s)
  BY <1>1, <1>4, ResolveRanks
<1>6. s \in Nat /\ f \in Seq(S) /\ Len(f) = s /\ S \in SUBSET Nat
  BY <1>2, <1>3, <1>5 DEF TurnRanks, Turns
<1>7. Pushes(m, n, f, k, s, l) /\ WalkTypes(n)
  BY <1>4, <1>6, ResolveChunk
<1>8. Counts(V, X, b, n, d)
  BY <1>1, <1>2, <1>5, <1>7, ResolveCounts
<1>9. Places(h, V, X, b, n, d)
  BY <1>1, <1>2, <1>3, <1>5, <1>7, ResolvePlaces
<1>10. ChunkOk(h, n) /\ Order(h, V, X) /\ SeenOk(h, V, n)
  BY <1>1, <1>3, <1>5, <1>7, ResolveOthers
<1>11. Paging(h, V, X, n)
  BY <1>3, ResolvePaging
<1> QED  BY <1>7, <1>8, <1>9, <1>10, <1>11 DEF Walk

--------------------------------------------------------------------------------
(***************************************************************************)
(* The search.                                                             *)
(***************************************************************************)
\* f lists the pages us, the one visited last between the bounds first.
LatestFirst(f, us, from, to) ==
  /\ f \in Seq(us) /\ Len(f) \in Nat
  /\ \A u \in us : \E i \in 1 .. Len(f) : f[i] = u
  /\ \A i \in 1 .. Len(f) : f[i] \in us
  /\ \A i, j \in 1 .. Len(f) : i < j => LastShown(f[i], from, to) > LastShown(f[j], from, to)

\* The last visit shown is one of them.
LEMMA LastOf ==
  ASSUME hist \in Seq(VisitRecord), NEW u, NEW from, NEW to, Shown(u, from, to) # {}
  PROVE  /\ LastShown(u, from, to) \in Shown(u, from, to)
         /\ \A y \in Shown(u, from, to) : y <= LastShown(u, from, to)
         /\ LastShown(u, from, to) \in DOMAIN hist /\ LastShown(u, from, to) \in Nat
         /\ hist[LastShown(u, from, to)].url = u
<1>1. Len(hist) \in Nat /\ DOMAIN hist = 1 .. Len(hist)
  BY FiniteTimes
<1>2. PICK S : S = Shown(u, from, to)
  OBVIOUS
<1>3. S \in SUBSET (DOMAIN hist) /\ \A x \in S : hist[x].url = u
  BY <1>2 DEF Shown, At
<1>4. S \in SUBSET Nat /\ S # {} /\ \A x \in S : x <= Len(hist)
  BY <1>1, <1>2, <1>3
<1>5. Max(S) \in S /\ \A y \in S : y <= Max(S)
  BY <1>1, <1>4, Greatest
<1> QED  BY <1>1, <1>2, <1>3, <1>5 DEF LastShown

\* The pages the browser shows can be put in that order.
LEMMA LatestSorted ==
  ASSUME hist \in Seq(VisitRecord), NEW us, IsFiniteSet(us), NEW from, NEW to,
         \A u \in us : Shown(u, from, to) # {}
  PROVE  LatestFirst(Latest(us, from, to), us, from, to)
<1> DEFINE L(u) == LastShown(u, from, to)
           T == {t \in DOMAIN hist : \E u \in us : t = L(u)}
<1>1. \A u \in us : L(u) \in DOMAIN hist /\ hist[L(u)].url = u /\ L(u) \in Nat
  BY LastOf
<1>2. T \in SUBSET Nat /\ IsFiniteSet(T) /\ T \subseteq DOMAIN hist
  BY FiniteTimes
<1>3. \A t \in T : hist[t].url \in us /\ L(hist[t].url) = t
  BY <1>1
<1>4. \A u \in us : L(u) \in T
  BY <1>1
<1> HIDE DEF L, T
<1>5. PICK asc, n : asc = Ascending(T) /\ n = Cardinality(T)
  OBVIOUS
<1>6. n \in Nat /\ asc \in [1 .. n -> T] /\ Climbs(asc)
  BY <1>2, <1>5, AscendingIn
<1>7. Cardinality(us) = n
  <2> DEFINE g == [t \in T |-> hist[t].url]
  <2>1. g \in [T -> us]
    BY <1>3
  <2>2. \A s, t \in T : g[s] = g[t] => s = t
    BY <1>3
  <2>3. \A u \in us : \E t \in T : g[t] = u
    <3> SUFFICES ASSUME NEW u \in us PROVE \E t \in T : g[t] = u
      OBVIOUS
    <3>1. L(u) \in T /\ g[L(u)] = u
      BY <1>1, <1>4
    <3> QED  BY <3>1
  <2>4. ExistsBijection(T, us)
    <3> HIDE DEF g
    <3> QED  BY <2>1, <2>2, <2>3 DEF ExistsBijection, Bijection, Injection, Surjection, IsInjective
  <2> QED  BY <1>2, <1>5, <2>4, FS_Bijection
<1> DEFINE Sorted(f) == \A i, j \in DOMAIN f : i < j => L(f[i]) > L(f[j])
<1>8. \E f \in [1 .. n -> us] : Sorted(f)
  <2> DEFINE f == [i \in 1 .. n |-> hist[asc[n + 1 - i]].url]
  <2>1. ASSUME NEW i \in 1 .. n PROVE n + 1 - i \in 1 .. n /\ f[i] \in us /\ L(f[i]) = asc[n + 1 - i]
    <3>1. n + 1 - i \in 1 .. n
      BY <1>6
    <3>2. asc[n + 1 - i] \in T
      BY <1>6, <3>1
    <3> QED  BY <1>3, <3>1, <3>2
  <2>2. f \in [1 .. n -> us]
    BY <2>1
  <2>3. ASSUME NEW i \in 1 .. n, NEW j \in 1 .. n, i < j PROVE L(f[i]) > L(f[j])
    <3>1. n + 1 - j \in 1 .. n /\ n + 1 - i \in 1 .. n /\ n + 1 - j < n + 1 - i
      BY <1>6, <2>1, <2>3
    <3>2. asc[n + 1 - j] < asc[n + 1 - i]
      BY <1>6, <3>1 DEF Climbs
    <3>3. L(f[i]) = asc[n + 1 - i] /\ L(f[j]) = asc[n + 1 - j]
      BY <2>1
    <3>4. asc[n + 1 - i] \in Nat /\ asc[n + 1 - j] \in Nat
      BY <1>2, <1>6, <3>1
    <3> HIDE DEF f
    <3> QED  BY <3>2, <3>3, <3>4
  <2> HIDE DEF f
  <2> QED  BY <2>2, <2>3
<1>9. PICK f : f = Latest(us, from, to)
  OBVIOUS
<1>10. f \in [1 .. n -> us] /\ Sorted(f)
  BY <1>7, <1>8, <1>9 DEF Latest, L
<1>11. f \in Seq(us) /\ Len(f) = n /\ \A i \in 1 .. n : f[i] \in us
  BY <1>6, <1>10
<1>12. \A u \in us : \E i \in 1 .. n : f[i] = u
  <2>1. \A i, j \in 1 .. n : f[i] = f[j] => i = j
    <3> SUFFICES ASSUME NEW i \in 1 .. n, NEW j \in 1 .. n, f[i] = f[j], i < j PROVE FALSE
      BY <1>6
    <3>1. L(f[i]) > L(f[j]) /\ L(f[i]) \in Nat /\ L(f[i]) = L(f[j])
      BY <1>1, <1>10
    <3> QED  BY <3>1
  <2>2. f \in Injection(1 .. n, us)
    BY <1>10, <2>1 DEF Injection, IsInjective
  <2>3. Cardinality(1 .. n) = n
    BY <1>6, FS_Interval
  <2>4. f \in Surjection(1 .. n, us)
    BY <1>7, <2>2, <2>3, FS_Injection
  <2> QED  BY <2>4 DEF Surjection
<1>13. \A i, j \in 1 .. n : i < j => LastShown(f[i], from, to) > LastShown(f[j], from, to)
  BY <1>10 DEF L
<1>14. LatestFirst(f, us, from, to)
  BY <1>6, <1>11, <1>12, <1>13 DEF LatestFirst
<1> QED  BY <1>9, <1>14

\* The cursor is below the page's bound, and above what the page left.
LEMMA CursorBelow ==
  ASSUME hist \in Seq(VisitRecord), imp.bound \in Int, imp.seen[imp.last] \in SUBSET (DOMAIN hist)
  PROVE  /\ Cursor \in Int /\ Cursor < imp.bound
         /\ \A y \in Nat : /\ y < imp.bound - 1
                           /\ \/ \E z \in imp.seen[imp.last] : y < z /\ z < imp.bound
                              \/ \A z \in imp.seen[imp.last] : z >= imp.bound
                           => y < Cursor
<1>1. PICK n, S : n \in Int /\ S = imp.seen[imp.last] /\ n = imp.bound
  OBVIOUS
<1>2. Len(hist) \in Nat /\ DOMAIN hist = 1 .. Len(hist)
  BY FiniteTimes
<1> DEFINE B == {t \in S : t < n} \union {0}
<1>3. B \in SUBSET Nat /\ B # {} /\ (\A x \in B : x <= Len(hist)) /\ S \in SUBSET Nat
  BY <1>1, <1>2
<1>4. PICK x \in B : x = Max(B) /\ \A y \in B : y <= x
  <2> HIDE DEF B
  <2> QED  BY <1>2, <1>3, Greatest
<1>5. x \in Nat /\ (x # 0 => x < n)
  BY <1>3, <1>4
<1>6. Cursor = IF x = 0 THEN n - 1 ELSE x
  BY <1>1, <1>4 DEF Cursor, LargestBelow
<1>7. Cursor \in Int /\ Cursor < n
  BY <1>1, <1>5, <1>6
<1>8. ASSUME NEW y \in Nat, y < n - 1, \/ \E z \in S : y < z /\ z < n
                                       \/ \A z \in S : z >= n
      PROVE  y < Cursor
  <2>1. CASE \E z \in S : y < z /\ z < n
    <3>1. PICK z \in S : y < z /\ z < n
      BY <2>1
    <3>2. z \in B /\ z \in Nat
      BY <1>3, <3>1
    <3>3. z <= x
      BY <1>4, <3>2
    <3>4. y < x /\ x # 0
      BY <1>5, <3>1, <3>2, <3>3
    <3> QED  BY <1>6, <3>4
  <2>2. CASE \A z \in S : z >= n
    <3>1. \A z \in S : ~(z < n)
      BY <1>1, <1>3, <2>2
    <3>2. x = 0
      BY <1>4, <3>1
    <3> QED  BY <1>6, <1>8, <3>2
  <2> QED  BY <1>8, <2>1, <2>2
<1> QED  BY <1>1, <1>7, <1>8

\* The next page of results, B being the time it ends at.
Searches(V, T, m, n, B, found, page) ==
  /\ V = VisOf(hist, m.cut, m.end) /\ T = Todo(hist, V, DOMAIN m.seen)
  /\ B \in Int /\ m.end \in Nat /\ B <= m.end /\ \A y \in T : y < B
  /\ found = Results(m.cut, B) /\ page = SubSeq(found, 1, Min({PageSize, Len(found)}))
  /\ n.cut = m.cut /\ n.end = m.end /\ n.seen = m.seen /\ n.bound = B
  /\ n.page = Latest(Range(page) \ DOMAIN m.seen, m.cut, B)
  /\ n.full = (Len(page) = PageSize) /\ n.last = IF page = << >> THEN Never ELSE Last(page)

\* page is the first k of found.
Starts(page, found, us, k) ==
  /\ page \in Seq(us) /\ Len(page) = k /\ k \in Nat
  /\ \A i \in 1 .. Len(page) : i \in 1 .. Len(found) /\ page[i] = found[i]
  /\ Range(page) = {page[i] : i \in 1 .. Len(page)}

LEMMA Prefix ==
  ASSUME NEW us, NEW found \in Seq(us), NEW k \in Nat, k <= Len(found), NEW page, page = SubSeq(found, 1, k)
  PROVE  Starts(page, found, us, k)
<1>1. Len(found) \in Nat /\ \A i \in 1 .. Len(found) : found[i] \in us
  OBVIOUS
<1>2. \A i \in 1 .. k : i \in 1 .. Len(found) /\ found[i] \in us
  BY <1>1
<1>3. page \in Seq(us) /\ Len(page) = k /\ \A i \in 1 .. k : page[i] = found[i]
  BY <1>2
<1>4. DOMAIN page = 1 .. k
  BY <1>3
<1> QED  BY <1>2, <1>3, <1>4 DEF Starts, Range

\* The results that make the page are the first ones.
Cuts(found, page, us, c, B) ==
  /\ LatestFirst(found, us, c, B) /\ page \in Seq(us) /\ Len(page) \in Nat /\ Len(page) <= Len(found)
  /\ \A i \in 1 .. Len(page) : i \in 1 .. Len(found) /\ page[i] = found[i]
  /\ Len(page) = PageSize \/ (Len(page) < PageSize /\ Len(page) = Len(found))
  /\ Range(page) = {page[i] : i \in 1 .. Len(page)}

LEMMA SearchCuts ==
  ASSUME hist \in Seq(VisitRecord), NEW c, NEW B, NEW found, NEW page, found = Results(c, B),
         page = SubSeq(found, 1, Min({PageSize, Len(found)})), NEW us, us = {u \in Urls : Shown(u, c, B) # {}}
  PROVE  Cuts(found, page, us, c, B)
<1>1. IsFiniteSet(us) /\ \A u \in us : Shown(u, c, B) # {}
  <2>1. us \in SUBSET Urls
    OBVIOUS
  <2> QED  BY <2>1, SizesAssumption, FS_Subset
<1>2. LatestFirst(found, us, c, B)
  <2>1. found = Latest(us, c, B)
    BY DEF Results
  <2> QED  BY <1>1, <2>1, LatestSorted
<1>3. found \in Seq(us) /\ Len(found) \in Nat /\ (\A i \in 1 .. Len(found) : found[i] \in us) /\ PageSize \in Nat /\ PageSize # 0
  BY <1>2, SizesAssumption DEF LatestFirst
<1>4. PICK k \in Nat : k = Min({PageSize, Len(found)})
                       /\ k <= PageSize /\ k <= Len(found) /\ (k = PageSize \/ k = Len(found))
  <2>1. PICK n \in Nat : n = Len(found)
    BY <1>3
  <2>2. PICK x \in {PageSize, n} : \A y \in {PageSize, n} : x <= y
    BY <1>3
  <2>3. Min({PageSize, n}) \in {PageSize, n} /\ \A y \in {PageSize, n} : Min({PageSize, n}) <= y
    BY <2>2 DEF Min
  <2> QED  BY <1>3, <2>1, <2>3
<1>5. page = SubSeq(found, 1, k)
  BY <1>4
<1>6. Starts(page, found, us, k)
  BY <1>3, <1>4, <1>5, Prefix
<1>7. /\ page \in Seq(us) /\ Len(page) = k
      /\ \A i \in 1 .. Len(page) : i \in 1 .. Len(found) /\ page[i] = found[i]
      /\ Range(page) = {page[i] : i \in 1 .. Len(page)}
  BY <1>6 DEF Starts
<1>8. /\ Len(page) \in Nat /\ Len(page) <= Len(found)
      /\ Len(page) = PageSize \/ (Len(page) < PageSize /\ Len(page) = Len(found))
  BY <1>3, <1>4, <1>7
<1> QED  BY <1>2, <1>7, <1>8 DEF Cuts

\* What the search finds is what there is to find, in order.
LEMMA SearchPaging ==
  ASSUME hist \in Seq(VisitRecord), NEW V, NEW T, NEW m, NEW n, NEW B, NEW found, NEW page,
         Searches(V, T, m, n, B, found, page), SeenOk(hist, V, m)
  PROVE  Paging(hist, V, T, n)
<1> DEFINE c == m.cut
           us == {u \in Urls : Shown(u, c, B) # {}}
           L(u) == LastShown(u, c, B)
           ps == Range(page) \ DOMAIN m.seen
<1>1. /\ V = VisOf(hist, c, m.end) /\ T = Todo(hist, V, DOMAIN m.seen)
      /\ B \in Int /\ m.end \in Nat /\ B <= m.end /\ \A y \in T : y < B
  BY DEF Searches
<1>2. /\ found = Results(c, B) /\ page = SubSeq(found, 1, Min({PageSize, Len(found)}))
      /\ n.page = Latest(ps, c, B)
  BY DEF Searches
<1>3. /\ n.end = m.end /\ n.seen = m.seen /\ n.bound = B
      /\ n.full = (Len(page) = PageSize) /\ n.last = IF page = << >> THEN Never ELSE Last(page)
  BY DEF Searches
<1>4. Len(hist) \in Nat /\ DOMAIN hist = 1 .. Len(hist) /\ V \subseteq DOMAIN hist /\ T \subseteq V
      /\ \A t \in DOMAIN hist : hist[t].url \in Urls
  <2>1. Len(hist) \in Nat /\ DOMAIN hist = 1 .. Len(hist) /\ \A t \in DOMAIN hist : hist[t] \in VisitRecord
    BY FiniteTimes
  <2> QED  BY <1>1, <2>1 DEF VisOf, Todo, VisitRecord
<1>5. \A u : Shown(u, c, B) \subseteq Page(hist, V, u)
  BY <1>1, <1>4 DEF Shown, At, Page, VisOf
<1>6. ASSUME NEW u, u \notin DOMAIN m.seen PROVE Shown(u, c, B) = Page(hist, V, u)
  <2>1. ASSUME NEW t \in Page(hist, V, u) PROVE t \in Shown(u, c, B)
    <3>1. t \in V /\ hist[t].url = u /\ t \in T
      BY <1>1, <1>6 DEF Page, Todo
    <3> QED  BY <1>1, <3>1 DEF Shown, At, VisOf
  <2>2. Shown(u, c, B) \subseteq Page(hist, V, u)
    BY <1>5
  <2> QED  BY <2>1, <2>2
<1>7. Cuts(found, page, us, c, B)
  BY <1>2, SearchCuts
<1>8. \A u \in us : u \in Urls /\ Shown(u, c, B) # {} /\ L(u) \in Shown(u, c, B)
                    /\ L(u) \in Nat /\ \A y \in Shown(u, c, B) : y <= L(u)
  BY LastOf
<1>9. /\ LatestFirst(found, us, c, B) /\ page \in Seq(us) /\ Len(page) \in Nat /\ Len(page) <= Len(found)
      /\ \A i \in 1 .. Len(page) : i \in 1 .. Len(found) /\ page[i] = found[i]
      /\ Len(page) = PageSize \/ (Len(page) < PageSize /\ Len(page) = Len(found))
      /\ Range(page) = {page[i] : i \in 1 .. Len(page)}
  BY <1>7 DEF Cuts
<1>10. /\ \A u \in us : \E i \in 1 .. Len(found) : found[i] = u
       /\ \A i \in 1 .. Len(found) : found[i] \in us
       /\ \A i, j \in 1 .. Len(found) : i < j => L(found[i]) > L(found[j])
       /\ Len(found) \in Nat
  BY <1>9 DEF LatestFirst
<1>11. ps \subseteq us /\ ps \in SUBSET Urls /\ \A u \in ps : u \notin DOMAIN m.seen
  BY <1>9, <1>10
<1>12. LatestFirst(n.page, ps, c, B)
  <2>1. IsFiniteSet(ps) /\ \A u \in ps : Shown(u, c, B) # {}
    BY <1>11, SizesAssumption, FS_Subset
  <2> HIDE DEF ps, c
  <2> QED  BY <1>2, <2>1, LatestSorted
<1> HIDE DEF us, L, ps, c
<1>13. /\ n.page \in Seq(ps) /\ Len(n.page) \in Nat
       /\ \A u \in ps : \E i \in 1 .. Len(n.page) : n.page[i] = u
       /\ \A i \in 1 .. Len(n.page) : n.page[i] \in ps
       /\ \A i, j \in 1 .. Len(n.page) : i < j => L(n.page[i]) > L(n.page[j])
  BY <1>12 DEF LatestFirst, L
<1>14. ASSUME NEW u \in us, NEW v \in us, u \notin DOMAIN m.seen, v \notin DOMAIN m.seen, L(u) > L(v)
       PROVE  Ahead(hist, V, u, v)
  <2>1. PICK z : z = L(u)
    OBVIOUS
  <2>2. z \in Nat /\ z \in V /\ hist[z].url = u
    BY <1>6, <1>8, <1>14, <2>1 DEF Page
  <2>3. ASSUME NEW y \in V, hist[y].url = v PROVE y < z
    <3>1. y \in Shown(v, c, B)
      BY <1>6, <1>14, <2>3 DEF Page
    <3>2. y <= L(v) /\ y \in Nat /\ L(v) \in Nat
      BY <1>4, <1>8, <3>1
    <3> QED  BY <1>14, <2>1, <2>2, <3>2
  <2> QED  BY <2>2, <2>3 DEF Ahead
<1>15. \A i \in 1 .. Len(n.page) : n.page[i] \in us /\ n.page[i] \notin DOMAIN n.seen /\ n.page[i] \in Urls
  BY <1>3, <1>11, <1>13
<1>16. n.page \in Seq(Urls)
  BY <1>11, <1>13, <1>15
<1>17. ASSUME NEW i \in 1 .. Len(n.page), NEW j \in 1 .. Len(n.page), i < j
       PROVE  n.page[i] # n.page[j] /\ Ahead(hist, V, n.page[i], n.page[j])
  <2>1. PICK u \in us, v \in us : u = n.page[i] /\ v = n.page[j] /\ u \notin DOMAIN m.seen /\ v \notin DOMAIN m.seen
    BY <1>3, <1>15
  <2>2. L(u) > L(v) /\ L(u) \in Nat /\ L(v) \in Nat
    BY <1>8, <1>13, <1>17, <2>1
  <2>3. u # v
    BY <2>2
  <2> QED  BY <1>14, <2>1, <2>2, <2>3
<1>18. ASSUME page # << >>
       PROVE  Len(page) \in 1 .. Len(page) /\ n.last = page[Len(page)] /\ n.last \in us /\ n.last \in Range(page)
  <2>1. Len(page) # 0
    BY <1>9, <1>18, EmptySeq
  <2>2. Len(page) \in 1 .. Len(page) /\ n.last = page[Len(page)]
    BY <1>3, <1>9, <1>18, <2>1 DEF Last
  <2> QED  BY <1>9, <1>10, <2>2
<1>19. n.full => page # << >>
  <2>1. Len(<< >>) = 0 /\ PageSize # 0
    BY SizesAssumption
  <2> QED  BY <1>3, <2>1
<1>20. n.full => n.last \in DOMAIN n.seen \/ \E i \in 1 .. Len(n.page) : n.last = n.page[i]
  BY <1>3, <1>13, <1>18, <1>19 DEF ps
<1>21. ASSUME NEW y \in T, \A i \in 1 .. Len(n.page) : n.page[i] # hist[y].url
       PROVE  /\ n.full /\ y < n.bound - 1
              /\ \A i \in 1 .. Len(n.page) : Page(hist, V, n.page[i]) # {} => Ahead(hist, V, n.page[i], hist[y].url)
              /\ n.last \in DOMAIN n.seen => \/ \E z \in n.seen[n.last] : y < z /\ z < n.bound
                                             \/ \A z \in n.seen[n.last] : z >= n.bound
  <2>1. PICK v : v = hist[y].url /\ v \notin DOMAIN m.seen /\ v \in Urls
    BY <1>1, <1>4 DEF Todo
  <2>2. y \in Shown(v, c, B)
    BY <1>4, <1>6, <2>1 DEF Page
  <2>3. v \in us /\ v \notin Range(page)
    BY <1>13, <1>21, <2>1, <2>2 DEF us, ps
  <2>4. PICK i \in 1 .. Len(found) : found[i] = v
    BY <1>10, <2>3
  <2>5. i > Len(page)
    <3> SUFFICES ASSUME i <= Len(page) PROVE FALSE
      BY <1>9, <1>10
    <3>1. i \in 1 .. Len(page) /\ page[i] = v
      BY <1>9, <1>10, <2>4
    <3> QED  BY <1>9, <2>3, <3>1
  <2>6. Len(page) = PageSize /\ n.full
    <3>1. Len(page) = PageSize
      BY <1>9, <1>10, <2>5
    <3> QED  BY <1>3, <3>1, Zenon
  <2>7. page # << >>
    BY <1>19, <2>6
  <2>8. y <= L(v) /\ y \in Nat /\ L(v) \in Nat
    BY <1>4, <1>8, <2>2, <2>3
  <2>9. ASSUME NEW k \in 1 .. Len(page) PROVE L(page[k]) > L(v) /\ page[k] \in us
    <3>1. k \in 1 .. Len(found) /\ page[k] = found[k] /\ k < i
      BY <1>9, <2>5
    <3> QED  BY <1>10, <2>4, <3>1
  <2>10. PICK z : z = L(n.last)
    OBVIOUS
  <2>11. z \in Nat /\ z > y /\ z \in Shown(n.last, c, B)
    <3>1. n.last = page[Len(page)] /\ Len(page) \in 1 .. Len(page) /\ n.last \in us
      BY <1>18, <2>7
    <3>2. L(n.last) > L(v)
      BY <2>9, <3>1
    <3>3. z \in Nat /\ z \in Shown(n.last, c, B)
      BY <1>8, <2>10, <3>1
    <3> QED  BY <2>8, <2>10, <3>2, <3>3
  <2>12. z < B /\ z \in Page(hist, V, n.last)
    BY <1>5, <2>11 DEF Shown
  <2>13. y < n.bound - 1
    BY <1>1, <1>3, <2>8, <2>11, <2>12
  <2>14. ASSUME NEW k \in 1 .. Len(n.page) PROVE Ahead(hist, V, n.page[k], hist[y].url)
    <3>1. PICK u \in us : u = n.page[k] /\ u \notin DOMAIN m.seen /\ u \in Range(page)
      BY <1>3, <1>13, <1>15 DEF ps
    <3>2. L(u) > L(v)
      BY <1>9, <2>9, <3>1
    <3> QED  BY <1>14, <2>1, <2>3, <3>1, <3>2
  <2>15. ASSUME n.last \in DOMAIN n.seen PROVE \E x \in n.seen[n.last] : y < x /\ x < n.bound
    <3>1. n.seen[n.last] = Page(hist, V, n.last)
      BY <1>3, <2>12, <2>15 DEF SeenOk
    <3> QED  BY <1>3, <2>11, <2>12, <3>1
  <2> QED  BY <2>6, <2>13, <2>14, <2>15
<1>22. n.bound \in Int /\ n.bound <= n.end /\ \A y \in T : y < n.bound
  BY <1>1, <1>3
<1> QED  BY <1>15, <1>16, <1>17, <1>20, <1>21, <1>22 DEF Paging

\* The pages are all read when no page of results is left and none follows.
LEMMA Covered ==
  ASSUME hist \in Seq(VisitRecord), NEW V, NEW T, Paging(hist, V, T, imp), SeenOk(hist, V, imp), imp.page = << >>, ~More
  PROVE  T = {}
<1> SUFFICES ASSUME NEW y \in T PROVE FALSE
  OBVIOUS
<1>1. \A i \in 1 .. Len(imp.page) : FALSE
  <2>1. Len(imp.page) = 0
    OBVIOUS
  <2> QED  BY <2>1
<1>2. imp.full
  BY <1>1 DEF Paging
<1>3. imp.last \in DOMAIN imp.seen /\ imp.bound \in Int
  BY <1>1, <1>2 DEF Paging
<1>4. imp.seen[imp.last] \in SUBSET (DOMAIN hist)
  BY <1>3 DEF SeenOk
<1>5. Cursor < imp.bound
  BY <1>3, <1>4, CursorBelow
<1> QED  BY <1>2, <1>5 DEF More

--------------------------------------------------------------------------------
(***************************************************************************)
(* A chunk goes up: the first k of the visits read, a being what the       *)
(* server has afterwards.                                                  *)
(***************************************************************************)
Sends(h, V, T, b, a, m, n, k, S) ==
  /\ V \in SUBSET Nat /\ IsFiniteSet(V) /\ T = Todo(h, V, DOMAIN m.seen) /\ WalkTypes(m)
  /\ k \in Nat /\ k # 0 /\ k <= Len(m.chunk)
  /\ k = ChunkVisits \/ (k < ChunkVisits /\ k = Len(m.chunk) /\ T = {})
  /\ S = Range(SubSeq(m.chunk, 1, k))
  /\ a = IF <<m.cut, m.index>> \in DOMAIN b THEN b ELSE With(b, <<m.cut, m.index>>, S)
  /\ n.cut = m.cut /\ n.end = m.end /\ n.seen = m.seen /\ n.skip = m.skip
  /\ n.index = m.index + 1 /\ n.size = m.size + k /\ n.chunk = SubSeq(m.chunk, k + 1, Len(m.chunk))

\* The chunk's place: it is full but for the last, and follows full ones.
Sending(h, V, T, b, m, n, k, S, z, i, l) ==
  /\ z = m.size /\ i = m.index /\ l = Len(m.chunk) /\ z \in Nat /\ i \in Nat /\ l \in Nat
  /\ m.skip = 0 /\ z = Full(i) /\ Full(i + 1) = z + ChunkVisits /\ k <= ChunkVisits /\ Walked(m) = z + l
  /\ S = {m.chunk[p] : p \in 1 .. k} /\ (\A p \in 1 .. k : p \in 1 .. l)
  /\ WalkTypes(n) /\ Len(n.chunk) = l - k /\ Walked(n) = Walked(m)
  /\ \A p \in 1 .. l - k : p + k \in 1 .. l /\ n.chunk[p] = m.chunk[p + k]
  /\ \A j \in Nat : j < i => j \in Sent(b, m.cut)

LEMMA CutInTwo ==
  ASSUME NEW s \in Seq(Nat), NEW k \in Nat, k <= Len(s), NEW r, r = SubSeq(s, k + 1, Len(s))
  PROVE  /\ Len(s) \in Nat /\ Range(SubSeq(s, 1, k)) = {s[p] : p \in 1 .. k}
         /\ r \in Seq(Nat) /\ Len(r) = Len(s) - k
         /\ \A p \in 1 .. Len(s) - k : p + k \in 1 .. Len(s) /\ r[p] = s[p + k]
<1>1. PICK l \in Nat : l = Len(s) /\ \A i \in 1 .. l : s[i] \in Nat
  OBVIOUS
<1>2. PICK q : q = SubSeq(s, 1, k)
  OBVIOUS
<1>3. Starts(q, s, Nat, k)
  BY <1>2, Prefix
<1>4. Range(q) = {s[p] : p \in 1 .. k}
  BY <1>3 DEF Starts
<1>5. \A i \in k + 1 .. l : s[i] \in Nat /\ i \in 1 .. l
  BY <1>1
<1>6. r \in Seq(Nat) /\ Len(r) = l - k /\ \A i \in 1 .. l - k : r[i] = s[k + i]
  BY <1>1, <1>5
<1>7. \A p \in 1 .. l - k : p + k \in 1 .. l /\ p + k = k + p
  BY <1>1
<1> QED  BY <1>1, <1>2, <1>4, <1>6, <1>7

LEMMA SendingFacts ==
  ASSUME NEW h, NEW V, NEW T, NEW b, NEW a, NEW m, NEW n, NEW k, NEW S, NEW d,
         Sends(h, V, T, b, a, m, n, k, S), Counts(V, T, b, m, d)
  PROVE  Sending(h, V, T, b, m, n, k, S, m.size, m.index, Len(m.chunk))
<1>1. /\ k \in Nat /\ k # 0 /\ k <= Len(m.chunk) /\ (k = ChunkVisits \/ k < ChunkVisits)
      /\ m.chunk \in Seq(Nat) /\ m.skip \in Nat /\ m.size \in Nat /\ S = Range(SubSeq(m.chunk, 1, k))
      /\ n.size = m.size + k /\ n.chunk = SubSeq(m.chunk, k + 1, Len(m.chunk)) /\ n.skip = m.skip
  BY DEF Sends, WalkTypes
<1>2. /\ m.index \in Nat /\ (m.skip # 0 => m.chunk = << >>)
      /\ \A j \in Nat : j < m.index => j \in Sent(b, m.cut)
      /\ m.size = Full(m.index) \/ m.chunk = << >>
  BY DEF Counts
<1>3. PICK s, r : s \in Seq(Nat) /\ s = m.chunk /\ r = n.chunk
  BY <1>1
<1>4. /\ Len(s) \in Nat /\ Range(SubSeq(s, 1, k)) = {s[p] : p \in 1 .. k}
      /\ r \in Seq(Nat) /\ Len(r) = Len(s) - k
      /\ \A p \in 1 .. Len(s) - k : p + k \in 1 .. Len(s) /\ r[p] = s[p + k]
  <2>1. k \in Nat /\ k <= Len(s) /\ r = SubSeq(s, k + 1, Len(s))
    BY <1>1, <1>3
  <2>2. s \in Seq(Nat)
    BY <1>3
  <2> QED  BY <2>1, <2>2, CutInTwo
<1>5. m.chunk # << >>
  <2>1. Len(<< >>) = 0
    OBVIOUS
  <2> QED  BY <1>1, <2>1
<1>6. m.skip = 0 /\ m.size = Full(m.index)
  BY <1>2, <1>5
<1>7. Full(m.index + 1) = m.size + ChunkVisits /\ k <= ChunkVisits
  <2>1. ChunkVisits \in Nat /\ Full(m.index + 1) = Full(m.index) + ChunkVisits
    BY <1>2, FullFacts
  <2> QED  BY <1>1, <1>6, <2>1
<1>8. PICK z \in Nat, l \in Nat : z = m.size /\ l = Len(m.chunk)
  BY <1>1, <1>3, <1>4
<1>9. Len(n.chunk) = l - k /\ \A p \in 1 .. l - k : p + k \in 1 .. l /\ n.chunk[p] = m.chunk[p + k]
  BY <1>3, <1>4, <1>8
<1>10. Walked(m) = z + l /\ Walked(n) = Walked(m) /\ WalkTypes(n)
  <2>1. Walked(m) = z + l - 0 /\ Walked(n) = (z + k) + (l - k) - 0
    BY <1>1, <1>6, <1>8, <1>9 DEF Walked
  <2>2. WalkTypes(n)
    BY <1>1, <1>3, <1>4 DEF WalkTypes
  <2>3. z + l - 0 = z + l /\ (z + k) + (l - k) - 0 = z + l
    <3>1. k \in Nat
      BY <1>1
    <3> QED  BY <3>1
  <2> QED  BY <2>1, <2>2, <2>3
<1>11. S = {m.chunk[p] : p \in 1 .. k} /\ \A p \in 1 .. k : p \in 1 .. l
  BY <1>1, <1>3, <1>4, <1>8
<1> QED  BY <1>2, <1>6, <1>7, <1>8, <1>9, <1>10, <1>11 DEF Sending

\* What the server has: nothing new, or one more chunk.
Takes(b, a, c, i, S) ==
  \/ a = b /\ i \in Sent(b, c)
  \/ /\ i \notin Sent(b, c) /\ DOMAIN a = DOMAIN b \union {<<c, i>>}
     /\ a[<<c, i>>] = S /\ (\A id \in DOMAIN b : a[id] = b[id])

LEMMA SendTakes ==
  ASSUME NEW h, NEW V, NEW T, NEW b, NEW a, NEW m, NEW n, NEW k, NEW S,
         Sends(h, V, T, b, a, m, n, k, S), m.index \in Nat
  PROVE  Takes(b, a, m.cut, m.index, S)
<1>1. a = IF <<m.cut, m.index>> \in DOMAIN b THEN b ELSE With(b, <<m.cut, m.index>>, S)
  BY DEF Sends
<1>2. PICK id : id = <<m.cut, m.index>>
  OBVIOUS
<1>3. m.index \in Sent(b, m.cut) <=> id \in DOMAIN b
  BY <1>2 DEF Sent
<1>4. CASE id \in DOMAIN b
  BY <1>1, <1>2, <1>3, <1>4 DEF Takes
<1>5. CASE id \notin DOMAIN b
  <2>1. a = With(b, id, S)
    BY <1>1, <1>2, <1>5
  <2>2. DOMAIN a = DOMAIN b \union {id} /\ a[id] = S /\ \A x \in DOMAIN b : a[x] = b[x]
    BY <1>5, <2>1 DEF With
  <2> QED  BY <1>2, <1>3, <1>5, <2>2 DEF Takes
<1> QED  BY <1>4, <1>5

\* In the scope's own chunks.
Adds(b, a, c, i, S) ==
  /\ Sent(a, c) = Sent(b, c) \union {i}
  /\ \A j \in Sent(b, c) : a[<<c, j>>] = b[<<c, j>>]
  /\ i \notin Sent(b, c) => a[<<c, i>>] = S

LEMMA TakesSent ==
  ASSUME NEW b, NEW a, NEW c, NEW i \in Nat, NEW S, Takes(b, a, c, i, S)
  PROVE  Adds(b, a, c, i, S)
<1>1. \A j \in Nat : <<c, j>> = <<c, i>> => j = i
  OBVIOUS
<1>2. CASE a = b /\ i \in Sent(b, c)
  BY <1>2 DEF Adds
<1>3. CASE /\ i \notin Sent(b, c) /\ DOMAIN a = DOMAIN b \union {<<c, i>>}
           /\ a[<<c, i>>] = S /\ (\A id \in DOMAIN b : a[id] = b[id])
  <2>1. Sent(a, c) = Sent(b, c) \union {i}
    BY <1>1, <1>3 DEF Sent
  <2>2. \A j \in Sent(b, c) : <<c, j>> \in DOMAIN b
    BY DEF Sent
  <2> QED  BY <1>3, <2>1, <2>2 DEF Adds
<1> QED  BY <1>2, <1>3 DEF Takes

\* The new chunk has nothing another of the scope has.
LEMMA SendApart ==
  ASSUME NEW h, NEW V, NEW T, NEW b, NEW a, NEW m, NEW n, NEW k, NEW S, NEW d,
         Sends(h, V, T, b, a, m, n, k, S), Walk(h, V, T, b, m, d), ChunksOk(h, V, b, m.cut, d),
         m.index \notin Sent(b, m.cut)
  PROVE  \A j \in Sent(b, m.cut) : b[<<m.cut, j>>] \cap S = {}
<1>1. Counts(V, T, b, m, d) /\ Places(h, V, T, b, m, d)
  BY DEF Walk
<1>2. PICK z, i, l : z = m.size /\ i = m.index /\ l = Len(m.chunk)
  OBVIOUS
<1>3. Sending(h, V, T, b, m, n, k, S, z, i, l)
  BY <1>1, <1>2, SendingFacts
<1>4. /\ z \in Nat /\ i \in Nat /\ l \in Nat /\ z = Full(i)
      /\ S = {m.chunk[p] : p \in 1 .. k} /\ (\A p \in 1 .. k : p \in 1 .. l)
  BY <1>3 DEF Sending
<1> SUFFICES ASSUME NEW j \in Sent(b, m.cut), NEW p \in 1 .. k, m.chunk[p] \in b[<<m.cut, j>>] PROVE FALSE
  BY <1>4
<1>5. z + p <= Full(j + 1) /\ j \in Nat /\ p \in Nat /\ p # 0
  BY <1>1, <1>2, <1>4 DEF Places, Sent
<1>6. CASE j < i
  <2>1. Full(j + 1) <= z /\ Full(j + 1) \in Nat
    BY <1>4, <1>5, <1>6, FullFacts
  <2> QED  BY <1>4, <1>5, <2>1
<1>7. CASE i <= j
  BY <1>2, <1>4, <1>5, <1>7 DEF ChunksOk
<1> QED  BY <1>4, <1>5, <1>6, <1>7

\* Every chunk is as it should be.
LEMMA SendChunks ==
  ASSUME NEW h, NEW V, NEW T, NEW b, NEW a, NEW m, NEW n, NEW k, NEW S, NEW d,
         Sends(h, V, T, b, a, m, n, k, S), Walk(h, V, T, b, m, d), ChunksOk(h, V, b, m.cut, d)
  PROVE  ChunksOk(h, V, a, m.cut, d)
<1>1. Counts(V, T, b, m, d) /\ Places(h, V, T, b, m, d) /\ Order(h, V, T)
  BY DEF Walk
<1>2. PICK z, i, l, c : z = m.size /\ i = m.index /\ l = Len(m.chunk) /\ c = m.cut
  OBVIOUS
<1>3. Sending(h, V, T, b, m, n, k, S, z, i, l)
  BY <1>1, <1>2, SendingFacts
<1>4. /\ z \in Nat /\ i \in Nat /\ l \in Nat /\ z = Full(i) /\ Full(i + 1) = z + ChunkVisits /\ k <= ChunkVisits
      /\ S = {m.chunk[p] : p \in 1 .. k} /\ (\A p \in 1 .. k : p \in 1 .. l)
      /\ Walked(m) = z + l /\ \A j \in Nat : j < i => j \in Sent(b, c)
  BY <1>2, <1>3 DEF Sending
<1>5. /\ V \in SUBSET Nat /\ IsFiniteSet(V) /\ T = Todo(h, V, DOMAIN m.seen) /\ k \in Nat /\ k <= l
      /\ k = ChunkVisits \/ (k < ChunkVisits /\ k = l /\ T = {})
  BY <1>2 DEF Sends
<1>6. /\ Sent(a, c) = Sent(b, c) \union {i}
      /\ \A j \in Sent(b, c) : a[<<c, j>>] = b[<<c, j>>]
      /\ i \notin Sent(b, c) => a[<<c, i>>] = S
  <2>1. Takes(b, a, c, i, S)
    BY <1>2, <1>4, SendTakes
  <2>2. i \in Nat
    BY <1>4
  <2>3. Adds(b, a, c, i, S)
    BY <2>1, <2>2, TakesSent
  <2> QED  BY <2>3 DEF Adds
<1>7. /\ \A x, j \in Nat : x <= j /\ j \in Sent(b, c) => x \in Sent(b, c)
      /\ \A j \in Sent(b, c), t \in V : t \in b[<<c, j>>] => Rank(h, V, t) <= Full(j + 1)
      /\ ~d => \A j \in Sent(b, c), t \in V :
                 Full(j) < Rank(h, V, t) /\ Rank(h, V, t) <= Full(j + 1) => t \in b[<<c, j>>]
  BY <1>2 DEF ChunksOk
<1>8. ASSUME NEW x \in Nat, NEW j \in Nat, x <= j, j \in Sent(a, c) PROVE x \in Sent(a, c)
  <2>1. CASE j \in Sent(b, c)
    BY <1>6, <1>7, <1>8, <2>1
  <2>2. CASE j = i
    BY <1>4, <1>6, <1>8, <2>2
  <2> QED  BY <1>6, <1>8, <2>1, <2>2
<1>9. \A t \in V : Rank(h, V, t) \in Nat
  BY <1>5, RankTypes
<1>10. ASSUME NEW t \in V, t \in S PROVE Rank(h, V, t) <= Full(i + 1)
  <2>1. PICK p \in 1 .. k : m.chunk[p] = t /\ p \in 1 .. l
    BY <1>4, <1>10
  <2>2. Rank(h, V, t) <= z + p
    BY <1>1, <1>2, <2>1 DEF Places
  <2>3. ChunkVisits \in Nat /\ p <= ChunkVisits
    BY <1>4, <1>5, <2>1, FullFacts
  <2> QED  BY <1>4, <1>9, <2>2, <2>3
<1>11. ASSUME ~d, NEW t \in V, Full(i) < Rank(h, V, t), Rank(h, V, t) <= Full(i + 1) PROVE t \in S
  <2>1. ChunkVisits \in Nat /\ Rank(h, V, t) \in Nat
    BY <1>9, FullFacts
  <2>2. CASE t \in T
    <3>1. RanksAfter(h, V, T)
      BY <1>1, <1>5, Split
    <3>2. Rank(h, V, t) = Cardinality(V \ T) + Rank(h, T, t) /\ Cardinality(V \ T) = z + l
      BY <1>1, <1>4, <1>11, <2>2, <3>1 DEF RanksAfter, Counts
    <3>3. Rank(h, T, t) \in Nat /\ Rank(h, T, t) # 0
      <4>1. T \in SUBSET V
        BY <1>5 DEF Todo
      <4>2. V \in SUBSET Nat /\ IsFiniteSet(V)
        BY <1>5
      <4>3. T \in SUBSET Nat /\ IsFiniteSet(T)
        BY <4>1, <4>2, FS_Subset
      <4> QED  BY <2>2, <4>3, RankTypes
    <3>4. ChunkVisits <= l
      BY <1>5, <2>2
    <3> QED  BY <1>4, <1>11, <2>1, <3>2, <3>3, <3>4
  <2>3. CASE t \notin T
    <3>1. PICK p \in 1 .. l : Rank(h, V, t) = z + p /\ m.chunk[p] = t
      BY <1>1, <1>2, <1>4, <1>11, <2>3 DEF Places
    <3>2. p <= ChunkVisits
      BY <1>4, <1>11, <2>1, <3>1
    <3>3. p \in 1 .. k
      BY <1>4, <1>5, <3>1, <3>2
    <3> QED  BY <1>4, <3>1, <3>3
  <2> QED  BY <2>2, <2>3
<1>12. \A j \in Sent(a, c) : j \in Sent(b, c) \/ (j = i /\ a[<<c, j>>] = S)
  BY <1>6
<1>13. ASSUME NEW j \in Sent(a, c), NEW t \in V, t \in a[<<c, j>>] PROVE Rank(h, V, t) <= Full(j + 1)
  BY <1>6, <1>7, <1>10, <1>12, <1>13
<1>14. ASSUME ~d, NEW j \in Sent(a, c), NEW t \in V, Full(j) < Rank(h, V, t), Rank(h, V, t) <= Full(j + 1)
       PROVE  t \in a[<<c, j>>]
  <2>1. CASE j \in Sent(b, c)
    BY <1>6, <1>7, <1>14, <2>1
  <2>2. CASE j = i /\ a[<<c, j>>] = S
    BY <1>11, <1>14, <2>2
  <2> QED  BY <1>12, <2>1, <2>2
<1>15. ChunksOk(h, V, a, c, d)
  BY <1>8, <1>13, <1>14 DEF ChunksOk
<1> QED  BY <1>2, <1>15

\* So is the walk, the visits left moving up.
LEMMA SendWalk ==
  ASSUME NEW h, NEW V, NEW T, NEW b, NEW a, NEW m, NEW n, NEW k, NEW S, NEW d,
         Sends(h, V, T, b, a, m, n, k, S), Walk(h, V, T, b, m, d)
  PROVE  Walk(h, V, T, a, n, d) /\ WalkTypes(n)
<1>1. Counts(V, T, b, m, d) /\ ChunkOk(h, m) /\ Places(h, V, T, b, m, d) /\ Order(h, V, T) /\ SeenOk(h, V, m)
  BY DEF Walk
<1>2. PICK z, i, l, c : z = m.size /\ i = m.index /\ l = Len(m.chunk) /\ c = m.cut
  OBVIOUS
<1>3. Sending(h, V, T, b, m, n, k, S, z, i, l)
  BY <1>1, <1>2, SendingFacts
<1>4. /\ z \in Nat /\ i \in Nat /\ l \in Nat /\ m.skip = 0 /\ z = Full(i) /\ Full(i + 1) = z + ChunkVisits
      /\ k <= ChunkVisits /\ S = {m.chunk[p] : p \in 1 .. k} /\ (\A p \in 1 .. k : p \in 1 .. l)
      /\ \A j \in Nat : j < i => j \in Sent(b, c)
  BY <1>2, <1>3 DEF Sending
<1>5. /\ WalkTypes(n) /\ Len(n.chunk) = l - k /\ Walked(n) = Walked(m)
      /\ \A p \in 1 .. l - k : p + k \in 1 .. l /\ n.chunk[p] = m.chunk[p + k]
  BY <1>3 DEF Sending
<1>6. /\ V \in SUBSET Nat /\ IsFiniteSet(V) /\ T = Todo(h, V, DOMAIN m.seen) /\ k \in Nat /\ k # 0 /\ k <= l
      /\ k = ChunkVisits \/ (k < ChunkVisits /\ k = l /\ T = {})
      /\ n.cut = c /\ n.end = m.end /\ n.seen = m.seen /\ n.skip = m.skip /\ n.index = i + 1 /\ n.size = z + k
  BY <1>2 DEF Sends
<1>7. /\ Sent(a, c) = Sent(b, c) \union {i}
      /\ \A j \in Sent(b, c) : a[<<c, j>>] = b[<<c, j>>]
      /\ i \notin Sent(b, c) => a[<<c, i>>] = S
  <2>1. Takes(b, a, c, i, S)
    BY <1>2, <1>4, SendTakes
  <2>2. i \in Nat
    BY <1>4
  <2>3. Adds(b, a, c, i, S)
    BY <2>1, <2>2, TakesSent
  <2> QED  BY <2>3 DEF Adds
<1>8. \A j \in Sent(a, c) : j \in Sent(b, c) \/ a[<<c, j>>] = S
  BY <1>7
<1>9. /\ \A p, q \in 1 .. l : m.chunk[p] = m.chunk[q] => p = q
      /\ \A p \in 1 .. l : /\ m.chunk[p] \in DOMAIN h /\ c <= m.chunk[p] /\ m.chunk[p] < m.end
                           /\ h[m.chunk[p]].url \in DOMAIN m.seen
  BY <1>1, <1>2 DEF ChunkOk
<1>10. Counts(V, T, a, n, d)
  <2>1. n.index \in Nat /\ n.skip <= n.size /\ (n.skip # 0 => n.chunk = << >>)
    BY <1>4, <1>6
  <2>2. \A j \in Nat : j < n.index => j \in Sent(a, n.cut)
    <3> SUFFICES ASSUME NEW j \in Nat, j < i + 1 PROVE j \in Sent(a, c)
      BY <1>6
    <3>1. j < i \/ j = i
      BY <1>4
    <3> QED  BY <1>4, <1>7, <3>1
  <2>3. n.size <= Full(n.index)
    <3>1. ChunkVisits \in Nat
      BY FullFacts
    <3> QED  BY <1>4, <1>6, <3>1
  <2>4. n.size = Full(n.index) \/ (n.chunk = << >> /\ Cardinality(T) <= n.skip)
    <3>1. CASE k = ChunkVisits
      BY <1>4, <1>6, <3>1
    <3>2. CASE k = l /\ T = {}
      <4>1. Len(n.chunk) = 0
        BY <1>4, <1>5, <3>2
      <4>2. n.chunk \in Seq(Nat)
        BY <1>5 DEF WalkTypes
      <4>3. n.chunk = << >>
        BY <4>1, <4>2, EmptySeq
      <4>4. Cardinality(T) = 0
        BY <3>2, FS_EmptySet
      <4> QED  BY <1>4, <1>6, <4>3, <4>4
    <3> QED  BY <1>6, <3>1, <3>2
  <2>5. Cardinality(V \ T) <= Walked(n) /\ (~d => Cardinality(V \ T) = Walked(n))
    BY <1>1, <1>5 DEF Counts
  <2> QED  BY <2>1, <2>2, <2>3, <2>4, <2>5 DEF Counts
<1>11. ChunkOk(h, n)
  <2>1. ASSUME NEW p \in 1 .. l - k, NEW q \in 1 .. l - k, n.chunk[p] = n.chunk[q] PROVE p = q
    <3>1. p + k \in 1 .. l /\ q + k \in 1 .. l /\ m.chunk[p + k] = m.chunk[q + k]
      BY <1>5, <2>1
    <3>2. p + k = q + k
      BY <1>9, <3>1
    <3> QED  BY <1>4, <1>6, <3>2
  <2>2. ASSUME NEW p \in 1 .. l - k
        PROVE  /\ n.chunk[p] \in DOMAIN h /\ n.cut <= n.chunk[p] /\ n.chunk[p] < n.end
               /\ h[n.chunk[p]].url \in DOMAIN n.seen
    <3>1. PICK q \in 1 .. l : n.chunk[p] = m.chunk[q]
      BY <1>5
    <3> QED  BY <1>6, <1>9, <3>1
  <2> QED  BY <1>5, <2>1, <2>2 DEF ChunkOk
<1>12. Places(h, V, T, a, n, d)
  <2>1. ASSUME NEW p \in 1 .. l - k PROVE \E q \in 1 .. l : n.chunk[p] = m.chunk[q] /\ z + q = n.size + p /\ q > k
    <3>1. p + k \in 1 .. l /\ n.chunk[p] = m.chunk[p + k]
      BY <1>5
    <3>2. z + (p + k) = (z + k) + p /\ p + k > k
      BY <1>4, <1>6
    <3> QED  BY <1>6, <3>1, <3>2
  <2>2. ASSUME NEW p \in 1 .. l - k, n.chunk[p] \in V PROVE Rank(h, V, n.chunk[p]) <= n.size + p
    <3>1. PICK q \in 1 .. l : n.chunk[p] = m.chunk[q] /\ z + q = n.size + p
      BY <2>1
    <3>2. Rank(h, V, m.chunk[q]) <= z + q
      BY <1>1, <1>2, <2>2, <3>1 DEF Places
    <3> QED  BY <3>1, <3>2
  <2>3. ASSUME NEW p \in 1 .. l - k, NEW j \in Sent(a, c), n.chunk[p] \in a[<<c, j>>] PROVE n.size + p <= Full(j + 1)
    <3>1. PICK q \in 1 .. l : n.chunk[p] = m.chunk[q] /\ z + q = n.size + p /\ q > k
      BY <2>1
    <3>2. CASE j \in Sent(b, c)
      <4>1. m.chunk[q] \in b[<<c, j>>]
        BY <1>7, <2>3, <3>1, <3>2
      <4>2. z + q <= Full(j + 1)
        BY <1>1, <1>2, <3>2, <4>1 DEF Places
      <4> QED  BY <3>1, <4>2
    <3>3. CASE a[<<c, j>>] = S
      <4>1. PICK r \in 1 .. k : m.chunk[r] = m.chunk[q] /\ r \in 1 .. l
        BY <1>4, <2>3, <3>1, <3>3
      <4>2. r = q
        BY <1>9, <4>1
      <4> QED  BY <1>6, <3>1, <4>1, <4>2
    <3> QED  BY <1>8, <3>2, <3>3
  <2>4. ASSUME NEW t \in T, NEW j \in Sent(a, c), t \in a[<<c, j>>] PROVE Walked(n) + Rank(h, T, t) <= Full(j + 1)
    <3>1. CASE j \in Sent(b, c)
      <4>1. t \in b[<<c, j>>]
        BY <1>7, <2>4, <3>1
      <4>2. Walked(m) + Rank(h, T, t) <= Full(j + 1)
        BY <1>1, <1>2, <3>1, <4>1 DEF Places
      <4> QED  BY <1>5, <4>2
    <3>2. CASE a[<<c, j>>] = S
      <4>1. PICK p \in 1 .. k : m.chunk[p] = t /\ p \in 1 .. l
        BY <1>4, <2>4, <3>2
      <4>2. h[t].url \in DOMAIN m.seen
        BY <1>9, <4>1
      <4> QED  BY <1>6, <4>2 DEF Todo
    <3> QED  BY <1>8, <3>1, <3>2
  <2>5. ASSUME ~d, NEW t \in V \ T, Rank(h, V, t) > n.size
        PROVE  \E p \in 1 .. l - k : Rank(h, V, t) = n.size + p /\ n.chunk[p] = t
    <3>1. Rank(h, V, t) \in Nat
      BY <1>6, RankTypes
    <3>2. Rank(h, V, t) > z
      BY <1>4, <1>6, <2>5, <3>1
    <3>3. PICK q \in 1 .. l : Rank(h, V, t) = z + q /\ m.chunk[q] = t
      BY <1>1, <1>2, <2>5, <3>2 DEF Places
    <3>4. PICK p : p = q - k
      OBVIOUS
    <3>5. p \in 1 .. l - k /\ p + k = q /\ z + q = (z + k) + p
      BY <1>4, <1>6, <2>5, <3>3, <3>4
    <3> QED  BY <1>5, <1>6, <3>3, <3>5
  <2> QED  BY <1>5, <1>6, <2>2, <2>3, <2>4, <2>5 DEF Places
<1>13. SeenOk(h, V, n)
  BY <1>1, <1>6 DEF SeenOk
<1> QED  BY <1>1, <1>5, <1>10, <1>11, <1>12, <1>13 DEF Walk

\* The pages are not touched.
LEMMA SamePages ==
  ASSUME NEW h, NEW V, NEW T, NEW m, NEW n, Paging(h, V, T, m), n.bound = m.bound, n.end = m.end, n.page = m.page,
         n.seen = m.seen, n.full = m.full, n.last = m.last
  PROVE  Paging(h, V, T, n)
BY ZenonT(60) DEF Paging

--------------------------------------------------------------------------------
(***************************************************************************)
(* The beginning and the end of a walk.                                    *)
(***************************************************************************)
\* What is sent when a chunk is confirmed can be resumed from.
LEMMA WalkResumable ==
  ASSUME NEW h, NEW V \in SUBSET Nat, IsFiniteSet(V), NEW m, NEW T, T = Todo(h, V, DOMAIN m.seen), NEW b, NEW d,
         WalkTypes(m), Walk(h, V, T, b, m, d)
  PROVE  Resumable(b, m.cut, V, m.index, m.size)
<1>1. /\ m.index \in Nat /\ m.skip <= m.size /\ (\A j \in Nat : j < m.index => j \in Sent(b, m.cut))
      /\ m.size <= Full(m.index) /\ Cardinality(V \ T) <= Walked(m)
      /\ m.size = Full(m.index) \/ (m.chunk = << >> /\ Cardinality(T) <= m.skip)
  BY DEF Walk, Counts
<1>2. RanksAfter(h, V, T)
  BY Split DEF Walk
<1>3. Cardinality(V \ T) \in Nat /\ Cardinality(T) \in Nat /\ Cardinality(V) = Cardinality(V \ T) + Cardinality(T)
  BY <1>2 DEF RanksAfter
<1>4. ASSUME m.chunk = << >>, Cardinality(T) <= m.skip PROVE Cardinality(V) <= m.size
  <2>1. PICK z \in Nat, s \in Nat : z = m.size /\ s = m.skip
    BY DEF WalkTypes
  <2>2. Walked(m) = z + 0 - s
    BY <1>4, <2>1 DEF Walked
  <2> QED  BY <1>1, <1>3, <1>4, <2>1, <2>2
<1> QED  BY <1>1, <1>4 DEF Resumable, WalkTypes

\* A number up to n chunks' visits is in one of them.
LEMMA InChunk ==
  ASSUME NEW r \in Nat, r # 0, NEW n \in Nat, r <= Full(n)
  PROVE  \E j \in Nat : j < n /\ Full(j) < r /\ r <= Full(j + 1)
<1> DEFINE N == {i \in Nat : r <= Full(i)}
<1>1. PICK i \in N : \A x \in N : i <= x
  <2>1. n \in N /\ N \in SUBSET Nat
    OBVIOUS
  <2> HIDE DEF N
  <2> QED  BY <2>1, LeastNumber
<1>2. i \in Nat /\ r <= Full(i) /\ i <= n
  BY <1>1
<1>3. i # 0
  BY <1>2, FullFacts
<1>4. PICK j \in Nat : i = j + 1
  <2>1. i - 1 \in Nat /\ i = (i - 1) + 1
    BY <1>2, <1>3
  <2> QED  BY <2>1
<1>5. j \notin N
  <2>1. ~(i <= j)
    BY <1>4
  <2> HIDE DEF N
  <2> QED  BY <1>1, <2>1
<1>6. ~(r <= Full(j)) /\ Full(j) \in Nat
  BY <1>4, <1>5, FullFacts
<1>7. Full(j) < r
  BY <1>6
<1> QED  BY <1>2, <1>4, <1>7

InChunks(b, S) == \A t \in S : \E id \in DOMAIN b : t \in b[id]

\* A scope all of whose pages are read and all of whose chunks are sent is on
\* the server.
LEMMA WalkDone ==
  ASSUME NEW h, NEW V \in SUBSET Nat, IsFiniteSet(V), NEW m, NEW T, T = {}, NEW b, NEW d, ~d,
         WalkTypes(m), Walk(h, V, T, b, m, d), ChunksOk(h, V, b, m.cut, d), m.chunk = << >>
  PROVE  InChunks(b, V)
<1> SUFFICES ASSUME NEW t \in V PROVE \E j \in Nat : <<m.cut, j>> \in DOMAIN b /\ t \in b[<<m.cut, j>>]
  BY DEF InChunks
<1>1. /\ m.index \in Nat /\ m.size <= Full(m.index) /\ m.size \in Nat
      /\ \A j \in Nat : j < m.index => j \in Sent(b, m.cut)
  BY DEF Walk, Counts, WalkTypes
<1>2. PICK r \in Nat : r = Rank(h, V, t) /\ r # 0
  <2>1. Rank(h, V, t) \in Nat /\ Rank(h, V, t) # 0
    BY RankTypes
  <2> QED  BY <2>1
<1>3. ~(r > m.size)
  <2> SUFFICES ASSUME r > m.size PROVE FALSE
    OBVIOUS
  <2>1. PICK p \in 1 .. Len(m.chunk) : m.chunk[p] = t
    BY <1>2 DEF Walk, Places
  <2>2. Len(m.chunk) = 0
    OBVIOUS
  <2> QED  BY <2>1, <2>2
<1>4. r <= Full(m.index)
  <2>1. Full(m.index) \in Nat
    BY <1>1, FullFacts
  <2> QED  BY <1>1, <1>3, <2>1
<1>5. PICK j \in Nat : j < m.index /\ Full(j) < r /\ r <= Full(j + 1)
  BY <1>1, <1>2, <1>4, InChunk
<1>6. j \in Sent(b, m.cut)
  BY <1>1, <1>5
<1>7. t \in b[<<m.cut, j>>]
  BY <1>2, <1>5, <1>6 DEF ChunksOk
<1> QED  BY <1>6, <1>7 DEF Sent

\* Nothing of a new scope is sent.
LEMMA NewScope ==
  ASSUME NEW h, NEW V, NEW b, NEW c, NEW d, Sent(b, c) = {}
  PROVE  Resumable(b, c, V, 0, 0) /\ ChunksOk(h, V, b, c, d)
<1>1. Full(0) = 0
  BY FullFacts
<1> QED  BY <1>1 DEF Resumable, ChunksOk

\* m is at the beginning of a scope: it has read nothing, and is to skip what
\* was sent.
Begins(m, c, chunks, visits) ==
  /\ m.cut = c /\ m.index = chunks /\ m.size = visits /\ m.skip = visits
  /\ DOMAIN m.seen = {} /\ m.chunk = << >>

LEMMA WalkBegins ==
  ASSUME NEW h, NEW V \in SUBSET Nat, IsFiniteSet(V), NEW b, NEW c, NEW d, NEW chunks, NEW visits,
         Resumable(b, c, V, chunks, visits), ChunksOk(h, V, b, c, d), NEW m, Begins(m, c, chunks, visits)
  PROVE  V = Todo(h, V, DOMAIN m.seen) /\ Walk(h, V, V, b, m, d)
<1>1. /\ m.cut = c /\ m.index = chunks /\ m.size = visits /\ m.skip = visits
      /\ DOMAIN m.seen = {} /\ m.chunk = << >> /\ Len(m.chunk) = 0
  BY DEF Begins
<1>2. /\ chunks \in Nat /\ visits \in Nat /\ (\A j \in Nat : j < chunks => j \in Sent(b, c))
      /\ visits <= Full(chunks) /\ (visits = Full(chunks) \/ Cardinality(V) <= visits)
  BY DEF Resumable
<1>3. V = Todo(h, V, DOMAIN m.seen)
  BY <1>1 DEF Todo
<1>4. Walked(m) = 0
  BY <1>1, <1>2 DEF Walked
<1>5. V \ V = {} /\ Cardinality(V \ V) = 0
  BY FS_EmptySet
<1>6. Counts(V, V, b, m, d)
  BY <1>1, <1>2, <1>4, <1>5 DEF Counts
<1>7. \A p \in 1 .. Len(m.chunk) : FALSE
  BY <1>1
<1>8. ChunkOk(h, m)
  BY <1>7 DEF ChunkOk
<1>9. Places(h, V, V, b, m, d)
  <2>1. ASSUME NEW t \in V, NEW j \in Sent(b, m.cut), t \in b[<<m.cut, j>>] PROVE Walked(m) + Rank(h, V, t) <= Full(j + 1)
    <3>1. Rank(h, V, t) <= Full(j + 1)
      BY <1>1, <2>1 DEF ChunksOk
    <3>2. Rank(h, V, t) \in Nat
      BY RankTypes
    <3> QED  BY <1>4, <3>1, <3>2
  <2> QED  BY <1>5, <1>7, <2>1 DEF Places
<1>10. Order(h, V, V) /\ SeenOk(h, V, m)
  BY <1>1, <1>5 DEF Order, SeenOk
<1> QED  BY <1>3, <1>6, <1>8, <1>9, <1>10 DEF Walk

--------------------------------------------------------------------------------
(***************************************************************************)
(* What holds of the scopes: of the history h, the chunks b, the device    *)
(* record r, the records w about to be written, the import m and d,        *)
(* whether a scope was disturbed.                                          *)
(***************************************************************************)
IsOpen(r) == r.oCut # Never \/ (r.cut # Never /\ ~r.done)

\* The record's fields go together.
Fields(b, r, w) ==
  /\ r.cut = Never => DOMAIN b = {} /\ r.chunks = 0 /\ r.visits = 0
  /\ r.oCut # Never => r.oCut < r.cut /\ r.oEnd = r.cut /\ r.done
  /\ r.oCut = Never => r.oChunks = 0 /\ r.oVisits = 0
  /\ r.end = Never => /\ r.cut = Never /\ r.oCut = Never /\ ~r.done
                      /\ \A p \in DOMAIN w : w[p] = [r EXCEPT !.end = w[p].end]

\* A chunk is within the bounds of its scope, and has no visit of another.
Filed(b, r) ==
  /\ DOMAIN b \subseteq Nat \X Nat
  /\ \A id \in DOMAIN b :
       \/ id[1] >= r.cut /\ \A t \in b[id] : t >= r.cut
       \/ id[1] = r.oCut /\ r.oCut # Never /\ \A t \in b[id] : r.oCut <= t /\ t < r.cut
  /\ ~r.done => \A id \in DOMAIN b : id[1] = r.cut
  /\ \A i, j \in DOMAIN b : i # j => b[i] \cap b[j] = {}

Scoped(h, b, d, c, e, chunks, visits) ==
  Resumable(b, c, VisOf(h, c, e), chunks, visits) /\ ChunksOk(h, VisOf(h, c, e), b, c, d)

Opens(h, b, r, d) ==
  /\ r.cut # Never /\ ~r.done => Scoped(h, b, d, r.cut, r.end, r.chunks, r.visits)
  /\ r.oCut # Never => Scoped(h, b, d, r.oCut, r.oEnd, r.oChunks, r.oVisits)

Closes(h, b, r, d) == r.done /\ r.cut # Never /\ ~d => InChunks(b, VisOf(h, r.cut, r.end))

EndOf(r, m) == IF m.scope = "initial" THEN r.end ELSE r.oEnd

\* The import is in the scope that is open.
Tied(r, m) ==
  m.at \in {"begin", "walk", "sent", "stamp"} =>
    /\ m.cut # Never
    /\ \/ m.scope = "initial" /\ ~r.done /\ m.cut = r.cut
       \/ m.scope = "older" /\ m.cut = r.oCut
    /\ m.at # "stamp" => m.end = EndOf(r, m)

Stamps(h, b, r, m, d) ==
  m.at = "stamp" => /\ m.scope = "older" => r.oChunks = 0 /\ r.oVisits = 0
                    /\ ~d => InChunks(b, VisOf(h, m.cut, EndOf(r, m)))

WalkAt(h, V, T, b, m, d) ==
  /\ Walk(h, V, T, b, m, d)
  /\ m.at = "begin" => DOMAIN m.seen = {}
  /\ m.at # "begin" => Paging(h, V, T, m)

Walks(h, b, m, d) ==
  m.at \in {"begin", "walk", "sent"} =>
    WalkAt(h, VisOf(h, m.cut, m.end), Todo(h, VisOf(h, m.cut, m.end), DOMAIN m.seen), b, m, d)

ScopeInv(h, b, r, w, m, d) ==
  /\ Fields(b, r, w) /\ Filed(b, r) /\ Opens(h, b, r, d) /\ Closes(h, b, r, d)
  /\ Tied(r, m) /\ Stamps(h, b, r, m, d) /\ Walks(h, b, m, d)

\* What else is known of the values.
Ranges(h, r, m) ==
  /\ h \in Seq(VisitRecord) /\ r.cut \in Nat /\ r.end \in Nat /\ r.oCut \in Nat /\ r.oEnd \in Nat
  /\ r.cut <= r.end /\ r.oEnd <= r.end
  /\ m.cut \in Nat /\ m.end \in Nat /\ m.end <= r.end /\ WalkTypes(m)

LEMMA VisTypes ==
  ASSUME NEW h \in Seq(VisitRecord), NEW c, NEW e
  PROVE  VisOf(h, c, e) \in SUBSET Nat /\ IsFiniteSet(VisOf(h, c, e)) /\ VisOf(h, c, e) \subseteq DOMAIN h
<1>1. Len(h) \in Nat /\ DOMAIN h = 1 .. Len(h)
  OBVIOUS
<1>2. VisOf(h, c, e) \in SUBSET (DOMAIN h)
  BY DEF VisOf
<1>3. IsFiniteSet(DOMAIN h)
  BY <1>1, FS_Interval
<1> QED  BY <1>1, <1>2, <1>3, FS_Subset

\* The history moves on before the boundary e, or loses the pages us.
Moves(h, g, us, e) ==
  /\ DOMAIN h \subseteq DOMAIN g /\ (\A t \in DOMAIN h : g[t].url = h[t].url)
  /\ \A x, y \in Nat : y <= e => VisOf(g, x, y) = Todo(h, VisOf(h, x, y), us)

LEMMA MovesLoses ==
  ASSUME NEW h \in Seq(VisitRecord), NEW g, NEW us, NEW e \in Nat, Moves(h, g, us, e),
         NEW x \in Nat, NEW y \in Nat, y <= e
  PROVE  /\ Loses(h, g, VisOf(h, x, y), us, VisOf(g, x, y))
         /\ VisOf(g, x, y) \subseteq VisOf(h, x, y)
         /\ us = {} => VisOf(g, x, y) = VisOf(h, x, y)
<1>1. VisOf(h, x, y) \in SUBSET Nat /\ IsFiniteSet(VisOf(h, x, y)) /\ VisOf(h, x, y) \subseteq DOMAIN h
  BY VisTypes
<1>2. VisOf(g, x, y) = Todo(h, VisOf(h, x, y), us) /\ DOMAIN h \subseteq DOMAIN g /\ \A t \in DOMAIN h : g[t].url = h[t].url
  BY DEF Moves
<1>3. Loses(h, g, VisOf(h, x, y), us, VisOf(g, x, y))
  BY <1>1, <1>2 DEF Loses
<1> QED  BY <1>2, <1>3 DEF Todo

LEMMA MovesScopes ==
  ASSUME NEW h, NEW g, NEW us, NEW b, NEW r, NEW w, NEW m, NEW d, NEW f,
         ScopeInv(h, b, r, w, m, d), Ranges(h, r, m), Moves(h, g, us, r.end),
         ~f => ~d /\ (IsOpen(r) => us = {})
  PROVE  ScopeInv(g, b, r, w, m, f)
<1>1. /\ Fields(b, r, w) /\ Filed(b, r) /\ Opens(h, b, r, d) /\ Closes(h, b, r, d)
      /\ Tied(r, m) /\ Stamps(h, b, r, m, d) /\ Walks(h, b, m, d)
  BY DEF ScopeInv
<1>2. /\ h \in Seq(VisitRecord) /\ r.cut \in Nat /\ r.end \in Nat /\ r.oCut \in Nat /\ r.oEnd \in Nat
      /\ r.cut <= r.end /\ r.oEnd <= r.end
      /\ m.cut \in Nat /\ m.end \in Nat /\ m.end <= r.end /\ WalkTypes(m)
  BY DEF Ranges
<1>3. r.end <= r.end
  BY <1>2
<1>4. ASSUME NEW c \in Nat, NEW e \in Nat, e <= r.end, NEW n, NEW v, Scoped(h, b, d, c, e, n, v), IsOpen(r)
      PROVE  Scoped(g, b, f, c, e, n, v)
  <2>1. PICK V, W : V = VisOf(h, c, e) /\ W = VisOf(g, c, e)
    OBVIOUS
  <2>2. Loses(h, g, V, us, W) /\ (us = {} => W = V)
    BY <1>2, <1>4, <2>1, MovesLoses
  <2>3. ~f => ~d /\ W = V
    BY <1>4, <2>2
  <2>4. Resumable(b, c, V, n, v) /\ ChunksOk(h, V, b, c, d)
    BY <1>4, <2>1 DEF Scoped
  <2>5. Resumable(b, c, W, n, v) /\ ChunksOk(g, W, b, c, f)
    BY <2>2, <2>3, <2>4, LosesChunks
  <2> QED  BY <2>1, <2>5 DEF Scoped
<1>5. Opens(g, b, r, f)
  BY <1>1, <1>2, <1>3, <1>4 DEF Opens, IsOpen
<1>6. ASSUME NEW c \in Nat, NEW e \in Nat, e <= r.end, InChunks(b, VisOf(h, c, e)) PROVE InChunks(b, VisOf(g, c, e))
  <2>1. VisOf(g, c, e) \subseteq VisOf(h, c, e)
    BY <1>2, <1>6, MovesLoses
  <2> QED  BY <1>6, <2>1 DEF InChunks
<1>7. Closes(g, b, r, f)
  BY <1>1, <1>2, <1>3, <1>6 DEF Closes
<1>8. EndOf(r, m) \in Nat /\ EndOf(r, m) <= r.end
  BY <1>2 DEF EndOf
<1>9. Stamps(g, b, r, m, f)
  BY <1>1, <1>2, <1>6, <1>8 DEF Stamps
<1>10. Walks(g, b, m, f)
  <2> SUFFICES ASSUME m.at \in {"begin", "walk", "sent"}
               PROVE  WalkAt(g, VisOf(g, m.cut, m.end), Todo(g, VisOf(g, m.cut, m.end), DOMAIN m.seen), b, m, f)
    BY DEF Walks
  <2>1. PICK V, T, W, X : /\ V = VisOf(h, m.cut, m.end) /\ T = Todo(h, V, DOMAIN m.seen)
                          /\ W = VisOf(g, m.cut, m.end) /\ X = Todo(g, W, DOMAIN m.seen)
    OBVIOUS
  <2>2. WalkAt(h, V, T, b, m, d)
    BY <1>1, <2>1 DEF Walks
  <2>3. IsOpen(r)
    BY <1>1 DEF Tied, IsOpen
  <2>4. Loses(h, g, V, us, W) /\ (us = {} => W = V)
    BY <1>2, <2>1, MovesLoses
  <2>5. ~f => ~d /\ W = V
    BY <2>3, <2>4
  <2>6. Walk(h, V, T, b, m, d)
    BY <2>2 DEF WalkAt
  <2>7. Walk(g, W, X, b, m, f) /\ (Paging(h, V, T, m) => Paging(g, W, X, m))
    <3>1. T = Todo(h, V, DOMAIN m.seen) /\ X = Todo(g, W, DOMAIN m.seen) /\ WalkTypes(m) /\ Loses(h, g, V, us, W)
      BY <1>2, <2>1, <2>4
    <3> QED  BY <2>5, <2>6, <3>1, LosesWalk
  <2>8. WalkAt(g, W, X, b, m, f)
    BY <2>2, <2>7 DEF WalkAt
  <2> QED  BY <2>1, <2>8
<1> QED  BY <1>1, <1>5, <1>7, <1>9, <1>10 DEF ScopeInv

\* The record q is r but for the fields given.
Is(q, cut, end, chunks, visits, oCut, oEnd, oChunks, oVisits, done) ==
  /\ q.cut = cut /\ q.end = end /\ q.chunks = chunks /\ q.visits = visits
  /\ q.oCut = oCut /\ q.oEnd = oEnd /\ q.oChunks = oChunks /\ q.oVisits = oVisits /\ q.done = done

\* No import under way.
LEMMA IdleScopes ==
  ASSUME NEW h, NEW b, NEW r, NEW w, NEW m, NEW d, Fields(b, r, w), Filed(b, r), Opens(h, b, r, d), Closes(h, b, r, d),
         m.at \notin {"begin", "walk", "sent", "stamp"}
  PROVE  ScopeInv(h, b, r, w, m, d)
BY DEF ScopeInv, Tied, Stamps, Walks

\* A scope that opens, or that is resumed.
LEMMA ScopeBegins ==
  ASSUME NEW h \in Seq(VisitRecord), NEW b, NEW r, NEW w, NEW m, NEW d,
         Fields(b, r, w), Filed(b, r), Opens(h, b, r, d), Closes(h, b, r, d),
         m.at = "begin", m.cut # Never, m.end = EndOf(r, m),
         \/ m.scope = "initial" /\ ~r.done /\ Begins(m, r.cut, r.chunks, r.visits)
         \/ m.scope = "older" /\ Begins(m, r.oCut, r.oChunks, r.oVisits)
  PROVE  ScopeInv(h, b, r, w, m, d)
<1>1. PICK chunks, visits : Begins(m, m.cut, chunks, visits) /\ Scoped(h, b, d, m.cut, m.end, chunks, visits)
  <2>1. CASE m.scope = "initial" /\ ~r.done /\ Begins(m, r.cut, r.chunks, r.visits)
    BY <2>1 DEF Opens, EndOf, Begins
  <2>2. CASE m.scope = "older" /\ Begins(m, r.oCut, r.oChunks, r.oVisits)
    BY <2>2 DEF Opens, EndOf, Begins
  <2> QED  BY <2>1, <2>2
<1>2. PICK V : V = VisOf(h, m.cut, m.end)
  OBVIOUS
<1>3. V \in SUBSET Nat /\ IsFiniteSet(V)
  BY <1>2, VisTypes
<1>4. Resumable(b, m.cut, V, chunks, visits) /\ ChunksOk(h, V, b, m.cut, d)
  BY <1>1, <1>2 DEF Scoped
<1>5. V = Todo(h, V, DOMAIN m.seen) /\ Walk(h, V, V, b, m, d)
  BY <1>1, <1>3, <1>4, WalkBegins
<1>6. Walks(h, b, m, d)
  <2>1. DOMAIN m.seen = {}
    BY <1>1 DEF Begins
  <2>2. WalkAt(h, V, V, b, m, d)
    BY <1>5, <2>1 DEF WalkAt
  <2> QED  BY <1>2, <1>5, <2>2 DEF Walks
<1>7. Tied(r, m) /\ Stamps(h, b, r, m, d)
  BY DEF Tied, Stamps, Begins
<1> QED  BY <1>6, <1>7 DEF ScopeInv

LEMMA InitialBegins ==
  ASSUME NEW h \in Seq(VisitRecord), NEW b, NEW r, NEW w, NEW m, NEW d, ScopeInv(h, b, r, w, m, d),
         r.end # Never, ~r.done, NEW c \in Nat, c # Never, NEW k, k = IF r.cut = Never THEN c ELSE r.cut,
         NEW q, Is(q, k, r.end, r.chunks, r.visits, r.oCut, r.oEnd, r.oChunks, r.oVisits, r.done),
         NEW n, n.at = "begin", n.scope = "initial", n.end = r.end, Begins(n, k, r.chunks, r.visits)
  PROVE  ScopeInv(h, b, q, w, n, d)
<1>1. Fields(b, r, w) /\ Filed(b, r) /\ Opens(h, b, r, d)
  BY DEF ScopeInv
<1>2. /\ q.cut = k /\ q.end = r.end /\ q.chunks = r.chunks /\ q.visits = r.visits
      /\ q.oCut = r.oCut /\ q.oEnd = r.oEnd /\ q.oChunks = r.oChunks /\ q.oVisits = r.oVisits /\ ~q.done
  BY DEF Is
<1>3. r.oCut = Never /\ k # Never
  BY <1>1 DEF Fields
<1>4. Fields(b, q, w)
  BY <1>1, <1>2, <1>3 DEF Fields
<1>5. Filed(b, q)
  <2>1. CASE r.cut = Never
    <3>1. DOMAIN b = {}
      BY <1>1, <2>1 DEF Fields
    <3> QED  BY <3>1 DEF Filed
  <2>2. CASE r.cut # Never
    <3>1. q.cut = r.cut
      BY <1>2, <2>2
    <3> QED  BY <1>1, <1>2, <3>1 DEF Filed
  <2> QED  BY <2>1, <2>2
<1>6. Opens(h, b, q, d)
  <2>1. CASE r.cut = Never
    <3>1. Sent(b, k) = {} /\ r.chunks = 0 /\ r.visits = 0
      BY <1>1, <2>1 DEF Fields, Sent
    <3>2. Scoped(h, b, d, k, r.end, 0, 0)
      BY <3>1, NewScope DEF Scoped
    <3> QED  BY <1>2, <1>3, <3>1, <3>2 DEF Opens
  <2>2. CASE r.cut # Never
    <3>1. q.cut = r.cut
      BY <1>2, <2>2
    <3> QED  BY <1>1, <1>2, <1>3, <3>1 DEF Opens
  <2> QED  BY <2>1, <2>2
<1>7. Closes(h, b, q, d)
  BY <1>2 DEF Closes
<1>8. /\ n.cut # Never /\ n.end = EndOf(q, n) /\ Begins(n, q.cut, q.chunks, q.visits)
  BY <1>2, <1>3 DEF EndOf, Begins
<1> QED  BY <1>2, <1>4, <1>5, <1>6, <1>7, <1>8, ScopeBegins

LEMMA OlderBegins ==
  ASSUME NEW h \in Seq(VisitRecord), NEW b, NEW r, NEW w, NEW m, NEW d, ScopeInv(h, b, r, w, m, d),
         r.end # Never, r.done, r.cut \in Nat, NEW c \in Nat, c # Never, r.oCut # Never \/ (r.cut # Never /\ c < r.cut),
         NEW k, k = IF r.oCut = Never THEN c ELSE r.oCut, NEW e, e = IF r.oCut = Never THEN r.cut ELSE r.oEnd,
         NEW q, Is(q, r.cut, r.end, r.chunks, r.visits, k, e, r.oChunks, r.oVisits, r.done),
         NEW n, n.at = "begin", n.scope = "older", n.end = e, Begins(n, k, r.oChunks, r.oVisits)
  PROVE  ScopeInv(h, b, q, w, n, d)
<1>1. Fields(b, r, w) /\ Filed(b, r) /\ Opens(h, b, r, d) /\ Closes(h, b, r, d)
  BY DEF ScopeInv
<1>2. /\ q.cut = r.cut /\ q.end = r.end /\ q.chunks = r.chunks /\ q.visits = r.visits
      /\ q.oCut = k /\ q.oEnd = e /\ q.oChunks = r.oChunks /\ q.oVisits = r.oVisits /\ q.done
  BY DEF Is
<1>3. k # Never /\ k < r.cut /\ e = r.cut
  BY <1>1 DEF Fields
<1>4. Fields(b, q, w)
  BY <1>1, <1>2, <1>3 DEF Fields
<1>5. Filed(b, q) /\ Opens(h, b, q, d)
  <2>1. CASE r.oCut = Never
    <3>1. \A id \in DOMAIN b : id[1] >= r.cut /\ \A t \in b[id] : t >= r.cut
      BY <1>1, <2>1 DEF Filed
    <3>2. Filed(b, q)
      BY <1>1, <1>2, <3>1 DEF Filed
    <3>3. Sent(b, k) = {}
      <4> SUFFICES ASSUME NEW j \in Nat, <<k, j>> \in DOMAIN b PROVE FALSE
        BY DEF Sent
      <4>1. k \in Nat /\ k >= r.cut
        BY <2>1, <3>1
      <4> QED  BY <1>3, <4>1
    <3>4. Scoped(h, b, d, k, e, 0, 0) /\ r.oChunks = 0 /\ r.oVisits = 0
      BY <1>1, <2>1, <3>3, NewScope DEF Scoped, Fields
    <3> QED  BY <1>2, <3>2, <3>4 DEF Opens
  <2>2. CASE r.oCut # Never
    <3>1. q.oCut = r.oCut /\ q.oEnd = r.oEnd
      BY <1>2, <2>2
    <3> QED  BY <1>1, <1>2, <3>1 DEF Filed, Opens
  <2> QED  BY <2>1, <2>2
<1>6. Closes(h, b, q, d)
  BY <1>1, <1>2 DEF Closes
<1>7. /\ n.cut # Never /\ n.end = EndOf(q, n) /\ Begins(n, q.oCut, q.oChunks, q.oVisits)
  BY <1>2, <1>3 DEF EndOf, Begins
<1> QED  BY <1>4, <1>5, <1>6, <1>7, ScopeBegins

\* A scope that is given up counts as disturbed.
GivenUp(r, d, f) == ~f => ~d /\ r.cut = Never

\* Sync is off: the import counts as done.
LEMMA SkippedScopes ==
  ASSUME NEW h, NEW b, NEW r, NEW w, NEW m, NEW d, ScopeInv(h, b, r, w, m, d), ~r.done, r.end # Never, m.at = "idle",
         NEW f, GivenUp(r, d, f),
         NEW q, Is(q, r.cut, r.end, r.chunks, r.visits, r.oCut, r.oEnd, r.oChunks, r.oVisits, q.done), q.done
  PROVE  ScopeInv(h, b, q, w, m, f)
<1>1. Fields(b, r, w) /\ Filed(b, r) /\ r.oCut = Never
  BY DEF ScopeInv, Fields
<1>2. /\ q.cut = r.cut /\ q.end = r.end /\ q.chunks = r.chunks /\ q.visits = r.visits
      /\ q.oCut = r.oCut /\ q.oEnd = r.oEnd /\ q.oChunks = r.oChunks /\ q.oVisits = r.oVisits /\ q.done
  BY DEF Is
<1>3. Fields(b, q, w) /\ Filed(b, q)
  BY <1>1, <1>2 DEF Fields, Filed
<1>4. Opens(h, b, q, f)
  BY <1>1, <1>2 DEF Opens
<1>5. Closes(h, b, q, f)
  BY <1>2 DEF Closes, GivenUp
<1> QED  BY <1>3, <1>4, <1>5, IdleScopes

\* The scope of a walk, and what is known of it.
Here(h, b, r, m, d, V, T) ==
  /\ V = VisOf(h, m.cut, m.end) /\ T = Todo(h, V, DOMAIN m.seen)
  /\ V \in SUBSET Nat /\ IsFiniteSet(V) /\ V \subseteq DOMAIN h /\ (\A t \in V : m.cut <= t /\ t < m.end)
  /\ WalkAt(h, V, T, b, m, d) /\ ChunksOk(h, V, b, m.cut, d)
  /\ m.cut # Never /\ r.end # Never /\ r.cut # Never /\ m.end = EndOf(r, m)
  /\ \/ m.scope = "initial" /\ ~r.done /\ m.cut = r.cut /\ r.oCut = Never
     \/ m.scope = "older" /\ r.done /\ m.cut = r.oCut /\ r.oCut < r.cut /\ r.oEnd = r.cut

LEMMA WalkHere ==
  ASSUME NEW h, NEW b, NEW r, NEW w, NEW m, NEW d, ScopeInv(h, b, r, w, m, d), Ranges(h, r, m),
         m.at \in {"begin", "walk", "sent"}
  PROVE  Here(h, b, r, m, d, VisOf(h, m.cut, m.end), Todo(h, VisOf(h, m.cut, m.end), DOMAIN m.seen))
<1>1. Fields(b, r, w) /\ Opens(h, b, r, d) /\ Tied(r, m) /\ Walks(h, b, m, d)
  BY DEF ScopeInv
<1>2. PICK V, T : V = VisOf(h, m.cut, m.end) /\ T = Todo(h, V, DOMAIN m.seen)
  OBVIOUS
<1>3. V \in SUBSET Nat /\ IsFiniteSet(V) /\ V \subseteq DOMAIN h
  BY <1>2, VisTypes DEF Ranges
<1>4. \A t \in V : m.cut <= t /\ t < m.end
  BY <1>2 DEF VisOf
<1>5. WalkAt(h, V, T, b, m, d)
  BY <1>1, <1>2 DEF Walks
<1>6. /\ m.cut # Never /\ m.end = EndOf(r, m)
      /\ \/ m.scope = "initial" /\ ~r.done /\ m.cut = r.cut
         \/ m.scope = "older" /\ m.cut = r.oCut
  BY <1>1 DEF Tied
<1>7. CASE m.scope = "initial" /\ ~r.done /\ m.cut = r.cut
  <2>1. r.oCut = Never /\ r.cut # Never /\ r.end # Never
    BY <1>1, <1>6, <1>7 DEF Fields
  <2>2. ChunksOk(h, V, b, m.cut, d)
    BY <1>1, <1>2, <1>6, <1>7 DEF Opens, Scoped, EndOf
  <2>3. Here(h, b, r, m, d, V, T)
    BY <1>2, <1>3, <1>4, <1>5, <1>6, <1>7, <2>1, <2>2 DEF Here
  <2> QED  BY <1>2, <2>3
<1>8. CASE m.scope = "older" /\ m.cut = r.oCut
  <2>1. r.done /\ r.oCut < r.cut /\ r.oEnd = r.cut /\ r.end # Never
    BY <1>1, <1>6, <1>8 DEF Fields
  <2>4. r.cut # Never
    BY <2>1 DEF Ranges, Never
  <2>2. ChunksOk(h, V, b, m.cut, d)
    BY <1>1, <1>2, <1>6, <1>8 DEF Opens, Scoped, EndOf
  <2>3. Here(h, b, r, m, d, V, T)
    BY <1>2, <1>3, <1>4, <1>5, <1>6, <1>8, <2>1, <2>2, <2>4 DEF Here
  <2> QED  BY <1>2, <2>3
<1> QED  BY <1>6, <1>7, <1>8

\* The walk does not depend on the page of results.
LEMMA SameWalk ==
  ASSUME NEW h, NEW V, NEW T, NEW b, NEW m, NEW n, NEW d, Walk(h, V, T, b, m, d),
         n.cut = m.cut, n.end = m.end, n.index = m.index, n.size = m.size, n.skip = m.skip,
         n.chunk = m.chunk, n.seen = m.seen
  PROVE  Walk(h, V, T, b, n, d)
<1>1. Walked(n) = Walked(m)
  BY DEF Walked
<1>2. Counts(V, T, b, n, d)
  BY <1>1, ZenonT(60) DEF Walk, Counts
<1>3. ChunkOk(h, n)
  BY ZenonT(60) DEF Walk, ChunkOk
<1>4. Places(h, V, T, b, n, d)
  BY <1>1, ZenonT(60) DEF Walk, Places
<1>5. Order(h, V, T) /\ SeenOk(h, V, n)
  BY ZenonT(60) DEF Walk, SeenOk
<1> QED  BY <1>2, <1>3, <1>4, <1>5 DEF Walk

\* A walk that goes on in its scope.
LEMMA WalkStays ==
  ASSUME NEW h, NEW b, NEW r, NEW w, NEW m, NEW n, NEW d, ScopeInv(h, b, r, w, m, d),
         m.at \in {"begin", "walk", "sent"}, n.at \in {"begin", "walk", "sent"},
         n.cut = m.cut, n.end = m.end, n.scope = m.scope, Walks(h, b, n, d)
  PROVE  ScopeInv(h, b, r, w, n, d)
<1>1. /\ m.cut # Never /\ m.end = EndOf(r, m)
      /\ \/ m.scope = "initial" /\ ~r.done /\ m.cut = r.cut
         \/ m.scope = "older" /\ m.cut = r.oCut
  BY DEF ScopeInv, Tied
<1>2. EndOf(r, n) = EndOf(r, m)
  BY DEF EndOf
<1>3. Tied(r, n) /\ Stamps(h, b, r, n, d)
  BY <1>1, <1>2 DEF Tied, Stamps
<1> QED  BY <1>3 DEF ScopeInv

\* The walk n, in the scope of m.
LEMMA WalkOn ==
  ASSUME NEW h, NEW b, NEW n, NEW d, NEW V, NEW T, V = VisOf(h, n.cut, n.end), T = Todo(h, V, DOMAIN n.seen),
         n.at \in {"walk", "sent"}, Walk(h, V, T, b, n, d), Paging(h, V, T, n)
  PROVE  Walks(h, b, n, d)
<1>1. WalkAt(h, V, T, b, n, d)
  BY DEF WalkAt
<1> QED  BY <1>1 DEF Walks

--------------------------------------------------------------------------------
(***************************************************************************)
(* The steps of the import.                                                *)
(***************************************************************************)
ImportFields == {"at", "scope", "cut", "end", "bound", "page", "full", "last", "seen", "skip", "chunk", "index", "size"}

LEMMA ImportFieldsOf == DOMAIN NoImport = ImportFields
BY DEF NoImport, ImportFields

\* Where the next page of results ends, nothing left to read is later.
LEMMA BoundBelow ==
  ASSUME hist \in Seq(VisitRecord), NEW V, NEW T, NEW b, NEW d, T \in SUBSET Nat, WalkAt(hist, V, T, b, imp, d),
         imp.end \in Nat, \A t \in T : t < imp.end,
         imp.at = "begin" \/ (imp.at = "walk" /\ imp.page = << >> /\ More)
  PROVE  Bound \in Int /\ Bound <= imp.end /\ \A y \in T : y < Bound
<1>1. CASE imp.at = "begin"
  BY <1>1 DEF Bound
<1>2. CASE imp.at = "walk" /\ imp.page = << >> /\ More
  <2>1. Paging(hist, V, T, imp) /\ SeenOk(hist, V, imp) /\ imp.full
    BY <1>2 DEF WalkAt, Walk, More
  <2>2. \A i \in 1 .. Len(imp.page) : FALSE
    <3>1. Len(imp.page) = 0
      BY <1>2
    <3> QED  BY <3>1
  <2>3. imp.last \in DOMAIN imp.seen /\ imp.bound \in Int /\ imp.bound <= imp.end
    BY <2>1, <2>2 DEF Paging
  <2>4. imp.seen[imp.last] \in SUBSET (DOMAIN hist)
    BY <2>1, <2>3 DEF SeenOk
  <2>5. ASSUME NEW y \in T
        PROVE  /\ y < imp.bound - 1
               /\ \/ \E z \in imp.seen[imp.last] : y < z /\ z < imp.bound
                  \/ \A z \in imp.seen[imp.last] : z >= imp.bound
    BY <2>1, <2>2, <2>3 DEF Paging
  <2>6. /\ Cursor \in Int /\ Cursor < imp.bound
        /\ \A y \in Nat : /\ y < imp.bound - 1
                          /\ \/ \E z \in imp.seen[imp.last] : y < z /\ z < imp.bound
                             \/ \A z \in imp.seen[imp.last] : z >= imp.bound
                          => y < Cursor
    BY <2>3, <2>4, CursorBelow
  <2>7. \A y \in T : y < Cursor
    BY <2>5, <2>6
  <2>8. Bound = Cursor
    BY <1>2 DEF Bound
  <2> QED  BY <2>3, <2>6, <2>7, <2>8
<1> QED  BY <1>1, <1>2

\* The step: B is where the page of results ends.
Finds(B, found, page) ==
  /\ B = Bound /\ found = Results(imp.cut, B) /\ page = SubSeq(found, 1, Min({PageSize, Len(found)}))
  /\ imp' = [imp EXCEPT !.at = "walk", !.page = Latest(Range(page) \ DOMAIN imp.seen, imp.cut, B),
                        !.bound = B, !.full = Len(page) = PageSize,
                        !.last = IF page = << >> THEN Never ELSE Last(page)]

LEMMA SearchScopes ==
  ASSUME ScopeInv(hist, bulk, dev, setters, imp, disturbed), Ranges(hist, dev, imp), DOMAIN imp = ImportFields, Search
  PROVE  ScopeInv(hist, bulk, dev, setters, imp', disturbed)
<1>1. PICK V, T : V = VisOf(hist, imp.cut, imp.end) /\ T = Todo(hist, V, DOMAIN imp.seen)
  OBVIOUS
<1>2. imp.at = "begin" \/ (imp.at = "walk" /\ imp.page = << >> /\ More)
  BY DEF Search
<1>3. Here(hist, bulk, dev, imp, disturbed, V, T)
  BY <1>1, <1>2, WalkHere
<1>4. /\ V \in SUBSET Nat /\ (\A t \in V : imp.cut <= t /\ t < imp.end) /\ WalkAt(hist, V, T, bulk, imp, disturbed)
      /\ T \in SUBSET V /\ hist \in Seq(VisitRecord) /\ imp.end \in Nat
  BY <1>1, <1>3 DEF Here, Todo, Ranges
<1>5. Bound \in Int /\ Bound <= imp.end /\ \A y \in T : y < Bound
  <2>1. T \in SUBSET Nat /\ \A t \in T : t < imp.end
    BY <1>4
  <2> QED  BY <1>2, <1>4, <2>1, BoundBelow
<1>5a. PICK B, found, page : Finds(B, found, page)
  <2>1. PICK found \in {Results(imp.cut, Bound)} : \E page \in {SubSeq(found, 1, Min({PageSize, Len(found)}))} :
          imp' = [imp EXCEPT !.at = "walk", !.page = Latest(Range(page) \ DOMAIN imp.seen, imp.cut, Bound),
                             !.bound = Bound, !.full = Len(page) = PageSize,
                             !.last = IF page = << >> THEN Never ELSE Last(page)]
    BY DEF Search
  <2>2. PICK page \in {SubSeq(found, 1, Min({PageSize, Len(found)}))} :
          imp' = [imp EXCEPT !.at = "walk", !.page = Latest(Range(page) \ DOMAIN imp.seen, imp.cut, Bound),
                             !.bound = Bound, !.full = Len(page) = PageSize,
                             !.last = IF page = << >> THEN Never ELSE Last(page)]
    BY <2>1
  <2>3. PICK B : B = Bound
    OBVIOUS
  <2>4. found = Results(imp.cut, B) /\ page = SubSeq(found, 1, Min({PageSize, Len(found)}))
    BY <2>1, <2>2, <2>3
  <2>5. imp' = [imp EXCEPT !.at = "walk", !.page = Latest(Range(page) \ DOMAIN imp.seen, imp.cut, B),
                           !.bound = B, !.full = Len(page) = PageSize,
                           !.last = IF page = << >> THEN Never ELSE Last(page)]
    BY <2>2, <2>3
  <2>6. Finds(B, found, page)
    BY <2>3, <2>4, <2>5 DEF Finds
  <2> QED  BY <2>6
<1>6. /\ B = Bound /\ found = Results(imp.cut, B) /\ page = SubSeq(found, 1, Min({PageSize, Len(found)}))
      /\ imp' = [imp EXCEPT !.at = "walk", !.page = Latest(Range(page) \ DOMAIN imp.seen, imp.cut, B),
                            !.bound = B, !.full = Len(page) = PageSize,
                            !.last = IF page = << >> THEN Never ELSE Last(page)]
  BY <1>5a DEF Finds
<1>7. /\ imp'.at = "walk" /\ imp'.scope = imp.scope /\ imp'.cut = imp.cut /\ imp'.end = imp.end
      /\ imp'.index = imp.index /\ imp'.size = imp.size /\ imp'.skip = imp.skip /\ imp'.chunk = imp.chunk
      /\ imp'.seen = imp.seen
  BY <1>6 DEF ImportFields
<1>8. imp'.page = Latest(Range(page) \ DOMAIN imp.seen, imp.cut, B) /\ imp'.bound = B
  BY <1>6 DEF ImportFields
<1>9. imp'.last = IF page = << >> THEN Never ELSE Last(page)
  BY <1>6 DEF ImportFields
<1>10. imp'.full = (Len(page) = PageSize)
  BY <1>6 DEF ImportFields
<1>11. Searches(V, T, imp, imp', B, found, page)
  BY <1>1, <1>4, <1>5, <1>6, <1>7, <1>8, <1>9, <1>10 DEF Searches
<1>12. Walk(hist, V, T, bulk, imp, disturbed) /\ SeenOk(hist, V, imp)
  BY <1>4 DEF WalkAt, Walk
<1>13. PICK n : n = imp'
  OBVIOUS
<1>14. Paging(hist, V, T, n)
  BY <1>4, <1>11, <1>12, <1>13, SearchPaging
<1>15. Walk(hist, V, T, bulk, n, disturbed)
  BY <1>7, <1>12, <1>13, SameWalk
<1>16. Walks(hist, bulk, n, disturbed)
  <2>1. V = VisOf(hist, n.cut, n.end) /\ T = Todo(hist, V, DOMAIN n.seen) /\ n.at \in {"walk", "sent"}
    BY <1>1, <1>7, <1>13
  <2> QED  BY <1>14, <1>15, <2>1, WalkOn
<1>17. ScopeInv(hist, bulk, dev, setters, n, disturbed)
  <2>1. n.cut = imp.cut /\ n.end = imp.end /\ n.scope = imp.scope /\ n.at \in {"begin", "walk", "sent"}
        /\ imp.at \in {"begin", "walk", "sent"}
    BY <1>2, <1>7, <1>13
  <2> QED  BY <1>16, <2>1, WalkStays
<1> QED  BY <1>13, <1>17

LEMMA ResolveScopes ==
  ASSUME ScopeInv(hist, bulk, dev, setters, imp, disturbed), Ranges(hist, dev, imp), DOMAIN imp = ImportFields, Resolve
  PROVE  ScopeInv(hist, bulk, dev, setters, imp', disturbed)
<1>1. PICK V, T : V = VisOf(hist, imp.cut, imp.end) /\ T = Todo(hist, V, DOMAIN imp.seen)
  OBVIOUS
<1>2. imp.at = "walk" /\ imp.page # << >>
  BY DEF Resolve
<1>3. Here(hist, bulk, dev, imp, disturbed, V, T)
  BY <1>1, <1>2, WalkHere
<1>4. /\ V \in SUBSET Nat /\ IsFiniteSet(V) /\ V \subseteq DOMAIN hist /\ (\A t \in V : imp.cut <= t /\ t < imp.end)
      /\ WalkAt(hist, V, T, bulk, imp, disturbed) /\ WalkTypes(imp)
  BY <1>3 DEF Here, Ranges
<1>5. PICK u, S, f, k : /\ u = Head(imp.page) /\ S = InScope(u) /\ f = Ascending(S) /\ k = Skipped(f)
                        /\ imp' = [imp EXCEPT !.page = Tail(@), !.seen = With(@, u, S), !.skip = @ - k,
                                              !.chunk = imp.chunk \o SubSeq(f, k + 1, Len(f))]
  BY DEF Resolve, Pushed
<1>6. S = Page(hist, V, u)
  BY <1>1, <1>5 DEF InScope, At, Page, VisOf
<1>7. /\ imp'.at = "walk" /\ imp'.scope = imp.scope /\ imp'.cut = imp.cut /\ imp'.end = imp.end
      /\ imp'.index = imp.index /\ imp'.size = imp.size /\ imp'.bound = imp.bound /\ imp'.full = imp.full
      /\ imp'.last = imp.last /\ imp'.page = Tail(imp.page) /\ imp'.seen = With(imp.seen, u, S)
      /\ imp'.skip = imp.skip - k /\ imp'.chunk = imp.chunk \o SubSeq(f, k + 1, Len(f))
  BY <1>2, <1>5 DEF ImportFields
<1>8. PICK n, X : n = imp' /\ X = Todo(hist, V, DOMAIN n.seen)
  OBVIOUS
<1>9. Resolves(hist, V, T, X, imp, n, u, S, f, k)
  BY <1>1, <1>2, <1>4, <1>5, <1>6, <1>7, <1>8 DEF Resolves, Skipped
<1>10. Walk(hist, V, T, bulk, imp, disturbed) /\ Paging(hist, V, T, imp)
  BY <1>2, <1>4 DEF WalkAt
<1>11. Walk(hist, V, X, bulk, n, disturbed) /\ Paging(hist, V, X, n)
  BY <1>9, <1>10, ResolveWalk
<1>12. Walks(hist, bulk, n, disturbed)
  <2>1. V = VisOf(hist, n.cut, n.end) /\ X = Todo(hist, V, DOMAIN n.seen) /\ n.at \in {"walk", "sent"}
    BY <1>1, <1>7, <1>8
  <2> QED  BY <1>11, <2>1, WalkOn
<1>13. ScopeInv(hist, bulk, dev, setters, n, disturbed)
  <2>1. n.cut = imp.cut /\ n.end = imp.end /\ n.scope = imp.scope /\ n.at \in {"begin", "walk", "sent"}
        /\ imp.at \in {"begin", "walk", "sent"}
    BY <1>2, <1>7, <1>8
  <2> QED  BY <1>12, <2>1, WalkStays
<1> QED  BY <1>8, <1>13

\* The record q is r with another checkpoint of the scope m is in.
Marks(r, m, q, chunks, visits) ==
  \/ m.scope = "initial" /\ Is(q, r.cut, r.end, chunks, visits, r.oCut, r.oEnd, r.oChunks, r.oVisits, r.done)
  \/ m.scope = "older" /\ Is(q, r.cut, r.end, r.chunks, r.visits, r.oCut, r.oEnd, chunks, visits, r.done)

LEMMA MarksOf ==
  ASSUME DOMAIN dev = DevFields, NEW chunks, NEW visits, dev' = Checkpointed(chunks, visits),
         imp.scope = "initial" \/ imp.scope = "older"
  PROVE  Marks(dev, imp, dev', chunks, visits)
<1>1. CASE imp.scope = "initial"
  <2>1. dev' = [dev EXCEPT !.chunks = chunks, !.visits = visits]
    BY <1>1 DEF Checkpointed
  <2> QED  BY <1>1, <2>1 DEF Marks, Is, DevFields
<1>2. CASE imp.scope = "older"
  <2>1. dev' = [dev EXCEPT !.oChunks = chunks, !.oVisits = visits]
    BY <1>2 DEF Checkpointed
  <2> QED  BY <1>2, <2>1 DEF Marks, Is, DevFields
<1> QED  BY <1>1, <1>2

LEMMA MarkedScopes ==
  ASSUME NEW h, NEW b, NEW r, NEW w, NEW m, NEW d, NEW V, NEW T, ScopeInv(h, b, r, w, m, d), Here(h, b, r, m, d, V, T),
         NEW chunks, NEW visits, Resumable(b, m.cut, V, chunks, visits), NEW q, Marks(r, m, q, chunks, visits)
  PROVE  /\ Fields(b, q, w) /\ Filed(b, q) /\ Opens(h, b, q, d) /\ Closes(h, b, q, d)
         /\ q.cut = r.cut /\ q.end = r.end /\ q.oCut = r.oCut /\ q.oEnd = r.oEnd /\ q.done = r.done
<1>1. Fields(b, r, w) /\ Filed(b, r) /\ Opens(h, b, r, d) /\ Closes(h, b, r, d)
  BY DEF ScopeInv
<1>2. /\ V = VisOf(h, m.cut, m.end) /\ ChunksOk(h, V, b, m.cut, d)
      /\ m.cut # Never /\ r.end # Never /\ r.cut # Never /\ m.end = EndOf(r, m)
  BY DEF Here
<1>3. Scoped(h, b, d, m.cut, m.end, chunks, visits)
  BY <1>2 DEF Scoped
<1>4. q.cut = r.cut /\ q.end = r.end /\ q.oCut = r.oCut /\ q.oEnd = r.oEnd /\ q.done = r.done
  BY DEF Marks, Is
<1>5. Filed(b, q) /\ Closes(h, b, q, d)
  BY <1>1, <1>4 DEF Filed, Closes
<1>6. CASE m.scope = "initial"
  <2>1. q.chunks = chunks /\ q.visits = visits /\ q.oChunks = r.oChunks /\ q.oVisits = r.oVisits
    BY <1>6 DEF Marks, Is
  <2>2. ~r.done /\ m.cut = r.cut /\ r.oCut = Never /\ m.end = r.end
    BY <1>2, <1>6 DEF Here, EndOf
  <2>3. Fields(b, q, w) /\ Opens(h, b, q, d)
    BY <1>1, <1>2, <1>3, <1>4, <2>1, <2>2 DEF Fields, Opens
  <2> QED  BY <1>4, <1>5, <2>3
<1>7. CASE m.scope = "older"
  <2>1. q.chunks = r.chunks /\ q.visits = r.visits /\ q.oChunks = chunks /\ q.oVisits = visits
    BY <1>7 DEF Marks, Is
  <2>2. r.done /\ m.cut = r.oCut /\ r.oCut # Never /\ m.end = r.oEnd
    BY <1>2, <1>7 DEF Here, EndOf
  <2>3. Fields(b, q, w)
    BY <1>1, <1>2, <1>4, <2>1, <2>2 DEF Fields
  <2>4. Opens(h, b, q, d)
    BY <1>3, <1>4, <2>1, <2>2 DEF Opens
  <2> QED  BY <1>4, <1>5, <2>3, <2>4
<1> QED  BY <1>6, <1>7 DEF Marks

LEMMA CheckpointScopes ==
  ASSUME ScopeInv(hist, bulk, dev, setters, imp, disturbed), Ranges(hist, dev, imp), DOMAIN imp = ImportFields,
         DOMAIN dev = DevFields, Checkpoint
  PROVE  ScopeInv(hist, bulk, dev', setters, imp', disturbed)
<1>1. PICK V, T : V = VisOf(hist, imp.cut, imp.end) /\ T = Todo(hist, V, DOMAIN imp.seen)
  OBVIOUS
<1>2. imp.at = "sent" /\ dev' = Checkpointed(imp.index, imp.size) /\ imp' = [imp EXCEPT !.at = "walk"]
  BY DEF Checkpoint
<1>3. Here(hist, bulk, dev, imp, disturbed, V, T)
  BY <1>1, <1>2, WalkHere
<1>4. /\ V \in SUBSET Nat /\ IsFiniteSet(V) /\ Walk(hist, V, T, bulk, imp, disturbed) /\ Paging(hist, V, T, imp)
      /\ WalkTypes(imp) /\ (imp.scope = "initial" \/ imp.scope = "older")
      /\ imp.cut # Never /\ imp.end = EndOf(dev, imp)
  BY <1>2, <1>3 DEF Here, Ranges, WalkAt
<1>5. Resumable(bulk, imp.cut, V, imp.index, imp.size)
  BY <1>1, <1>4, WalkResumable
<1>6. PICK q, n, chunks, visits : q = dev' /\ n = imp' /\ chunks = imp.index /\ visits = imp.size
  OBVIOUS
<1>7. Marks(dev, imp, q, chunks, visits)
  BY <1>2, <1>4, <1>6, MarksOf
<1>8. /\ Fields(bulk, q, setters) /\ Filed(bulk, q) /\ Opens(hist, bulk, q, disturbed) /\ Closes(hist, bulk, q, disturbed)
      /\ q.cut = dev.cut /\ q.end = dev.end /\ q.oCut = dev.oCut /\ q.oEnd = dev.oEnd /\ q.done = dev.done
  BY <1>3, <1>5, <1>6, <1>7, MarkedScopes
<1>9. /\ n.at = "walk" /\ n.scope = imp.scope /\ n.cut = imp.cut /\ n.end = imp.end
      /\ n.index = imp.index /\ n.size = imp.size /\ n.skip = imp.skip /\ n.chunk = imp.chunk /\ n.seen = imp.seen
      /\ n.page = imp.page /\ n.bound = imp.bound /\ n.full = imp.full /\ n.last = imp.last
  BY <1>2, <1>6 DEF ImportFields
<1>10. Walk(hist, V, T, bulk, n, disturbed)
  BY <1>4, <1>9, SameWalk
<1>11. Paging(hist, V, T, n)
  BY <1>4, <1>9, SamePages
<1>12. Walks(hist, bulk, n, disturbed)
  <2>1. V = VisOf(hist, n.cut, n.end) /\ T = Todo(hist, V, DOMAIN n.seen) /\ n.at \in {"walk", "sent"}
    BY <1>1, <1>9
  <2> QED  BY <1>10, <1>11, <2>1, WalkOn
<1>13. Tied(q, n)
  <2>1. \/ imp.scope = "initial" /\ ~dev.done /\ imp.cut = dev.cut
        \/ imp.scope = "older" /\ imp.cut = dev.oCut
    BY <1>3 DEF Here
  <2>2. EndOf(q, n) = EndOf(dev, imp)
    BY <1>8, <1>9 DEF EndOf
  <2> QED  BY <1>4, <1>8, <1>9, <2>1, <2>2 DEF Tied
<1>14. Stamps(hist, bulk, q, n, disturbed)
  BY <1>9 DEF Stamps
<1>15. ScopeInv(hist, bulk, q, setters, n, disturbed)
  BY <1>8, <1>12, <1>13, <1>14 DEF ScopeInv
<1> QED  BY <1>6, <1>15

LEMMA FinishScopes ==
  ASSUME ScopeInv(hist, bulk, dev, setters, imp, disturbed), Ranges(hist, dev, imp), DOMAIN dev = DevFields, Finish
  PROVE  ScopeInv(hist, bulk, dev', setters, imp', disturbed)
<1>1. PICK V, T : V = VisOf(hist, imp.cut, imp.end) /\ T = Todo(hist, V, DOMAIN imp.seen)
  OBVIOUS
<1>2. /\ imp.at = "walk" /\ imp.page = << >> /\ ~More /\ imp.chunk = << >>
      /\ dev' = Checkpointed(0, 0) /\ imp' = [NoImport EXCEPT !.at = "stamp", !.scope = imp.scope, !.cut = imp.cut]
  BY DEF Finish, LastChunk
<1>3. Here(hist, bulk, dev, imp, disturbed, V, T)
  BY <1>1, <1>2, WalkHere
<1>4. /\ V \in SUBSET Nat /\ IsFiniteSet(V) /\ Walk(hist, V, T, bulk, imp, disturbed) /\ Paging(hist, V, T, imp)
      /\ WalkTypes(imp) /\ (imp.scope = "initial" \/ imp.scope = "older")
      /\ imp.cut # Never /\ imp.end = EndOf(dev, imp) /\ hist \in Seq(VisitRecord)
      /\ ChunksOk(hist, V, bulk, imp.cut, disturbed)
  BY <1>2, <1>3 DEF Here, Ranges, WalkAt
<1>5. T = {}
  <2>1. SeenOk(hist, V, imp)
    BY <1>4 DEF Walk
  <2> QED  BY <1>2, <1>4, <2>1, Covered
<1>6. Resumable(bulk, imp.cut, V, 0, 0)
  <2>1. Full(0) = 0
    BY FullFacts
  <2> QED  BY <2>1 DEF Resumable
<1>7. PICK q, n : q = dev' /\ n = imp'
  OBVIOUS
<1>8. Marks(dev, imp, q, 0, 0)
  BY <1>2, <1>4, <1>7, MarksOf
<1>9. /\ Fields(bulk, q, setters) /\ Filed(bulk, q) /\ Opens(hist, bulk, q, disturbed) /\ Closes(hist, bulk, q, disturbed)
      /\ q.cut = dev.cut /\ q.end = dev.end /\ q.oCut = dev.oCut /\ q.oEnd = dev.oEnd /\ q.done = dev.done
  BY <1>3, <1>6, <1>8, MarkedScopes
<1>10. n.at = "stamp" /\ n.scope = imp.scope /\ n.cut = imp.cut
  BY <1>2, <1>7 DEF NoImport
<1>11. Tied(q, n)
  <2>1. \/ imp.scope = "initial" /\ ~dev.done /\ imp.cut = dev.cut
        \/ imp.scope = "older" /\ imp.cut = dev.oCut
    BY <1>3 DEF Here
  <2> QED  BY <1>4, <1>9, <1>10, <2>1 DEF Tied
<1>12. ~disturbed => InChunks(bulk, V)
  <2> SUFFICES ASSUME ~disturbed PROVE InChunks(bulk, V)
    OBVIOUS
  <2>1. PICK m, b, d : m = imp /\ b = bulk /\ d = disturbed
    OBVIOUS
  <2>2. WalkTypes(m) /\ Walk(hist, V, T, b, m, d) /\ ChunksOk(hist, V, b, m.cut, d) /\ m.chunk = << >> /\ ~d
    BY <1>2, <1>4, <2>1
  <2>3. InChunks(b, V)
    BY <1>4, <1>5, <2>2, WalkDone
  <2> QED  BY <2>1, <2>3
<1>13. Stamps(hist, bulk, q, n, disturbed)
  <2>1. EndOf(q, n) = imp.end
    BY <1>4, <1>9, <1>10 DEF EndOf
  <2>2. n.scope = "older" => q.oChunks = 0 /\ q.oVisits = 0
    BY <1>8, <1>10 DEF Marks, Is
  <2>3. VisOf(hist, n.cut, EndOf(q, n)) = V
    BY <1>1, <1>10, <2>1
  <2> QED  BY <1>12, <2>2, <2>3 DEF Stamps
<1>14. Walks(hist, bulk, n, disturbed)
  BY <1>10 DEF Walks
<1>15. ScopeInv(hist, bulk, q, setters, n, disturbed)
  BY <1>9, <1>11, <1>13, <1>14 DEF ScopeInv
<1> QED  BY <1>7, <1>15

ChunkTimes(b) == \A id \in DOMAIN b : b[id] \in SUBSET Nat

\* The initial import is done.
LEMMA InitialStamped ==
  ASSUME NEW h, NEW b, NEW r, NEW w, NEW m, NEW d, ScopeInv(h, b, r, w, m, d), m.at = "stamp", m.scope = "initial",
         NEW q, Is(q, r.cut, r.end, r.chunks, r.visits, r.oCut, r.oEnd, r.oChunks, r.oVisits, TRUE),
         NEW n, n.at = "idle"
  PROVE  ScopeInv(h, b, q, w, n, d)
<1>1. Fields(b, r, w) /\ Filed(b, r) /\ m.cut = r.cut /\ m.cut # Never /\ ~r.done
  BY DEF ScopeInv, Tied
<1>2. r.oCut = Never /\ r.end # Never
  BY <1>1 DEF Fields
<1>3. ~d => InChunks(b, VisOf(h, r.cut, r.end))
  BY <1>1 DEF ScopeInv, Stamps, EndOf
<1>4. /\ q.cut = r.cut /\ q.end = r.end /\ q.chunks = r.chunks /\ q.visits = r.visits
      /\ q.oCut = r.oCut /\ q.oEnd = r.oEnd /\ q.oChunks = r.oChunks /\ q.oVisits = r.oVisits /\ q.done
  BY DEF Is
<1>5. Fields(b, q, w) /\ Filed(b, q)
  BY <1>1, <1>2, <1>4 DEF Fields, Filed
<1>6. Opens(h, b, q, d) /\ Closes(h, b, q, d)
  BY <1>2, <1>3, <1>4 DEF Opens, Closes
<1> QED  BY <1>5, <1>6, IdleScopes

\* The older pass is done: the import now begins where the pass began.
LEMMA OlderStamped ==
  ASSUME NEW h, NEW b, NEW r, NEW w, NEW m, NEW d, ScopeInv(h, b, r, w, m, d), Ranges(h, r, m), ChunkTimes(b),
         m.at = "stamp", m.scope = "older",
         NEW q, Is(q, m.cut, r.end, r.chunks, r.visits, Never, Never, r.oChunks, r.oVisits, r.done),
         NEW n, n.at = "idle"
  PROVE  ScopeInv(h, b, q, w, n, d)
<1>1. Fields(b, r, w) /\ Filed(b, r) /\ Closes(h, b, r, d) /\ m.cut = r.oCut /\ m.cut # Never
  BY DEF ScopeInv, Tied
<1>2. PICK c, k, e : c = r.oCut /\ k = r.cut /\ e = r.end
  OBVIOUS
<1>3. c \in Nat /\ k \in Nat /\ e \in Nat /\ c # Never /\ c < k /\ r.oEnd = k /\ r.done /\ e # Never
  BY <1>1, <1>2 DEF Fields, Ranges
<1>4. /\ r.oChunks = 0 /\ r.oVisits = 0 /\ (~d => InChunks(b, VisOf(h, c, k)))
  BY <1>1, <1>2, <1>3 DEF ScopeInv, Stamps, EndOf
<1>5. ~d => InChunks(b, VisOf(h, k, e))
  <2>1. k # Never
    BY <1>3 DEF Never
  <2> QED  BY <1>1, <1>2, <1>3, <2>1 DEF Closes
<1>6. /\ q.cut = c /\ q.end = e /\ q.chunks = r.chunks /\ q.visits = r.visits
      /\ q.oCut = Never /\ q.oEnd = Never /\ q.oChunks = r.oChunks /\ q.oVisits = r.oVisits /\ q.done
  BY <1>1, <1>2, <1>3 DEF Is
<1>7. Fields(b, q, w)
  BY <1>3, <1>4, <1>6 DEF Fields
<1>8. Filed(b, q)
  <2>1. ASSUME NEW id \in DOMAIN b PROVE id[1] >= c /\ \A t \in b[id] : t >= c
    <3>1. id[1] \in Nat /\ \A t \in b[id] : t \in Nat
      BY <1>1 DEF Filed, ChunkTimes
    <3>2. CASE id[1] >= r.cut /\ \A t \in b[id] : t >= r.cut
      BY <1>2, <1>3, <3>1, <3>2
    <3>3. CASE id[1] = r.oCut /\ r.oCut # Never /\ \A t \in b[id] : r.oCut <= t /\ t < r.cut
      BY <1>2, <1>3, <3>1, <3>3
    <3> QED  BY <1>1, <3>2, <3>3 DEF Filed
  <2> QED  BY <1>1, <1>6, <2>1 DEF Filed
<1>9. ASSUME ~d PROVE InChunks(b, VisOf(h, c, e))
  <2>1. h \in Seq(VisitRecord) /\ Len(h) \in Nat /\ DOMAIN h = 1 .. Len(h)
    BY DEF Ranges
  <2>2. VisOf(h, c, e) \subseteq VisOf(h, c, k) \union VisOf(h, k, e)
    BY <1>3, <2>1 DEF VisOf
  <2> QED  BY <1>4, <1>5, <1>9, <2>2 DEF InChunks
<1>10. Opens(h, b, q, d) /\ Closes(h, b, q, d)
  BY <1>6, <1>9 DEF Opens, Closes
<1> QED  BY <1>7, <1>8, <1>10, IdleScopes

LEMMA StampScopes ==
  ASSUME ScopeInv(hist, bulk, dev, setters, imp, disturbed), Ranges(hist, dev, imp), ChunkTimes(bulk),
         DOMAIN dev = DevFields, Stamp
  PROVE  ScopeInv(hist, bulk, dev', setters, imp', disturbed)
<1>1. imp.at = "stamp" /\ imp' = NoImport
  BY DEF Stamp
<1>2. PICK q, n, c : q = dev' /\ n = imp' /\ c = imp.cut
  OBVIOUS
<1>3. n.at = "idle"
  BY <1>1, <1>2 DEF NoImport
<1>4. CASE imp.scope = "initial"
  <2>1. dev' = [dev EXCEPT !.done = TRUE]
    BY <1>4 DEF Stamp
  <2>2. Is(q, dev.cut, dev.end, dev.chunks, dev.visits, dev.oCut, dev.oEnd, dev.oChunks, dev.oVisits, TRUE)
    BY <1>2, <2>1 DEF Is, DevFields
  <2>3. ScopeInv(hist, bulk, q, setters, n, disturbed)
    BY <1>1, <1>3, <1>4, <2>2, InitialStamped
  <2> QED  BY <1>2, <2>3
<1>5. CASE imp.scope # "initial"
  <2>1. imp.scope = "older"
    BY <1>1, <1>5 DEF ScopeInv, Tied
  <2>2. dev' = [dev EXCEPT !.cut = c, !.oCut = Never, !.oEnd = Never]
    BY <1>2, <1>5 DEF Stamp
  <2>3. Is(q, imp.cut, dev.end, dev.chunks, dev.visits, Never, Never, dev.oChunks, dev.oVisits, dev.done)
    BY <1>2, <2>2 DEF Is, DevFields
  <2>4. ScopeInv(hist, bulk, q, setters, n, disturbed)
    BY <1>1, <1>3, <2>1, <2>3, OlderStamped
  <2> QED  BY <1>2, <2>4
<1> QED  BY <1>4, <1>5

\* What a chunk that goes up holds is between the scope's bounds.
LEMMA SendBounds ==
  ASSUME NEW h, NEW V, NEW T, NEW b, NEW a, NEW m, NEW n, NEW k, NEW S, NEW d,
         Sends(h, V, T, b, a, m, n, k, S), Walk(h, V, T, b, m, d)
  PROVE  m.index \in Nat /\ \A t \in S : t \in Nat /\ m.cut <= t /\ t < m.end
<1>1. Counts(V, T, b, m, d) /\ ChunkOk(h, m)
  BY DEF Walk
<1>2. PICK z, i, l : z = m.size /\ i = m.index /\ l = Len(m.chunk)
  OBVIOUS
<1>3. Sending(h, V, T, b, m, n, k, S, z, i, l)
  BY <1>1, <1>2, SendingFacts
<1>4. i \in Nat /\ S = {m.chunk[p] : p \in 1 .. k} /\ (\A p \in 1 .. k : p \in 1 .. l)
  BY <1>3 DEF Sending
<1>5. m.chunk \in Seq(Nat)
  BY DEF Sends, WalkTypes
<1>6. \A p \in 1 .. k : m.chunk[p] \in Nat /\ m.cut <= m.chunk[p] /\ m.chunk[p] < m.end
  BY <1>1, <1>2, <1>4, <1>5 DEF ChunkOk
<1> QED  BY <1>2, <1>4, <1>6

LEMMA SentFiled ==
  ASSUME NEW h, NEW b, NEW r, NEW w, NEW m, NEW d, NEW V, NEW T, ScopeInv(h, b, r, w, m, d), Ranges(h, r, m),
         Here(h, b, r, m, d, V, T), NEW a, NEW n, NEW k, NEW S, Sends(h, V, T, b, a, m, n, k, S)
  PROVE  Filed(a, r)
<1>1. Filed(b, r) /\ Walk(h, V, T, b, m, d) /\ ChunksOk(h, V, b, m.cut, d)
  BY DEF ScopeInv, Here, WalkAt
<1>2. m.index \in Nat /\ \A t \in S : t \in Nat /\ m.cut <= t /\ t < m.end
  BY <1>1, SendBounds
<1>3. PICK c, i, x : c = m.cut /\ i = m.index /\ x = <<c, i>>
  OBVIOUS
<1>4. Takes(b, a, c, i, S)
  BY <1>2, <1>3, SendTakes
<1>5. CASE a = b
  BY <1>1, <1>5
<1>6. CASE /\ i \notin Sent(b, c) /\ DOMAIN a = DOMAIN b \union {x}
           /\ a[x] = S /\ (\A id \in DOMAIN b : a[id] = b[id])
  <2>1. c \in Nat /\ i \in Nat /\ x \in Nat \X Nat /\ x[1] = c /\ m.end \in Nat /\ r.cut \in Nat
    BY <1>2, <1>3 DEF Ranges
  <2>2. \A j \in Sent(b, c) : b[<<c, j>>] \cap S = {}
    BY <1>1, <1>3, <1>6, SendApart
  <2>3. \A id \in DOMAIN b : id[1] = c => b[id] \cap S = {}
    <3>1. ASSUME NEW id \in DOMAIN b, id[1] = c PROVE b[id] \cap S = {}
      <4>1. id = <<c, id[2]>> /\ id[2] \in Nat
        BY <1>1, <3>1 DEF Filed
      <4> QED  BY <2>2, <4>1 DEF Sent
    <3> QED  BY <3>1
  <2>4. x \notin DOMAIN b
    BY <1>3, <1>6, <2>1 DEF Sent
  <2>5. DOMAIN a \subseteq Nat \X Nat
    BY <1>1, <1>6, <2>1 DEF Filed
  <2>6. ASSUME \A id \in DOMAIN b : b[id] \cap S = {} PROVE \A y, z \in DOMAIN a : y # z => a[y] \cap a[z] = {}
    <3>1. \A y, z \in DOMAIN b : y # z => b[y] \cap b[z] = {}
      BY <1>1 DEF Filed
    <3> QED  BY <1>6, <2>4, <2>6, <3>1
  <2>7. CASE m.scope = "initial"
    <3>1. ~r.done /\ c = r.cut
      BY <1>3, <2>7 DEF Here
    <3>2. \A id \in DOMAIN b : id[1] = c
      BY <1>1, <3>1 DEF Filed
    <3>3. \A id \in DOMAIN a : id[1] = c
      BY <1>6, <2>1, <3>2
    <3>4. \A y, z \in DOMAIN a : y # z => a[y] \cap a[z] = {}
      BY <2>3, <2>6, <3>2
    <3>5. ASSUME NEW id \in DOMAIN a
          PROVE  \/ id[1] >= r.cut /\ \A t \in a[id] : t >= r.cut
                 \/ id[1] = r.oCut /\ r.oCut # Never /\ \A t \in a[id] : r.oCut <= t /\ t < r.cut
      <4>1. CASE id \in DOMAIN b
        <5>1. a[id] = b[id]
          BY <1>6, <4>1
        <5> QED  BY <1>1, <4>1, <5>1 DEF Filed
      <4>2. CASE id = x
        <5>1. \A t \in S : t >= r.cut
          BY <1>2, <1>3, <2>1, <3>1
        <5> QED  BY <1>6, <2>1, <3>1, <4>2, <5>1
      <4> QED  BY <1>6, <4>1, <4>2
    <3> QED  BY <2>5, <3>1, <3>3, <3>4, <3>5 DEF Filed
  <2>8. CASE m.scope = "older"
    <3>1. r.done /\ c = r.oCut /\ r.oCut # Never /\ m.end = r.cut
      BY <1>3, <2>8 DEF Here, EndOf
    <3>2. ASSUME NEW id \in DOMAIN a
          PROVE  \/ id[1] >= r.cut /\ \A t \in a[id] : t >= r.cut
                 \/ id[1] = r.oCut /\ r.oCut # Never /\ \A t \in a[id] : r.oCut <= t /\ t < r.cut
      <4>1. CASE id \in DOMAIN b
        <5>1. a[id] = b[id]
          BY <1>6, <4>1
        <5> QED  BY <1>1, <4>1, <5>1 DEF Filed
      <4>2. CASE id = x
        <5>1. \A t \in S : r.oCut <= t /\ t < r.cut
          BY <1>2, <1>3, <3>1
        <5> QED  BY <1>6, <2>1, <3>1, <4>2, <5>1
      <4> QED  BY <1>6, <4>1, <4>2
    <3>3. ASSUME NEW id \in DOMAIN b PROVE b[id] \cap S = {}
      <4>1. CASE \A t \in b[id] : t >= r.cut
        <5>1. \A t \in S : t \in Nat /\ t < r.cut
          BY <1>2, <3>1
        <5> QED  BY <2>1, <4>1, <5>1
      <4>2. CASE id[1] = r.oCut
        BY <2>3, <3>1, <4>2
      <4> QED  BY <1>1, <4>1, <4>2 DEF Filed
    <3>4. \A y, z \in DOMAIN a : y # z => a[y] \cap a[z] = {}
      BY <2>6, <3>3
    <3> QED  BY <2>5, <3>1, <3>2, <3>4 DEF Filed
  <2> QED  BY <2>7, <2>8 DEF Here
<1> QED  BY <1>3, <1>4, <1>5, <1>6 DEF Takes

LEMMA SentScopes ==
  ASSUME NEW h, NEW b, NEW r, NEW w, NEW m, NEW d, NEW V, NEW T, ScopeInv(h, b, r, w, m, d), Ranges(h, r, m),
         Here(h, b, r, m, d, V, T), NEW a, NEW n, NEW k, NEW S, Sends(h, V, T, b, a, m, n, k, S)
  PROVE  Fields(a, r, w) /\ Filed(a, r) /\ Opens(h, a, r, d) /\ Closes(h, a, r, d)
<1>1. /\ Fields(b, r, w) /\ Opens(h, b, r, d) /\ Closes(h, b, r, d)
      /\ Walk(h, V, T, b, m, d) /\ ChunksOk(h, V, b, m.cut, d)
  BY DEF ScopeInv, Here, WalkAt
<1>2. Filed(a, r)
  BY SentFiled
<1>3. m.index \in Nat
  BY <1>1, SendBounds
<1>4. PICK c, i : c = m.cut /\ i = m.index
  OBVIOUS
<1>5. Takes(b, a, c, i, S) /\ Adds(b, a, c, i, S)
  <2>1. Takes(b, a, c, i, S)
    BY <1>3, <1>4, SendTakes
  <2> QED  BY <1>3, <1>4, <2>1, TakesSent
<1>6. Fields(a, r, w)
  BY <1>1 DEF Fields, Here
<1>7. \A id \in DOMAIN b : id \in DOMAIN a /\ a[id] = b[id]
  BY <1>5 DEF Takes
<1>8. Closes(h, a, r, d)
  <2>1. \A R : InChunks(b, R) => InChunks(a, R)
    BY <1>7 DEF InChunks
  <2> QED  BY <1>1, <2>1 DEF Closes
<1>9. ChunksOk(h, V, a, c, d)
  BY <1>1, <1>4, SendChunks
<1>10. \A chunks, visits : Resumable(b, c, V, chunks, visits) => Resumable(a, c, V, chunks, visits)
  BY <1>5 DEF Adds, Resumable
<1>11. V = VisOf(h, c, m.end) /\ m.end = EndOf(r, m)
  BY <1>4 DEF Here
<1>12. Opens(h, a, r, d)
  <2>1. CASE m.scope = "initial"
    <3>1. ~r.done /\ c = r.cut /\ r.oCut = Never /\ m.end = r.end /\ c # Never
      BY <1>4, <1>11, <2>1 DEF Here, EndOf
    <3> QED  BY <1>1, <1>9, <1>10, <1>11, <3>1 DEF Opens, Scoped
  <2>2. CASE m.scope = "older"
    <3>1. r.done /\ c = r.oCut /\ m.end = r.oEnd /\ c # Never
      BY <1>4, <1>11, <2>2 DEF Here, EndOf
    <3> QED  BY <1>1, <1>9, <1>10, <1>11, <3>1 DEF Opens, Scoped
  <2> QED  BY <2>1, <2>2 DEF Here
<1> QED  BY <1>2, <1>6, <1>8, <1>12

LEMMA UploadScopes ==
  ASSUME ScopeInv(hist, bulk, dev, setters, imp, disturbed), Ranges(hist, dev, imp), DOMAIN imp = ImportFields, Upload
  PROVE  ScopeInv(hist, bulk', dev, setters, imp', disturbed)
<1>1. PICK V, T : V = VisOf(hist, imp.cut, imp.end) /\ T = Todo(hist, V, DOMAIN imp.seen)
  OBVIOUS
<1>2. imp.at = "walk" /\ (Ready \/ (imp.page = << >> /\ ~More /\ imp.chunk # << >>))
  BY DEF Upload, LastChunk
<1>3. Here(hist, bulk, dev, imp, disturbed, V, T)
  BY <1>1, <1>2, WalkHere
<1>4. /\ V \in SUBSET Nat /\ IsFiniteSet(V) /\ Walk(hist, V, T, bulk, imp, disturbed) /\ Paging(hist, V, T, imp)
      /\ WalkTypes(imp) /\ hist \in Seq(VisitRecord)
  BY <1>2, <1>3 DEF Here, Ranges, WalkAt
<1>5. PICK k, S, a, n :
        /\ k = IF Ready THEN ChunkVisits ELSE Len(imp.chunk)
        /\ S = Range(SubSeq(imp.chunk, 1, k)) /\ a = Accepted(S)
        /\ n = [imp EXCEPT !.at = "sent", !.index = @ + 1, !.size = @ + k,
                           !.chunk = SubSeq(@, k + 1, Len(@))]
        /\ \/ bulk' = a /\ imp' = n
           \/ bulk' \in {bulk, a} /\ imp' = [NoImport EXCEPT !.at = "failed"]
  <2>1. PICK k, S, a, n :
        /\ k = IF Ready THEN ChunkVisits ELSE Len(imp.chunk)
        /\ S = Range(SubSeq(imp.chunk, 1, k)) /\ a = Accepted(S)
        /\ n = [imp EXCEPT !.at = "sent", !.index = @ + 1, !.size = @ + k,
                           !.chunk = SubSeq(@, k + 1, Len(@))]
    OBVIOUS
  <2> QED  BY <2>1 DEF Upload
<1>6. /\ k \in Nat /\ k # 0 /\ k <= Len(imp.chunk)
      /\ k = ChunkVisits \/ (k < ChunkVisits /\ k = Len(imp.chunk) /\ T = {})
  <2>1. imp.chunk \in Seq(Nat) /\ Len(imp.chunk) \in Nat /\ ChunkVisits \in Nat /\ ChunkVisits # 0
    BY <1>4, SizesAssumption DEF WalkTypes
  <2>2. CASE Ready
    BY <1>5, <2>1, <2>2 DEF Ready
  <2>3. CASE ~Ready
    <3>1. imp.page = << >> /\ ~More /\ imp.chunk # << >>
      BY <1>2, <2>3
    <3>2. Len(imp.chunk) # 0
      BY <2>1, <3>1
    <3>3. SeenOk(hist, V, imp)
      BY <1>4 DEF Walk
    <3>4. T = {}
      BY <1>4, <3>1, <3>3, Covered
    <3> QED  BY <1>5, <2>1, <2>3, <3>2, <3>4 DEF Ready
  <2> QED  BY <2>2, <2>3
<1>7. /\ n.at = "sent" /\ n.scope = imp.scope /\ n.cut = imp.cut /\ n.end = imp.end
      /\ n.index = imp.index + 1 /\ n.size = imp.size + k /\ n.skip = imp.skip
      /\ n.chunk = SubSeq(imp.chunk, k + 1, Len(imp.chunk)) /\ n.seen = imp.seen
      /\ n.page = imp.page /\ n.bound = imp.bound /\ n.full = imp.full /\ n.last = imp.last
  BY <1>5 DEF ImportFields
<1>8. a = IF <<imp.cut, imp.index>> \in DOMAIN bulk THEN bulk ELSE With(bulk, <<imp.cut, imp.index>>, S)
  BY <1>5 DEF Accepted, ChunkId
<1>9. Sends(hist, V, T, bulk, a, imp, n, k, S)
  BY <1>1, <1>4, <1>5, <1>6, <1>7, <1>8 DEF Sends
<1>10. Fields(a, dev, setters) /\ Filed(a, dev) /\ Opens(hist, a, dev, disturbed) /\ Closes(hist, a, dev, disturbed)
  BY <1>3, <1>9, SentScopes
<1>11. CASE bulk' = a /\ imp' = n
  <2>1. Walk(hist, V, T, a, n, disturbed)
    BY <1>4, <1>9, SendWalk
  <2>2. Paging(hist, V, T, n)
    BY <1>4, <1>7, SamePages
  <2>3. Walks(hist, a, n, disturbed)
    <3>1. V = VisOf(hist, n.cut, n.end) /\ T = Todo(hist, V, DOMAIN n.seen) /\ n.at \in {"walk", "sent"}
      BY <1>1, <1>7
    <3> QED  BY <2>1, <2>2, <3>1, WalkOn
  <2>4. Tied(dev, n) /\ Stamps(hist, a, dev, n, disturbed)
    <3>1. /\ imp.cut # Never /\ imp.end = EndOf(dev, imp)
          /\ \/ imp.scope = "initial" /\ ~dev.done /\ imp.cut = dev.cut
             \/ imp.scope = "older" /\ imp.cut = dev.oCut
      BY <1>3 DEF Here
    <3>2. EndOf(dev, n) = EndOf(dev, imp)
      BY <1>7 DEF EndOf
    <3> QED  BY <1>7, <3>1, <3>2 DEF Tied, Stamps
  <2>5. ScopeInv(hist, a, dev, setters, n, disturbed)
    BY <1>10, <2>3, <2>4 DEF ScopeInv
  <2> QED  BY <1>11, <2>5
<1>12. CASE bulk' \in {bulk, a} /\ imp' = [NoImport EXCEPT !.at = "failed"]
  <2>1. PICK x, y : x = bulk' /\ y = imp'
    OBVIOUS
  <2>2. y.at = "failed"
    BY <1>12, <2>1 DEF NoImport
  <2>3. Fields(x, dev, setters) /\ Filed(x, dev) /\ Opens(hist, x, dev, disturbed) /\ Closes(hist, x, dev, disturbed)
    <3>1. CASE x = a
      BY <1>10, <3>1
    <3>2. CASE x = bulk
      BY <3>2 DEF ScopeInv
    <3> QED  BY <1>12, <2>1, <3>1, <3>2
  <2>4. ScopeInv(hist, x, dev, setters, y, disturbed)
    BY <2>2, <2>3, IdleScopes
  <2> QED  BY <2>1, <2>4
<1> QED  BY <1>5, <1>11, <1>12

--------------------------------------------------------------------------------
(***************************************************************************)
(* The scopes stay as they should be, step by step, as long as the         *)
(* boundary is not written over.                                           *)
(***************************************************************************)
OnceInv == ~moved => ScopeInv(hist, bulk, dev, setters, imp, disturbed)

LEMMA RangesOf ==
  ASSUME HistoryInv, ~moved
  PROVE  /\ Ranges(hist, dev, imp) /\ DOMAIN imp = ImportFields /\ DOMAIN dev = DevFields
         /\ ChunkTimes(bulk) /\ BoundaryOk
<1>1. BrowserOk /\ RecordOk(dev) /\ ImportOk /\ BoundaryOk
  BY DEF HistoryInv, ReplayInv, ImportInv
<1>2. DOMAIN imp = ImportFields /\ DOMAIN dev = DevFields /\ ChunkTimes(bulk)
  BY <1>1, ImportFieldsOf DEF ImportOk, RecordOk, ChunkTimes
<1>3. Ranges(hist, dev, imp)
  BY <1>1 DEF Ranges, BrowserOk, RecordOk, ImportOk, BoundaryOk, Within, WalkTypes
<1> QED  BY <1>1, <1>2, <1>3

\* Nothing of it is touched.
LEMMA SameOnce ==
  ASSUME OnceInv, UNCHANGED <<hist, bulk, dev, setters, imp, disturbed, moved>>
  PROVE  OnceInv'
BY DEF OnceInv

LEMMA UntouchedOnce ==
  ASSUME OnceInv, Hear \/ StartupDone \/ CheckKnown \/ ReturnAdd \/ SkipUrl \/ UNCHANGED vars
  PROVE  OnceInv'
<1>1. UNCHANGED <<hist, bulk, dev, setters, imp, disturbed, moved>>
  BY DEF Hear, StartupDone, CheckKnown, ReturnAdd, SkipUrl, vars, browser, capture, ghosts
<1> QED  BY <1>1, SameOnce

\* Someone finds no boundary.
LEMMA ReadsOnce ==
  ASSUME HistoryInv, OnceInv, NEW p, Reads(p), UNCHANGED <<hist, bulk, dev, imp, disturbed, moved>>
  PROVE  OnceInv'
<1> SUFFICES ASSUME ~moved PROVE ScopeInv(hist, bulk, dev, setters', imp, disturbed)
  BY DEF OnceInv
<1>1. ScopeInv(hist, bulk, dev, setters, imp, disturbed) /\ DOMAIN dev = DevFields
  BY RangesOf DEF OnceInv
<1>2. PICK e, s : e = Now /\ s = [dev EXCEPT !.end = e] /\ setters' = With(setters, p, s)
  BY DEF Reads
<1>3. s = [dev EXCEPT !.end = s.end]
  <2>1. s.end = e
    BY <1>1, <1>2 DEF DevFields
  <2> QED  BY <1>2, <2>1
<1>4. Fields(bulk, dev, setters')
  <2>1. Fields(bulk, dev, setters)
    BY <1>1 DEF ScopeInv
  <2>2. DOMAIN setters' = DOMAIN setters \union {p} /\ \A x \in DOMAIN setters' : setters'[x] = IF x = p THEN s ELSE setters[x]
    BY <1>2 DEF With
  <2>3. ASSUME dev.end = Never, NEW x \in DOMAIN setters' PROVE setters'[x] = [dev EXCEPT !.end = setters'[x].end]
    <3>1. CASE x = p
      BY <1>3, <2>2, <3>1
    <3>2. CASE x # p
      BY <2>1, <2>2, <2>3, <3>2 DEF Fields
    <3> QED  BY <3>1, <3>2
  <2> QED  BY <2>1, <2>3 DEF Fields
<1> QED  BY <1>1, <1>4 DEF ScopeInv

LEMMA ReadersOnce ==
  ASSUME HistoryInv, OnceInv, ReadBoundary \/ BeginReplay
  PROVE  OnceInv'
<1>1. UNCHANGED <<hist, bulk, dev, imp, disturbed, moved>>
  BY DEF ReadBoundary, BeginReplay, browser, ghosts
<1>2. Reads("startup") \/ Reads("replay") \/ setters' = setters
  BY DEF ReadBoundary, BeginReplay
<1> QED  BY <1>1, <1>2, ReadsOnce, SameOnce

\* The first boundary comes before any scope.
LEMMA PutBoundaryOnce ==
  ASSUME HistoryInv, OnceInv, NEW p, PutBoundary(p)
  PROVE  OnceInv'
<1> SUFFICES ASSUME ~moved' PROVE ScopeInv(hist', bulk', dev', setters', imp', disturbed')
  BY DEF OnceInv
<1>1. /\ p \in DOMAIN setters /\ dev' = setters[p] /\ ~moved /\ dev.end = Never
      /\ UNCHANGED <<hist, bulk, imp, disturbed>>
  BY DEF PutBoundary, browser
<1>2. ScopeInv(hist, bulk, dev, setters, imp, disturbed) /\ BoundaryOk /\ DOMAIN dev = DevFields /\ SettersOk
  BY <1>1, RangesOf DEF OnceInv, HistoryInv, ImportInv
<1>3. /\ dev.cut = Never /\ dev.oCut = Never /\ DOMAIN bulk = {} /\ ~dev.done
      /\ dev.chunks = 0 /\ dev.visits = 0 /\ dev.oChunks = 0 /\ dev.oVisits = 0
  BY <1>1, <1>2 DEF ScopeInv, Fields
<1>4. PICK q, e : q = dev' /\ e = q.end /\ q = [dev EXCEPT !.end = e]
  <2>1. setters[p] = [dev EXCEPT !.end = setters[p].end]
    BY <1>1, <1>2 DEF ScopeInv, Fields
  <2> QED  BY <1>1, <2>1
<1>5. q.end # Never
  BY <1>1, <1>2, <1>4 DEF SettersOk
<1>6. /\ q.cut = Never /\ q.oCut = Never /\ q.chunks = 0 /\ q.visits = 0 /\ q.oChunks = 0 /\ q.oVisits = 0 /\ ~q.done
  BY <1>2, <1>3, <1>4 DEF DevFields
<1>7. imp.at \notin {"begin", "walk", "sent", "stamp"}
  BY <1>1, <1>2 DEF BoundaryOk, Bounded
<1>8. PICK w : w = setters'
  OBVIOUS
<1>9. Fields(bulk, q, w) /\ Filed(bulk, q) /\ Opens(hist, bulk, q, disturbed) /\ Closes(hist, bulk, q, disturbed)
  BY <1>3, <1>5, <1>6 DEF Fields, Filed, Opens, Closes
<1>10. ScopeInv(hist, bulk, q, w, imp, disturbed)
  BY <1>7, <1>9, IdleScopes
<1> QED  BY <1>1, <1>4, <1>8, <1>10

\* The worker stops.
LEMMA StopOnce ==
  ASSUME OnceInv, StopWorker
  PROVE  OnceInv'
<1> SUFFICES ASSUME ~moved' PROVE ScopeInv(hist', bulk', dev', setters', imp', disturbed')
  BY DEF OnceInv
<1>1. ~moved /\ imp' = NoImport /\ setters' = << >> /\ UNCHANGED <<hist, bulk, dev, disturbed>>
  BY DEF StopWorker, browser
<1>2. ScopeInv(hist, bulk, dev, setters, imp, disturbed)
  BY <1>1 DEF OnceInv
<1>3. PICK n, w : n = imp' /\ w = setters'
  OBVIOUS
<1>4. n.at = "idle" /\ DOMAIN w = {}
  BY <1>1, <1>3 DEF NoImport
<1>5. Fields(bulk, dev, w) /\ Filed(bulk, dev) /\ Opens(hist, bulk, dev, disturbed) /\ Closes(hist, bulk, dev, disturbed)
  BY <1>2, <1>4 DEF ScopeInv, Fields
<1>6. ScopeInv(hist, bulk, dev, w, n, disturbed)
  BY <1>4, <1>5, IdleScopes
<1> QED  BY <1>1, <1>3, <1>6

\* A visit comes after the boundary.
LEMMA VisitOnce ==
  ASSUME HistoryInv, OnceInv, NEW u \in Urls, NEW kind \in {"user", "frame", "replay"}, hist' = Visit(u, kind),
         UNCHANGED <<bulk, dev, setters, imp, disturbed, moved>>
  PROVE  OnceInv'
<1> SUFFICES ASSUME ~moved PROVE ScopeInv(hist', bulk, dev, setters, imp, disturbed)
  BY DEF OnceInv
<1>1. ScopeInv(hist, bulk, dev, setters, imp, disturbed) /\ Ranges(hist, dev, imp) /\ hist \in Seq(VisitRecord)
  BY RangesOf DEF OnceInv, Ranges
<1>2. PICK g, z : g = hist' /\ z = Now
  OBVIOUS
<1>3. /\ DOMAIN g = DOMAIN hist \union {z} /\ \A t \in DOMAIN hist : g[t] = hist[t]
  BY <1>1, <1>2, VisitFacts
<1>4. z \in Nat /\ dev.end \in Nat /\ dev.end <= z
  BY <1>1, <1>2 DEF HistoryInv, ImportInv, RecordOk, Now
<1>5. \A x, y \in Nat : y <= dev.end => VisOf(g, x, y) = Todo(hist, VisOf(hist, x, y), {})
  <2> SUFFICES ASSUME NEW x \in Nat, NEW y \in Nat, y <= dev.end PROVE VisOf(g, x, y) = VisOf(hist, x, y)
    BY DEF Todo
  <2>1. ~(z < y)
    BY <1>4
  <2> QED  BY <1>3, <2>1 DEF VisOf
<1>6. Moves(hist, g, {}, dev.end)
  BY <1>3, <1>5 DEF Moves
<1>7. ScopeInv(g, bulk, dev, setters, imp, disturbed)
  BY <1>1, <1>6, MovesScopes
<1> QED  BY <1>2, <1>7

LEMMA VisitsOnce ==
  ASSUME HistoryInv, OnceInv, (\E u \in Urls : UserVisit(u)) \/ AddUrl
  PROVE  OnceInv'
<1>1. CASE \E u \in Urls : UserVisit(u)
  <2>1. PICK u \in Urls : UserVisit(u)
    BY <1>1
  <2>2. hist' = Visit(u, "user") /\ UNCHANGED <<bulk, dev, setters, imp, disturbed, moved>>
    BY <2>1 DEF UserVisit, ghosts
  <2> QED  BY <2>2, VisitOnce
<1>2. CASE AddUrl
  <2>1. hist' = Visit(Head(play.todo), "replay") /\ UNCHANGED <<bulk, dev, setters, imp, disturbed, moved>>
    BY <1>2 DEF AddUrl, ghosts
  <2>2. play.todo \in Seq(Urls) /\ play.todo # << >>
    BY <1>2 DEF AddUrl, HistoryInv, ReplayInv, PlayOk
  <2>3. Head(play.todo) \in Urls
    BY <2>2, HeadTailProperties
  <2> QED  BY <2>1, <2>3, VisitOnce
<1> QED  BY <1>1, <1>2

\* A deletion takes a page whole.
LEMMA DeletePageOnce ==
  ASSUME HistoryInv, OnceInv, NEW u, DeletePage(u)
  PROVE  OnceInv'
<1> SUFFICES ASSUME ~moved PROVE ScopeInv(hist', bulk, dev, setters, imp, disturbed')
  BY DEF OnceInv, DeletePage
<1>1. ScopeInv(hist, bulk, dev, setters, imp, disturbed) /\ Ranges(hist, dev, imp) /\ hist \in Seq(VisitRecord)
  BY RangesOf DEF OnceInv, Ranges
<1>2. PICK g, f : g = hist' /\ f = disturbed'
  OBVIOUS
<1>3. /\ f = (disturbed \/ ScopeOpen)
      /\ g = [t \in DOMAIN hist |-> IF hist[t].url = u THEN [hist[t] EXCEPT !.gone = TRUE] ELSE hist[t]]
  BY <1>2 DEF DeletePage
<1>4. \A t \in DOMAIN hist : hist[t] \in VisitRecord
  <2>1. Len(hist) \in Nat /\ DOMAIN hist = 1 .. Len(hist)
    BY <1>1, FiniteTimes
  <2> QED  BY <1>1, <2>1, ElementOfSeq
<1>5. ASSUME NEW t \in DOMAIN hist
      PROVE  /\ g[t].url = hist[t].url /\ g[t].kind = hist[t].kind
             /\ g[t].gone = IF hist[t].url = u THEN TRUE ELSE hist[t].gone
  <2>1. hist[t] \in VisitRecord /\ g[t] = IF hist[t].url = u THEN [hist[t] EXCEPT !.gone = TRUE] ELSE hist[t]
    BY <1>3, <1>4
  <2> QED  BY <2>1 DEF VisitRecord
<1>6. \A x, y \in Nat : y <= dev.end => VisOf(g, x, y) = Todo(hist, VisOf(hist, x, y), {u})
  <2>1. DOMAIN g = DOMAIN hist
    BY <1>3
  <2> QED  BY <1>5, <2>1 DEF VisOf, Todo
<1>7. Moves(hist, g, {u}, dev.end)
  BY <1>3, <1>5, <1>6 DEF Moves
<1>8. ~f => ~disturbed /\ ~IsOpen(dev)
  BY <1>3 DEF ScopeOpen, IsOpen
<1>9. ~f => ~disturbed /\ (IsOpen(dev) => {u} = {})
  BY <1>8
<1>10. ScopeInv(g, bulk, dev, setters, imp, f)
  BY <1>1, <1>7, <1>9, MovesScopes
<1> QED  BY <1>2, <1>10

\* A scope as it opens, in full.
LEMMA ScopeOpens ==
  ASSUME NEW name, NEW cut, NEW end, NEW chunks, NEW visits, NEW n, n = Scope(name, cut, end, chunks, visits)
  PROVE  n.at = "begin" /\ n.scope = name /\ n.end = end /\ Begins(n, cut, chunks, visits)
BY DEF Scope, NoImport, Begins

LEMMA BeginOnce ==
  ASSUME HistoryInv, OnceInv, NEW c \in Cutoffs, BeginInitial(c) \/ BeginOlder(c)
  PROVE  OnceInv'
<1> SUFFICES ASSUME ~moved PROVE ScopeInv(hist, bulk, dev', setters, imp', disturbed)
  BY DEF OnceInv, BeginInitial, BeginOlder, browser, ghosts
<1>1. ScopeInv(hist, bulk, dev, setters, imp, disturbed) /\ Ranges(hist, dev, imp) /\ DOMAIN dev = DevFields /\ BoundaryOk
  BY RangesOf DEF OnceInv
<1>2. hist \in Seq(VisitRecord) /\ dev.cut \in Nat /\ c \in Nat /\ c # Never
  BY <1>1, SizesAssumption DEF Ranges, Never
<1>3. dev.end # Never
  BY <1>1 DEF BoundaryOk, Bounded, BeginInitial, BeginOlder
<1>4. PICK q, n, r : q = dev' /\ n = imp' /\ r = dev
  OBVIOUS
<1>5. CASE BeginInitial(c)
  <2>1. PICK k : /\ k = IF r.cut = Never THEN c ELSE r.cut
                 /\ q = [r EXCEPT !.cut = k] /\ n = Scope("initial", k, r.end, r.chunks, r.visits)
    BY <1>4, <1>5 DEF BeginInitial
  <2>2. Is(q, k, r.end, r.chunks, r.visits, r.oCut, r.oEnd, r.oChunks, r.oVisits, r.done)
    BY <1>1, <1>4, <2>1 DEF Is, DevFields
  <2>3. n.at = "begin" /\ n.scope = "initial" /\ n.end = r.end /\ Begins(n, k, r.chunks, r.visits)
    BY <2>1, ScopeOpens
  <2>4. ScopeInv(hist, bulk, r, setters, imp, disturbed) /\ r.end # Never /\ ~r.done
    BY <1>1, <1>3, <1>4, <1>5 DEF BeginInitial
  <2>5. ScopeInv(hist, bulk, q, setters, n, disturbed)
    BY <1>2, <2>1, <2>2, <2>3, <2>4, InitialBegins
  <2> QED  BY <1>4, <2>5
<1>6. CASE BeginOlder(c)
  <2>1. PICK k, e : /\ k = IF r.oCut = Never THEN c ELSE r.oCut
                    /\ e = IF r.oCut = Never THEN r.cut ELSE r.oEnd
                    /\ q = [r EXCEPT !.oCut = k, !.oEnd = e] /\ n = Scope("older", k, e, r.oChunks, r.oVisits)
    BY <1>4, <1>6 DEF BeginOlder
  <2>2. Is(q, r.cut, r.end, r.chunks, r.visits, k, e, r.oChunks, r.oVisits, r.done)
    BY <1>1, <1>4, <2>1 DEF Is, DevFields
  <2>3. n.at = "begin" /\ n.scope = "older" /\ n.end = e /\ Begins(n, k, r.oChunks, r.oVisits)
    BY <2>1, ScopeOpens
  <2>4. /\ ScopeInv(hist, bulk, r, setters, imp, disturbed) /\ r.end # Never /\ r.done /\ r.cut \in Nat
        /\ r.oCut # Never \/ (r.cut # Never /\ c < r.cut)
    BY <1>1, <1>2, <1>3, <1>4, <1>6 DEF BeginOlder
  <2>5. ScopeInv(hist, bulk, q, setters, n, disturbed)
    BY <1>2, <2>1, <2>2, <2>3, <2>4, OlderBegins
  <2> QED  BY <1>4, <2>5
<1> QED  BY <1>5, <1>6

LEMMA SkipInitialOnce ==
  ASSUME HistoryInv, OnceInv, SkipInitial
  PROVE  OnceInv'
<1> SUFFICES ASSUME ~moved PROVE ScopeInv(hist, bulk, dev', setters, imp, disturbed')
  BY DEF OnceInv, SkipInitial, browser
<1>1. ScopeInv(hist, bulk, dev, setters, imp, disturbed) /\ DOMAIN dev = DevFields /\ BoundaryOk
  BY RangesOf DEF OnceInv
<1>2. dev.end # Never /\ ~dev.done /\ imp.at = "idle"
  BY <1>1 DEF BoundaryOk, Bounded, SkipInitial
<1>3. PICK q, f : q = dev' /\ f = disturbed'
  OBVIOUS
<1>4. f = (disturbed \/ dev.cut # Never) /\ q = [dev EXCEPT !.done = TRUE]
  BY <1>3 DEF SkipInitial
<1>5. Is(q, dev.cut, dev.end, dev.chunks, dev.visits, dev.oCut, dev.oEnd, dev.oChunks, dev.oVisits, TRUE)
  BY <1>1, <1>4 DEF Is, DevFields
<1>6. ~f => ~disturbed /\ dev.cut = Never
  BY <1>4
<1>7. ScopeInv(hist, bulk, q, setters, imp, f)
  <2>1. PICK r, d : r = dev /\ d = disturbed
    OBVIOUS
  <2>2. Is(q, r.cut, r.end, r.chunks, r.visits, r.oCut, r.oEnd, r.oChunks, r.oVisits, q.done) /\ q.done
    BY <1>5, <2>1 DEF Is
  <2>3. ScopeInv(hist, bulk, r, setters, imp, d) /\ ~r.done /\ r.end # Never /\ imp.at = "idle"
    BY <1>1, <1>2, <2>1
  <2>4. GivenUp(r, d, f)
    BY <1>6, <2>1 DEF GivenUp
  <2> QED  BY <2>2, <2>3, <2>4, SkippedScopes
<1> QED  BY <1>3, <1>7

LEMMA WalkOnce ==
  ASSUME HistoryInv, OnceInv, Search \/ Resolve \/ Upload \/ Checkpoint \/ Finish \/ Stamp
  PROVE  OnceInv'
<1> SUFFICES ASSUME ~moved PROVE ScopeInv(hist', bulk', dev', setters', imp', disturbed')
  BY DEF OnceInv, Search, Resolve, Upload, Checkpoint, Finish, Stamp, ghosts
<1>1. ScopeInv(hist, bulk, dev, setters, imp, disturbed)
  BY DEF OnceInv
<1>2. Ranges(hist, dev, imp) /\ DOMAIN imp = ImportFields /\ DOMAIN dev = DevFields /\ ChunkTimes(bulk)
  BY RangesOf
<1>3. UNCHANGED <<hist, setters, disturbed>>
  BY DEF Search, Resolve, Upload, Checkpoint, Finish, Stamp, ghosts, browser
<1>4. CASE Search
  <2>1. ScopeInv(hist, bulk, dev, setters, imp', disturbed)
    BY <1>1, <1>2, <1>4, SearchScopes
  <2>2. UNCHANGED <<bulk, dev>>
    BY <1>4 DEF Search
  <2> QED  BY <1>3, <2>1, <2>2
<1>5. CASE Resolve
  <2>1. ScopeInv(hist, bulk, dev, setters, imp', disturbed)
    BY <1>1, <1>2, <1>5, ResolveScopes
  <2>2. UNCHANGED <<bulk, dev>>
    BY <1>5 DEF Resolve
  <2> QED  BY <1>3, <2>1, <2>2
<1>6. CASE Upload
  <2>1. ScopeInv(hist, bulk', dev, setters, imp', disturbed)
    BY <1>1, <1>2, <1>6, UploadScopes
  <2>2. UNCHANGED dev
    BY <1>6 DEF Upload
  <2> QED  BY <1>3, <2>1, <2>2
<1>7. CASE Checkpoint \/ Finish \/ Stamp
  <2>1. ScopeInv(hist, bulk, dev', setters, imp', disturbed)
    BY <1>1, <1>2, <1>7, CheckpointScopes, FinishScopes, StampScopes
  <2>2. UNCHANGED bulk
    BY <1>7 DEF Checkpoint, Finish, Stamp
  <2> QED  BY <1>3, <2>1, <2>2
<1> QED  BY <1>4, <1>5, <1>6, <1>7

LEMMA OnceStep ==
  ASSUME HistoryInv, OnceInv, [Next]_vars
  PROVE  OnceInv'
<1>1. CASE \E u \in Urls : UserVisit(u) \/ DeletePage(u)
  BY <1>1, VisitsOnce, DeletePageOnce
<1>2. CASE Hear
  BY <1>2, UntouchedOnce
<1>3. CASE Startup \/ PutBoundary("replay")
  BY <1>3, ReadersOnce, PutBoundaryOnce, UntouchedOnce DEF Startup
<1>4. CASE Import
  <2>1. CASE Search \/ Resolve \/ Upload \/ Checkpoint \/ Finish \/ Stamp
    BY <2>1, WalkOnce
  <2>2. CASE Restart
    BY <2>2, StopOnce DEF Restart
  <2>3. CASE \E c \in Cutoffs : BeginInitial(c)
    BY <2>3, BeginOnce
  <2> QED  BY <1>4, <2>1, <2>2, <2>3 DEF Import
<1>5. CASE SkipInitial
  BY <1>5, SkipInitialOnce
<1>6. CASE \E c \in Cutoffs : BeginOlder(c)
  BY <1>6, BeginOnce
<1>7. CASE BeginReplay \/ CheckKnown \/ AddUrl \/ ReturnAdd \/ SkipUrl
  BY <1>7, ReadersOnce, UntouchedOnce, VisitsOnce
<1>8. CASE Crash
  BY <1>8, StopOnce DEF Crash
<1>9. CASE UNCHANGED vars
  BY <1>9, UntouchedOnce
<1> QED  BY <1>1, <1>2, <1>3, <1>4, <1>5, <1>6, <1>7, <1>8, <1>9 DEF Next

LEMMA InitOnce ==
  ASSUME Init
  PROVE  OnceInv
<1>1. /\ imp = NoImport /\ setters = << >> /\ bulk = << >>
      /\ dev = [cut |-> Never, end |-> Never, chunks |-> 0, visits |-> 0,
                oCut |-> Never, oEnd |-> Never, oChunks |-> 0, oVisits |-> 0, done |-> FALSE]
  BY DEF Init
<1>2. /\ dev.cut = Never /\ dev.oCut = Never /\ ~dev.done /\ dev.chunks = 0 /\ dev.visits = 0
      /\ dev.oChunks = 0 /\ dev.oVisits = 0 /\ DOMAIN bulk = {} /\ DOMAIN setters = {} /\ imp.at = "idle"
  BY <1>1 DEF NoImport
<1>3. /\ Fields(bulk, dev, setters) /\ Filed(bulk, dev)
      /\ Opens(hist, bulk, dev, disturbed) /\ Closes(hist, bulk, dev, disturbed)
  BY <1>2 DEF Fields, Filed, Opens, Closes
<1>4. ScopeInv(hist, bulk, dev, setters, imp, disturbed)
  BY <1>2, <1>3, IdleScopes
<1> QED  BY <1>4 DEF OnceInv

(***************************************************************************)
(* What the chunks, the checkpoints and a walk say of each other, at every *)
(* step: a checkpoint counts what the chunks hold, a chunk holds the       *)
(* visits of its ranks, and a walk that skips what was sent has the next   *)
(* visit at its rank (bulk.ts, collectHistoryBulk, pushGroup and           *)
(* flushChunk).                                                            *)
(***************************************************************************)
THEOREM ScopesConsistent == Spec => []OnceInv
<1>1. Init => OnceInv
  BY InitOnce
<1>2. HistoryInv /\ OnceInv /\ [Next]_vars => OnceInv'
  BY OnceStep
<1> QED  BY <1>1, <1>2, HistoryConsistent, PTL DEF Spec

(***************************************************************************)
(* The import and the live capture upload every visit once, whatever the   *)
(* size of the pages and the chunks, the crashes, the failed uploads, the  *)
(* resumed scopes and the older passes (bulk.ts, collectHistoryBulk and    *)
(* enumerateVisits; history/index.ts, flushVisitEvents).                   *)
(***************************************************************************)
THEOREM ImportsExactlyOnceHolds == Spec => []ImportsExactlyOnce
<1>1. OnceInv /\ (~moved => (live \ early) \cap Imported = {}) => CountedOnce
  BY DEF OnceInv, ScopeInv, Filed, CountedOnce
<1>2. OnceInv => NothingMissed
  <2> SUFFICES ASSUME OnceInv, dev.done, dev.cut # Never, ~disturbed, ~moved, NEW u \in Urls
               PROVE  Shown(u, dev.cut, dev.end) \subseteq Imported
    BY DEF NothingMissed
  <2>1. InChunks(bulk, VisOf(hist, dev.cut, dev.end))
    BY DEF OnceInv, ScopeInv, Closes
  <2>2. Shown(u, dev.cut, dev.end) \subseteq VisOf(hist, dev.cut, dev.end)
    BY DEF Shown, At, VisOf
  <2> QED  BY <2>1, <2>2 DEF InChunks, Imported
<1>3. OnceInv /\ (~moved => (live \ early) \cap Imported = {}) => ImportsExactlyOnce
  BY <1>1, <1>2 DEF ImportsExactlyOnce
<1> QED  BY <1>3, ScopesConsistent, CapturedNotImported, PTL

================================================================================
