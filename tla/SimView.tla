------------------------------- MODULE SimView -------------------------------
(***************************************************************************)
(* The simulation canvas (sim-view, and the scene it draws): where each    *)
(* request's dot goes, what does not fit, which dot a click finds, the     *)
(* tracked analyst's path and the canvas's text alternative.               *)
(*                                                                         *)
(* The canvas repaints on a frame and on a resize; a click is answered     *)
(* from the dots of the last painting, whatever the store holds by then.   *)
(* Lengths are in tenths of a pixel, rounded down where a squeezed column  *)
(* pitch divides them; colours, fonts and labels are left out.             *)
(***************************************************************************)
EXTENDS Integers, Sequences, FiniteSets, SequencesExt

CONSTANTS
  Worlds,    \* what the index holds at each instant: [replicas, rows, detail, levels, turns]
  Events,    \* replica events in time order: [at, replica, state]
  Analysts,
  Sizes,     \* of the canvas, in pixels: <<width, height>>
  Reaches,   \* how far from a dot's centre, along each axis, a click may be
  None

VARIABLES
  view,      \* the store: [at, live, slow, tracked]
  size,
  scene,     \* the scene of the last frame
  layout,    \* the geometry last computed, and what for
  picture,   \* what the canvas shows
  summary    \* the text alternative

vars == <<view, size, scene, layout, picture, summary>>

Least(a, b) == IF a <= b THEN a ELSE b
Most(a, b) == IF a >= b THEN a ELSE b
Between(v, lo, hi) == Least(hi, Most(lo, v))
Round(a, b) == (2 * a + b) \div (2 * b)
Up(a, b) == (a + b - 1) \div b

----------------------------------------------------------------------------
(* The scene: requests in service by where they are, replica phases, and   *)
(* the tracked analyst's turns.                                            *)

DotState(code) == IF code \in {"atRouter", "waiting"} THEN "queued" ELSE code

\* The last event of a replica at or before t.
Phase(r, t) ==
  LET past == SelectSeq(Events, LAMBDA e : e.replica = r /\ e.at <= t)
  IN IF past = <<>> THEN "ready" ELSE Last(past).state

ByRequest(rows) == SortSeq(rows, LAMBDA a, b : a.request < b.request)
Dots(rows, who) ==
  LET s == ByRequest(rows)
  IN [i \in DOMAIN s |-> [request |-> s[i].request, analyst |-> s[i].analyst,
                          state |-> DotState(s[i].code), tracked |-> s[i].analyst = who]]
AtRouter(row) == row.code = "atRouter" \/ row.replica = None

SceneAt(v) ==
  LET w == Worlds[v.at]
      rows == IF v.slow /\ v.live /\ w.detail THEN w.rows ELSE <<>>
  IN [live |-> v.live, dots |-> v.slow /\ v.live /\ w.detail,
      atRouter |-> Dots(SelectSeq(rows, AtRouter), v.tracked),
      replicas |-> [r \in 1 .. w.replicas |->
        [state |-> Phase(r, v.at), running |-> w.levels[r].running, waiting |-> w.levels[r].waiting, kv |-> w.levels[r].kv,
         dots |-> Dots(SelectSeq(rows, LAMBDA x : ~AtRouter(x) /\ x.replica = r), v.tracked)]],
      tracked |-> IF v.tracked = None THEN None ELSE [analyst |-> v.tracked, turns |-> w.turns[v.tracked]]]

----------------------------------------------------------------------------
(* Geometry: the router, a link zone, and a lane per replica.              *)

Pad == 80
Pitch == 100
MinPitch == 50
MaxRows == 10
MinLaneH == 220

LaneGap(n) == IF n <= 2 THEN 80 ELSE IF n <= 4 THEN 60 ELSE 40

LaneInterior(r, x, y, w, h) ==
  LET numberLines == IF h >= 440 THEN 3 ELSE IF h >= 260 THEN 2 ELSE 1
      numbersW == Least(CASE numberLines = 1 -> 500 [] numberLines = 2 -> 1220 [] OTHER -> 800, w \div 5)
      tankX == x + w - 40 - numbersW - 60 - (IF h >= 600 THEN 140 ELSE 100)
      dotsX == x + 320
      dotsW == Most(0, tankX - 80 - dotsX)
      queueW == 10 * Round(dotsW * 42, 1000)
      top == IF h >= 560 THEN 140 ELSE 0
      rows == Between((h - 60 - top) \div Pitch, 1, MaxRows)
  IN [replica |-> r, x |-> x, y |-> y, w |-> w, h |-> h, rows |-> rows,
      queue |-> [x |-> dotsX, w |-> Most(0, queueW - 40)],
      batch |-> [x |-> dotsX + queueW + 40, w |-> Most(0, dotsW - queueW - 40)],
      rowTop |-> y + top + ((h - top - rows * Pitch) \div 2) + (Pitch \div 2)]

\* One column of lanes, or as many as keep a lane tall enough.
Columns(inner, n) ==
  LET tall(c) == inner - LaneGap(Up(n, c)) * (Up(n, c) - 1) >= MinLaneH * Up(n, c)
  IN IF n <= 1 THEN 1 ELSE CHOOSE c \in 1 .. n : /\ c = n \/ tall(c)
                                                 /\ \A b \in 1 .. c - 1 : ~tall(b)

ComputeLayout(s, n) ==
  LET inner == Most(0, 10 * s[2] - 2 * Pad)
      routerW == 10 * Round(Between(15 * s[1], 9600, 16800), 100)
      lanesX == Pad + routerW + 10 * Round(Between(64 * s[1], 36000, 72000), 1000)
      lanesW == Most(0, 10 * s[1] - Pad - lanesX)
      cols == Columns(inner, n)
      per == Up(n, cols)
      gap == LaneGap(per)
      colW == lanesW - 80 * (cols - 1)
      rowH == inner - gap * (per - 1)
      left(c) == 10 * Round(lanesX * cols + c * (colW + 80 * cols), 10 * cols)
      right(c) == 10 * Round(lanesX * cols + c * (colW + 80 * cols) + colW, 10 * cols)
      above(k) == 10 * Round(Pad * per + k * (rowH + gap * per), 10 * per)
      below(k) == 10 * Round(Pad * per + k * (rowH + gap * per) + rowH, 10 * per)
  IN [size |-> s, count |-> n, router |-> [x |-> Pad, y |-> Pad, w |-> routerW, h |-> inner],
      lanes |-> [r \in 1 .. n |-> LET c == (r - 1) \div per  k == (r - 1) % per
                                  IN LaneInterior(r, left(c), above(k), right(c) - left(c), below(k) - above(k))]]

\* Mutant: the kept geometry is not computed again for another fleet.
LayoutForSize(l, s, n) == IF l # None /\ l.size = s /\ l.count >= n THEN l ELSE ComputeLayout(s, n)
\* layoutFor: the geometry is kept while the canvas and the fleet stay.
LayoutFor(l, s, n) == IF l # None /\ l.size = s /\ l.count = n THEN l ELSE ComputeLayout(s, n)

----------------------------------------------------------------------------
(* Dots: a column-major grid from an anchored edge; what does not fit at   *)
(* the smallest pitch is counted in a "+N" at the far end.                 *)

FitGrid(n, area, rows, top, dir) ==
  LET cols == Up(n, rows)
      squeezed == cols * Pitch > area.w
      num == IF ~squeezed THEN Pitch ELSE IF area.w >= MinPitch * cols THEN area.w ELSE MinPitch
      den == IF squeezed /\ area.w >= MinPitch * cols THEN cols ELSE 1
      fit == (area.w * den) \div num
      shown == IF cols <= fit THEN n ELSE Least(n, Most(0, fit - Up(260 * den, num)) * rows)
  IN [x0 |-> IF dir = 1 THEN area.x ELSE area.x + area.w, dir |-> dir, num |-> num, den |-> den,
      rows |-> rows, top |-> top, shown |-> shown, overflow |-> n - shown]

GridX(g, k) == g.x0 + g.dir * ((g.num * (2 * (k \div g.rows) + 1)) \div (2 * g.den))
GridY(g, k) == g.top + (k % g.rows) * Pitch

RadiusOf == [queued |-> 25, prefill |-> 45, decode |-> 40, preempted |-> 45]
Hit(g, k, d) == [x |-> GridX(g, k), y |-> GridY(g, k), r |-> RadiusOf[d.state],
                 analyst |-> d.analyst, request |-> d.request, state |-> d.state]

\* How many of the dots before i are in one of these states.
Before(dots, i, states) == Cardinality({j \in 1 .. i - 1 : dots[j].state \in states})
Count(dots, states) == Cardinality({j \in DOMAIN dots : dots[j].state \in states})
Running == {"prefill", "decode"}

\* Mutant: queued requests are not placed behind the preempted ones.
PlaceFromHead(dots, i) ==
  IF dots[i].state \in Running THEN Before(dots, i, Running) ELSE Before(dots, i, {dots[i].state})
\* A dot's rank in its grid: preempted requests are at the head of the queue.
Place(dots, i) ==
  CASE dots[i].state \in Running -> Before(dots, i, Running)
    [] dots[i].state = "preempted" -> Before(dots, i, {"preempted"})
    [] OTHER -> Count(dots, {"preempted"}) + Before(dots, i, {"queued"})

\* drawDots: the dots that have a place, state by state.
Drawn(dots, grid, place) ==
  FlattenSeq([s \in 1 .. 4 |->
    LET state == <<"queued", "preempted", "prefill", "decode">>[s]
        of == SelectSeq([i \in DOMAIN dots |-> i], LAMBDA i : dots[i].state = state /\ place[i] < grid[i].shown)
    IN [k \in DOMAIN of |-> Hit(grid[of[k]], place[of[k]], dots[of[k]])]])

QueueGrid(dots, lane) == FitGrid(Len(dots) - Count(dots, Running), lane.queue, lane.rows, lane.rowTop, -1)
BatchGrid(dots, lane) == FitGrid(Count(dots, Running), lane.batch, lane.rows, lane.rowTop, 1)
LaneHits(dots, lane) ==
  Drawn(dots, [i \in DOMAIN dots |-> IF dots[i].state \in Running THEN BatchGrid(dots, lane) ELSE QueueGrid(dots, lane)],
        [i \in DOMAIN dots |-> Place(dots, i)])

RouterGrid(dots, router) ==
  FitGrid(Len(dots), [x |-> router.x + 60, w |-> router.w - 120], 2, router.y + 420, 1)
RouterHits(dots, router) ==
  Drawn(dots, [i \in DOMAIN dots |-> RouterGrid(dots, router)], [i \in DOMAIN dots |-> i - 1])

\* hitTest: the nearest dot in reach, the last drawn of two as near.
Far(h, x, y) == (x - h.x) * (x - h.x) + (y - h.y) * (y - h.y)
AnalystAt(hits, x, y) ==
  LET near == {i \in DOMAIN hits : Far(hits[i], x, y) <= (hits[i].r + 30) * (hits[i].r + 30)}
      best == {i \in near : \A j \in near : \/ Far(hits[i], x, y) < Far(hits[j], x, y)
                                            \/ (Far(hits[i], x, y) = Far(hits[j], x, y) /\ i >= j)}
  IN IF best = {} THEN None ELSE hits[CHOOSE i \in best : TRUE].analyst

----------------------------------------------------------------------------
(* The tracked analyst: the path to the latest turn's replica, a bracket   *)
(* from the previous turn's when it moved, and the recent turns as text.   *)

\* The same session's turn before the i-th, when it is the one listed before.
PreviousTurn(turns, i) ==
  IF i > 1 /\ turns[i].turn > 1 /\ turns[i - 1].turn = turns[i].turn - 1 THEN turns[i - 1] ELSE None

\* The replica it moved from, when that is known.
MovedFrom(turns, i) ==
  LET prev == PreviousTurn(turns, i)
  IN IF turns[i].moved /\ prev # None THEN (IF prev.replica # turns[i].replica THEN prev.replica ELSE None) ELSE None

NoPath == [to |-> None, from |-> None]
TrackedPath(sc) ==
  IF sc.tracked = None \/ sc.tracked.turns = <<>> THEN NoPath
  ELSE LET turns == sc.tracked.turns
           cur == Last(turns)
       IN IF cur.replica = None THEN NoPath
          ELSE [to |-> cur.replica, from |-> MovedFrom(turns, Len(turns))]

\* A line for each turn that fits under the router's header, newest last.
TrackedStrip(sc, router) ==
  IF sc.tracked = None THEN <<>>
  ELSE LET turns == sc.tracked.turns
           fit == Most(0, (Most(0, router.h - 660) - 180) \div 130)
           first == Most(0, Len(turns) - fit)
       IN [k \in 1 .. Len(turns) - first |->
             [turn |-> turns[first + k].turn, to |-> turns[first + k].replica,
              from |-> IF turns[first + k].replica = None THEN None ELSE MovedFrom(turns, first + k)]]

----------------------------------------------------------------------------
(* The picture and its text.                                               *)

\* The router still sends to a replica in this state.
SendsTo(state) == state \in {"ready", "crashed"}

\* What a lane shows: its outline, its loading bar, flow bars or dots.
LaneShows(v, sc) ==
  CASE v.state \in {"down", "crashed"} -> "outline"
    [] v.state \in {"loadingWeights", "initializingEngine"} -> "loading"
    [] v.state = "ready" /\ ~sc.dots -> "flow"
    [] OTHER -> "dots"

DrawScene(sc, l) ==
  LET shows == [r \in DOMAIN l.lanes |->
        IF ~sc.live THEN "quiet" ELSE IF r \in DOMAIN sc.replicas THEN LaneShows(sc.replicas[r], sc) ELSE "empty"]
  IN [size |-> l.size, shows |-> shows,
      active |-> {r \in DOMAIN l.lanes : sc.live /\ r \in DOMAIN sc.replicas /\ SendsTo(sc.replicas[r].state)},
      hits |-> IF ~sc.live THEN <<>>
               ELSE RouterHits(sc.atRouter, l.router)
                    \o FlattenSeq([r \in DOMAIN l.lanes |->
                         IF shows[r] = "dots" THEN LaneHits(sc.replicas[r].dots, l.lanes[r]) ELSE <<>>]),
      more |-> [r \in DOMAIN l.lanes |->
                  IF shows[r] # "dots" THEN 0
                  ELSE QueueGrid(sc.replicas[r].dots, l.lanes[r]).overflow
                       + BatchGrid(sc.replicas[r].dots, l.lanes[r]).overflow],
      atRouter |-> IF sc.live THEN RouterGrid(sc.atRouter, l.router).overflow ELSE 0,
      path |-> IF sc.live THEN TrackedPath(sc) ELSE NoPath,
      strip |-> IF sc.live THEN TrackedStrip(sc, l.router) ELSE <<>>]

\* The ready replica fullest of KV blocks, the first of equals.
Fullest(ready, replicas) ==
  IF ready = {} THEN None
  ELSE CHOOSE r \in ready : \A q \in ready :
         replicas[r].kv > replicas[q].kv \/ (replicas[r].kv = replicas[q].kv /\ r <= q)
Total(rs, level) == FoldLeft(LAMBDA n, r : n + level[r], 0, SetToSeq(rs))

DescribeScene(sc) ==
  LET ready == {r \in DOMAIN sc.replicas : sc.replicas[r].state = "ready"}
      turns == IF sc.tracked = None THEN <<>> ELSE sc.tracked.turns
  IN IF ~sc.live THEN [replicas |-> Len(sc.replicas)]
     ELSE [replicas |-> Len(sc.replicas), notReady |-> DOMAIN sc.replicas \ ready,
           fullest |-> Fullest(ready, sc.replicas),
           running |-> Total(ready, [r \in ready |-> sc.replicas[r].running]),
           waiting |-> Total(ready, [r \in ready |-> sc.replicas[r].waiting]),
           flow |-> ~sc.dots,
           where |-> IF turns = <<>> THEN None ELSE Last(turns).replica,
           from |-> IF turns = <<>> THEN None ELSE MovedFrom(turns, Len(turns))]

Visible(s) == s[1] > 0 /\ s[2] > 0

\* paint: nothing before the first scene, or on a canvas without a size.
Paint(sc, s) ==
  IF sc = None \/ ~Visible(s) THEN UNCHANGED <<layout, picture>>
  ELSE /\ layout' = LayoutFor(layout, s, Len(sc.replicas))
       /\ picture' = DrawScene(sc, layout')

----------------------------------------------------------------------------
Init ==
  /\ view = [at |-> 1, live |-> TRUE, slow |-> TRUE, tracked |-> None]
  /\ size \in Sizes
  /\ scene = None /\ layout = None /\ picture = None /\ summary = None

\* A frame of the store: the scene at the playhead, its picture and its text.
Frame ==
  /\ scene' = SceneAt(view)
  /\ Paint(scene', size)
  /\ summary' = DescribeScene(scene')
  /\ UNCHANGED <<view, size>>

Resize ==
  /\ \E s \in Sizes \ {size} : size' = s
  /\ Paint(scene, size')
  /\ UNCHANGED <<view, scene, summary>>

\* The playhead moves, the mode or the speed changes: drawn in a later frame.
Move ==
  /\ \/ \E t \in DOMAIN Worlds : view' = [view EXCEPT !.at = t]
     \/ view' = [view EXCEPT !.live = ~@]
     \/ view' = [view EXCEPT !.slow = ~@]
  /\ view' # view
  /\ UNCHANGED <<size, scene, layout, picture, summary>>

\* A click near a dot of the picture tracks the analyst found there.
Click ==
  /\ Visible(size) /\ picture # None
  /\ \E h \in Range(picture.hits), dx, dy \in Reaches :
       LET analyst == AnalystAt(picture.hits, h.x + dx, h.y + dy)
       IN view' = IF analyst = None THEN view ELSE [view EXCEPT !.tracked = analyst]
  /\ UNCHANGED <<size, scene, layout, picture, summary>>

\* The user stops tracking.
Untrack ==
  /\ view.tracked # None
  /\ view' = [view EXCEPT !.tracked = None]
  /\ UNCHANGED <<size, scene, layout, picture, summary>>

Next == Frame \/ Resize \/ Move \/ Click \/ Untrack
Spec == Init /\ [][Next]_vars

----------------------------------------------------------------------------
HitsOf(dots) == SelectSeq(picture.hits, LAMBDA h : \E i \in DOMAIN dots : dots[i].request = h.request)
In(h, area, lane) == /\ h.x >= area.x /\ h.x <= area.x + area.w
                     /\ h.y >= lane.y /\ h.y <= lane.y + lane.h

\* The canvas tells of one scene, that of the last frame, at its present
\* size: every request of a lane with dots is drawn once, in the queue or
\* the batch of its own replica's lane, or counted in a "+N"; a click on
\* the middle of any dot tracks the analyst whose request it is; no dot can
\* be clicked that the scene does not show; and the tracked turn's path and
\* bracket are those of the text (SimCanvas.tsx:48-100, draw-scene.ts:50-139,
\* dots.ts:40-132, hit-test.ts:70-99, describe.ts:14-82).
PictureTrue ==
  (scene # None /\ Visible(size)) =>
    LET l == ComputeLayout(size, Len(scene.replicas))
    IN /\ picture.size = size
       /\ DOMAIN picture.shows = DOMAIN scene.replicas
       /\ \A i \in DOMAIN picture.hits :
            AnalystAt(picture.hits, picture.hits[i].x, picture.hits[i].y) = picture.hits[i].analyst
       /\ \A r \in DOMAIN scene.replicas :
            LET v == scene.replicas[r]
                mine == HitsOf(v.dots)
            IN IF scene.dots /\ v.state = "ready"
               THEN /\ Len(mine) + picture.more[r] = Len(v.dots)
                    /\ \A i \in DOMAIN mine :
                         In(mine[i], IF mine[i].state \in Running THEN l.lanes[r].batch ELSE l.lanes[r].queue, l.lanes[r])
               ELSE mine = <<>>
       /\ Len(HitsOf(scene.atRouter)) + picture.atRouter = Len(scene.atRouter)
       /\ ~scene.dots => picture.hits = <<>>
       /\ scene.live => /\ picture.path.from = (IF summary.where = None THEN None ELSE summary.from)
                        /\ picture.path.to = summary.where
                        /\ summary.notReady = {r \in DOMAIN picture.shows : picture.shows[r] \in {"outline", "loading"}}
=============================================================================
