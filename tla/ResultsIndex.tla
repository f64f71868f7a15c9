---------------------------- MODULE ResultsIndex ----------------------------
(***************************************************************************)
(* The results index of the playback store (src/playback/index): what it   *)
(* keeps of the chunks that arrive, what a fork cuts from it, and what the *)
(* canvas and the charts read from it.                                     *)
(*                                                                         *)
(* The worker is the environment: it streams every day's main chunks in    *)
(* order, answers detail windows and traces, and after a fork continues    *)
(* from the cut on another timeline, which agrees with the old one before  *)
(* it.  A fork and a `track` reach it at once; what it had posted before   *)
(* is still on the wire.  Instants are counted from the start of the day;  *)
(* replica 0 is the router.                                                *)
(*                                                                         *)
(* A chunk holds rows (transitions [at, q, st, rep]) and recs (request     *)
(* records [q, ..., end]), each in time order.  A source is a chunk and    *)
(* the part of it that forks have left.  A dot stream is a contiguous run  *)
(* of sources in time order: every row opens a segment, which ends at the  *)
(* request's next row, or is open (Infinity) while that is not known.      *)
(***************************************************************************)
EXTENDS ResultSlots, TLC

CONSTANTS
  WeekDays,        \* number of days
  DayEnd,          \* length of a day, a multiple of BucketMs
  BucketMs, HistMs,
  Requests,        \* number of requests of a day
  Analysts,
  AnalystOf,       \* request -> analyst
  Timelines,       \* day -> the set of its possible timelines: request -> rows
  ChunkEnds,       \* where main chunks may end
  Windows,         \* detail windows the client may ask for
  MaxDetails,      \* detail windows kept
  ForkPoints,      \* <<day, instant>> where the user may fork
  Scopes,          \* recording detail of the main stream
  WireBound,       \* messages on the wire
  Bounds,          \* number of forks, detail requests and tracks of a behaviour
  Charts,          \* what charts are drawn of: <<from, to, columns>> of the week
  Infinity,        \* later than any instant
  SnapshotEvery    \* rows between two snapshots of the open segments

ASSUME ShapeAssumption ==
  /\ DayEnd % BucketMs = 0 /\ HistMs % BucketMs = 0
  /\ \A d \in 0 .. WeekDays - 1 : \A tl \in Timelines[d] : \A q \in 1 .. Requests :
       \A k \in DOMAIN tl[q] : /\ tl[q][k].at \in 0 .. DayEnd - 1
                                /\ k > 1 => tl[q][k - 1].at <= tl[q][k].at

Terminal == {"finished", "rejected", "timedOut", "failed"}

\* The elements of S in ascending order.
InOrder(S, less(_, _)) == SortSeq(FoldSet(LAMBDA x, acc : Append(acc, x), <<>>, S), less)

----------------------------------------------------------------------------
(* Sources                                                                 *)

MakeSource(chunk) ==
  [chunk |-> chunk, from |-> chunk.from, to |-> chunk.to,
   rows |-> Len(chunk.rows), recs |-> Len(chunk.recs)]

\* First position in 1 .. n whose key is not below t, less one.
Below(n, key(_), t) == Cardinality({p \in 1 .. n : key(p) < t})

\* The fork cut: rows at the cut or later and records ending then are dropped.
TrimSource(src, cut) ==
  [src EXCEPT !.rows = Below(src.rows, LAMBDA p : src.chunk.rows[p].at, cut),
              !.recs = Below(src.recs, LAMBDA p : src.chunk.recs[p].end, cut),
              !.to = Min({src.to, cut})]

IsAllScope(chunk) == chunk.scope = "all"

\* The sources split time among them: source i has t if it covers t and no
\* earlier one in the list does.
Covers(src, t) == src.from <= t /\ t < src.to
\* Mutant: every source that covers t tells of it.
OwnsToo(sources, i, t) == Covers(sources[i], t)

Owns(sources, i, t) == Covers(sources[i], t) /\ \A j \in 1 .. i - 1 : ~Covers(sources[j], t)

\* Of the sources in time order, those whose range meets [from, to).
Overlapping(sorted, from, to) == SelectSeq(sorted, LAMBDA s : s.to > from /\ s.from < to)

----------------------------------------------------------------------------
(* Dot streams                                                             *)

CreateDotStream ==
  [sources |-> <<>>, base |-> <<>>, len |-> <<>>, total |-> 0, end |-> <<>>,
   open |-> <<>>, snaps |-> <<>>, sinceSnap |-> 0]

StreamFrom(s) == IF s.sources = <<>> THEN Infinity ELSE s.sources[1].from
StreamTo(s) == IF s.sources = <<>> THEN -1 ELSE Last(s.sources).to

SourceOf(s, g) == Max({i \in DOMAIN s.base : s.base[i] < g})
RowOf(s, g) == LET i == SourceOf(s, g) IN s.sources[i].chunk.rows[g - s.base[i]]

\* The ends of the segments once the first n rows of src, the last of s's
\* sources, and its records that end before `before` are walked: a segment
\* ends at its request's next row or record, a terminal row's at once.
EndOf(old, row, times) ==
  IF old # Infinity THEN old
  ELSE IF row.st \in Terminal THEN row.at
  ELSE IF times = {} THEN Infinity ELSE Min(times)
SegmentEnds(s, src, n, before) ==
  [g \in 1 .. s.total + n |->
     LET row == IF g <= s.total THEN RowOf(s, g) ELSE src.chunk.rows[g - s.total]
     IN EndOf(IF g <= s.total THEN s.end[g] ELSE Infinity, row,
              {src.chunk.rows[p].at : p \in {k \in 1 .. n : k + s.total > g /\ src.chunk.rows[k].q = row.q}}
                \cup {src.chunk.recs[k].end : k \in {j \in 1 .. src.recs :
                         src.chunk.recs[j].q = row.q /\ src.chunk.recs[j].end < before}})]

\* A snapshot every so many rows: the segments open at that row.
SnapshotAt(s, src, p) ==
  LET at == src.chunk.rows[p].at
  IN [pos |-> s.total + p, at |-> at,
      open |-> LET end == SegmentEnds(s, src, p, at) IN {g \in DOMAIN end : end[g] > at}]

OpenOf(s) ==
  LET still == {g \in 1 .. s.total : s.end[g] = Infinity}
  IN [q \in {RowOf(s, g).q : g \in still} |-> Max({g \in still : RowOf(s, g).q = q})]

AppendSource(s, src) ==
  LET every == SelectSeq([p \in 1 .. src.rows |-> p], LAMBDA p : (s.sinceSnap + p) % SnapshotEvery = 0)
      grown == [s EXCEPT !.sources = Append(@, src), !.base = Append(@, s.total), !.len = Append(@, src.rows),
                         !.total = @ + src.rows, !.end = SegmentEnds(s, src, src.rows, Infinity),
                         !.snaps = @ \o [k \in DOMAIN every |-> SnapshotAt(s, src, every[k])],
                         !.sinceSnap = (@ + src.rows) % SnapshotEvery]
  IN [grown EXCEPT !.open = OpenOf(grown)]

StreamOf(sources) == FoldLeft(AppendSource, CreateDotStream, sources)

\* Mutant: segments closed by discarded rows stay closed.
ReopenedNever(end, cut) == end

Reopened(end, cut) == [g \in DOMAIN end |-> IF end[g] >= cut THEN Infinity ELSE end[g]]

\* The fork cut on a stream; CreateDotStream when nothing is left of it.
\* Segments that discarded rows closed are open again.
CutStream(s, kept, total, cut) ==
  LET snaps == SelectSeq(s.snaps, LAMBDA x : x.pos <= total)
      cutBack == [s EXCEPT !.sources = kept, !.base = SubSeq(@, 1, Len(kept)),
                           !.len = [SubSeq(@, 1, Len(kept)) EXCEPT ![Len(kept)] = Last(kept).rows],
                           !.total = total, !.end = Reopened(SubSeq(@, 1, total), cut),
                           !.snaps = snaps,
                           !.sinceSnap = total - (IF snaps = <<>> THEN 0 ELSE Last(snaps).pos)]
  IN [cutBack EXCEPT !.open = OpenOf(cutBack)]
TruncateStream(s, cut) ==
  LET below == SelectSeq(s.sources, LAMBDA x : x.from < cut)
      kept == [i \in DOMAIN below |-> TrimSource(below[i], cut)]
  IN IF kept = <<>> THEN CreateDotStream
     ELSE IF \E i \in 1 .. Len(kept) - 1 : kept[i].rows # s.len[i] THEN StreamOf(kept)
     ELSE CutStream(s, kept, s.base[Len(kept)] + Last(kept).rows, cut)

\* The segments of requests in a live state at t: of the open ones of the
\* latest snapshot, and of the rows from there up to t.
ActiveAt(s, t) ==
  LET n == Below(Len(s.snaps), LAMBDA k : s.snaps[k].at, t + 1)
      pos == IF n = 0 THEN 0 ELSE s.snaps[n].pos
      scanned == {g \in pos + 1 .. s.total : \A h \in pos + 1 .. g : RowOf(s, h).at <= t}
      seen == scanned \cup IF n = 0 THEN {} ELSE s.snaps[n].open
  IN {g \in seen : s.end[g] > t}

----------------------------------------------------------------------------
Days == 0 .. WeekDays - 1
Q == 1 .. Requests
Never == -1
Missing == -1

VARIABLES
  scope,      \* recording detail of the run
  truth,      \* the timeline of every day at the current revision
  worker,     \* how far each day is streamed, the tracked analyst, traces to do
  wire,       \* messages on their way to the client
  revision, cuts,    \* the client's revision and the cuts of its forks
  tracked,    \* the analyst the client tracks
  days,       \* the index: each day's chunks, streams, details and trace
  scal,       \* the index: each day's slot table (here: arrivals per bucket)
  detailOrder,       \* the index: detail windows in the order of arrival
  left        \* bound: forks, details and tracks to come

vars == <<scope, truth, worker, wire, revision, cuts, tracked, days, scal, detailOrder, left>>

----------------------------------------------------------------------------
(* What the engine records of a timeline.                                  *)

RowAt(tl, q, state) == {k \in DOMAIN tl[q] : tl[q][k].st = state}
FirstAt(tl, q, state) == IF RowAt(tl, q, state) = {} THEN Never ELSE tl[q][Min(RowAt(tl, q, state))].at
Ended(tl, q) == tl[q] # <<>> /\ Last(tl[q]).st \in Terminal
RecordOf(tl, q) ==
  [q |-> q, arrive |-> tl[q][1].at, dispatch |-> FirstAt(tl, q, "waiting"),
   first |-> FirstAt(tl, q, "decode"), end |-> Last(tl[q]).at,
   outcome |-> Last(tl[q]).st, rep |-> Last(tl[q]).rep]

\* The state of a request at t, before the events of t when `before`.
Reached(tl, q, t, before) == {k \in DOMAIN tl[q] : tl[q][k].at < t \/ (~before /\ tl[q][k].at = t)}
LiveAt(tl, t, before) ==
  {q \in Q : Reached(tl, q, t, before) # {} /\ tl[q][Max(Reached(tl, q, t, before))].st \notin Terminal}

InScope(sc, analyst) == {q \in Q : sc = "all" \/ AnalystOf[q] = analyst}

\* The rows of a request's story in [from, to), as a chunk has them.
RowsIn(tl, qs, from, to) ==
  LET picked == {x \in UNION {{<<tl[q][k].at, q, k>> : k \in DOMAIN tl[q]} : q \in qs} :
                   from <= x[1] /\ x[1] < to}
      order(a, b) == \/ a[1] < b[1]
                     \/ a[1] = b[1] /\ a[2] < b[2]
                     \/ a[1] = b[1] /\ a[2] = b[2] /\ a[3] < b[3]
      sorted == InOrder(picked, order)
  IN [i \in DOMAIN sorted |->
        [at |-> sorted[i][1], q |-> sorted[i][2],
         st |-> tl[sorted[i][2]][sorted[i][3]].st, rep |-> tl[sorted[i][2]][sorted[i][3]].rep]]

RecsIn(tl, qs, from, to) ==
  InOrder({r \in {RecordOf(tl, q) : q \in {p \in qs : Ended(tl, p)}} : from <= r.end /\ r.end < to},
               LAMBDA a, b : a.end < b.end \/ (a.end = b.end /\ a.q < b.q))

\* Rows that place the requests in flight at a detail window's start.
InFlight(tl, from) ==
  LET live == InOrder(LiveAt(tl, from, TRUE), LAMBDA a, b : a < b)
      row(q) == tl[q][Max(Reached(tl, q, from, TRUE))]
  IN [i \in DOMAIN live |-> [at |-> from, q |-> live[i], st |-> row(live[i]).st, rep |-> row(live[i]).rep]]

\* The buckets of a main chunk, without the quiet ones at its edges.
Arrivals(tl, from, to) == Cardinality({q \in Q : tl[q] # <<>> /\ from <= tl[q][1].at /\ tl[q][1].at < to})
BlockOf(tl, from, to) ==
  LET busy == {g \in from \div BucketMs .. (to \div BucketMs) - 1 : Arrivals(tl, g * BucketMs, (g + 1) * BucketMs) > 0}
  IN IF busy = {} THEN [start |-> from, data |-> <<>>]
     ELSE [start |-> Min(busy) * BucketMs,
           data |-> [i \in 1 .. Max(busy) - Min(busy) + 1 |->
                       Arrivals(tl, (Min(busy) + i - 1) * BucketMs, (Min(busy) + i) * BucketMs)]]

Recorded(tl, sc, analyst, from, to) ==
  [from |-> from, to |-> to, scope |-> sc,
   rows |-> RowsIn(tl, InScope(sc, analyst), from, to),
   recs |-> RecsIn(tl, InScope(sc, analyst), from, to)]
Window(tl, from, to) ==
  LET chunk == Recorded(tl, "all", Never, from, to)
  IN [chunk EXCEPT !.rows = InFlight(tl, from) \o @]

----------------------------------------------------------------------------
(* One day of the index (day.ts).                                          *)

CreateDay == [main |-> <<>>, mainStreams |-> <<>>, details |-> <<>>, trace |-> {}]

\* The next chunk of the day joins the stream that ends where it starts.
\* (Chunks of a day arrive in order.)
AddMainChunk(dd, chunk) ==
  LET src == MakeSource(chunk)
      joins == dd.mainStreams # <<>> /\ dd.main # <<>>
               /\ Last(Last(dd.mainStreams).sources) = Last(dd.main) /\ Last(dd.main).to = src.from
  IN [dd EXCEPT !.main = Append(@, src),
        !.mainStreams = IF ~IsAllScope(chunk) THEN @
                        ELSE IF joins THEN Front(@) \o <<AppendSource(Last(@), src)>>
                        ELSE Append(@, AppendSource(CreateDotStream, src))]

AddDetailChunk(dd, chunk, id) ==
  [dd EXCEPT !.details =
     Append(@, [id |-> id, src |-> MakeSource(chunk),
                stream |-> IF IsAllScope(chunk) THEN {AppendSource(CreateDotStream, MakeSource(chunk))}
                           ELSE {}])]

SetTrace(dd, chunk) == [dd EXCEPT !.trace = {MakeSource(chunk)}]

Truncated(streams, cut) ==
  LET cutStreams == [i \in DOMAIN streams |-> TruncateStream(streams[i], cut)]
  IN SelectSeq(cutStreams, LAMBDA s : s.sources # <<>>)

CutDay(dd, cut) ==
  LET kept(sources) == SelectSeq(sources, LAMBDA s : s.from < cut)
      details == SelectSeq(dd.details, LAMBDA e : e.src.from < cut)
  IN [main |-> LET left_ == kept(dd.main) IN [i \in DOMAIN left_ |-> TrimSource(left_[i], cut)],
      mainStreams |-> Truncated(dd.mainStreams, cut),
      details |-> [i \in DOMAIN details |->
                     [id |-> details[i].id, src |-> TrimSource(details[i].src, cut),
                      stream |-> {s \in {TruncateStream(x, cut) : x \in details[i].stream} : s.sources # <<>>}]],
      trace |-> {TrimSource(s, cut) : s \in {x \in dd.trace : x.from < cut}}]

\* The streams whose scope-'all' rows cover t, in order of preference.
DotStreamAt(dd, t) ==
  LET mains == SelectSeq(dd.mainStreams, LAMBDA s : StreamFrom(s) <= t /\ t < StreamTo(s))
      windows == {i \in DOMAIN dd.details :
                    dd.details[i].stream # {} /\ dd.details[i].src.from <= t /\ t < dd.details[i].src.to}
  IN IF mains # <<>> THEN {mains[1]}
     ELSE IF windows # {} THEN dd.details[Max(windows)].stream ELSE {}

\* Mutant: the newest detail windows are not asked, the trace speaks for them.
RecordSourcesNoDetails(dd, from, to) == SetToSeq(dd.trace) \o Overlapping(dd.main, from, to)

RecordSources(dd, from, to) ==
  LET near == Overlapping(dd.main, from, to)
      windows == SelectSeq(Reverse(dd.details),
                           LAMBDA e : IsAllScope(e.src.chunk) /\ e.src.from < to /\ e.src.to > from)
  IN SelectSeq(near, LAMBDA s : s.chunk.scope = "all") \o [i \in DOMAIN windows |-> windows[i].src]
       \o SetToSeq(dd.trace) \o SelectSeq(near, LAMBDA s : s.chunk.scope = "tracked")

\* Mutant: the main stream speaks first, also for the analyst before.
TrackedSourcesMainFirst(dd) == dd.main \o SetToSeq(dd.trace)

TrackedSources(dd) == SetToSeq(dd.trace) \o dd.main

----------------------------------------------------------------------------
(* Queries (dots.ts, scene.ts, records.ts, series.ts).                     *)

\* The dots of the scene, if there is per-request detail at t.
SceneAt(d, t) ==
  {[dots |-> [g \in ActiveAt(s, t) |->
                [q |-> RowOf(s, g).q, st |-> RowOf(s, g).st,
                 rep |-> IF RowOf(s, g).st = "atRouter" THEN 0 ELSE RowOf(s, g).rep,
                 from |-> RowOf(s, g).at, until |-> s.end[g]]],
    known |-> s.sources[Len(s.sources)].to] : s \in DotStreamAt(days[d], t)}

\* The records whose request ended in [from, to), each from the source that
\* owns that instant.
PointsOf(sources, from, to) ==
  UNION {{<<i, k>> : k \in {p \in 1 .. sources[i].recs :
            LET end == sources[i].chunk.recs[p].end IN from <= end /\ end < to /\ Owns(sources, i, end)}}
         : i \in DOMAIN sources}
RequestPoints(d, from, to) == PointsOf(RecordSources(days[d], from, to), from, to)

\* What the sources of the tracked analyst tell of a request up to t: its
\* record, and its rows as <<at, position, row>>.
ToldBy(sources, q, t) ==
  [rec |-> UNION {{r \in Range(SubSeq(sources[i].chunk.recs, 1, sources[i].recs)) :
                     r.q = q /\ r.arrive <= t /\ Owns(sources, i, r.end)} : i \in DOMAIN sources},
   rows |-> UNION {{<<sources[i].chunk.rows[k].at, k, sources[i].chunk.rows[k]>> : k \in
                     {j \in 1 .. sources[i].rows : LET x == sources[i].chunk.rows[j]
                        IN x.q = q /\ x.at <= t /\ Owns(sources, i, x.at)}} : i \in DOMAIN sources}]
Told(sources, q, t) ==
  LET told == ToldBy(sources, q, t)
  IN [rec |-> told.rec,
      last |-> {x[3] : x \in {y \in told.rows : \A z \in told.rows :
                                z[1] < y[1] \/ (z[1] = y[1] /\ z[2] <= y[2])}},
      times |-> {x[1] : x \in told.rows},
      decoded |-> {x[1] : x \in {y \in told.rows : y[3].st = "decode"}}]

\* The state shown of a request (stateOf): a record that has ended speaks
\* first, then the last row, then the record's instants.
ShownState(told, t) ==
  LET rec == CHOOSE r \in told.rec : TRUE
      row == CHOOSE x \in told.last : TRUE
  IN IF told.rec # {} /\ rec.end <= t THEN [st |-> rec.outcome, rep |-> rec.rep]
     ELSE IF told.last # {} THEN [st |-> row.st, rep |-> IF row.st = "atRouter" THEN 0 ELSE row.rep]
     ELSE IF rec.dispatch = Never \/ rec.dispatch > t THEN [st |-> "atRouter", rep |-> 0]
     ELSE [st |-> IF rec.first # Never /\ rec.first <= t THEN "decode" ELSE "prefill", rep |-> rec.rep]

TrackedView(d, analyst, t) ==
  LET told == [q \in {p \in Q : AnalystOf[p] = analyst} |-> Told(TrackedSources(days[d]), q, t)]
      seen == {q \in DOMAIN told : told[q].rec # {} \/ told[q].last # {}}
      shown(x) ==
        LET first == IF x.rec # {} THEN (CHOOSE r \in x.rec : TRUE).first
                     ELSE IF x.decoded # {} THEN Min(x.decoded) ELSE Never
        IN [state |-> ShownState(x, t),
            arrive |-> IF x.rec # {} THEN (CHOOSE r \in x.rec : TRUE).arrive ELSE Min(x.times),
            first |-> IF first <= t THEN first ELSE Never]
  IN [q \in seen |-> shown(told[q])]

\* The smallest step that covers the window in at most `columns` points that
\* start at its multiples.  (For steps below 32 buckets the search adds one.)
ChooseGrid(from, to, columns) ==
  LET points(k) == (to - (from \div (k * BucketMs)) * k * BucketMs + k * BucketMs - 1) \div (k * BucketMs)
      k == CHOOSE k \in 1 .. WeekDays * DayEnd :
             points(k) <= columns /\ \A j \in 1 .. k - 1 : points(j) > columns
  IN [t0 |-> (from \div (k * BucketMs)) * k * BucketMs, n |-> points(k), step |-> k * BucketMs]

\* The buckets of global slots [g0, g1) that are present, omitted ones as 0.
SlotsPerDay == DayEnd \div BucketMs
PresentIn(g0, g1) ==
  {g \in g0 .. g1 - 1 : g \div SlotsPerDay \in Days /\ ~IsMissing(scal[g \div SlotsPerDay], g % SlotsPerDay)}
BucketValue(g) == ReadSlot(scal[g \div SlotsPerDay], g % SlotsPerDay, 0)

\* A chart series of a summed metric; Missing where no bucket is present.
SumOf(slots) == IF slots = {} THEN Missing ELSE FoldSet(LAMBDA g, acc : BucketValue(g) + acc, 0, slots)
ScalarSeries(grid) ==
  LET per == grid.step \div BucketMs
      first == grid.t0 \div BucketMs
  IN [i \in 1 .. grid.n |->
        [t |-> grid.t0 + (i - 1) * grid.step,
         v |-> SumOf(PresentIn(first + (i - 1) * per, first + i * per))]]

----------------------------------------------------------------------------
(* The store (store.ts) and the client's rules for older data (forks.ts).  *)

CutIndex(ds, sc, c) ==
  [days |-> [d \in Days |-> IF d = c.day THEN CutDay(ds[d], c.cut)
                            ELSE IF c.lasting /\ d > c.day THEN CreateDay ELSE ds[d]],
   scal |-> [d \in Days |-> IF d = c.day THEN CutSlots(sc[d], BucketMs, c.cut)
                            ELSE IF c.lasting /\ d > c.day THEN EmptySlots(SlotsPerDay) ELSE sc[d]]]

Held(ds) == UNION {{ds[d].details[i].id : i \in DOMAIN ds[d].details} : d \in Days}

\* Index with the message's chunk, then the cuts of newer forks over it.
Stored(msg, id) ==
  LET dd == days[msg.day]
      added == CASE msg.kind = "chunk" -> AddMainChunk(dd, msg.chunk)
                 [] msg.kind = "detail" -> AddDetailChunk(dd, msg.chunk, id)
                 [] msg.kind = "trace" -> SetTrace(dd, msg.chunk)
      slots == IF msg.kind = "chunk"
               THEN AddBlock(scal[msg.day], BucketMs, msg.block, msg.chunk.from, msg.chunk.to)
               ELSE scal[msg.day]
      over == {c \in cuts : c.rev > msg.rev /\ c.day = msg.day /\ msg.chunk.to > c.cut}
      cut == Min({c.cut : c \in over})
      ds == [days EXCEPT ![msg.day] = added]
      sc == [scal EXCEPT ![msg.day] = slots]
  IN IF over = {} THEN [days |-> ds, scal |-> sc]
     ELSE CutIndex(ds, sc, [day |-> msg.day, cut |-> cut, lasting |-> FALSE])

Invalidates(c, msg) ==
  (c.lasting /\ msg.day > c.day) \/ (msg.day = c.day /\ msg.chunk.from >= c.cut)
Dropped(msg) ==
  \/ \E c \in cuts : c.rev > msg.rev /\ Invalidates(c, msg)
  \/ msg.kind = "trace" /\ msg.analyst # tracked

\* The oldest detail windows go when there are too many.
DropOldDetails(order, ds) ==
  LET gone == {order[i] : i \in 1 .. Len(order) - MaxDetails}
  IN [d \in Days |-> [ds[d] EXCEPT !.details = SelectSeq(@, LAMBDA e : e.id \notin gone)]]

Receive ==
  LET msg == Head(wire)
      id == 1 + Max({0} \cup Range(detailOrder))
      stored == Stored(msg, id)
      order == IF msg.kind = "detail" THEN Append(detailOrder, id) ELSE detailOrder
      newest == SubSeq(order, Len(order) - MaxDetails + 1, Len(order))
  IN /\ wire # <<>> /\ wire' = Tail(wire)
     /\ IF Dropped(msg) THEN UNCHANGED <<days, scal, detailOrder>>
        ELSE /\ days' = DropOldDetails(order, stored.days)
             /\ scal' = stored.scal
             /\ detailOrder' = IF Len(order) > MaxDetails THEN newest ELSE order
     /\ UNCHANGED <<scope, truth, worker, revision, cuts, tracked, left>>

----------------------------------------------------------------------------
(* The worker and the user.                                                *)

Post(msg) == wire' = Append(wire, msg)

StreamChunk(d, to) ==
  LET from == worker.sent[d]
  IN /\ to \in ChunkEnds /\ to > from /\ Len(wire) < WireBound
     /\ Post([kind |-> "chunk", rev |-> revision, day |-> d, analyst |-> Never,
              chunk |-> Recorded(truth[d], scope, worker.tracked, from, to),
              block |-> BlockOf(truth[d], from, to)])
     /\ worker' = [worker EXCEPT !.sent[d] = to]
     /\ UNCHANGED <<scope, truth, revision, cuts, tracked, days, scal, detailOrder, left>>

\* The client asks for a window that is computed; the worker replays it.
AnswerDetail(d, w) ==
  /\ left.details > 0 /\ scope = "tracked" /\ Len(wire) < WireBound
  /\ days[d].main # <<>> /\ w[2] <= Last(days[d].main).to /\ w[2] <= worker.sent[d]
  /\ Post([kind |-> "detail", rev |-> revision, day |-> d, analyst |-> Never,
           chunk |-> Window(truth[d], w[1], w[2]), block |-> BlockOf(truth[d], 0, 0)])
  /\ left' = [left EXCEPT !.details = @ - 1]
  /\ UNCHANGED <<scope, truth, worker, revision, cuts, tracked, days, scal, detailOrder>>

\* The worker goes on with the new analyst, and owes a trace of the past.
Track(analyst) ==
  /\ left.tracks > 0 /\ analyst # tracked
  /\ tracked' = analyst
  /\ worker' = [worker EXCEPT !.tracked = analyst,
                  !.traces = IF scope = "all" THEN {}
                             ELSE {[day |-> d, to |-> worker.sent[d]] : d \in {e \in Days : worker.sent[e] > 0}}]
  /\ left' = [left EXCEPT !.tracks = @ - 1]
  /\ UNCHANGED <<scope, truth, wire, revision, cuts, days, scal, detailOrder>>

AnswerTrace(job) ==
  /\ job \in worker.traces /\ Len(wire) < WireBound
  /\ Post([kind |-> "trace", rev |-> revision, day |-> job.day, analyst |-> worker.tracked,
           chunk |-> Recorded(truth[job.day], "tracked", worker.tracked, 0, job.to),
           block |-> BlockOf(truth[job.day], 0, 0)])
  /\ worker' = [worker EXCEPT !.traces = @ \ {job}]
  /\ UNCHANGED <<scope, truth, revision, cuts, tracked, days, scal, detailOrder, left>>

Agree(a, b, cut) == \A q \in Q : SelectSeq(a[q], LAMBDA x : x.at < cut) = SelectSeq(b[q], LAMBDA x : x.at < cut)

\* The user forks at `at`: the day is cut at the start of its histogram
\* bucket; a lasting patch also invalidates the later days.
Fork(d, at, lasting) ==
  LET cut == (at \div HistMs) * HistMs
      c == [rev |-> revision + 1, day |-> d, cut |-> cut, lasting |-> lasting]
      gone(e) == lasting /\ e > d
  IN /\ left.forks > 0
     /\ left' = [left EXCEPT !.forks = @ - 1]
     /\ revision' = revision + 1
     /\ cuts' = cuts \cup {c}
     /\ truth' \in [Days -> UNION {Timelines[e] : e \in Days}]
     /\ \A e \in Days : /\ truth'[e] \in Timelines[e]
                        /\ Agree(truth'[e], truth[e], IF e = d THEN cut ELSE IF gone(e) THEN 0 ELSE DayEnd)
     /\ days' = CutIndex(days, scal, c).days
     /\ scal' = CutIndex(days, scal, c).scal
     /\ detailOrder' = SelectSeq(detailOrder, LAMBDA id : id \in Held(days'))
     /\ worker' = [worker EXCEPT
          !.sent = [e \in Days |-> IF e = d THEN Min({@[e], cut}) ELSE IF gone(e) THEN 0 ELSE @[e]],
          !.traces = {t \in {[j EXCEPT !.to = IF j.day = d THEN Min({@, cut}) ELSE @] : j \in @} :
                        t.to > 0 /\ ~gone(t.day)}]
     /\ UNCHANGED <<scope, wire, tracked>>

Truths == {t \in [Days -> UNION {Timelines[d] : d \in Days}] : \A d \in Days : t[d] \in Timelines[d]}
Init ==
  /\ scope \in Scopes
  /\ truth \in Truths
  /\ tracked = CHOOSE a \in Analysts : \A b \in Analysts : a <= b
  /\ worker = [sent |-> [d \in Days |-> 0], tracked |-> tracked, traces |-> {}]
  /\ wire = <<>> /\ revision = 0 /\ cuts = {}
  /\ days = [d \in Days |-> CreateDay]
  /\ scal = [d \in Days |-> EmptySlots(SlotsPerDay)]
  /\ detailOrder = <<>>
  /\ left \in Bounds

Next ==
  \/ Receive
  \/ \E d \in Days :
       \/ \E to \in ChunkEnds : StreamChunk(d, to)
       \/ \E w \in Windows : AnswerDetail(d, w)
  \/ \E p \in ForkPoints, lasting \in BOOLEAN : Fork(p[1], p[2], lasting)
  \/ \E a \in Analysts : Track(a)
  \/ \E job \in worker.traces : AnswerTrace(job)

Spec == Init /\ [][Next]_vars

----------------------------------------------------------------------------
(* Properties                                                              *)

HeldTo(d) == IF days[d].main = <<>> THEN 0 ELSE Last(days[d].main).to

\* The canvas shows the current timeline: wherever the index has per-request
\* detail, the dots are the requests in flight there, each once, in its state
\* and on its replica, and a dot's progress runs to its next change if the
\* data reach that far; also after forks whose cut discarded the rows that had
\* closed a segment, and for windows that start amid requests.  A run that
\* records every request has dots wherever its main stream has arrived.
DotsCurrent == \A d \in Days, t \in 0 .. DayEnd - 1 :
  /\ scope = "all" /\ t < HeldTo(d) => SceneAt(d, t) # {}
  /\ \A scene \in SceneAt(d, t) :
       LET live == LiveAt(truth[d], t, FALSE)
           row(q) == truth[d][q][Max(Reached(truth[d], q, t, FALSE))]
           later(q) == {k \in DOMAIN truth[d][q] : truth[d][q][k].at > t /\ truth[d][q][k].at < scene.known}
       IN /\ Cardinality(DOMAIN scene.dots) = Cardinality(live)
          /\ \A q \in live : \E g \in DOMAIN scene.dots :
               /\ scene.dots[g].q = q /\ scene.dots[g].st = row(q).st
               /\ scene.dots[g].rep = (IF row(q).st = "atRouter" THEN 0 ELSE row(q).rep)
               /\ scene.dots[g].until
                    = IF later(q) = {} THEN Infinity ELSE truth[d][q][Min(later(q))].at

\* Every request whose end the index has is one point of the charts, once,
\* whichever of main chunks, windows and trace overlap there, and it is the
\* request of the current timeline.
CoveredAt(d, t) ==
  \/ scope = "all" /\ t < HeldTo(d)
  \/ \E i \in DOMAIN days[d].details : Covers(days[d].details[i].src, t)
PointsRight(d, from, to, sources, points) ==
  LET rec(x) == sources[x[1]].chunk.recs[x[2]]
  IN /\ \A x \in points :
          /\ Ended(truth[d], rec(x).q) /\ rec(x) = RecordOf(truth[d], rec(x).q)
          /\ \A y \in points : rec(x).q = rec(y).q => x = y
     /\ \A q \in Q : Ended(truth[d], q) =>
          LET end == RecordOf(truth[d], q).end
          IN from <= end /\ end < to /\ CoveredAt(d, end) => \E x \in points : rec(x).q = q
PointsOnce == \A d \in Days, from \in 0 .. DayEnd - 2 :
  PointsRight(d, from, DayEnd, RecordSources(days[d], from, DayEnd), RequestPoints(d, from, DayEnd))

Settled == worker.traces = {} /\ \A i \in DOMAIN wire : wire[i].kind # "trace"

\* The tracked analyst's requests: never one that had not arrived; and once
\* no trace is owed, at every time that the main stream covers, exactly those
\* that had arrived, in their states, with the first token of those that had
\* one, although the data before and after a change of analyst come from
\* different sources.
TrackedCurrent == \A d \in Days, t \in 0 .. DayEnd - 1 :
  t < HeldTo(d) =>
    LET view == TrackedView(d, tracked, t)
        mine == {q \in Q : AnalystOf[q] = tracked /\ Reached(truth[d], q, t, FALSE) # {}}
        row(q) == truth[d][q][Max(Reached(truth[d], q, t, FALSE))]
    IN /\ \A q \in DOMAIN view : q \in mine
       /\ Settled => /\ DOMAIN view = mine
                     /\ \A q \in mine :
                          /\ view[q].state = [st |-> row(q).st,
                                              rep |-> IF row(q).st = "atRouter" THEN 0 ELSE row(q).rep]
                          /\ view[q].arrive = truth[d][q][1].at
                          /\ view[q].first = (IF FirstAt(truth[d], q, "decode") > t THEN Never
                                              ELSE FirstAt(truth[d], q, "decode"))

\* All that is shown of single requests is current: the dots, the points of the
\* charts, and the tracked analyst's requests.
RequestsCurrent == DotsCurrent /\ PointsOnce /\ TrackedCurrent

\* A chart of any window at any width: at most a point per column, points on
\* multiples of one step that cover the window, each the sum over the buckets
\* that are held, omitted ones counted as empty, and a gap only where none is.
HeldAt(t) == t \div DayEnd \in Days /\ t % DayEnd < HeldTo(t \div DayEnd)
ArrivedIn(a, b) ==
  Cardinality({x \in Days \X Q :
    /\ truth[x[1]][x[2]] # <<>>
    /\ LET t == x[1] * DayEnd + truth[x[1]][x[2]][1].at IN a <= t /\ t < b /\ HeldAt(t)})
Drawn(chart, grid) ==
  /\ grid.n <= chart[3] /\ grid.t0 % grid.step = 0
  /\ grid.t0 <= chart[1] /\ chart[2] <= grid.t0 + grid.n * grid.step
  /\ \A p \in Range(ScalarSeries(grid)) :
       p.v = IF \A t \in p.t .. p.t + grid.step - 1 : ~HeldAt(t) THEN Missing
             ELSE ArrivedIn(p.t, p.t + grid.step)
SeriesExact == \A chart \in Charts : Drawn(chart, ChooseGrid(chart[1], chart[2], chart[3]))
=============================================================================
