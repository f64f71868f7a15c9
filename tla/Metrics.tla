------------------------------ MODULE Metrics ------------------------------
(***************************************************************************)
(* The metrics module of the engine (src/engine/metrics) between the       *)
(* modules that publish notices and keep the shared meters, and the        *)
(* results index that its chunks are stored in.                            *)
(*                                                                         *)
(* The slice `m` accumulates an open bucket, moves it to the pending       *)
(* blocks when the runner closes a boundary (dropping or trimming quiet    *)
(* buckets outside the active window) and hands the pending blocks out as  *)
(* a chunk at the end of every advance.  The chunks reach the slot tables  *)
(* `scal` and `hist` of the index and the lists `rows`, `recs`, `events`.  *)
(* A fork cuts the index and continues from a checkpoint of the engine.    *)
(*                                                                         *)
(* Requests, replicas and meters are the environment: what they do is      *)
(* free, in the orders in which the engine's modules publish it.           *)
(* Series 0 is the fleet, series r is replica r; 0 also stands for "no     *)
(* replica".  A mean is held times Scale, so that it is a whole number.    *)
(***************************************************************************)
EXTENDS ResultSlots, FiniteSets, TLC

CONSTANTS
  Replicas,        \* number of replicas
  Requests,        \* number of requests
  Tracked,         \* requests of the tracked analyst
  BucketMs, HistMs,
  Minute,          \* what rates are taken over, in the status panel
  DayEnd, ShiftStart, ShiftEnd, FirstKnot, Margin,
  Scale,
  Attempt,         \* of each request: 0 for a first attempt, more for a retry
  Profiles         \* bounds of a behaviour: its recording detail, how many steps
                   \* the requests (the first `arrivals` of them), replicas, meters
                   \* and forks may take, at which instants, and where its advances end

ASSUME SizesAssumption ==
  /\ Replicas \in Nat \ {0} /\ Requests \in Nat
  /\ BucketMs \in Nat \ {0} /\ HistMs % BucketMs = 0 /\ DayEnd % HistMs = 0
  /\ \A k \in 1 .. Replicas * BucketMs : Scale % k = 0

R == 1 .. Replicas
Q == 1 .. Requests
Series == {0} \cup R
Never == -1

Counts == {"dispatched", "ttftSum", "ttftCount", "finished", "timedOut", "failed",
           "e2eSum", "e2eCount", "tpotSum", "tpotCount"}
FleetOnly == {"offered", "organic", "retries", "rejected", "abandoned", "ready"}
Scalars == Counts \cup FleetOnly \cup {"busyMs", "kvUsed", "kvMax", "outstanding"}
HistMetrics == {"ttft", "e2e", "tpot"}
Bin(v) == IF v < 2 THEN "low" ELSE "high"
Terminal == {"finished", "rejected", "timedOut", "failed"}

VARIABLES
  now,
  req,        \* the shared request table
  kv, out,    \* levels of the shared meters, per replica: KV used, outstanding
  busy,       \* cumulative busy time per replica
  abandoned,  \* cumulative abandoned sessions
  phase,      \* what each replica does: its last announced state, and stepping or not
  m,          \* the metrics slice
  scal, hist, \* the index: slot tables of the day
  shown,      \* the index: rows, records and replica events, in delivered order
  saved,      \* a checkpoint of the engine, or none
  past,       \* history: the environment during each instant
  peak,       \* history: the most KV each replica held in this instant
  trail,      \* history: the states each request went through
  left        \* bound: steps left of each kind, and the recording detail

meters == <<kv, out, busy, abandoned>>
index == <<scal, hist, shown>>
history == <<past, peak, trail>>
vars == <<now, req, meters, phase, m, index, saved, history, left>>

----------------------------------------------------------------------------
(* Levels (core/level.ts): integrated lazily, taken as a mean.             *)

CreateLevel(at, v) == [value |-> v, since |-> at, area |-> 0, max |-> v, opened |-> at]
AreaAt(l, at) == l.area + l.value * (at - l.since)
SetLevel(l, at, v) ==
  [l EXCEPT !.area = AreaAt(l, at), !.since = at, !.value = v, !.max = Max({l.max, v})]
MeanOf(l, at) ==
  IF at > l.opened THEN (Scale * AreaAt(l, at)) \div (at - l.opened) ELSE Scale * l.value
Taken(l, at) == CreateLevel(at, l.value)

----------------------------------------------------------------------------
(* The slice (slice.ts, pending.ts, quiet.ts).                             *)

NoScalars == [x \in Scalars |-> [j \in Series |-> 0]]
NoHists == [x \in HistMetrics |-> [j \in Series |-> [b \in {"low", "high"} |-> 0]]]
Quiet == [NoScalars EXCEPT !["ready"][0] = Scale * Replicas]

ClampDay(t) == Min({DayEnd, Max({0, t})})
ActiveFrom == ClampDay(Min({ShiftStart, FirstKnot}) - Margin)
ActiveTo == Max({ActiveFrom, ClampDay(ShiftEnd + Margin)})
InActiveWindow(start, end) == end > ActiveFrom /\ start < ActiveTo

Floor(t, width) == (t \div width) * width

\* Nothing pending, from the open buckets on: at init and after every chunk.
ResetPending(s, at) ==
  [s EXCEPT !.scal = [start |-> s.bucketStart, data |-> <<>>], !.scalNeeded = 0,
            !.hist = [start |-> s.histStart, data |-> <<>>], !.histNeeded = 0,
            !.rows = <<>>, !.recs = <<>>, !.events = <<>>, !.emittedTo = at]

CreateSlice ==
  [bucketStart |-> 0, histStart |-> 0, open |-> NoScalars, openHist |-> NoHists,
   scal |-> [start |-> 0, data |-> <<>>], scalNeeded |-> 0,
   hist |-> [start |-> 0, data |-> <<>>], histNeeded |-> 0,
   rows |-> <<>>, recs |-> <<>>, events |-> <<>>, emittedTo |-> 0,
   prevBusy |-> [r \in R |-> 0], prevAbandoned |-> 0,
   ready |-> R, readyCount |-> CreateLevel(0, Replicas),
   readyArea |-> [r \in R |-> 0], readyMs |-> [r \in R |-> 0],
   markMs |-> [r \in R |-> 0], markArea |-> [r \in R |-> 0],
   arrived |-> 0, ended |-> [o \in Terminal |-> 0],
   served |-> [r \in R |-> 0], servedE2e |-> [r \in R |-> 0], busyInShift |-> [r \in R |-> 0]]

----------------------------------------------------------------------------
(* The notice handlers (notices.ts), as functions of the slice and of the  *)
(* request table at the time of the notice.                                *)

AddBoth(s, x, r, v) ==
  [s EXCEPT !.open[x] = [j \in Series |-> IF j \in {0, r} THEN @[j] + v ELSE @[j]]]
HistBoth(s, x, r, v) ==
  [s EXCEPT !.openHist[x] =
     [j \in Series |-> IF j \in {0, r} THEN [@[j] EXCEPT ![Bin(v)] = @ + 1] ELSE @[j]]]

InScope(q) == left.detail = "all" \/ q \in Tracked
Row(t, q, st) == [at |-> now, request |-> q, replica |-> t[q].replica, state |-> st]
PushRow(s, t, q, st) == IF InScope(q) THEN [s EXCEPT !.rows = Append(@, Row(t, q, st))] ELSE s

\* First row of q among the rows of this instant, which are the last ones.
FirstRowNow(rows, q) ==
  Min({Len(rows) + 1} \cup
      {k \in DOMAIN rows : rows[k].request = q /\ \A j \in k .. Len(rows) : rows[j].at = now})

\* Mutant: the arrival row always goes last.
InsertArrivalLast(s, t, q) == PushRow(s, t, q, "atRouter")

\* A request may have ended inside the notice of its arrival, before this
\* handler sees it: its arrival row goes in front of its end row.
InsertArrival(s, t, q) ==
  IF ~InScope(q) THEN s
  ELSE IF t[q].st \notin Terminal THEN PushRow(s, t, q, "atRouter")
  ELSE [s EXCEPT !.rows = InsertAt(@, FirstRowNow(@, q), Row(t, q, "atRouter"))]

OnArrived(s, t, q) ==
  InsertArrival(
    [AddBoth(AddBoth(s, "offered", 0, 1),
             IF t[q].attempt = 0 THEN "organic" ELSE "retries", 0, 1)
       EXCEPT !.arrived = @ + 1], t, q)

OnDispatched(s, r) == AddBoth(s, "dispatched", r, 1)

OnFirstToken(s, t, q) ==
  LET r == t[q].replica
      ttft == t[q].first - t[q].arrive
  IN HistBoth(AddBoth(AddBoth(s, "ttftSum", r, ttft), "ttftCount", r, 1), "ttft", r, ttft)

OnFinished(s, r, e2e) ==
  LET counted == HistBoth(AddBoth(AddBoth(s, "e2eSum", r, e2e), "e2eCount", r, 1), "e2e", r, e2e)
  IN IF r = 0 THEN counted
     ELSE [counted EXCEPT !.served[r] = @ + 1, !.servedE2e[r] = @ + e2e]
OnTpot(s, r, tpot) ==
  HistBoth(AddBoth(AddBoth(s, "tpotSum", r, tpot), "tpotCount", r, 1), "tpot", r, tpot)

\* tpot needs a first token and two output tokens of a finished request.
OnLatencies(s, t, q) ==
  LET r == t[q].replica
      done == OnFinished(s, r, t[q].end - t[q].arrive)
  IN IF t[q].st # "finished" THEN s
     ELSE IF t[q].out >= 2 /\ t[q].first # Never
     THEN OnTpot(done, r, (t[q].end - t[q].first) \div (t[q].out - 1))
     ELSE done

OnEnded(s, t, q) ==
  LET outcome == t[q].st
      counted == [AddBoth(s, outcome, IF outcome = "rejected" THEN 0 ELSE t[q].replica, 1)
                    EXCEPT !.ended[outcome] = @ + 1]
      timed == OnLatencies(counted, t, q)
  IN IF ~InScope(q) THEN timed
     ELSE PushRow([timed EXCEPT !.recs = Append(@, [id |-> q, rec |-> t[q]])], t, q, outcome)

OnRequestState(s, t, q, st) ==
  IF st = "atRouter" \/ st \in Terminal THEN s ELSE PushRow(s, t, q, st)

\* The area of the replica's KV level while it was ready, up to `at`.
CloseReady(s, r, at) ==
  [s EXCEPT !.readyArea[r] = @ + AreaAt(kv[r], at) - s.markArea[r],
            !.readyMs[r] = @ + at - s.markMs[r]]
\* Mutant: a replica that rejoins within a bucket keeps its old mark.
OpenReadyUnmarked(s, r, at) == s
OpenReady(s, r, at) == [s EXCEPT !.markArea[r] = AreaAt(kv[r], at), !.markMs[r] = at]
SetReady(s, set) ==
  [s EXCEPT !.ready = set,
            !.readyCount = SetLevel(@, now, @.value + Cardinality(set) - Cardinality(s.ready))]

OnReplicaState(s, r, code) ==
  LET told == [s EXCEPT !.events = Append(@, [at |-> now, replica |-> r, state |-> code])]
  IN IF (r \in s.ready) = (code = "ready") THEN told
     ELSE IF r \in s.ready THEN SetReady(CloseReady(told, r, now), s.ready \ {r})
     ELSE SetReady(OpenReady(told, r, now), s.ready \cup {r})

----------------------------------------------------------------------------
(* Bucket ends (buckets.ts closeBucket), the meters exact to the boundary. *)

\* Mutant: the shift's end is ignored.
ShiftOverlapFrom(start, end) == Max({0, end - Max({start, ShiftStart})})
ShiftOverlap(start, end) == Max({0, Min({end, ShiftEnd}) - Max({start, ShiftStart})})

\* The stretches of readiness closed at the boundary.
ReadyArea(s, r, at) == s.readyArea[r] + IF r \in s.ready THEN AreaAt(kv[r], at) - s.markArea[r] ELSE 0
ReadyMs(s, r, at) == s.readyMs[r] + IF r \in s.ready THEN at - s.markMs[r] ELSE 0
SumOver(S, f(_)) == FoldSet(LAMBDA r, acc : f(r) + acc, 0, S)
FleetKv(s, at) ==
  LET ms == SumOver(R, LAMBDA r : ReadyMs(s, r, at))
  IN IF ms > 0 THEN (Scale * SumOver(R, LAMBDA r : ReadyArea(s, r, at))) \div ms ELSE 0

\* The open bucket with what the boundary adds to it from the meters.
Finished(s, meterBusy, at) ==
  LET spent(r) == meterBusy[r] - s.prevBusy[r]
      meter(x, r) == CASE x = "busyMs" -> spent(r)
                       [] x = "kvUsed" -> MeanOf(kv[r], at)
                       [] x = "kvMax" -> kv[r].max
                       [] x = "outstanding" -> MeanOf(out[r], at)
      fleet(x) == CASE x = "busyMs" -> SumOver(R, spent)
                    [] x = "kvUsed" -> FleetKv(s, at)
                    [] x = "kvMax" -> Max({0} \cup {kv[r].max : r \in R})
                    [] x = "outstanding" -> SumOver(R, LAMBDA r : MeanOf(out[r], at))
  IN [x \in Scalars |->
        CASE x = "ready" -> [s.open[x] EXCEPT ![0] = MeanOf(s.readyCount, at)]
          [] x = "abandoned" -> [s.open[x] EXCEPT ![0] = abandoned - s.prevAbandoned]
          [] x \in {"busyMs", "kvUsed", "kvMax", "outstanding"} ->
               [j \in Series |-> IF j = 0 THEN fleet(x) ELSE meter(x, j)]
          [] OTHER -> s.open[x]]

\* Mutant: any quiet bucket outside the active window is dropped at once.
PushBucketDropAny(pending, needed, bucket, isNeeded, end) ==
  IF ~isNeeded THEN [block |-> [pending EXCEPT !.start = end], needed |-> needed]
  ELSE [block |-> [pending EXCEPT !.data = Append(@, bucket)], needed |-> Len(pending.data) + 1]

\* A quiet bucket outside the active window is dropped when nothing needed
\* precedes it; else it is kept, for the chunk to trim if nothing follows.
PushBucket(pending, needed, bucket, isNeeded, end) ==
  IF ~isNeeded /\ pending.data = <<>>
  THEN [block |-> [pending EXCEPT !.start = end], needed |-> needed]
  ELSE [block |-> [pending EXCEPT !.data = Append(@, bucket)],
        needed |-> IF isNeeded THEN Len(pending.data) + 1 ELSE needed]

CloseScalars(s, bucket, meterBusy, at) ==
  LET isNeeded == InActiveWindow(s.bucketStart, at) \/ bucket # Quiet
      pushed == PushBucket(s.scal, s.scalNeeded, bucket, isNeeded, at)
  IN [s EXCEPT !.scal = pushed.block, !.scalNeeded = pushed.needed,
               !.open = NoScalars, !.bucketStart = at,
               !.prevBusy = meterBusy, !.prevAbandoned = abandoned,
               !.busyInShift = [r \in R |-> @[r] + (meterBusy[r] - s.prevBusy[r])
                                                   * ShiftOverlap(s.bucketStart, at)],
               !.readyArea = [r \in R |-> 0], !.readyMs = [r \in R |-> 0],
               !.markArea = [r \in R |-> 0], !.markMs = [r \in R |-> at],
               !.readyCount = Taken(@, at)]

CloseHists(s, at) ==
  LET isNeeded == InActiveWindow(s.histStart, at) \/ s.openHist # NoHists
      pushed == PushBucket(s.hist, s.histNeeded, s.openHist, isNeeded, at)
  IN IF at % HistMs # 0 THEN s
     ELSE [s EXCEPT !.hist = pushed.block, !.histNeeded = pushed.needed,
                    !.openHist = NoHists, !.histStart = at]

CloseBucket(s, meterBusy, at) ==
  CloseHists(CloseScalars(s, Finished(s, meterBusy, at), meterBusy, at), at)

----------------------------------------------------------------------------
(* Chunks (buckets.ts produceChunk) and what the index does with them.     *)

ProduceChunk(s) ==
  [from |-> s.emittedTo, to |-> now,
   scal |-> [s.scal EXCEPT !.data = SubSeq(@, 1, s.scalNeeded)],
   hist |-> [s.hist EXCEPT !.data = SubSeq(@, 1, s.histNeeded)],
   rows |-> s.rows, recs |-> s.recs, events |-> s.events]

AddChunk(chunk) ==
  /\ scal' = AddBlock(scal, BucketMs, chunk.scal, chunk.from, chunk.to)
  /\ hist' = AddBlock(hist, HistMs, chunk.hist, chunk.from, chunk.to)
  /\ shown' = [rows |-> shown.rows \o chunk.rows, recs |-> shown.recs \o chunk.recs,
               events |-> shown.events \o chunk.events]

\* Records are dropped by their end, rows and events by their time.
CutIndex(cut) ==
  /\ scal' = CutSlots(scal, BucketMs, cut)
  /\ hist' = CutSlots(hist, HistMs, cut)
  /\ shown' = [rows |-> SelectSeq(shown.rows, LAMBDA x : x.at < cut),
               recs |-> SelectSeq(shown.recs, LAMBDA x : x.rec.end < cut),
               events |-> SelectSeq(shown.events, LAMBDA x : x.at < cut)]

----------------------------------------------------------------------------
(* The status panel and the scene at an instant (playback/index/scene.ts), *)
(* read from the index.  A rate is held as <<sum, ms>>; Missing, and a level  *)
(* that is Never, are NaN.                                                 *)

Missing == <<>>
\* The bucket that holds t, and the first of the minute of buckets ending with it.
Around(t) ==
  LET g == t \div BucketMs IN [g |-> g, g0 |-> Max({0, g - Max({1, Minute \div BucketMs}) + 1})]
Present(from, g) == {i \in from .. g : ~IsMissing(scal, i)}
LevelAt(a, x, j) == IF IsMissing(scal, a.g) THEN Never ELSE ReadSlot(scal, a.g, Quiet)[x][j]
SumFrom(from, a, x, j) ==
  LET there == Present(from, a.g)
  IN <<FoldSet(LAMBDA g, acc : ReadSlot(scal, g, Quiet)[x][j] + acc, 0, there), Cardinality(there) * BucketMs>>
PerS(a, x, j) == LET rate == SumFrom(a.g0, a, x, j) IN IF rate[2] = 0 THEN Missing ELSE rate
SinceDayStart(a, x, j) == LET all == SumFrom(0, a, x, j) IN IF all[2] = 0 THEN Never ELSE all[1]

\* What a replica does, from its announced states; how far it is through a
\* loading one, of which nothing is known before the next is computed.
ReplicaPhase(r, t) ==
  LET before == SelectSeq(shown.events, LAMBDA e : e.replica = r /\ e.at <= t)
      after  == SelectSeq(shown.events, LAMBDA e : e.replica = r /\ e.at > t)
      state  == IF before = <<>> THEN "ready" ELSE Last(before).state
  IN [state |-> state,
      progress |-> IF state # "loading" THEN Missing
                   ELSE IF after = <<>> THEN <<0, 1>>
                   ELSE <<t - Last(before).at, after[1].at - Last(before).at>>]
ReplicaSnapshot(r, a, t) ==
  [phase |-> ReplicaPhase(r, t), kvUsed |-> LevelAt(a, "kvUsed", r), outstanding |-> LevelAt(a, "outstanding", r),
   dispatched |-> PerS(a, "dispatched", r), util |-> PerS(a, "busyMs", r)]
TtftBins(t) ==
  IF IsMissing(hist, t \div HistMs) THEN Missing ELSE ReadSlot(hist, t \div HistMs, NoHists)["ttft"][0]
Amplification(a) ==
  LET offered == SumFrom(a.g0, a, "offered", 0)
      organic == SumFrom(a.g0, a, "organic", 0)
  IN IF organic[1] > 0 THEN <<offered[1], organic[1]>>
     ELSE IF organic[2] > 0 /\ offered[1] = 0 THEN <<1, 1>> ELSE Missing
StatusAt(t) ==
  LET a == Around(t)
  IN [replicas |-> [r \in R |-> ReplicaSnapshot(r, a, t)],
      offered |-> PerS(a, "offered", 0), admitted |-> PerS(a, "dispatched", 0), rejected |-> PerS(a, "rejected", 0),
      finished |-> PerS(a, "finished", 0), amplification |-> Amplification(a),
      ttft |-> TtftBins(t), abandoned |-> SinceDayStart(a, "abandoned", 0)]

----------------------------------------------------------------------------
(* The engine's steps.                                                     *)

NoRequest == [st |-> "none", attempt |-> 0, replica |-> 0, arrive |-> Never, dispatch |-> Never,
              first |-> Never, end |-> Never, out |-> 0]

Init ==
  /\ now = 0
  /\ req = [q \in Q |-> NoRequest]
  /\ kv = [r \in R |-> CreateLevel(0, 0)]
  /\ out = [r \in R |-> CreateLevel(0, 0)]
  /\ busy = [r \in R |-> 0]
  /\ abandoned = 0
  /\ phase = [r \in R |-> [state |-> "ready", stepping |-> FALSE]]
  /\ m = CreateSlice
  /\ scal = EmptySlots(DayEnd \div BucketMs)
  /\ hist = EmptySlots(DayEnd \div HistMs)
  /\ shown = [rows |-> <<>>, recs |-> <<>>, events |-> <<>>]
  /\ saved = {}
  /\ past = <<>>
  /\ peak = [r \in R |-> 0]
  /\ trail = [q \in Q |-> <<>>]
  /\ left \in Profiles

Spend(kind) == left[kind] > 0 /\ left' = [left EXCEPT ![kind] = @ - 1]
\* The advance to the next of the profile's ends has not ended yet.
Running == now < DayEnd /\ (now \in left.ends => now = m.emittedTo)
Stepping == Running /\ now \in left.instants

\* Rewrites the row of q, and remembers the states it goes through.
Move(q, row, states) ==
  /\ req' = [req EXCEPT ![q] = row]
  /\ trail' = [trail EXCEPT ![q] = @ \o [k \in DOMAIN states |-> <<now, states[k], row.replica>>]]

RequestStep ==
  /\ Stepping /\ Spend("requests")
  /\ UNCHANGED <<now, kv, busy, abandoned, phase, index, saved, past, peak>>

MayArrive(q) ==
  q <= left.arrivals /\ req[q].st = "none" /\ \A p \in 1 .. q - 1 : req[p].st # "none"
Arrived(q) ==
  [NoRequest EXCEPT !.st = "atRouter", !.attempt = Attempt[q], !.arrive = now]

Arrive(q) ==
  /\ MayArrive(q)
  /\ Move(q, Arrived(q), <<"atRouter">>)
  /\ m' = OnArrived(m, req', q)
  /\ RequestStep /\ UNCHANGED out

\* The router rejects inside the notice of the arrival; the metrics module
\* is last, so it hears of the end first.
ArriveRejected(q) ==
  /\ MayArrive(q)
  /\ Move(q, [Arrived(q) EXCEPT !.st = "rejected", !.end = now], <<"atRouter", "rejected">>)
  /\ m' = OnArrived(OnEnded(OnRequestState(m, req', q, "rejected"), req', q), req', q)
  /\ RequestStep /\ UNCHANGED out

\* The router counts it outstanding, then publishes the dispatch.
Dispatch(q, r) ==
  /\ req[q].st = "atRouter" /\ phase[r].state = "ready"
  /\ Move(q, [req[q] EXCEPT !.st = "waiting", !.replica = r, !.dispatch = now], <<"waiting">>)
  /\ out' = [out EXCEPT ![r] = SetLevel(@, now, @.value + 1)]
  /\ m' = OnDispatched(OnRequestState(m, req', q, "waiting"), r)
  /\ RequestStep

\* A crash not yet detected: the replica ends the request inside the notice
\* of its dispatch, before the metrics module hears of the dispatch.
DispatchToDead(q, r) ==
  /\ req[q].st = "atRouter" /\ phase[r].state # "ready"
  /\ Move(q, [req[q] EXCEPT !.st = "failed", !.replica = r, !.dispatch = now, !.end = now], <<"failed">>)
  /\ out' = [out EXCEPT ![r] = SetLevel(SetLevel(@, now, @.value + 1), now, @.value)]
  /\ m' = OnDispatched(OnEnded(m, req', q), r)
  /\ RequestStep

\* Prefill, recompute after a preemption, decode again, or preemption.
ChangeState(q, st) ==
  /\ <<req[q].st, st>> \in {<<"waiting", "prefill">>, <<"preempted", "prefill">>,
                            <<"prefill", "decode">>, <<"decode", "preempted">>}
  /\ st = "decode" => req[q].first # Never
  /\ Move(q, [req[q] EXCEPT !.st = st], <<st>>)
  /\ m' = OnRequestState(m, req', q, st)
  /\ RequestStep /\ UNCHANGED out

FirstToken(q) ==
  /\ req[q].st = "prefill" /\ req[q].first = Never
  /\ Move(q, [req[q] EXCEPT !.st = "decode", !.first = now], <<"decode">>)
  /\ m' = OnRequestState(OnFirstToken(m, req', q), req', q, "decode")
  /\ RequestStep /\ UNCHANGED out

\* The router takes the request off the outstanding level before.
End(q, outcome, tokens) ==
  /\ req[q].st \notin Terminal \cup {"none"}
  /\ outcome = "finished" => req[q].st = "decode" /\ (tokens = 1 => req[q].first = now)
  /\ outcome # "finished" => tokens = 0
  /\ outcome = "failed" => req[q].replica # 0
  /\ Move(q, [req[q] EXCEPT !.st = outcome, !.end = now, !.out = tokens], <<outcome>>)
  /\ out' = [r \in R |-> IF r = req[q].replica THEN SetLevel(out[r], now, out[r].value - 1) ELSE out[r]]
  /\ m' = OnEnded(OnRequestState(m, req', q, outcome), req', q)
  /\ RequestStep

\* A crash, the detection, the recovery's phases, and the return.
ReplicaState(r, code) ==
  /\ Stepping /\ Spend("replicas")
  /\ <<phase[r].state, code>> \in {<<"ready", "crashed">>, <<"crashed", "loading">>, <<"loading", "ready">>}
  /\ phase' = [phase EXCEPT ![r] = [state |-> code, stepping |-> FALSE]]
  /\ kv' = [kv EXCEPT ![r] = IF code = "crashed" THEN SetLevel(@, now, 0) ELSE @]
  /\ m' = OnReplicaState(m, r, code)
  /\ UNCHANGED <<now, req, out, busy, abandoned, index, saved, history>>

MeterStep ==
  /\ Stepping /\ Spend("meters")
  /\ UNCHANGED <<now, req, out, busy, m, index, saved, past, trail>>

UseKv(r, v) ==
  /\ phase[r].state = "ready" /\ v # kv[r].value
  /\ kv' = [kv EXCEPT ![r] = SetLevel(@, now, v)]
  /\ peak' = [peak EXCEPT ![r] = Max({@, v})]
  /\ MeterStep /\ UNCHANGED <<phase, abandoned>>

StartOrStopSteps(r) ==
  /\ phase[r].state = "ready"
  /\ phase' = [phase EXCEPT ![r].stepping = ~@]
  /\ MeterStep /\ UNCHANGED <<kv, abandoned, peak>>

Abandon ==
  /\ abandoned' = abandoned + 1
  /\ MeterStep /\ UNCHANGED <<kv, phase, peak>>

\* A checkpoint of the engine, for a later fork: taken before anything
\* happens at the start of a histogram bucket of the shift.
Keep ==
  /\ saved = {} /\ left.forks > 0
  /\ now' % HistMs = 0 /\ ShiftStart <= now' /\ now' < ShiftEnd
  /\ saved' = {[now |-> now', req |-> req, kv |-> kv', out |-> out', busy |-> busy',
                abandoned |-> abandoned, phase |-> phase, m |-> m',
                past |-> past', peak |-> peak', trail |-> trail]}

\* Time passes; the boundary it reaches is closed before anything else
\* happens there, the steps in progress accrued up to it.
Tick ==
  /\ Running
  /\ now' = now + 1
  /\ busy' = [r \in R |-> busy[r] + IF phase[r].stepping THEN 1 ELSE 0]
  /\ past' = Append(past, [kv |-> [r \in R |-> kv[r].value], peak |-> peak,
                           state |-> [r \in R |-> phase[r].state],
                           busy |-> {r \in R : phase[r].stepping}, abandoned |-> abandoned])
  /\ peak' = [r \in R |-> kv[r].value]
  /\ IF now' % BucketMs = 0
     THEN /\ m' = CloseBucket(m, busy', now')
          /\ kv' = [r \in R |-> Taken(kv[r], now')]
          /\ out' = [r \in R |-> Taken(out[r], now')]
     ELSE UNCHANGED <<m, kv, out>>
  /\ Keep \/ UNCHANGED saved
  /\ UNCHANGED <<req, abandoned, phase, index, trail, left>>

\* An advance ends here: its chunk goes to the index.
Produce ==
  /\ now \in left.ends /\ now > m.emittedTo
  /\ AddChunk(ProduceChunk(m))
  /\ m' = ResetPending(m, now)
  /\ UNCHANGED <<now, req, meters, phase, saved, history, left>>

\* A fork at a time of that bucket: the engine is back at the bucket's start,
\* the chunk of the replay up to there is discarded, the index is cut there.
Fork ==
  \E c \in saved :
    /\ c.now < now /\ c.now <= m.emittedTo
    /\ now' = c.now /\ req' = c.req /\ phase' = c.phase
    /\ kv' = c.kv /\ out' = c.out /\ busy' = c.busy /\ abandoned' = c.abandoned
    /\ m' = ResetPending(c.m, c.now)
    /\ past' = c.past /\ peak' = c.peak /\ trail' = c.trail
    /\ CutIndex(c.now)
    /\ saved' = {}
    /\ left' = [left EXCEPT !.forks = @ - 1]

Next ==
  \/ \E q \in Q :
       \/ Arrive(q) \/ ArriveRejected(q)
       \/ \E r \in R : Dispatch(q, r) \/ DispatchToDead(q, r)
       \/ \E st \in {"prefill", "decode", "preempted"} : ChangeState(q, st)
       \/ FirstToken(q)
       \/ \E o \in Terminal \ {"rejected"}, n \in 0 .. 2 : End(q, o, n)
  \/ \E r \in R :
       \/ \E code \in {"crashed", "loading", "ready"} : ReplicaState(r, code)
       \/ \E v \in 0 .. 1 : UseKv(r, v)
       \/ StartOrStopSteps(r)
  \/ Abandon \/ Tick \/ Produce \/ Fork

Spec == Init /\ [][Next]_vars

----------------------------------------------------------------------------
(* Properties                                                              *)

During(at, from, width) == from <= at /\ at < from + width
SumOf(S, f(_)) == FoldSet(LAMBDA q, acc : f(q) + acc, 0, S)
Mean(f(_), from) == (Scale * SumOf(from .. from + BucketMs - 1, f)) \div BucketMs

\* Requests whose `field` falls in the bucket, of the fleet or of a replica.
Seen(field, j, from, width) ==
  {q \in Q : During(req[q][field], from, width) /\ j \in {0, req[q].replica}}
EndedAs(outcome, j, from, width) == {q \in Seen("end", j, from, width) : req[q].st = outcome}
Paced(j, from, width) == {q \in EndedAs("finished", j, from, width) : req[q].out >= 2}
Ttft(q) == req[q].first - req[q].arrive
E2e(q) == req[q].end - req[q].arrive
Tpot(q) == (req[q].end - req[q].first) \div (req[q].out - 1)
OutstandingAt(j, t) ==
  Cardinality({q \in Q : /\ req[q].dispatch # Never /\ req[q].dispatch <= t
                         /\ req[q].end = Never \/ req[q].end > t
                         /\ j \in {0, req[q].replica}})
At(t) == past[t + 1]
ReadyAt(t) == {r \in R : At(t).state[r] = "ready"}
KvHeldReady(from) ==
  LET ms == SumOf(from .. from + BucketMs - 1, LAMBDA t : Cardinality(ReadyAt(t)))
  IN IF ms = 0 THEN 0
     ELSE (Scale * SumOf(from .. from + BucketMs - 1,
                         LAMBDA t : SumOf(ReadyAt(t), LAMBDA r : At(t).kv[r]))) \div ms
Peak(r, from) == Max({IF from = 0 THEN 0 ELSE At(from - 1).kv[r]}
                     \cup {At(t).peak[r] : t \in from .. from + BucketMs - 1})
AbandonedBy(t) == IF t = 0 THEN 0 ELSE At(t - 1).abandoned

\* What happened in the bucket from `b`, from the history of the day.
FleetFact(x, b) ==
  CASE x = "offered" -> Cardinality({q \in Q : During(req[q].arrive, b, BucketMs)})
    [] x = "organic" -> Cardinality({q \in Q : During(req[q].arrive, b, BucketMs) /\ req[q].attempt = 0})
    [] x = "retries" -> Cardinality({q \in Q : During(req[q].arrive, b, BucketMs) /\ req[q].attempt > 0})
    [] x = "rejected" -> Cardinality(EndedAs("rejected", 0, b, BucketMs))
    [] x = "abandoned" -> AbandonedBy(b + BucketMs) - AbandonedBy(b)
    [] x = "ready" -> Mean(LAMBDA t : Cardinality(ReadyAt(t)), b)
    [] x = "busyMs" -> SumOf(b .. b + BucketMs - 1, LAMBDA t : Cardinality(At(t).busy))
    [] x = "kvUsed" -> KvHeldReady(b)
    [] x = "kvMax" -> Max({Peak(r, b) : r \in R})
ReplicaFact(x, r, b) ==
  CASE x \in FleetOnly -> 0
    [] x = "busyMs" -> Cardinality({t \in b .. b + BucketMs - 1 : r \in At(t).busy})
    [] x = "kvUsed" -> Mean(LAMBDA t : At(t).kv[r], b)
    [] x = "kvMax" -> Peak(r, b)
CountFact(x, j, b) ==
  CASE x = "dispatched" -> Cardinality(Seen("dispatch", j, b, BucketMs))
    [] x = "ttftSum" -> SumOf(Seen("first", j, b, BucketMs), Ttft)
    [] x = "ttftCount" -> Cardinality(Seen("first", j, b, BucketMs))
    [] x \in {"finished", "timedOut", "failed"} -> Cardinality(EndedAs(x, j, b, BucketMs))
    [] x = "e2eSum" -> SumOf(EndedAs("finished", j, b, BucketMs), E2e)
    [] x = "e2eCount" -> Cardinality(EndedAs("finished", j, b, BucketMs))
    [] x = "tpotSum" -> SumOf(Paced(j, b, BucketMs), Tpot)
    [] x = "tpotCount" -> Cardinality(Paced(j, b, BucketMs))
    [] x = "outstanding" -> Mean(LAMBDA t : OutstandingAt(j, t), b)
Fact(x, j, b) ==
  IF x \in Counts \cup {"outstanding"} THEN CountFact(x, j, b)
  ELSE IF j = 0 THEN FleetFact(x, b) ELSE ReplicaFact(x, j, b)
HistFact(x, j, b) ==
  LET values == CASE x = "ttft" -> [q \in Seen("first", j, b, HistMs) |-> Ttft(q)]
                  [] x = "e2e" -> [q \in EndedAs("finished", j, b, HistMs) |-> E2e(q)]
                  [] x = "tpot" -> [q \in Paced(j, b, HistMs) |-> Tpot(q)]
  IN [k \in {"low", "high"} |-> Cardinality({q \in DOMAIN values : Bin(values[q]) = k})]

\* Every bucket of the time that chunks cover can be read back from the index,
\* omitted or delivered, before and after a fork, and holds exactly what
\* happened in it: the counts of the requests, the differences of the
\* counters, the time-weighted means and maxima of the levels; and so do the
\* histograms, whose buckets close less often and outlive the chunks.  (Stated
\* where the index changes, at the end of an advance and at a fork.)
BucketsExact == now = m.emittedTo =>
  /\ \A g \in 0 .. (m.emittedTo \div BucketMs) - 1 :
       /\ ~IsMissing(scal, g)
       /\ LET bucket == ReadSlot(scal, g, Quiet)
          IN \A x \in Scalars, j \in Series : bucket[x][j] = Fact(x, j, g * BucketMs)
  /\ \A g \in 0 .. (m.emittedTo \div HistMs) - 1 :
       /\ ~IsMissing(hist, g)
       /\ LET bucket == ReadSlot(hist, g, NoHists)
          IN \A x \in HistMetrics, j \in Series : bucket[x][j] = HistFact(x, j, g * HistMs)

\* The rows and records shown, with those still pending, tell each recorded
\* request's story once and in order: its states as it went through them,
\* also when it ended in the notice of its own arrival, and one record, of
\* the request as it ended.  Nothing else is told.
RowsExact ==
  LET rows == shown.rows \o m.rows
      recs == shown.recs \o m.recs
  IN /\ \A q \in Q :
          LET mine == SelectSeq(rows, LAMBDA x : x.request = q)
              ends == SelectSeq(recs, LAMBDA x : x.id = q)
          IN IF ~InScope(q) THEN mine = <<>> /\ ends = <<>>
             ELSE /\ [k \in DOMAIN mine |-> <<mine[k].at, mine[k].state>>]
                       = [k \in DOMAIN trail[q] |-> <<trail[q][k][1], trail[q][k][2]>>]
                  /\ ends = IF req[q].st \in Terminal THEN <<[id |-> q, rec |-> req[q]]>> ELSE <<>>
     /\ \A k \in 2 .. Len(rows) : rows[k - 1].at <= rows[k].at

\* The assertions the engine runs after every event (invariants.ts), with the
\* ranges of the slice, and the checks of produceChunk: pending buckets run up
\* to the open ones and start in the span of the next chunk, so that no chunk
\* throws; requests are conserved; the ready level counts the ready replicas.
SliceHolds ==
  /\ m.open \in [Scalars -> [Series -> Nat]] /\ m.ready \subseteq R
  /\ m.scalNeeded \in 0 .. Len(m.scal.data) /\ m.histNeeded \in 0 .. Len(m.hist.data)
  /\ m.bucketStart = Floor(now, BucketMs) /\ m.histStart = Floor(now, HistMs)
  /\ m.scal.start + Len(m.scal.data) * BucketMs = m.bucketStart
  /\ m.hist.start + Len(m.hist.data) * HistMs = m.histStart
  /\ m.scal.start >= Floor(m.emittedTo, BucketMs)
  /\ m.hist.start >= Floor(m.emittedTo, HistMs)
  /\ \A x \in {"rows", "events"} : \A k \in DOMAIN m[x] : m.emittedTo <= m[x][k].at /\ m[x][k].at <= now
  /\ \A x \in FleetOnly, r \in R : m.open[x][r] = 0
  /\ m.readyCount.value = Cardinality(m.ready)
  /\ m.arrived - SumOf(Terminal, LAMBDA o : m.ended[o])
       = Cardinality({q \in Q : req[q].st \notin Terminal \cup {"none"}})

\* The status panel at any instant that was streamed shows the minute up to the
\* end of its bucket as it was, quiet buckets and the day's first minute too: the
\* requests that arrived, were sent, refused and finished in it, each replica's
\* state, and how far it was through a loading one; and nothing of what was not.
InMinute(q, field, a) == During(req[q][field], a.g0 * BucketMs, (a.g - a.g0 + 1) * BucketMs)
StatusOf(g) ==
  LET a == Around(g * BucketMs)
      status == StatusAt(g * BucketMs)
      minute == (a.g - a.g0 + 1) * BucketMs
      offered == {q \in Q : InMinute(q, "arrive", a)}
      organic == {q \in offered : req[q].attempt = 0}
  IN  IF (g + 1) * BucketMs > now
      THEN \A r \in R : status.replicas[r].kvUsed = Never /\ status.replicas[r].outstanding = Never
      ELSE /\ status.offered = <<Cardinality(offered), minute>>
           /\ status.admitted = <<Cardinality({q \in Q : InMinute(q, "dispatch", a)}), minute>>
           /\ status.finished = <<Cardinality({q \in Q : InMinute(q, "end", a) /\ req[q].st = "finished"}), minute>>
           /\ status.rejected = <<Cardinality({q \in Q : InMinute(q, "end", a) /\ req[q].st = "rejected"}), minute>>
           /\ status.amplification = IF organic # {} THEN <<Cardinality(offered), Cardinality(organic)>>
                                     ELSE IF offered = {} THEN <<1, 1>> ELSE Missing
           /\ status.abandoned = AbandonedBy((g + 1) * BucketMs)
           /\ \A r \in R :
                LET shows == status.replicas[r] IN
                /\ shows.util[1] = Cardinality({i \in a.g0 * BucketMs .. (g + 1) * BucketMs - 1 : r \in At(i).busy})
                /\ shows.kvUsed = Mean(LAMBDA i : At(i).kv[r], g * BucketMs)
PhaseOf(r, t) ==
  LET shows == ReplicaPhase(r, t)
  IN /\ shows.state = At(t).state[r]
     /\ shows.progress # Missing => shows.progress[1] \in 0 .. shows.progress[2] - 1
StatusExact == now = m.emittedTo =>
  /\ \A g \in 0 .. (DayEnd \div BucketMs) - 1 : StatusOf(g)
  /\ \A t \in 0 .. now - 1, r \in R : PhaseOf(r, t)

\* What a chunk carries, and what is left for the next, is exactly what happened,
\* and the status panel shows it.
RecorderExact == BucketsExact /\ RowsExact /\ StatusExact /\ SliceHolds

\* At the day's end the rollup of every replica is what it did: the requests
\* it finished and their total latency, and its busy time within the shift.
RollupExact ==
  now = DayEnd =>
    \A r \in R :
      /\ m.served[r] = Cardinality(EndedAs("finished", r, 0, DayEnd))
      /\ m.servedE2e[r] = SumOf(EndedAs("finished", r, 0, DayEnd), E2e)
      /\ m.busyInShift[r]
           = BucketMs * Cardinality({t \in ShiftStart .. ShiftEnd - 1 : r \in At(t).busy})
============================================================================
