------------------------------ MODULE EngineHost ------------------------------
(***************************************************************************)
(* The engine worker (worker/host.ts, days.ts, jobs.ts, checkpoints.ts):   *)
(* it computes the days of a week in chunks, most urgent work first, keeps *)
(* checkpoints, and on a fork streams again from the cut.  Messages are    *)
(* handled between units of work.                                          *)
(*                                                                         *)
(* Left open: which chunks are shortened (after a fork, and around the     *)
(* focus time), and which checkpoints of the other days fit the byte       *)
(* budget.  The scenarios are those of 'tracked' detail; under 'all',      *)
(* details are answered empty and no trace is needed.                      *)
(***************************************************************************)
EXTENDS WorkerProtocol

CONSTANT CheckpointEvery \* buckets between checkpoints of the focus day

VARIABLE host  \* the run in progress, or None before init

(* What a run in progress is made of. *)
DayRuns == [now : 0..Buckets, applied : Revs, patches : SUBSET Patch, analyst : Analyst]
Checkpoints == [now : 0..Buckets, applied : Revs]
Slots == [to : 0..Buckets, run : DayRuns \cup {None}, complete : BOOLEAN,
          checkpoints : SUBSET Checkpoints, densify : BOOLEAN, densifyRun : DayRuns \cup {None}]
DetailJobs == [tag : Nat, day : Day, from : Bucket, to : 0..Buckets,
               run : DayRuns \cup {None}, results : ResultSets]
TraceJobs == [day : Day, analyst : Analyst, to : 1..Buckets,
              run : DayRuns \cup {None}, results : ResultSets]
HostRuns == [run : Nat, rev : Revision, patches : SUBSET Patch, tracked : Analyst,
             focus : Day \X Bucket, prefetch : Day \cup {None}, slot : [Day -> Slots],
             details : SUBSET DetailJobs, traces : SUBSET TraceJobs,
             cache : [day : Day, run : DayRuns] \cup {None}, failed : BOOLEAN]

ASSUME HostAssumption == CheckpointEvery \in Nat \ {0} /\ None \notin HostRuns \cup DayRuns

-----------------------------------------------------------------------------
(* Day runs (engine/core/runner.ts): the time, the patches applied so far,   *)
(* and the patches and tracked analyst of the input.                         *)
Applied(P, d, now) ==
  {p.rev : p \in {q \in P : (q.lasting /\ q.day < d) \/ (q.day = d /\ q.at < now)}}
CreateDayRun(P, d, a) == [now |-> 0, applied |-> Applied(P, d, 0), patches |-> P, analyst |-> a]

(* restoreDayRun throws unless the checkpoint has applied exactly the        *)
(* patches of the input that date before it.                                 *)
Restorable(cp, P, d) == cp.applied = Applied(P, d, cp.now)
Restore(cp, P, a) == [now |-> cp.now, applied |-> cp.applied, patches |-> P, analyst |-> a]
Rebind(run, P, a) == IF run = None THEN None ELSE Restore(run, P, a)

(* advance(to): patches apply on the way; a bucket's results depend on those *)
(* applied by its end.                                                       *)
AppliedBy(run, d, b) ==
  run.applied \cup {p.rev : p \in {q \in run.patches : q.day = d /\ q.at \in run.now..b}}
Advance(run, d, to) == [run EXCEPT !.now = to, !.applied = AppliedBy(run, d, to - 1)]
Results(run, d, to) == [b \in run.now..(to - 1) |-> AppliedBy(run, d, b)]

-----------------------------------------------------------------------------
NewSlot == [to |-> 0, run |-> None, complete |-> FALSE, checkpoints |-> {},
            densify |-> FALSE, densifyRun |-> None]

NewRun(id, at) ==
  [run |-> id, rev |-> 0, patches |-> {}, tracked |-> Initial, focus |-> at, prefetch |-> None,
   slot |-> [d \in Day |-> NewSlot], details |-> {}, traces |-> {}, cache |-> None,
   failed |-> FALSE]

Send(messages) == toMain' = toMain \o messages
NoResults == <<>>  \* an inert chunk: the results index never reads it
Detail(h, job, results) ==
  [type |-> "detail", run |-> h.run, rev |-> h.rev, tag |-> job.tag,
   day |-> job.day, from |-> job.from, to |-> job.to, results |-> results]

(* Results of one bucket after another, put together. *)
Joined(f, g) == [b \in DOMAIN f \cup DOMAIN g |-> IF b \in DOMAIN f THEN f[b] ELSE g[b]]

(* A run from the latest checkpoint at or before a time, or the morning. *)
Latest(h, d, t) ==
  LET usable == {c \in h.slot[d].checkpoints : c.now <= t}
  IN  {c \in usable : \A e \in usable : e.now <= c.now}
OpenRunAt(h, d, t) ==
  LET latest == Latest(h, d, t)
  IN  IF latest = {} THEN CreateDayRun(h.patches, d, h.tracked)
      ELSE Restore(CHOOSE c \in latest : TRUE, h.patches, h.tracked)

(* fail: what restoreDayRun throws stops the run until the next reset. *)
Throws(h, d, t) == \E c \in Latest(h, d, t) : ~Restorable(c, h.patches, d)
Fail ==
  /\ host' = [host EXCEPT !.failed = TRUE]
  /\ Send(<<[type |-> "error", run |-> host.run, rev |-> host.rev]>>)

(* maybeCheckpoint: the checkpoints day d may have after `run` has stepped   *)
(* from `from`.  The focus day keeps one at each mark; on another day the    *)
(* byte budget decides.                                                      *)
MaybeCheckpoint(h, d, run, from) ==
  LET old   == h.slot[d].checkpoints
      taken == old \cup {[now |-> run.now, applied |-> run.applied]}
      due   == run.now \div CheckpointEvery > from \div CheckpointEvery
  IN  IF ~due \/ \E c \in old : c.now = run.now THEN {old}
      ELSE IF d = h.focus[1] THEN {taken} ELSE {old, taken}

(* refocus: the old focus day's checkpoints are thinned, and those of every  *)
(* day but the new one fit the byte budget.                                  *)
Refocused(h, at) ==
  LET densified(kept) ==
        [h EXCEPT !.focus = at, !.prefetch = None,
                  !.slot = [d \in Day |-> [h.slot[d] EXCEPT
                     !.checkpoints = kept[d],
                     !.densify = d = at[1] /\ h.slot[d].to > 0,
                     !.densifyRun = None]]]
      keep(d) == IF d = at[1] THEN {h.slot[d].checkpoints} ELSE SUBSET h.slot[d].checkpoints
      all     == [d \in Day |-> h.slot[d].checkpoints]
      some    == {f \in [Day -> UNION {keep(d) : d \in Day}] : \A d \in Day : f[d] \in keep(d)}
  IN  {densified(kept) : kept \in IF at[1] = h.focus[1] THEN {all} ELSE some}

-----------------------------------------------------------------------------
(* Messages from the main thread.                                            *)

Start(m) ==
  LET h == NewRun(m.run, m.at) IN
  /\ m.type \in {"init", "reset"}
  /\ host' = h
  /\ Send(<<[type |-> "ready", run |-> m.run, rev |-> 0, analyst |-> Initial]>>)

(* Everything else is for the run in progress, unless it has failed. *)
Active == host # None /\ ~host.failed

Focus(m) ==
  /\ m.type = "focus"
  /\ IF m.prefetch
     THEN host' = [host EXCEPT !.prefetch = IF m.at[1] = host.focus[1] THEN None ELSE m.at[1]]
     ELSE host' \in Refocused(host, m.at)
  /\ UNCHANGED toMain

(* cutSlot: the fork's day streams again from the cut.  Checkpoints after it *)
(* are invalid, and so is a live run that has passed it.                     *)
CutSlotKeepingCheckpoints(h, s, cut) ==  \* mutation: later checkpoints survive
  LET to == IF s.to < cut THEN s.to ELSE cut IN
  [s EXCEPT !.run = IF @ # None /\ @.now <= to THEN Rebind(@, h.patches, h.tracked) ELSE None,
            !.densifyRun = None, !.to = to, !.complete = FALSE]
CutSlot(h, s, cut) ==
  LET to == IF s.to < cut THEN s.to ELSE cut IN
  [s EXCEPT !.checkpoints = {c \in @ : c.now <= cut},
            !.run = IF @ # None /\ @.now <= to THEN Rebind(@, h.patches, h.tracked) ELSE None,
            !.densifyRun = None, !.to = to, !.complete = FALSE]

(* A trace covers a day up to where the stream switched to its analyst; the  *)
(* stream of the fork's day and of later days starts over with that analyst. *)
CutTracesUntouched(traces, p) == traces  \* mutation: traces still reach past the cut
CutTraces(traces, p) ==
  LET short(t) == IF t.day = p.day /\ p.at < t.to THEN [t EXCEPT !.to = p.at] ELSE t
  IN  {t \in {short(u) : u \in traces} : t.to > 0 /\ ~(p.lasting /\ t.day > p.day)}

(* Detail windows a fork invalidates get an empty answer, in the order in    *)
(* which they were asked for.                                                *)
Outdates(p, job) == (job.day = p.day /\ job.to > p.at) \/ (p.lasting /\ job.day > p.day)
InTurn(jobs) == {q \in [1..Cardinality(jobs) -> jobs] :
                   \A i, j \in DOMAIN q : i < j => q[i].tag < q[j].tag}

Fork(m) ==
  LET p == m.patch
      h == [host EXCEPT !.rev = p.rev, !.patches = @ \cup {p}, !.cache = None,
                        !.details = {j \in @ : ~Outdates(p, j)},
                        !.traces = CutTraces(@, p)]
      cut == [h EXCEPT !.slot = [d \in Day |->
                 IF d = p.day THEN CutSlot(h, h.slot[d], p.at)
                 ELSE IF p.lasting /\ d > p.day THEN NewSlot ELSE h.slot[d]]]
      gone == {j \in host.details : Outdates(p, j)}
  IN  /\ m.type = "fork"
      /\ IF p.rev > host.rev
         THEN /\ host' \in Refocused(cut, <<p.day, p.at>>)
              /\ \E q \in InTurn(gone) : Send([i \in DOMAIN q |-> Detail(h, q[i], NoResults)])
         ELSE UNCHANGED <<host, toMain>>

RequestDetail(m) ==
  LET job == [tag |-> m.tag, day |-> m.window[1], from |-> m.window[2],
              to |-> WindowEnd(m.window), run |-> None, results |-> NoResults]
  IN  /\ m.type = "requestDetail"
      /\ host' = [host EXCEPT !.details = @ \cup {job}]
      /\ UNCHANGED toMain

(* track: the live runs record the new analyst from now on, and traces are   *)
(* owed for what is already streamed.                                        *)
Track(m) ==
  LET trace(d) == [day |-> d, analyst |-> m.analyst, to |-> host.slot[d].to, run |-> None,
                   results |-> NoResults]
  IN  /\ m.type = "track"
      /\ host' = IF m.analyst = host.tracked THEN host
                 ELSE [host EXCEPT
                         !.tracked = m.analyst, !.cache = None,
                         !.traces = {trace(d) : d \in {e \in Day : host.slot[e].to > 0}},
                         !.slot = [d \in Day |-> [host.slot[d] EXCEPT
                                     !.run = Rebind(@, host.patches, m.analyst)]]]
      /\ UNCHANGED toMain

HostHandle ==
  /\ toWorker # <<>>
  /\ LET m == Head(toWorker) IN
     \/ Start(m)
     \/ /\ m.type \notin {"init", "reset"}
        /\ IF Active /\ m.run = host.run
           THEN Focus(m) \/ Fork(m) \/ RequestDetail(m) \/ Track(m)
           ELSE UNCHANGED <<host, toMain>>
  /\ toWorker' = Tail(toWorker)

-----------------------------------------------------------------------------
(* Units of work.                                                            *)

(* One unit of a day's stream: a silent replay step up to what was already   *)
(* sent, or one chunk with its progress, the day's rollup after the last.    *)
StepDay(d) ==
  LET s   == host.slot[d]
      run == IF s.run # None THEN s.run ELSE OpenRunAt(host, d, s.to)
  IN  IF s.run = None /\ Throws(host, d, s.to) THEN Fail
      ELSE IF run.now < s.to
      THEN LET next == Advance(run, d, SilentEnd(run.now, s.to)) IN
           /\ \E kept \in MaybeCheckpoint(host, d, next, run.now) :
                host' = [host EXCEPT !.slot[d].run = next, !.slot[d].checkpoints = kept]
           /\ UNCHANGED toMain
      ELSE \E end \in {run.now + 1, GridEnd(run.now)} :
             LET next == Advance(run, d, end)
                 done == end = Buckets
                 sent == [e \in Day |-> IF e = d THEN end ELSE host.slot[e].to]
             IN  /\ \E kept \in MaybeCheckpoint(host, d, next, run.now) :
                      host' = [host EXCEPT !.slot[d].run = IF done THEN None ELSE next,
                                           !.slot[d].to = end, !.slot[d].complete = done,
                                           !.slot[d].checkpoints = kept]
                 /\ Send(<<[type |-> "chunk", run |-> host.run, rev |-> host.rev, day |-> d,
                            from |-> run.now, to |-> end, analyst |-> run.analyst,
                            results |-> Results(run, d, end)],
                           [type |-> "progress", run |-> host.run, rev |-> host.rev,
                            computed |-> sent]>>
                         \o IF done THEN <<[type |-> "dayComplete", run |-> host.run, rev |-> host.rev,
                                           day |-> d, results |-> next.applied]>> ELSE <<>>)

(* One unit of a detail job: replay toward the window from the last  *)
(* detail run or the latest checkpoint, then through it; the reply ends it.  *)
Reusable(job) ==
  LET c == host.cache IN
  /\ job.run = None /\ c # None
  /\ c.day = job.day /\ c.run.now <= job.from
  /\ \A e \in host.slot[job.day].checkpoints : e.now <= job.from => e.now <= c.run.now

StepDetail(job) ==
  LET run  == IF job.run # None THEN job.run
              ELSE IF Reusable(job) THEN host.cache.run ELSE OpenRunAt(host, job.day, job.from)
      silent == run.now < job.from
      next == Advance(run, job.day, SilentEnd(run.now, IF silent THEN job.from ELSE job.to))
      got  == IF silent THEN job.results ELSE Joined(Results(run, job.day, next.now), job.results)
      done == next.now = job.to
      cache == IF done THEN [day |-> job.day, run |-> next]
               ELSE IF Reusable(job) THEN None ELSE host.cache
  IN  IF job.run = None /\ ~Reusable(job) /\ Throws(host, job.day, job.from) THEN Fail ELSE
      /\ \E kept \in MaybeCheckpoint(host, job.day, next, run.now) :
           host' = [host EXCEPT
                      !.slot[job.day].checkpoints = kept, !.cache = cache,
                      !.details = (@ \ {job}) \cup
                        IF done THEN {} ELSE {[job EXCEPT !.run = next, !.results = got]}]
      /\ IF done THEN Send(<<Detail(host, job, got)>>) ELSE UNCHANGED toMain

(* One unit of a trace: replay from the morning; the trace is sent at its    *)
(* end, trimmed to where the stream has the analyst's records.               *)
StepTrace(t) ==
  LET run  == IF t.run # None THEN t.run ELSE CreateDayRun(host.patches, t.day, t.analyst)
      next == IF run.now < t.to THEN Advance(run, t.day, SilentEnd(run.now, t.to)) ELSE run
      got  == IF run.now < t.to THEN Joined(Results(run, t.day, next.now), t.results) ELSE t.results
      done == next.now >= t.to
  IN  /\ \E kept \in IF run.now < t.to THEN MaybeCheckpoint(host, t.day, next, run.now)
                     ELSE {host.slot[t.day].checkpoints} :
           host' = [host EXCEPT
                      !.slot[t.day].checkpoints = kept,
                      !.traces = (@ \ {t}) \cup
                        IF done THEN {} ELSE {[t EXCEPT !.run = next, !.results = got]}]
      /\ IF done
         THEN Send(<<[type |-> "trace", run |-> host.run, rev |-> host.rev, day |-> t.day,
                      analyst |-> t.analyst, to |-> t.to,
                      results |-> [b \in 0..(t.to - 1) |-> got[b]]]>>)
         ELSE UNCHANGED toMain

(* Rebuilding the focus day's checkpoints, from the focus time on. *)
NeedsDensify(d) ==
  LET s == host.slot[d]
      from == IF s.densifyRun = None THEN host.focus[2] ELSE s.densifyRun.now
  IN  s.densify /\ \E m \in (from + 1)..s.to :
        /\ m % CheckpointEvery = 0
        /\ ~\E c \in s.checkpoints : c.now \in m..(m + ChunkBuckets - 1)

StepDensify(d) ==
  LET s    == host.slot[d]
      from == IF host.focus[2] < s.to THEN host.focus[2] ELSE s.to
      run  == IF s.densifyRun # None THEN s.densifyRun ELSE OpenRunAt(host, d, from)
      next == Advance(run, d, SilentEnd(run.now, s.to))
  IN  IF s.densifyRun = None /\ Throws(host, d, from) THEN Fail ELSE
      /\ \E kept \in MaybeCheckpoint(host, d, next, run.now) :
           host' = [host EXCEPT !.slot[d].checkpoints = kept,
                                !.slot[d].densify = next.now < s.to,
                                !.slot[d].densifyRun = IF next.now < s.to THEN next ELSE None]
      /\ UNCHANGED toMain

(* pick: the most urgent unit.  Days go round from the focus day on. *)
Rank(d) == IF d >= host.focus[1] THEN d - host.focus[1] ELSE d - host.focus[1] + LastDay + 1
First(days) == {d \in days : \A e \in days : Rank(d) <= Rank(e)}
FirstAsked == {j \in host.details : \A k \in host.details : j.tag <= k.tag}

Work ==
  LET open == {d \in Day : ~host.slot[d].complete}
      owed == {t.day : t \in host.traces}
      f    == host.focus[1]
      Trace(d) == \E t \in host.traces : t.day = d /\ StepTrace(t)
  IN  CASE host.details # {}        -> \E job \in FirstAsked : StepDetail(job)
        [] OTHER ->
      CASE f \in open               -> StepDay(f)
        [] f \notin open /\ host.prefetch \in open -> StepDay(host.prefetch)
        [] OTHER ->
      CASE f \in owed               -> Trace(f)
        [] f \notin owed /\ NeedsDensify(f) -> StepDensify(f)
        [] OTHER ->
      CASE open # {}                -> \E d \in First(open) : StepDay(d)
        [] open = {} /\ owed # {}   -> \E d \in First(owed) : Trace(d)
        [] OTHER                    -> FALSE

HostWork ==
  /\ Active
  /\ Len(toMain) < MaxInFlight
  /\ Work
  /\ UNCHANGED toWorker
=============================================================================
