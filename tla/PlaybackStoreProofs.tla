------------------------- MODULE PlaybackStoreProofs -------------------------
(***************************************************************************)
(* What the store shows is true: every bucket was computed with exactly    *)
(* the forks that change it, nothing counts as computed that is not held,  *)
(* and the two sides agree when nothing is on its way (StoreTrue). And     *)
(* what was sent once is not needed again: with nothing left to do, the    *)
(* store is complete (NothingLost).                                        *)
(***************************************************************************)
EXTENDS PlaybackProofs

-----------------------------------------------------------------------------
(* Which forks change a bucket.                                              *)

(* The patches applied by the end of a bucket are those that change it. *)
LEMMA AppliedAreDeps ==
  ASSUME NEW P \in SUBSET Patch, NEW d \in Day, NEW b \in Bucket
  PROVE  Applied(P, d, b + 1) = Deps(P, d, b)
<1>1. \A p \in P : p.at \in Nat /\ p.day \in Nat /\ b \in Nat /\ d \in Nat
  BY ProtocolAssumption DEF Patch, Bucket, Day
<1>2. \A p \in P : ((p.lasting /\ p.day < d) \/ (p.day = d /\ p.at < b + 1)) <=> Affects(p, d, b)
  BY <1>1 DEF Affects
<1> QED BY <1>2 DEF Applied, Deps

(* Adding cuts that do not change a bucket, or leaving them out. *)
LEMMA SameDeps ==
  ASSUME NEW P, NEW Q, P \subseteq Q, NEW d, NEW b, \A q \in Q \ P : ~Affects(q, d, b)
  PROVE  Deps(P, d, b) = Deps(Q, d, b)
<1> QED BY DEF Deps

(* A fork that changes a bucket changes the later ones of its day. *)
LEMMA AffectsLater ==
  ASSUME NEW p \in Patch, NEW d \in Day, NEW a \in Bucket, NEW b \in Bucket, a <= b, Affects(p, d, a)
  PROVE  Affects(p, d, b)
<1>1. p.at \in Nat /\ a \in Nat /\ b \in Nat BY ProtocolAssumption DEF Patch, Bucket
<1> QED BY <1>1 DEF Affects

-----------------------------------------------------------------------------
(* The day runs of the worker.                                               *)

(* A day run knows the patches of the host, but for some dated after `to`.   *)
Follows(run, d, to) ==
  /\ run.patches \subseteq host.patches
  /\ \A q \in host.patches \ run.patches : \A b \in 0..(to - 1) : ~Affects(q, d, b)
UpToDate(run, d) == run.applied = Applied(host.patches, d, run.now)

SlotRight(d) ==
  host.slot[d].run # None => Follows(host.slot[d].run, d, Buckets) /\ UpToDate(host.slot[d].run, d)

(* A trace has collected the results of every bucket it has passed. *)
TraceRight(t) ==
  t.run # None =>
    /\ Follows(t.run, t.day, t.to)
    /\ t.run.now <= t.to => UpToDate(t.run, t.day)
    /\ \A b \in 0..(t.to - 1) : b < t.run.now =>
         b \in DOMAIN t.results /\ t.results[b] = Deps(host.patches, t.day, b)

StreamsRight == host # None => (\A d \in Day : SlotRight(d)) /\ \A t \in host.traces : TraceRight(t)

LEMMA OpenRight ==
  ASSUME HostWell(host), NEW d \in Day, NEW t \in 0..Buckets, ~Throws(host, d, t)
  PROVE  /\ OpenRunAt(host, d, t).patches = host.patches
         /\ UpToDate(OpenRunAt(host, d, t), d)
<1> DEFINE c == CHOOSE x \in Latest(host, d, t) : TRUE
<1>1. CASE Latest(host, d, t) = {}
  BY <1>1 DEF OpenRunAt, CreateDayRun, UpToDate
<1>2. CASE Latest(host, d, t) # {}
  <2>1. c \in Latest(host, d, t) BY <1>2
  <2>2. Restorable(c, host.patches, d) BY <2>1 DEF Throws
  <2>3. OpenRunAt(host, d, t) = Restore(c, host.patches, host.tracked) BY <1>2 DEF OpenRunAt
  <2> HIDE DEF c
  <2> QED BY <2>2, <2>3 DEF Restore, Restorable, UpToDate
<1> QED BY <1>1, <1>2

(* A run that is up to date applies, by the end of a bucket, the patches     *)
(* that date before its end.                                                 *)
LEMMA AppliedOnTheWay ==
  ASSUME HostWell(host), NEW run \in DayRuns, NEW d \in Day, NEW to \in 0..Buckets,
         Follows(run, d, to), UpToDate(run, d), NEW b \in Int, run.now - 1 <= b, b < to
  PROVE  AppliedBy(run, d, b) = Applied(host.patches, d, b + 1)
<1> DEFINE H == host.patches
           early(p) == (p.lasting /\ p.day < d) \/ (p.day = d /\ p.at < run.now)
           late(p)  == p.day = d /\ p.at \in run.now..b
           by(p)    == (p.lasting /\ p.day < d) \/ (p.day = d /\ p.at < b + 1)
<1>1. H \in SUBSET Patch /\ run.patches \in SUBSET Patch /\ run.now \in Nat /\ Buckets \in Nat
  BY WellHost, ProtocolAssumption DEF DayRuns
<1>2. \A p \in Patch : p.at \in Nat /\ p.day \in Nat /\ d \in Nat
  BY ProtocolAssumption DEF Patch, Bucket, Day
<1>3. AppliedBy(run, d, b) = {p.rev : p \in {q \in H : early(q)}} \cup {p.rev : p \in {q \in run.patches : late(q)}}
  BY DEF AppliedBy, UpToDate, Applied
<1>4. Applied(H, d, b + 1) = {p.rev : p \in {q \in H : by(q)}} BY DEF Applied
<1>5. \A p \in H : by(p) <=> early(p) \/ late(p) BY <1>1, <1>2
<1>6. ASSUME NEW p \in H, late(p) PROVE p \in run.patches
  <2>1. b \in 0..(to - 1) /\ p.at <= b BY <1>1, <1>2, <1>6
  <2>2. Affects(p, d, b) BY <1>1, <1>2, <1>6, <2>1 DEF Affects
  <2> QED BY <2>1, <2>2 DEF Follows
<1>7. run.patches \subseteq H BY DEF Follows
<1> HIDE DEF H, early, late, by
<1> QED BY <1>3, <1>4, <1>5, <1>6, <1>7 DEF H

(* The step of a run that follows is a run that follows, and its results are *)
(* those of the forks that change each bucket.                               *)
LEMMA StepRight ==
  ASSUME HostWell(host), NEW run \in DayRuns, NEW d \in Day, NEW to \in 0..Buckets,
         Follows(run, d, to), UpToDate(run, d), NEW end \in 0..Buckets, run.now <= end, end <= to
  PROVE  /\ Follows(Advance(run, d, end), d, to) /\ UpToDate(Advance(run, d, end), d)
         /\ Advance(run, d, end).now = end
         /\ DOMAIN Results(run, d, end) = run.now..(end - 1)
         /\ \A b \in run.now..(end - 1) : Results(run, d, end)[b] = Deps(host.patches, d, b)
         /\ end >= 1 => Advance(run, d, end).applied = Deps(host.patches, d, end - 1)
<1>1. host.patches \in SUBSET Patch /\ run.now \in Nat /\ Buckets \in Nat /\ end \in Nat
  BY WellHost, ProtocolAssumption DEF DayRuns
<1>2. /\ Advance(run, d, end).now = end /\ Advance(run, d, end).patches = run.patches
      /\ Advance(run, d, end).applied = AppliedBy(run, d, end - 1)
  BY AdvanceTyped
<1>3. AppliedBy(run, d, end - 1) = Applied(host.patches, d, (end - 1) + 1)
  BY <1>1, AppliedOnTheWay
<1>4. (end - 1) + 1 = end BY <1>1
<1>5. ASSUME NEW b \in run.now..(end - 1) PROVE Results(run, d, end)[b] = Deps(host.patches, d, b)
  <2>1. b \in Bucket /\ run.now - 1 <= b /\ b < to /\ b \in Int BY <1>1 DEF Bucket
  <2>2. AppliedBy(run, d, b) = Applied(host.patches, d, b + 1) BY <2>1, AppliedOnTheWay
  <2>3. Applied(host.patches, d, b + 1) = Deps(host.patches, d, b) BY <1>1, <2>1, AppliedAreDeps
  <2> QED BY <2>2, <2>3 DEF Results
<1>6. ASSUME end >= 1 PROVE Applied(host.patches, d, end) = Deps(host.patches, d, end - 1)
  <2>1. end - 1 \in Bucket BY <1>1, <1>6 DEF Bucket
  <2>2. Applied(host.patches, d, (end - 1) + 1) = Deps(host.patches, d, end - 1)
    BY <1>1, <2>1, AppliedAreDeps
  <2> QED BY <1>4, <2>2
<1>7. DOMAIN Results(run, d, end) = run.now..(end - 1) BY DEF Results
<1> QED BY <1>2, <1>3, <1>4, <1>5, <1>6, <1>7 DEF Follows, UpToDate

LEMMA SilentEndAhead ==
  ASSUME NEW from \in 0..Buckets, NEW limit \in 0..Buckets, from < limit
  PROVE  SilentEnd(from, limit) \in (from + 1)..limit
<1>1. Buckets \in Nat BY ProtocolAssumption
<1>2. from \in 0..(Buckets - 1) BY <1>1
<1>3. GridEnd(from) \in (from + 1)..Buckets BY <1>2, GridEndAhead
<1> QED BY <1>1, <1>3 DEF SilentEnd
-----------------------------------------------------------------------------
(* A fork that leaves a bucket alone leaves the runs up to it alone.         *)
LEMMA AppliedAlike ==
  ASSUME NEW H \in SUBSET Patch, NEW p \in Patch, NEW d \in Day, NEW now \in Nat,
         ~(p.lasting /\ d > p.day), d = p.day => now <= p.at
  PROVE  Applied(H \cup {p}, d, now) = Applied(H, d, now)
<1>1. p.at \in Nat /\ p.day \in Nat /\ d \in Nat BY ProtocolAssumption DEF Patch, Bucket, Day
<1>2. ~((p.lasting /\ p.day < d) \/ (p.day = d /\ p.at < now)) BY <1>1
<1> QED BY <1>2 DEF Applied

LEMMA CutRunRight ==
  ASSUME HostWell(host), NEW p \in Patch, NEW d \in Day, SlotRight(d), CutRun(p, d) # None
  PROVE  LET H == host.patches \cup {p}
             run == CutRun(p, d)
         IN  /\ run.patches \subseteq H
             /\ \A q \in H \ run.patches : \A b \in Bucket : ~Affects(q, d, b)
             /\ run.applied = Applied(H, d, run.now)
<1> DEFINE H == host.patches \cup {p}
           s == host.slot[d]
<1>1. /\ host.patches \in SUBSET Patch /\ s \in Slots /\ SlotBounded(s) /\ host.tracked \in Analyst
      /\ H \in SUBSET Patch
  BY DEF HostWell, HostRuns
<1>2. p.at \in Nat /\ p.day \in Nat /\ d \in Nat /\ Buckets \in Nat
  BY ProtocolAssumption DEF Patch, Bucket, Day
<1>3. s.to \in Nat /\ s.run \in DayRuns \cup {None} BY <1>1, <1>2 DEF Slots
<1>4. ~(p.lasting /\ d > p.day) BY <1>2 DEF CutRun
<1>5. s.run # None /\ s.run \in DayRuns BY <1>3, RebindTyped, <1>1 DEF CutRun
<1>6. s.run.now \in Nat BY <1>2, <1>5 DEF DayRuns
<1>7. Follows(s.run, d, Buckets) /\ UpToDate(s.run, d) BY <1>5 DEF SlotRight
<1>8. CASE d = p.day
  <2>1. s.run.now <= CutTo(p, d) /\ CutRun(p, d) = Rebind(s.run, H, host.tracked)
    BY <1>8 DEF CutRun
  <2>2. CutTo(p, d) <= p.at BY <1>2, <1>3, <1>8 DEF CutTo
  <2>3. CutTo(p, d) \in Int BY <1>2, <1>3 DEF CutTo
  <2>4. s.run.now <= p.at BY <1>2, <1>6, <2>1, <2>2, <2>3
  <2>5. Applied(H, d, s.run.now) = Applied(host.patches, d, s.run.now)
    BY <1>1, <1>4, <1>6, <2>4, AppliedAlike
  <2>6. /\ CutRun(p, d).now = s.run.now /\ CutRun(p, d).applied = s.run.applied
        /\ CutRun(p, d).patches = H
    BY <1>1, <1>3, <1>5, <2>1, RebindTyped
  <2> HIDE DEF H, s
  <2>7. H \ CutRun(p, d).patches = {} BY <2>6
  <2>8. CutRun(p, d).applied = Applied(H, d, CutRun(p, d).now)
    BY <1>7, <2>5, <2>6 DEF UpToDate
  <2> QED BY <2>6, <2>7, <2>8 DEF H
<1>9. CASE d # p.day
  <2>1. CutRun(p, d) = s.run BY <1>4, <1>9 DEF CutRun
  <2>2. Applied(H, d, s.run.now) = Applied(host.patches, d, s.run.now)
    BY <1>1, <1>4, <1>6, <1>9, AppliedAlike
  <2>3. \A b \in Bucket : ~Affects(p, d, b) BY <1>2, <1>4, <1>9 DEF Affects
  <2> HIDE DEF s
  <2>4. \A q \in H \ s.run.patches : \A b \in Bucket : ~Affects(q, d, b)
    BY <1>7, <2>3 DEF Follows, Bucket
  <2>5. s.run.patches \subseteq H BY <1>7 DEF Follows
  <2> HIDE DEF H
  <2>6. s.run.applied = Applied(H, d, s.run.now) BY <1>7, <2>2 DEF UpToDate
  <2> QED BY <2>1, <2>4, <2>5, <2>6 DEF H
<1> QED BY <1>8, <1>9

(* A trace that a fork has cut has still only passed buckets the fork leaves *)
(* alone.                                                                    *)
LEMMA CutTraceRight ==
  ASSUME HostWell(host), NEW p \in Patch, \A u \in host.traces : TraceRight(u),
         NEW t \in CutTraces(host.traces, p), t.run # None,
         NEW H, H = host.patches \cup {p}
  PROVE  /\ t.run.patches \subseteq H
         /\ \A q \in H \ t.run.patches : \A b \in 0..(t.to - 1) : ~Affects(q, t.day, b)
         /\ t.run.now <= t.to => t.run.applied = Applied(H, t.day, t.run.now)
         /\ \A b \in 0..(t.to - 1) : b < t.run.now =>
              b \in DOMAIN t.results /\ t.results[b] = Deps(H, t.day, b)
<1> DEFINE short(u) == IF u.day = p.day /\ p.at < u.to THEN [u EXCEPT !.to = p.at] ELSE u
<1>1. PICK u \in host.traces : t = short(u) BY DEF CutTraces
<1>2. host.patches \in SUBSET Patch /\ H \in SUBSET Patch /\ u \in TraceJobs
  BY DEF HostWell, HostRuns
<1>3. p.at \in Nat /\ p.day \in Nat /\ Buckets \in Nat /\ u.day \in Day /\ u.to \in Nat /\ u.day \in Nat
  BY <1>2, ProtocolAssumption DEF Patch, Bucket, Day, TraceJobs
<1>4. /\ t.day = u.day /\ t.run = u.run /\ t.results = u.results /\ t.to \in Nat /\ t.to <= u.to
      /\ t.day = p.day => t.to <= p.at
  BY <1>1, <1>2, <1>3 DEF TraceJobs
<1>5. ~(p.lasting /\ t.day > p.day) BY DEF CutTraces
<1>6. u.to <= Buckets BY <1>2, <1>3 DEF TraceJobs
<1>7. t.run \in DayRuns /\ t.run.now \in Nat BY <1>2, <1>3, <1>4 DEF TraceJobs, DayRuns
<1>8. \A b \in 0..(t.to - 1) : b \in Bucket /\ b \in 0..(u.to - 1) /\ ~Affects(p, t.day, b)
  BY <1>3, <1>4, <1>5, <1>6 DEF Bucket, Affects
<1>9. TraceRight(u) /\ u.run # None BY <1>4
<1>10. Follows(t.run, t.day, u.to) BY <1>4, <1>9 DEF TraceRight
<1>11. ASSUME t.run.now <= t.to PROVE t.run.applied = Applied(H, t.day, t.run.now)
  <2>1. t.run.now <= u.to BY <1>3, <1>4, <1>7, <1>11
  <2>2. t.run.applied = Applied(host.patches, t.day, t.run.now)
    BY <1>4, <1>9, <2>1 DEF TraceRight, UpToDate
  <2>3. t.day = p.day => t.run.now <= p.at BY <1>3, <1>4, <1>7, <1>11
  <2>4. t.day \in Day BY <1>3, <1>4
  <2>5. Applied(H, t.day, t.run.now) = Applied(host.patches, t.day, t.run.now)
    BY <1>2, <1>5, <1>7, <2>3, <2>4, AppliedAlike
  <2> QED BY <2>2, <2>5
<1>12. ASSUME NEW b \in 0..(t.to - 1), b < t.run.now
       PROVE  b \in DOMAIN t.results /\ t.results[b] = Deps(H, t.day, b)
  <2>1. b \in DOMAIN t.results /\ t.results[b] = Deps(host.patches, t.day, b)
    BY <1>4, <1>8, <1>9, <1>12 DEF TraceRight
  <2>2. Deps(host.patches, t.day, b) = Deps(H, t.day, b) BY <1>8, SameDeps
  <2> QED BY <2>1, <2>2
<1>13. \A q \in H \ t.run.patches : \A b \in 0..(t.to - 1) : ~Affects(q, t.day, b)
  BY <1>8, <1>10 DEF Follows
<1>14. t.run.patches \subseteq H BY <1>10 DEF Follows
<1> QED BY <1>11, <1>12, <1>13, <1>14

(* What a unit of a trace has collected. *)
LEMMA TraceStepRight ==
  ASSUME HostWell(host), NEW t \in host.traces, TraceRight(t)
  PROVE  /\ Follows(TraceNext(t), t.day, t.to)
         /\ TraceNext(t).now <= t.to => UpToDate(TraceNext(t), t.day)
         /\ \A b \in 0..(t.to - 1) : b < TraceNext(t).now =>
              b \in DOMAIN TraceGot(t) /\ TraceGot(t)[b] = Deps(host.patches, t.day, b)
<1> DEFINE run == TraceRun(t)
           end == SilentEnd(run.now, t.to)
<1>1. t \in TraceJobs /\ run \in DayRuns /\ t.day \in Day BY TraceTyped DEF TraceJobs
<1>2. run.now \in 0..Buckets /\ t.to \in 1..Buckets /\ Buckets \in Nat
  BY <1>1, ProtocolAssumption DEF DayRuns, TraceJobs
<1>3. host.patches \in SUBSET Patch /\ t.analyst \in Analyst BY <1>1 DEF HostWell, HostRuns, TraceJobs
<1>5. /\ Follows(run, t.day, t.to)
      /\ run.now <= t.to => UpToDate(run, t.day)
      /\ \A b \in 0..(t.to - 1) : b < run.now =>
           b \in DOMAIN t.results /\ t.results[b] = Deps(host.patches, t.day, b)
  <2>1. CASE t.run = None
    <3>1. run = CreateDayRun(host.patches, t.day, t.analyst) BY <2>1 DEF TraceRun
    <3>2. run.now = 0 /\ run.patches = host.patches /\ UpToDate(run, t.day)
      BY <3>1 DEF CreateDayRun, UpToDate
    <3> HIDE DEF run
    <3>3. \A b \in 0..(t.to - 1) : ~(b < run.now) BY <1>2, <3>2
    <3> QED BY <3>2, <3>3 DEF Follows
  <2>2. CASE t.run # None
    <3>1. run = t.run BY <2>2 DEF TraceRun
    <3> HIDE DEF run
    <3> QED BY <2>2, <3>1 DEF TraceRight
  <2> QED BY <2>1, <2>2
<1>6. CASE ~(run.now < t.to)
  <2>1. TraceNext(t) = run /\ TraceGot(t) = t.results BY <1>6 DEF TraceNext, TraceGot
  <2> HIDE DEF run
  <2> QED BY <1>5, <2>1
<1>7. CASE run.now < t.to
  <2>1. TraceNext(t) = Advance(run, t.day, end) BY <1>7 DEF TraceNext
  <2>2. end \in (run.now + 1)..t.to BY <1>2, <1>7, SilentEndAhead
  <2> HIDE DEF run, end
  <2>3. end \in 0..Buckets /\ t.to \in 0..Buckets /\ run.now <= end /\ end <= t.to BY <1>2, <2>2
  <2>4. UpToDate(run, t.day) BY <1>2, <1>5, <1>7
  <2>5. /\ Follows(Advance(run, t.day, end), t.day, t.to)
        /\ UpToDate(Advance(run, t.day, end), t.day) /\ Advance(run, t.day, end).now = end
        /\ DOMAIN Results(run, t.day, end) = run.now..(end - 1)
        /\ \A b \in run.now..(end - 1) : Results(run, t.day, end)[b] = Deps(host.patches, t.day, b)
    BY <1>1, <1>5, <2>3, <2>4, StepRight
  <2>6. TraceGot(t) = Joined(Results(run, t.day, end), t.results)
    BY <1>7, <2>1, <2>5 DEF TraceGot, run
  <2>7. ASSUME NEW b \in 0..(t.to - 1), b < end
        PROVE  b \in DOMAIN TraceGot(t) /\ TraceGot(t)[b] = Deps(host.patches, t.day, b)
    <3>1. b \in run.now..(end - 1) \/ b < run.now BY <1>2, <2>2, <2>7
    <3>2. CASE b \in run.now..(end - 1) BY <2>5, <2>6, <3>2 DEF Joined
    <3>3. CASE b < run.now
      <4>1. b \notin run.now..(end - 1) BY <1>2, <3>3
      <4> QED BY <1>5, <2>5, <2>6, <3>3, <4>1 DEF Joined
    <3> QED BY <3>1, <3>2, <3>3
  <2> QED BY <2>1, <2>5, <2>7
<1> QED BY <1>6, <1>7

(* The run that streams a day, kept or opened, is up to date. *)
LEMMA StreamRunRight ==
  ASSUME HostWell(host), NEW d \in Day, SlotRight(d), Opens(d)
  PROVE  Follows(StreamRun(d), d, Buckets) /\ UpToDate(StreamRun(d), d)
<1>1. CASE host.slot[d].run # None BY <1>1 DEF StreamRun, SlotRight
<1>2. CASE host.slot[d].run = None
  <2>1. host.slot[d].to \in 0..Buckets BY DEF HostWell, HostRuns, Slots
  <2>2. StreamRun(d) = OpenRunAt(host, d, host.slot[d].to) BY <1>2 DEF StreamRun
  <2>3. StreamRun(d).patches = host.patches /\ UpToDate(StreamRun(d), d)
    BY <1>2, <2>1, <2>2, OpenRight DEF Opens
  <2> QED BY <2>3 DEF Follows
<1> QED BY <1>1, <1>2

(* The streams after a unit of a day, of a trace, and of other work. *)
LEMMA DayKeepsStreams ==
  ASSUME ChannelsTyped, HostWell(host), StreamsRight, NEW d \in Day,
         ~host.slot[d].complete, StepDay(d)
  PROVE  StreamsRight'
<1>1. /\ SameRun /\ host'.traces = host.traces
      /\ \A e \in Day \ {d} : host'.slot[e].run = host.slot[e].run
      /\ \/ SameStreams
         \/ SilentStep(d)
         \/ \E end \in (host.slot[d].to + 1)..Buckets : ChunkStep(d, end)
  BY DayDoes
<1>2. host # None /\ host'.patches = host.patches BY <1>1, WellHost DEF SameRun
<1>3. \A e \in Day : SlotRight(e) BY <1>2 DEF StreamsRight
<1>4. \A t \in host'.traces : TraceRight(t)'
  BY <1>1, <1>2 DEF StreamsRight, TraceRight, Follows, UpToDate
<1>5. \A e \in Day : host'.slot[e].run = host.slot[e].run => SlotRight(e)'
  BY <1>2, <1>3 DEF SlotRight, Follows, UpToDate
<1>6. StreamRun(d) \in DayRuns /\ StreamRun(d).now <= host.slot[d].to /\ host.slot[d] \in Slots
  BY StreamTyped
<1>7. Buckets \in Nat /\ host.slot[d].to \in 0..Buckets /\ StreamRun(d).now \in 0..Buckets
  BY <1>6, ProtocolAssumption DEF Slots, DayRuns
<1>8. ASSUME NEW end \in 0..Buckets, Opens(d), StreamRun(d).now <= end,
             host'.slot[d].run \in {None, Advance(StreamRun(d), d, end)}
      PROVE  SlotRight(d)'
  <2>1. Follows(StreamRun(d), d, Buckets) /\ UpToDate(StreamRun(d), d)
    BY <1>3, <1>8, StreamRunRight
  <2>2. /\ Follows(Advance(StreamRun(d), d, end), d, Buckets)
        /\ UpToDate(Advance(StreamRun(d), d, end), d)
    BY <1>6, <1>7, <1>8, <2>1, StepRight
  <2>3. PICK next : next = Advance(StreamRun(d), d, end) OBVIOUS
  <2>4. Follows(next, d, Buckets) /\ UpToDate(next, d) BY <2>2, <2>3
  <2>5. host'.slot[d].run = None \/ host'.slot[d].run = next BY <1>8, <2>3
  <2> QED BY <1>2, <2>4, <2>5 DEF SlotRight, Follows, UpToDate
<1>9. SlotRight(d)'
  <2>1. CASE SameStreams BY <1>5, <2>1 DEF SameStreams
  <2>2. CASE SilentStep(d)
    <3> DEFINE end == SilentEnd(StreamRun(d).now, host.slot[d].to)
    <3>1. /\ Opens(d) /\ StreamRun(d).now < host.slot[d].to
          /\ host'.slot[d].run = Advance(StreamRun(d), d, end)
      BY <2>2 DEF SilentStep
    <3>2. end \in (StreamRun(d).now + 1)..host.slot[d].to BY <1>7, <3>1, SilentEndAhead
    <3> HIDE DEF end
    <3>3. end \in 0..Buckets /\ StreamRun(d).now <= end BY <1>7, <3>2
    <3> QED BY <1>8, <3>1, <3>3
  <2>3. ASSUME NEW end \in (host.slot[d].to + 1)..Buckets, ChunkStep(d, end) PROVE SlotRight(d)'
    <3>1. end \in 0..Buckets /\ StreamRun(d).now <= end BY <1>6, <1>7
    <3> QED BY <1>8, <2>3, <3>1 DEF ChunkStep
  <2> QED BY <1>1, <2>1, <2>2, <2>3
<1>10. \A e \in Day : SlotRight(e)' BY <1>1, <1>5, <1>9
<1> QED BY <1>4, <1>10 DEF StreamsRight

LEMMA TraceKeepsStreams ==
  ASSUME ChannelsTyped, HostWell(host), StreamsRight, NEW t \in host.traces, StepTrace(t)
  PROVE  StreamsRight'
<1> DEFINE went == [t EXCEPT !.run = TraceNext(t), !.results = TraceGot(t)]
<1>1. /\ SameRun /\ SameStreams
      /\ host'.traces = (host.traces \ {t}) \cup IF TraceNext(t).now >= t.to THEN {} ELSE {went}
  BY TraceDoes
<1>2. host # None /\ host'.patches = host.patches BY <1>1, WellHost DEF SameRun
<1>3. \A e \in Day : SlotRight(e)'
  BY <1>1, <1>2 DEF StreamsRight, SlotRight, Follows, UpToDate, SameStreams
<1>4. TraceRight(t) BY <1>2 DEF StreamsRight
<1>5. PICK next, got : next = TraceNext(t) /\ got = TraceGot(t) OBVIOUS
<1>6. /\ Follows(next, t.day, t.to)
      /\ next.now <= t.to => UpToDate(next, t.day)
      /\ \A b \in 0..(t.to - 1) : b < next.now =>
           b \in DOMAIN got /\ got[b] = Deps(host.patches, t.day, b)
  BY <1>4, <1>5, TraceStepRight
<1>7. t \in TraceJobs BY TraceTyped
<1>8. PICK w : w = [t EXCEPT !.run = next, !.results = got] OBVIOUS
<1>9. w.run = next /\ w.results = got /\ w.day = t.day /\ w.to = t.to BY <1>7, <1>8 DEF TraceJobs
<1>10. TraceRight(w)' BY <1>2, <1>6, <1>9 DEF TraceRight, Follows, UpToDate
<1>11. \A u \in host.traces : TraceRight(u)'
  BY <1>2 DEF StreamsRight, TraceRight, Follows, UpToDate
<1>12. went = w BY <1>5, <1>8
<1> HIDE DEF went
<1>13. \A u \in host'.traces : u \in host.traces \/ u = w BY <1>1, <1>12
<1>14. \A u \in host'.traces : TraceRight(u)' BY <1>10, <1>11, <1>13
<1> QED BY <1>3, <1>14 DEF StreamsRight

LEMMA SameStreamsKept ==
  ASSUME host # None, StreamsRight, SameRun, SameStreams, host'.traces = host.traces
  PROVE  StreamsRight'
<1> QED BY DEF StreamsRight, SlotRight, TraceRight, Follows, UpToDate, SameRun, SameStreams

LEMMA ForkKeepsStreams ==
  ASSUME PlaybackTyped, StreamsRight, NEW m, HostForkStep(m)
  PROVE  StreamsRight'
<1>1. PICK p : p = m.patch OBVIOUS
<1>2. /\ p \in Patch /\ host # None /\ host'.patches = host.patches \cup {p}
      /\ host'.traces = CutTraces(host.traces, p)
      /\ \A d \in Day : host'.slot[d].run = CutRun(p, d)
  BY <1>1 DEF HostForkStep, Active
<1>3. HostWell(host) BY <1>2 DEF PlaybackTyped, HostTyped
<1>4. ASSUME NEW d \in Day PROVE SlotRight(d)'
  <2>1. SlotRight(d) BY <1>2 DEF StreamsRight
  <2>2. PICK run : run = CutRun(p, d) OBVIOUS
  <2>3. PICK H : H = host.patches \cup {p} OBVIOUS
  <2>4. run # None => /\ run.patches \subseteq H
                      /\ \A q \in H \ run.patches : \A b \in Bucket : ~Affects(q, d, b)
                      /\ run.applied = Applied(H, d, run.now)
    BY <1>2, <1>3, <2>1, <2>2, <2>3, CutRunRight
  <2>5. host'.slot[d].run = run /\ host'.patches = H BY <1>2, <2>2, <2>3
  <2> QED BY <2>4, <2>5 DEF SlotRight, Follows, UpToDate, Bucket
<1>5. PICK traces : traces = CutTraces(host.traces, p) OBVIOUS
<1>6. ASSUME NEW t \in traces PROVE TraceRight(t)'
  <2>1. PICK H : H = host.patches \cup {p} OBVIOUS
  <2>2. t \in CutTraces(host.traces, p) /\ host'.patches = H BY <1>2, <1>5, <2>1
  <2>3. \A u \in host.traces : TraceRight(u) BY <1>2 DEF StreamsRight
  <2>4. SUFFICES ASSUME t.run # None PROVE TraceRight(t)' BY DEF TraceRight
  <2>5. /\ t.run.patches \subseteq H
        /\ \A q \in H \ t.run.patches : \A b \in 0..(t.to - 1) : ~Affects(q, t.day, b)
        /\ t.run.now <= t.to => t.run.applied = Applied(H, t.day, t.run.now)
        /\ \A b \in 0..(t.to - 1) : b < t.run.now =>
             b \in DOMAIN t.results /\ t.results[b] = Deps(H, t.day, b)
    BY <1>2, <1>3, <2>1, <2>2, <2>3, <2>4, CutTraceRight
  <2> QED BY <2>2, <2>5 DEF TraceRight, Follows, UpToDate
<1>7. \A t \in host'.traces : TraceRight(t)' BY <1>2, <1>5, <1>6
<1> QED BY <1>4, <1>7 DEF StreamsRight

LEMMA OtherKeepsStreams ==
  ASSUME PlaybackTyped, StreamsRight, NEW m, HostOtherStep(m)
  PROVE  StreamsRight'
<1>1. /\ host # None /\ HostWell(host) /\ host'.patches = host.patches /\ HostWell(host')
      /\ host'.traces = host.traces \/ \A t \in host'.traces : t.run = None
      /\ \A d \in Day : host'.slot[d].run \in {host.slot[d].run,
                                              Rebind(host.slot[d].run, host.patches, host'.tracked)}
  BY DEF HostOtherStep, Active, PlaybackTyped, HostTyped
<1>2. PICK H, a : H = host.patches /\ a = host'.tracked OBVIOUS
<1>3. H \in SUBSET Patch /\ a \in Analyst BY <1>1, <1>2 DEF HostWell, HostRuns
<1>4. \A d \in Day : host.slot[d] \in Slots BY <1>1 DEF HostWell, HostRuns
<1>5. \A t \in host'.traces : TraceRight(t)'
  BY <1>1 DEF StreamsRight, TraceRight, Follows, UpToDate
<1>6. ASSUME NEW d \in Day PROVE SlotRight(d)'
  <2>1. PICK run : run = host.slot[d].run OBVIOUS
  <2>2. run \in DayRuns \cup {None} BY <1>4, <2>1 DEF Slots
  <2>3. SlotRight(d) BY <1>1 DEF StreamsRight
  <2>4. CASE host'.slot[d].run = run
    BY <1>1, <2>1, <2>3, <2>4 DEF SlotRight, Follows, UpToDate
  <2>5. CASE host'.slot[d].run = Rebind(run, H, a)
    <3>1. CASE run = None BY <1>3, <2>2, <2>5, <3>1, RebindTyped DEF SlotRight
    <3>2. CASE run # None
      <4>1. PICK new : new = Rebind(run, H, a) OBVIOUS
      <4>2. new.now = run.now /\ new.applied = run.applied /\ new.patches = H
        BY <1>3, <2>2, <3>2, <4>1, RebindTyped
      <4>3. host'.slot[d].run = new /\ host'.patches = H BY <1>1, <1>2, <2>5, <4>1
      <4>4. run.applied = Applied(H, d, run.now) BY <1>2, <2>1, <2>3, <3>2 DEF SlotRight, UpToDate
      <4>5. new.applied = Applied(H, d, new.now) BY <4>2, <4>4
      <4>6. new.patches \subseteq H /\ \A q \in H \ new.patches : FALSE BY <4>2
      <4> QED BY <4>3, <4>5, <4>6 DEF SlotRight, Follows, UpToDate
    <3> QED BY <3>1, <3>2
  <2> QED BY <1>1, <1>2, <2>1, <2>4, <2>5
<1> QED BY <1>5, <1>6 DEF StreamsRight

(* Every run that streams a day or traces it has applied exactly the forks   *)
(* that date before it, after every step.                                    *)
LEMMA StreamsNext ==
  ASSUME PlaybackTyped, StreamsRight, AStep
  PROVE  StreamsRight'
<1>1. host' = host => StreamsRight' BY DEF StreamsRight, SlotRight, TraceRight, Follows, UpToDate
<1>2. ASSUME NEW m, StartStep(m) PROVE StreamsRight'
  BY <1>2 DEF StartStep, StreamsRight, SlotRight
<1>3. ASSUME WorkStep PROVE StreamsRight'
  <2>1. host # None /\ ChannelsTyped /\ HostWell(host)
    BY <1>3 DEF WorkStep, Active, PlaybackTyped, HostTyped
  <2>2. ASSUME NEW job \in host.details, StepDetail(job) PROVE StreamsRight'
    BY <2>1, <2>2, DetailDoes, SameStreamsKept
  <2>3. ASSUME NEW d \in Day, StepDensify(d) PROVE StreamsRight'
    BY <2>1, <2>3, DensifyDoes, SameStreamsKept
  <2>4. ASSUME NEW d \in Day, ~host.slot[d].complete, StepDay(d) PROVE StreamsRight'
    BY <2>1, <2>4, DayKeepsStreams
  <2>5. ASSUME NEW t \in host.traces, StepTrace(t) PROVE StreamsRight'
    BY <2>1, <2>5, TraceKeepsStreams
  <2> QED BY <1>3, <2>1, <2>2, <2>3, <2>4, <2>5, WorkCases DEF WorkStep
<1> QED BY <1>1, <1>2, <1>3, ForkKeepsStreams, OtherKeepsStreams
        DEF AStep, ForkStep, ResetStep, OtherStep, QuietStep, Posts, ReceiveStep, DropStep, vars

-----------------------------------------------------------------------------
(* The results on their way.                                                 *)

(* A message's results were computed with exactly the forks of P that change *)
(* each bucket.                                                              *)
RightUnder(P, m) ==
  /\ m.type = "chunk" => \A b \in m.from..(m.to - 1) : m.results[b] = Deps(P, m.day, b)
  /\ m.type = "trace" => \A b \in 0..(m.to - 1) : m.results[b] = Deps(P, m.day, b)
  /\ m.type = "dayComplete" => m.results = Deps(P, m.day, Buckets - 1)

(* The cuts the worker had seen at a revision, of the client's. *)
Seen(rev) == {p \in client.cuts : p.rev <= rev}
SentRight == \A i \in 1..Len(toMain) : MineBack(i) => RightUnder(Seen(toMain[i].rev), toMain[i])

LEMMA ChunkRight ==
  ASSUME HostWell(host), NEW d \in Day, SlotRight(d), Opens(d),
         StreamRun(d).now = host.slot[d].to, NEW end \in (host.slot[d].to + 1)..Buckets
  PROVE  /\ RightUnder(host.patches, ChunkMessage(d, end))
         /\ RightUnder(host.patches, ProgressMessage(d, end))
         /\ end = Buckets => RightUnder(host.patches, CompleteMessage(d, end))
<1>1. StreamRun(d) \in DayRuns /\ host.slot[d] \in Slots BY StreamTyped
<1>2. Buckets \in Nat /\ StreamRun(d).now \in 0..Buckets
  BY <1>1, ProtocolAssumption DEF DayRuns
<1>3. end \in 0..Buckets /\ StreamRun(d).now <= end /\ end >= 1 BY <1>2
<1>4. Follows(StreamRun(d), d, Buckets) /\ UpToDate(StreamRun(d), d) BY StreamRunRight
<1>5. /\ \A b \in StreamRun(d).now..(end - 1) :
            Results(StreamRun(d), d, end)[b] = Deps(host.patches, d, b)
      /\ Advance(StreamRun(d), d, end).applied = Deps(host.patches, d, end - 1)
  BY <1>1, <1>2, <1>3, <1>4, StepRight
<1>6. RightUnder(host.patches, ChunkMessage(d, end)) BY <1>5 DEF RightUnder, ChunkMessage
<1>7. RightUnder(host.patches, ProgressMessage(d, end)) BY DEF RightUnder, ProgressMessage
<1>8. end = Buckets => RightUnder(host.patches, CompleteMessage(d, end))
  BY <1>5 DEF RightUnder, CompleteMessage
<1> QED BY <1>6, <1>7, <1>8

(* Everything a unit of work sends is right under the host's patches. *)
LEMMA WorkSendsRight ==
  ASSUME ChannelsTyped, HostWell(host), StreamsRight, Work
  PROVE  \A i \in (Len(toMain) + 1)..Len(toMain') : RightUnder(host.patches, toMain'[i])
<1>1. host # None BY WellHost
<1> DEFINE New == (Len(toMain) + 1)..Len(toMain')
<1>2. ASSUME Sends({"detail", "error"}) PROVE \A i \in New : RightUnder(host.patches, toMain'[i])
  BY <1>2 DEF Sends, RightUnder
<1>3. ASSUME NEW job \in host.details, StepDetail(job)
      PROVE  \A i \in New : RightUnder(host.patches, toMain'[i])
  BY <1>2, <1>3, DetailDoes
<1>4. ASSUME NEW d \in Day, StepDensify(d)
      PROVE  \A i \in New : RightUnder(host.patches, toMain'[i])
  <2>1. Sends({"error"}) BY <1>4, DensifyDoes
  <2>2. Sends({"detail", "error"}) BY <2>1 DEF Sends
  <2> QED BY <1>2, <2>2
<1>5. ASSUME NEW d \in Day, ~host.slot[d].complete, StepDay(d)
      PROVE  \A i \in New : RightUnder(host.patches, toMain'[i])
  <2>1. \/ Sends({"error"})
        \/ SilentStep(d)
        \/ \E end \in (host.slot[d].to + 1)..Buckets : ChunkStep(d, end)
    BY <1>5, DayDoes
  <2>2. CASE Sends({"error"}) \/ SilentStep(d)
    <3>1. Sends({"detail", "error"}) BY <2>2 DEF Sends, SilentStep
    <3> QED BY <1>2, <3>1
  <2>3. ASSUME NEW end \in (host.slot[d].to + 1)..Buckets, ChunkStep(d, end)
        PROVE  \A i \in New : RightUnder(host.patches, toMain'[i])
    <3>1. SlotRight(d) BY <1>1 DEF StreamsRight
    <3>2. PICK n : n = Len(toMain) OBVIOUS
    <3>3. n \in Nat BY <3>2, IsSeqLen DEF ChannelsTyped
    <3>4. /\ toMain'[n + 1] = ChunkMessage(d, end) /\ toMain'[n + 2] = ProgressMessage(d, end)
          /\ Len(toMain') \in {n + 2, n + 3}
          /\ Len(toMain') = n + 3 => end = Buckets /\ toMain'[n + 3] = CompleteMessage(d, end)
          /\ Opens(d) /\ StreamRun(d).now = host.slot[d].to
      BY <2>3, <3>2 DEF ChunkStep
    <3>5. /\ RightUnder(host.patches, ChunkMessage(d, end))
          /\ RightUnder(host.patches, ProgressMessage(d, end))
          /\ end = Buckets => RightUnder(host.patches, CompleteMessage(d, end))
      BY <3>1, <3>4, ChunkRight
    <3>6. \A i \in New : i = n + 1 \/ i = n + 2 \/ (i = n + 3 /\ Len(toMain') = n + 3)
      BY <3>2, <3>3, <3>4
    <3> HIDE DEF New
    <3> QED BY <3>4, <3>5, <3>6
  <2> QED BY <2>1, <2>2, <2>3
<1>6. ASSUME NEW t \in host.traces, StepTrace(t)
      PROVE  \A i \in New : RightUnder(host.patches, toMain'[i])
  <2>1. \A i \in New : toMain'[i] = TraceMessage(t) /\ TraceNext(t).now >= t.to
    BY <1>6, TraceDoes
  <2>2. TraceRight(t) BY <1>1 DEF StreamsRight
  <2>3. TraceNext(t) \in DayRuns /\ t \in TraceJobs BY TraceTyped
  <2>4. TraceNext(t).now \in Nat /\ t.to \in Nat
    BY <2>3, ProtocolAssumption DEF DayRuns, TraceJobs
  <2>5. \A b \in 0..(t.to - 1) : b < TraceNext(t).now => TraceGot(t)[b] = Deps(host.patches, t.day, b)
    BY <2>2, TraceStepRight
  <2>6. TraceNext(t).now >= t.to =>
          \A b \in 0..(t.to - 1) : TraceGot(t)[b] = Deps(host.patches, t.day, b)
    BY <2>4, <2>5
  <2>7. TraceNext(t).now >= t.to => RightUnder(host.patches, TraceMessage(t))
    BY <2>6 DEF RightUnder, TraceMessage
  <2> QED BY <2>1, <2>7
<1> QED BY <1>3, <1>4, <1>5, <1>6, WorkCases

(* What is on its way was computed with exactly the forks its revision had   *)
(* seen.                                                                     *)
LEMMA SentNext ==
  ASSUME PlaybackTyped, Ordered, StreamsRight, SentRight, AStep
  PROVE  SentRight'
<1>1. /\ Len(toMain) \in Nat /\ client.run \in Nat /\ client.rev \in Nat
      /\ \A i \in 1..Len(toMain) : toMain[i].run \in Nat /\ toMain[i].rev \in Nat
      /\ host # None => host.rev \in Nat /\ host.run \in Nat
  BY Numbers
<1>2. ASSUME client'.run = client.run, client'.cuts = client.cuts, toMain' = toMain
      PROVE  SentRight'
  BY <1>2 DEF SentRight, MineBack, Seen, RightUnder
<1>3. ASSUME NEW p, NEW m, ForkStep(p, m) PROVE SentRight'
  <2>1. /\ client'.run = client.run /\ client'.cuts = client.cuts \cup {p} /\ toMain' = toMain
        /\ p.rev = client.rev + 1
    BY <1>3 DEF ForkStep, Posts
  <2>2. ASSUME NEW i \in 1..Len(toMain), MineBack(i)
        PROVE  {q \in client'.cuts : q.rev <= toMain[i].rev} = Seen(toMain[i].rev)
    <3>1. toMain[i].rev <= host.rev /\ host # None /\ host.rev <= client.rev
      BY <2>2 DEF Ordered, ResultsInOrder, ForksInOrder, Ours
    <3>2. ~(p.rev <= toMain[i].rev) BY <1>1, <2>1, <3>1
    <3> QED BY <2>1, <3>2 DEF Seen
  <2> QED BY <2>1, <2>2 DEF SentRight, MineBack, Seen, RightUnder
<1>4. ASSUME NEW m, ResetStep(m) PROVE SentRight'
  <2>1. client'.run = client.run + 1 /\ toMain' = toMain BY <1>4 DEF ResetStep, Posts, NewClient
  <2>2. \A i \in 1..Len(toMain) : toMain[i].run <= client.run BY DEF Ordered, ResultsInOrder
  <2>3. \A i \in 1..Len(toMain) : ~(toMain'[i].run = client'.run) BY <1>1, <2>1, <2>2
  <2> QED BY <2>1, <2>3 DEF SentRight, MineBack
<1>5. ASSUME NEW m, ReceiveStep(m) PROVE SentRight'
  <2>1. PICK n : n = Len(toMain) OBVIOUS
  <2>2. /\ n \in Nat /\ Len(toMain') = n - 1
        /\ \A i \in 1..(n - 1) : i + 1 \in 1..n /\ toMain'[i] = toMain[i + 1]
        /\ client'.run = client.run /\ client'.cuts = client.cuts
    BY <1>5, <2>1, ReceivedFrom DEF ReceiveStep
  <2>3. ASSUME NEW i \in 1..(n - 1), toMain'[i].run = client.run
        PROVE  RightUnder(Seen(toMain[i + 1].rev), toMain[i + 1])
    BY <2>1, <2>2, <2>3 DEF SentRight, MineBack
  <2>4. ASSUME NEW i \in 1..(n - 1), toMain'[i].run = client.run
        PROVE  RightUnder({p \in client.cuts : p.rev <= toMain'[i].rev}, toMain'[i])
    BY <2>2, <2>3, <2>4 DEF Seen
  <2> QED BY <2>2, <2>4 DEF SentRight, MineBack, Seen
<1>6. ASSUME Stamped, client' = client,
             \A i \in (Len(toMain) + 1)..Len(toMain') : toMain'[i].run = client.run =>
               RightUnder(Seen(toMain'[i].rev), toMain'[i])
      PROVE  SentRight'
  <2>1. PICK n, k : n = Len(toMain) /\ k = Len(toMain') OBVIOUS
  <2>2. /\ \A i \in 1..n : i \in 1..k /\ toMain'[i] = toMain[i]
        /\ \A i \in 1..k : i \in 1..n \/ i \in (n + 1)..k
    BY <1>6, <2>1, SentFrom
  <2>3. \A i \in 1..k : toMain'[i].run = client.run => RightUnder(Seen(toMain'[i].rev), toMain'[i])
    BY <1>6, <2>1, <2>2 DEF SentRight, MineBack
  <2> QED BY <1>6, <2>1, <2>3 DEF SentRight, MineBack, Seen, RightUnder
<1>7. ASSUME NEW m, StartStep(m) PROVE SentRight'
  <2>1. /\ Len(toMain') = Len(toMain) + 1 /\ toMain'[Len(toMain) + 1].type = "ready"
        /\ Stamped /\ client' = client
    BY <1>7 DEF StartStep, Takes
  <2>2. \A i \in (Len(toMain) + 1)..Len(toMain') : i = Len(toMain) + 1 BY <1>1, <2>1
  <2>3. \A i \in (Len(toMain) + 1)..Len(toMain') : toMain'[i].type = "ready" BY <2>1, <2>2
  <2>4. \A i \in (Len(toMain) + 1)..Len(toMain') : RightUnder(Seen(toMain'[i].rev), toMain'[i])
    BY <2>3 DEF RightUnder
  <2> QED BY <1>6, <2>1, <2>4
<1>8. ASSUME NEW m, HostForkStep(m) PROVE SentRight'
  <2>1. Sends({"detail"}) /\ Stamped /\ client' = client BY <1>8 DEF HostForkStep, Takes
  <2>2. \A i \in (Len(toMain) + 1)..Len(toMain') : RightUnder(Seen(toMain'[i].rev), toMain'[i])
    BY <2>1 DEF RightUnder, Sends
  <2> QED BY <1>6, <2>1, <2>2
<1>9. ASSUME NEW m, HostOtherStep(m) \/ DropStep(m) \/ OtherStep(m) PROVE SentRight'
  BY <1>2, <1>9 DEF HostOtherStep, DropStep, OtherStep, Takes, SameClock, SameResults
<1>10. ASSUME QuietStep \/ vars' = vars PROVE SentRight'
  BY <1>2, <1>10 DEF QuietStep, SameClock, SameResults, vars
<1>11. ASSUME WorkStep PROVE SentRight'
  <2>1. /\ host # None /\ ChannelsTyped /\ HostWell(host) /\ Work /\ Stamped /\ client' = client
        /\ SameRun
    BY <1>11 DEF WorkStep, Active, PlaybackTyped, HostTyped
  <2>2. \A i \in (Len(toMain) + 1)..Len(toMain') :
          RightUnder(host.patches, toMain'[i]) /\ toMain'[i].run = host.run /\ toMain'[i].rev = host.rev
    BY <2>1, WorkSendsRight DEF Stamped, SameRun
  <2>3. host.run = client.run => host.patches = Seen(host.rev)
    BY <2>1 DEF Ordered, ForksInOrder, Ours, Seen
  <2>4. \A i \in (Len(toMain) + 1)..Len(toMain') : toMain'[i].run = client.run =>
          RightUnder(Seen(toMain'[i].rev), toMain'[i])
    BY <2>2, <2>3
  <2> QED BY <1>6, <2>1, <2>4
<1> QED BY <1>3, <1>4, <1>5, <1>7, <1>8, <1>9, <1>10, <1>11 DEF AStep

-----------------------------------------------------------------------------
(* What the store keeps.                                                     *)

(* Whatever the cuts of P leave of a store is current under the cuts C. *)
RightBut(r, C, P) ==
  /\ \A d \in Day, b \in Bucket : r.main[<<d, b>>] # None /\ ~Gone(P, d, b) =>
       r.main[<<d, b>>].deps = Deps(C, d, b)
  /\ \A d \in Day :
       /\ r.trace[d] # None => \A b \in DOMAIN r.trace[d].results :
            ~Gone(P, d, b) => r.trace[d].results[b] = Deps(C, d, b)
       /\ r.rollup[d] # None /\ ~Gone(P, d, Buckets - 1) => r.rollup[d] = Deps(C, d, Buckets - 1)

LEMMA CurrentIsRight ==
  ASSUME ResultsTyped
  PROVE  ResultsCurrent <=> RightBut(results, client.cuts, {})
<1>1. \A d, b : ~Gone({}, d, b) BY DEF Gone
<1>2. DOMAIN results.main = Day \X Bucket BY DEF ResultsTyped, StoreWell
<1>3. (\A a \in DOMAIN results.main : results.main[a] # None =>
         results.main[a].deps = Deps(client.cuts, a[1], a[2]))
      <=> (\A d \in Day, b \in Bucket : results.main[<<d, b>>] # None =>
             results.main[<<d, b>>].deps = Deps(client.cuts, d, b))
  BY <1>2
<1> QED BY <1>1, <1>3 DEF ResultsCurrent, RightBut

LEMMA CutStore ==
  ASSUME NEW r, StoreWell(r), NEW P, NEW d \in Day
  PROVE  /\ CutResults(r, P).rollup[d] = IF Gone(P, d, Buckets - 1) THEN None ELSE r.rollup[d]
         /\ CutResults(r, P).trace[d] # None =>
              r.trace[d] # None /\ CutResults(r, P).trace[d].results = Kept(P, d, r.trace[d].results)
<1> DEFINE keep(x, e) == IF x = None \/ Kept(P, e, x.results) = <<>> THEN None
                         ELSE [x EXCEPT !.results = Kept(P, e, @)]
<1>1. CutResults(r, P).trace[d] = keep(r.trace[d], d) BY DEF CutResults
<1>2. CutResults(r, P).rollup[d] = IF Gone(P, d, Buckets - 1) THEN None ELSE r.rollup[d]
  BY DEF CutResults
<1>3. ASSUME keep(r.trace[d], d) # None
      PROVE  r.trace[d] # None /\ keep(r.trace[d], d).results = Kept(P, d, r.trace[d].results)
  <2>1. PICK x : x = r.trace[d] OBVIOUS
  <2>2. x # None BY <1>3, <2>1
  <2>3. x = [analyst |-> x.analyst, results |-> x.results] BY <2>1, <2>2 DEF StoreWell
  <2>4. PICK f : f = Kept(P, d, x.results) OBVIOUS
  <2>5. keep(x, d) = [x EXCEPT !.results = f] BY <1>3, <2>1, <2>4
  <2>6. [x EXCEPT !.results = f].results = f BY <2>3
  <2> QED BY <2>1, <2>2, <2>4, <2>5, <2>6
<1> QED BY <1>1, <1>2, <1>3

LEMMA CutIsRight ==
  ASSUME NEW r, StoreWell(r), NEW C, NEW P, RightBut(r, C, P)
  PROVE  RightBut(CutResults(r, P), C, {})
<1> DEFINE cut == CutResults(r, P)
<1>1. ASSUME NEW d \in Day, NEW b \in Bucket, cut.main[<<d, b>>] # None
      PROVE  cut.main[<<d, b>>].deps = Deps(C, d, b)
  <2>1. cut.main[<<d, b>>] = IF Gone(P, d, b) THEN None ELSE r.main[<<d, b>>] BY CutResultsTyped
  <2> HIDE DEF cut
  <2> QED BY <1>1, <2>1 DEF RightBut
<1>2. ASSUME NEW d \in Day, cut.trace[d] # None, NEW b \in DOMAIN cut.trace[d].results
      PROVE  cut.trace[d].results[b] = Deps(C, d, b)
  <2>1. r.trace[d] # None /\ cut.trace[d].results = Kept(P, d, r.trace[d].results)
    BY <1>2, CutStore
  <2> HIDE DEF cut
  <2>2. b \in DOMAIN r.trace[d].results /\ ~Gone(P, d, b)
        /\ cut.trace[d].results[b] = r.trace[d].results[b]
    BY <1>2, <2>1 DEF Kept
  <2> QED BY <2>1, <2>2 DEF RightBut
<1>3. ASSUME NEW d \in Day, cut.rollup[d] # None PROVE cut.rollup[d] = Deps(C, d, Buckets - 1)
  <2>1. cut.rollup[d] = IF Gone(P, d, Buckets - 1) THEN None ELSE r.rollup[d] BY CutStore
  <2> HIDE DEF cut
  <2> QED BY <1>3, <2>1 DEF RightBut
<1> HIDE DEF cut
<1>4. RightBut(cut, C, {}) BY <1>1, <1>2, <1>3 DEF RightBut
<1> QED BY <1>4 DEF cut

(* More cuts discard more. *)
LEMMA StillRight ==
  ASSUME NEW r, NEW C, NEW P, NEW Q, RightBut(r, C, P), P \subseteq Q
  PROVE  RightBut(r, C, Q)
<1>1. \A d, b : Gone(P, d, b) => Gone(Q, d, b) BY DEF Gone
<1> QED BY <1>1 DEF RightBut

(* A fork leaves what it does not change as it is. *)
LEMMA RightUnderFork ==
  ASSUME NEW r, NEW C, NEW p, RightBut(r, C, {})
  PROVE  RightBut(r, C \cup {p}, {p})
<1>1. \A d, b : ~Gone({p}, d, b) => Deps(C, d, b) = Deps(C \cup {p}, d, b) BY DEF Gone, Deps
<1>2. \A d, b : ~Gone({}, d, b) BY DEF Gone
<1> QED BY <1>1, <1>2 DEF RightBut

(* An accepted message keeps of each bucket what is current: a newer cut     *)
(* spares its first bucket, so it can only straddle it.                      *)
LEMMA AcceptedIsCurrent ==
  ASSUME PlaybackTyped, NEW m, NEW from \in Bucket, NEW to, m.day \in Day, m.rev \in Nat,
         ~Drops(m, from), NEW b \in from..(to - 1), b \in Bucket, to \in Nat,
         ~Gone(Recuts(m, to), m.day, b)
  PROVE  Deps(Seen(m.rev), m.day, b) = Deps(client.cuts, m.day, b)
<1>1. client.cuts \in SUBSET Patch /\ from \in Nat /\ b \in Nat
  BY ProtocolAssumption, Numbers DEF Bucket
<1>2. ASSUME NEW q \in client.cuts, q.rev > m.rev PROVE ~Affects(q, m.day, b)
  <2>1. q.at \in Nat /\ q.day \in Nat /\ m.day \in Nat
    BY <1>1, ProtocolAssumption DEF Patch, Bucket, Day
  <2>2. q \in Newer(m.rev) BY <1>2 DEF Newer
  <2>3. ~Affects(q, m.day, from) BY <2>2 DEF Drops
  <2>4. q \in Recuts(m, to) => ~Affects(q, m.day, b) BY DEF Gone
  <2>5. Affects(q, m.day, b) => q.day = m.day /\ to > q.at BY <1>1, <2>1, <2>3 DEF Affects
  <2> QED BY <2>2, <2>4, <2>5 DEF Recuts
<1>3. \A q \in client.cuts \ Seen(m.rev) : q.rev > m.rev
  BY <1>1, Numbers DEF Seen
<1>4. Seen(m.rev) \subseteq client.cuts BY DEF Seen
<1> QED BY <1>2, <1>3, <1>4, SameDeps

LEMMA ReceiveKeepsCurrent ==
  ASSUME PlaybackTyped, SentRight, ResultsCurrent, NEW m, ReceiveStep(m), m.run = client.run
  PROVE  RightBut(results', client.cuts, {})
<1> DEFINE C == client.cuts
<1>1. ResultMessage(m) /\ Handled(m) /\ StoreWell(results) /\ RightBut(results, C, {})
  BY CurrentIsRight DEF ReceiveStep, PlaybackTyped, ResultsTyped
<1>2. RightUnder(Seen(m.rev), m)
  <2>1. 1 \in 1..Len(toMain) /\ m = toMain[1] BY DEF ReceiveStep
  <2> QED BY <2>1 DEF SentRight, MineBack
<1>3. m.rev \in Nat /\ Buckets \in Nat BY <1>1, ProtocolAssumption DEF ResultMessage, Revision
<1>4. ASSUME NEW from, NEW to, NEW added, Accept(m, from, to, added), StoreWell(added),
             ~Drops(m, from) => RightBut(added, C, Recuts(m, to))
      PROVE  RightBut(results', C, {})
  <2>1. CASE m.rev > client.rev \/ Drops(m, from) BY <1>1, <1>4, <2>1 DEF Accept
  <2>2. CASE ~(m.rev > client.rev \/ Drops(m, from))
    <3>1. results' = CutResults(added, Recuts(m, to)) BY <1>4, <2>2 DEF Accept
    <3>2. RightBut(CutResults(added, Recuts(m, to)), C, {}) BY <1>4, <2>2, CutIsRight
    <3> QED BY <3>1, <3>2
  <2> QED BY <2>1, <2>2
<1>5. \A P : RightBut(results, C, P) BY <1>1, StillRight
<1>6. CASE m.type = "chunk"
  <2>1. Accept(m, m.from, m.to, AddChunk(results, m))
    BY <1>1, <1>6 DEF Handled, OnReady, OnProgress, OnChunk, OnTrace, OnDetail, OnDayComplete, OnError
  <2>2. /\ StoreWell(AddChunk(results, m))
        /\ \A d \in Day, b \in Bucket : AddChunk(results, m).main[<<d, b>>] =
              IF d = m.day /\ b \in m.from..(m.to - 1)
              THEN [deps |-> m.results[b], analyst |-> m.analyst] ELSE results.main[<<d, b>>]
        /\ AddChunk(results, m).trace = results.trace /\ AddChunk(results, m).rollup = results.rollup
    BY <1>1, <1>6, AddChunkTyped
  <2>3. m.from \in Bucket /\ m.day \in Day /\ m.to \in Nat
    BY <1>1, <1>3, <1>6 DEF ResultMessage, Bucket
  <2>4. ASSUME ~Drops(m, m.from) PROVE RightBut(AddChunk(results, m), C, Recuts(m, m.to))
    <3>1. ASSUME NEW b \in Bucket, b \in m.from..(m.to - 1), ~Gone(Recuts(m, m.to), m.day, b)
          PROVE  m.results[b] = Deps(C, m.day, b)
      BY <1>2, <1>3, <1>6, <2>3, <2>4, <3>1, AcceptedIsCurrent DEF RightUnder
    <3>2. ASSUME NEW d \in Day, NEW b \in Bucket, AddChunk(results, m).main[<<d, b>>] # None,
                 ~Gone(Recuts(m, m.to), d, b)
          PROVE  AddChunk(results, m).main[<<d, b>>].deps = Deps(C, d, b)
      <4>1. CASE d = m.day /\ b \in m.from..(m.to - 1)
        <5>1. AddChunk(results, m).main[<<d, b>>] = [deps |-> m.results[b], analyst |-> m.analyst]
          BY <2>2, <4>1
        <5>2. m.results[b] = Deps(C, d, b) BY <3>1, <3>2, <4>1
        <5> QED BY <5>1, <5>2
      <4>2. CASE ~(d = m.day /\ b \in m.from..(m.to - 1))
        <5>1. AddChunk(results, m).main[<<d, b>>] = results.main[<<d, b>>] BY <2>2, <4>2
        <5> QED BY <1>5, <3>2, <5>1 DEF RightBut
      <4> QED BY <4>1, <4>2
    <3>3. RightBut(results, C, Recuts(m, m.to)) BY <1>5
    <3> HIDE DEF C
    <3>4. PICK r : r = AddChunk(results, m) OBVIOUS
    <3> QED BY <2>2, <3>2, <3>3, <3>4 DEF RightBut
  <2> QED BY <1>4, <2>1, <2>2, <2>4
<1>7. CASE m.type = "trace"
  <2>1. results' = results \/ Accept(m, 0, m.to, AddTrace(results, m))
    BY <1>1, <1>7 DEF Handled, OnReady, OnProgress, OnChunk, OnTrace, OnDetail, OnDayComplete, OnError
  <2>2. /\ StoreWell(AddTrace(results, m)) /\ AddTrace(results, m).main = results.main
        /\ AddTrace(results, m).rollup = results.rollup
        /\ \A d \in Day : AddTrace(results, m).trace[d] =
              IF d = m.day THEN [analyst |-> m.analyst, results |-> m.results] ELSE results.trace[d]
    BY <1>1, <1>7, AddTraceTyped
  <2>3. /\ 0 \in Bucket /\ m.day \in Day /\ m.to \in Nat /\ DOMAIN m.results = 0..(m.to - 1)
        /\ \A b \in 0..(m.to - 1) : b \in Bucket
    <3>1. m.day \in Day /\ m.to \in 1..Buckets /\ m.results = [b \in 0..(m.to - 1) |-> m.results[b]]
      BY <1>1, <1>7 DEF ResultMessage
    <3>2. DOMAIN m.results = 0..(m.to - 1) BY <3>1
    <3> QED BY <1>3, <3>1, <3>2 DEF Bucket
  <2>4. ASSUME ~Drops(m, 0) PROVE RightBut(AddTrace(results, m), C, Recuts(m, m.to))
    <3>1. ASSUME NEW b \in 0..(m.to - 1), ~Gone(Recuts(m, m.to), m.day, b)
          PROVE  m.results[b] = Deps(C, m.day, b)
      BY <1>2, <1>3, <1>7, <2>3, <2>4, <3>1, AcceptedIsCurrent DEF RightUnder
    <3>2. ASSUME NEW d \in Day, AddTrace(results, m).trace[d] # None,
                 NEW b \in DOMAIN AddTrace(results, m).trace[d].results,
                 ~Gone(Recuts(m, m.to), d, b)
          PROVE  AddTrace(results, m).trace[d].results[b] = Deps(C, d, b)
      <4>1. CASE d = m.day BY <2>2, <2>3, <3>1, <3>2, <4>1
      <4>2. CASE d # m.day
        <5>1. AddTrace(results, m).trace[d] = results.trace[d] BY <2>2, <4>2
        <5> QED BY <1>5, <3>2, <5>1 DEF RightBut
      <4> QED BY <4>1, <4>2
    <3> HIDE DEF C
    <3> QED BY <1>5, <2>2, <3>2 DEF RightBut
  <2> QED BY <1>1, <1>4, <2>1, <2>2, <2>4
<1>8. CASE m.type = "detail"
  <2>1. Accept(m, m.from, m.to, AddDetail(results, m))
    BY <1>1, <1>8 DEF Handled, OnReady, OnProgress, OnChunk, OnTrace, OnDetail, OnDayComplete, OnError
  <2>2. /\ StoreWell(AddDetail(results, m)) /\ AddDetail(results, m).main = results.main
        /\ AddDetail(results, m).trace = results.trace /\ AddDetail(results, m).rollup = results.rollup
    BY <1>1, <1>8, AddDetailTyped
  <2>3. RightBut(AddDetail(results, m), C, Recuts(m, m.to)) BY <1>5, <2>2 DEF RightBut
  <2> QED BY <1>4, <2>1, <2>2, <2>3
<1>9. CASE m.type = "dayComplete"
  <2>1. results' = IF m.rev > client.rev \/ DayInvalidated(m) THEN results
                   ELSE [results EXCEPT !.rollup[m.day] = m.results]
    BY <1>1, <1>9 DEF Handled, OnReady, OnProgress, OnChunk, OnTrace, OnDetail, OnDayComplete, OnError
  <2>2. CASE m.rev > client.rev \/ DayInvalidated(m) BY <1>1, <2>1, <2>2
  <2>3. CASE ~(m.rev > client.rev \/ DayInvalidated(m))
    <3>1. results' = [results EXCEPT !.rollup[m.day] = m.results] BY <2>1, <2>3
    <3>2. m.day \in Day /\ Buckets - 1 \in Bucket
      BY <1>1, <1>9, ProtocolAssumption DEF ResultMessage, Bucket
    <3>3. /\ results'.main = results.main /\ results'.trace = results.trace
          /\ \A d \in Day : results'.rollup[d] = IF d = m.day THEN m.results ELSE results.rollup[d]
      BY <1>1, <3>1 DEF StoreWell
    <3>4. m.results = Deps(C, m.day, Buckets - 1)
      <4>1. m.results = Deps(Seen(m.rev), m.day, Buckets - 1) BY <1>2, <1>9 DEF RightUnder
      <4>2. \A q \in C \ Seen(m.rev) : q \in Newer(m.rev)
        BY <1>3, Numbers DEF Seen, Newer
      <4>3. \A q \in C \ Seen(m.rev) : ~Affects(q, m.day, Buckets - 1)
        BY <2>3, <4>2 DEF DayInvalidated
      <4>4. Seen(m.rev) \subseteq C BY DEF Seen
      <4> QED BY <4>1, <4>3, <4>4, SameDeps
    <3> HIDE DEF C
    <3>5. ASSUME NEW d \in Day, results'.rollup[d] # None
          PROVE  results'.rollup[d] = Deps(C, d, Buckets - 1)
      <4>1. CASE d = m.day BY <3>3, <3>4, <4>1
      <4>2. CASE d # m.day
        <5>1. \A b : ~Gone({}, d, b) BY DEF Gone
        <5> QED BY <1>1, <3>3, <3>5, <4>2, <5>1 DEF RightBut
      <4> QED BY <4>1, <4>2
    <3>6. PICK r : r = results' OBVIOUS
    <3>7. \A d \in Day : r.rollup[d] # None => r.rollup[d] = Deps(C, d, Buckets - 1) BY <3>5, <3>6
    <3>8. r.main = results.main /\ r.trace = results.trace BY <3>3, <3>6
    <3>9. RightBut(r, C, {}) BY <1>1, <3>7, <3>8 DEF RightBut
    <3> QED BY <3>6, <3>9 DEF C
  <2> QED BY <2>2, <2>3
<1>10. CASE m.type \in {"ready", "progress", "error"}
  <2>1. results' = results
    BY <1>1, <1>10 DEF Handled, OnReady, OnProgress, OnChunk, OnTrace, OnDetail, OnDayComplete, OnError
  <2> QED BY <1>1, <2>1
<1> QED BY <1>1, <1>6, <1>7, <1>8, <1>9, <1>10 DEF ResultMessage

(* Every result the store shows was computed with exactly the forks that     *)
(* change it, after every step.                                              *)
LEMMA CurrentNext ==
  ASSUME PlaybackTyped, PlaybackTyped', SentRight, ResultsCurrent, AStep
  PROVE  ResultsCurrent'
<1>1. /\ RightBut(results, client.cuts, {}) /\ StoreWell(results)
      /\ ResultsCurrent' <=> RightBut(results', client'.cuts, {})
  <2>1. ResultsTyped /\ ResultsTyped' BY DEF PlaybackTyped
  <2>2. RightBut(results, client.cuts, {}) BY <2>1, CurrentIsRight
  <2>3. ResultsCurrent' <=> RightBut(results, client.cuts, {})' BY <2>1, CurrentIsRight, PTL
  <2> QED BY <2>1, <2>2, <2>3 DEF ResultsTyped
<1>2. ASSUME client'.cuts = client.cuts, results' = results PROVE ResultsCurrent' BY <1>1, <1>2
<1>3. ASSUME NEW p, NEW m, ForkStep(p, m) PROVE ResultsCurrent'
  <2>1. client'.cuts = client.cuts \cup {p} /\ results' = CutResults(results, {p})
    BY <1>3 DEF ForkStep
  <2>2. RightBut(results, client.cuts \cup {p}, {p}) BY <1>1, RightUnderFork
  <2>3. RightBut(CutResults(results, {p}), client.cuts \cup {p}, {}) BY <1>1, <2>2, CutIsRight
  <2> QED BY <1>1, <2>1, <2>3
<1>4. ASSUME NEW m, ResetStep(m) PROVE ResultsCurrent'
  <2>1. results' = NoData BY <1>4 DEF ResetStep
  <2>2. /\ \A d \in Day, b \in Bucket : NoData.main[<<d, b>>] = None
        /\ \A d \in Day : NoData.trace[d] = None /\ NoData.rollup[d] = None
    BY DEF NoData
  <2>3. RightBut(NoData, client'.cuts, {}) BY <2>2 DEF RightBut
  <2> QED BY <1>1, <2>1, <2>3
<1>5. ASSUME NEW m, ReceiveStep(m) PROVE ResultsCurrent'
  <2>1. client'.cuts = client.cuts BY <1>5 DEF ReceiveStep
  <2>2. CASE m.run = client.run
    <3>1. RightBut(results', client.cuts, {}) BY <1>5, <2>2, ReceiveKeepsCurrent
    <3> QED BY <1>1, <2>1, <3>1
  <2>3. CASE m.run # client.run
    <3>1. results' = results BY <1>5, <2>3 DEF ReceiveStep
    <3> QED BY <1>2, <2>1, <3>1
  <2> QED BY <2>2, <2>3
<1>6. ASSUME NEW m, OtherStep(m) PROVE ResultsCurrent'
  BY <1>2, <1>6 DEF OtherStep, SameClock, SameResults
<1>7. ASSUME QuietStep \/ WorkStep \/ vars' = vars PROVE ResultsCurrent'
  BY <1>2, <1>7 DEF QuietStep, WorkStep, vars, SameClock, SameResults
<1>8. ASSUME NEW m, StartStep(m) \/ HostForkStep(m) \/ HostOtherStep(m) \/ DropStep(m)
      PROVE ResultsCurrent'
  BY <1>2, <1>8 DEF StartStep, HostForkStep, HostOtherStep, DropStep, Takes
<1> QED BY <1>3, <1>4, <1>5, <1>6, <1>7, <1>8 DEF AStep

-----------------------------------------------------------------------------
(* Everything the store shows outside the detail windows was computed with   *)
(* exactly the forks that change it (store.ts, forks.ts), however the user's *)
(* forks cross the worker's results.                                         *)
THEOREM ResultsAreCurrent == Spec => []ResultsCurrent
<1> DEFINE IInv == StreamsRight /\ SentRight /\ ResultsCurrent
<1>1. Init => IInv
  <2> SUFFICES ASSUME Init PROVE IInv OBVIOUS
  <2>1. StreamsRight /\ SentRight
    <3>1. host = None /\ Len(toMain) = 0 BY DEF Init
    <3> QED BY <3>1 DEF StreamsRight, SentRight, MineBack
  <2>2. ResultsCurrent
    <3>1. results = NoData BY DEF Init
    <3>2. /\ \A a \in Day \X Bucket : NoData.main[a] = None
          /\ DOMAIN NoData.main = Day \X Bucket
          /\ \A d \in Day : NoData.trace[d] = None /\ NoData.rollup[d] = None
      BY DEF NoData
    <3> QED BY <3>1, <3>2 DEF ResultsCurrent
  <2> QED BY <2>1, <2>2
<1>2. PlaybackTyped /\ PlaybackTyped' /\ Ordered /\ IInv /\ [Next]_vars => IInv'
  <2> SUFFICES ASSUME PlaybackTyped, PlaybackTyped', Ordered, IInv, [Next]_vars PROVE IInv'
    OBVIOUS
  <2>1. AStep BY Steps
  <2> QED BY <2>1, StreamsNext, SentNext, CurrentNext
<1>3. IInv => ResultsCurrent OBVIOUS
<1> HIDE DEF IInv
<1> QED BY <1>1, <1>2, <1>3, PlaybackIsTyped, ChannelsAreOrdered, PTL DEF Spec

-----------------------------------------------------------------------------
(* Time that shows as computed is held: whatever the worker has streamed is  *)
(* in the store or on its way to it, ahead of the progress that counts it,   *)
(* unless a fork the worker has yet to see discards it.                      *)

(* Nothing counts as computed that a cut the worker had not seen changes.    *)

ComputedBefore(rev) ==
  \A p \in client.cuts : p.rev > rev =>
    \A d \in Day, b \in Bucket : Affects(p, d, b) => b >= client.computed[d]

StaleUncomputed ==
  /\ Ours => ComputedBefore(host.rev)
  /\ ~Ours => ComputedBefore(0)
  /\ \A i \in 1..Len(toMain) : MineBack(i) => ComputedBefore(toMain[i].rev)

LEMMA CutComputedFits ==
  ASSUME PlaybackTyped, NEW p \in Patch, NEW d \in Day, NEW b \in Bucket
  PROVE  /\ CutComputed(p, d) \in 0..Buckets /\ CutComputed(p, d) <= client.computed[d]
         /\ Affects(p, d, b) => b >= CutComputed(p, d)
<1>1. client.computed[d] \in 0..Buckets BY DEF PlaybackTyped, ClientTyped
<1>2. Buckets \in Nat /\ p.at \in 0..(Buckets - 1) /\ p.day \in Nat /\ d \in Nat /\ b \in Nat
  BY ProtocolAssumption DEF Patch, Bucket, Day
<1> QED BY <1>1, <1>2 DEF CutComputed, Affects

LEMMA ComputedBeforeLater ==
  ASSUME PlaybackTyped, NEW rev \in Nat, NEW later \in Nat, rev <= later, ComputedBefore(rev)
  PROVE  ComputedBefore(later)
<1>1. \A p \in client.cuts : p.rev \in Nat BY Numbers
<1> QED BY <1>1 DEF ComputedBefore

LEMMA StaleNext ==
  ASSUME PlaybackTyped, Ordered, StaleUncomputed, AStep
  PROVE  StaleUncomputed'
<1>1. /\ Len(toMain) \in Nat /\ client.run \in Nat /\ client.rev \in Nat
      /\ \A p \in client.cuts : p.rev \in Nat
      /\ \A i \in 1..Len(toMain) : toMain[i].run \in Nat /\ toMain[i].rev \in Nat
      /\ host # None => host.rev \in Nat /\ host.run \in Nat
  BY Numbers
<1>2. ASSUME NEW rev, client'.cuts = client.cuts, client'.computed = client.computed,
             ComputedBefore(rev)
      PROVE  ComputedBefore(rev)'
  BY <1>2 DEF ComputedBefore
<1>3. ASSUME client'.run = client.run, client'.cuts = client.cuts,
             client'.computed = client.computed, toMain' = toMain, host' = host
      PROVE  StaleUncomputed'
  BY <1>3 DEF StaleUncomputed, ComputedBefore, Ours, MineBack
<1>4. ASSUME NEW p, NEW m, ForkStep(p, m) PROVE StaleUncomputed'
  <2>1. /\ client'.run = client.run /\ client'.cuts = client.cuts \cup {p} /\ p \in Patch
        /\ client'.computed = [d \in Day |-> CutComputed(p, d)] /\ toMain' = toMain /\ host' = host
    BY <1>4 DEF ForkStep, Posts
  <2>2. ASSUME NEW rev, ComputedBefore(rev) PROVE ComputedBefore(rev)'
    <3>1. ASSUME NEW q \in client.cuts \cup {p}, q.rev > rev, NEW d \in Day, NEW b \in Bucket,
                 Affects(q, d, b)
          PROVE  b >= CutComputed(p, d)
      <4>1. CASE q = p BY <2>1, <3>1, <4>1, CutComputedFits
      <4>2. CASE q # p
        <5>1. b >= client.computed[d] BY <2>2, <3>1, <4>2 DEF ComputedBefore
        <5>2. CutComputed(p, d) <= client.computed[d] /\ CutComputed(p, d) \in 0..Buckets
          BY <2>1, CutComputedFits
        <5>3. client.computed[d] \in 0..Buckets /\ b \in Int
          BY DEF PlaybackTyped, ClientTyped, Bucket
        <5> QED BY <5>1, <5>2, <5>3
      <4> QED BY <4>1, <4>2
    <3> QED BY <2>1, <3>1 DEF ComputedBefore
  <2> QED BY <2>1, <2>2 DEF StaleUncomputed, Ours, MineBack
<1>5. ASSUME NEW m, ResetStep(m) PROVE StaleUncomputed'
  <2>1. client'.cuts = {} BY <1>5 DEF ResetStep, NewClient
  <2>2. \A rev : ComputedBefore(rev)' BY <2>1 DEF ComputedBefore
  <2> QED BY <2>2 DEF StaleUncomputed
<1>6. ASSUME NEW m, ReceiveStep(m) PROVE StaleUncomputed'
  <2>1. PICK n : n = Len(toMain) OBVIOUS
  <2>2. /\ n \in Nat /\ n >= 1 /\ Len(toMain') = n - 1 /\ m = toMain[1]
        /\ \A i \in 1..(n - 1) : i + 1 \in 1..n /\ toMain'[i] = toMain[i + 1]
        /\ client'.run = client.run /\ client'.cuts = client.cuts /\ host' = host
    BY <1>6, <2>1, ReceivedFrom DEF ReceiveStep
  <2>3. CASE client'.computed = client.computed
    <3>1. ASSUME NEW i \in 1..(n - 1), toMain'[i].run = client.run
          PROVE  ComputedBefore(toMain[i + 1].rev)
      BY <2>1, <2>2, <3>1 DEF StaleUncomputed, MineBack
    <3> QED BY <2>2, <2>3, <3>1 DEF StaleUncomputed, MineBack, Ours, ComputedBefore
  <2>4. CASE client'.computed # client.computed
    <3>1. m.run = client.run /\ m.rev = client.rev BY <1>6, <2>4 DEF ReceiveStep
    <3>2. MineBack(1) BY <2>1, <2>2, <3>1 DEF MineBack
    <3>3. Ours /\ host.rev >= client.rev
      BY <1>1, <2>1, <2>2, <3>1, <3>2 DEF Ordered, ResultsInOrder, Ours
    <3>4. ASSUME NEW i \in 1..(n - 1), toMain'[i].run = client.run
          PROVE  toMain'[i].rev >= client.rev
      <4>1. MineBack(i + 1) /\ 1 < i + 1 BY <2>1, <2>2, <3>4 DEF MineBack
      <4>2. toMain[1].rev <= toMain[i + 1].rev
        BY <2>1, <2>2, <3>2, <4>1 DEF Ordered, ResultsInOrder
      <4> QED BY <1>1, <2>1, <2>2, <3>1, <4>2
    <3>5. ASSUME NEW rev \in Nat, rev >= client.rev PROVE ComputedBefore(rev)'
      <4>1. \A p \in client.cuts : ~(p.rev > rev)
        BY <1>1, <3>5 DEF Ordered, CutsNumbered
      <4> QED BY <2>2, <4>1 DEF ComputedBefore
    <3>6. ASSUME NEW i \in 1..(n - 1), NEW rev, rev = toMain'[i].rev, toMain'[i].run = client.run
          PROVE  ComputedBefore(rev)'
      <4>1. rev \in Nat BY <1>1, <2>1, <2>2, <3>6
      <4> QED BY <3>4, <3>5, <3>6, <4>1
    <3>7. ASSUME NEW rev, rev = host'.rev PROVE ComputedBefore(rev)'
      BY <1>1, <2>2, <3>3, <3>5, <3>7 DEF Ours
    <3>8. Ours' BY <2>2, <3>3 DEF Ours
    <3> QED BY <2>2, <3>6, <3>7, <3>8 DEF StaleUncomputed, MineBack, ComputedBefore
  <2> QED BY <2>3, <2>4
<1>7. ASSUME Stamped, client' = client, (host'.run = client.run) => ComputedBefore(host'.rev),
             ~Ours' => ComputedBefore(0)
      PROVE  StaleUncomputed'
  <2>1. PICK n, k : n = Len(toMain) /\ k = Len(toMain') OBVIOUS
  <2>2. /\ \A i \in 1..n : i \in 1..k /\ toMain'[i] = toMain[i]
        /\ \A i \in 1..k : i \in 1..n \/ i \in (n + 1)..k
        /\ \A i \in (n + 1)..k : toMain'[i].run = host'.run /\ toMain'[i].rev = host'.rev
    BY <1>7, <2>1, SentFrom
  <2>3. ASSUME NEW i \in 1..k, toMain'[i].run = client.run PROVE ComputedBefore(toMain'[i].rev)
    <3>1. CASE i \in 1..n BY <2>1, <2>2, <2>3, <3>1 DEF StaleUncomputed, MineBack
    <3>2. CASE i \in (n + 1)..k BY <1>7, <2>2, <2>3, <3>2
    <3> QED BY <2>2, <3>1, <3>2
  <2> QED BY <1>7, <2>1, <2>3 DEF StaleUncomputed, MineBack, Ours, ComputedBefore
<1>8. ASSUME NEW m, StartStep(m) PROVE StaleUncomputed'
  <2>1. /\ Stamped /\ client' = client /\ host'.rev = 0 /\ Starts(m) /\ m = toWorker[1]
        /\ 1 \in 1..Len(toWorker)
    BY <1>8 DEF StartStep, Takes
  <2>2. ~Ours BY <2>1 DEF Ordered, RunsInOrder
  <2>3. ComputedBefore(0) BY <2>2 DEF StaleUncomputed
  <2> QED BY <1>7, <2>1, <2>3
<1>9. ASSUME NEW m, HostForkStep(m) PROVE StaleUncomputed'
  <2>1. /\ Stamped /\ client' = client /\ host'.rev = m.patch.rev /\ m.patch \in Patch /\ host # None
        /\ m.patch.rev > host.rev /\ host'.run = host.run /\ host' # None
    BY <1>9 DEF HostForkStep, Takes, Active
  <2>2. host.rev \in Nat /\ m.patch.rev \in Nat /\ host.rev <= m.patch.rev
    BY <1>1, <2>1, Numbers
  <2>3. Ours => ComputedBefore(m.patch.rev)
    BY <2>2, ComputedBeforeLater DEF StaleUncomputed
  <2> QED BY <1>7, <2>1, <2>3 DEF StaleUncomputed, Ours
<1>10. ASSUME NEW m, HostOtherStep(m) PROVE StaleUncomputed'
  <2>1. /\ Stamped /\ client' = client /\ host'.rev = host.rev /\ host'.run = host.run
        /\ host # None /\ host' # None
    BY <1>10 DEF HostOtherStep, Takes, Active
  <2> QED BY <1>7, <2>1 DEF StaleUncomputed, Ours
<1>11. ASSUME WorkStep PROVE StaleUncomputed'
  <2>1. /\ Stamped /\ client' = client /\ host'.rev = host.rev /\ host'.run = host.run
        /\ host # None /\ host' # None
    BY <1>11 DEF WorkStep, Active, SameRun
  <2> QED BY <1>7, <2>1 DEF StaleUncomputed, Ours
<1>12. ASSUME NEW m, OtherStep(m) \/ DropStep(m) PROVE StaleUncomputed'
  BY <1>3, <1>12 DEF OtherStep, DropStep, Posts, Takes, SameClock, SameResults
<1>13. ASSUME QuietStep \/ vars' = vars PROVE StaleUncomputed'
  BY <1>3, <1>13 DEF QuietStep, SameClock, SameResults, vars
<1> QED BY <1>4, <1>5, <1>6, <1>8, <1>9, <1>10, <1>11, <1>12, <1>13 DEF AStep

-----------------------------------------------------------------------------
(* Whatever was streamed is held or on its way.                              *)

(* No cut later than a revision changes a bucket. *)
Settled(rev, d, b) == \A p \in client.cuts : p.rev > rev => ~Affects(p, d, b)

(* Once the first n messages are taken, the bucket is in the store: it is    *)
(* there now and none of them discards it, or one of them brings it.         *)
Covered(d, b, n) ==
  \/ results.main[<<d, b>>] # None /\ \A k \in 1..n : MineBack(k) => Settled(toMain[k].rev, d, b)
  \/ \E j \in 1..n : /\ MineBack(j) /\ toMain[j].type = "chunk" /\ toMain[j].day = d
                     /\ b \in toMain[j].from..(toMain[j].to - 1)
                     /\ Settled(toMain[j].rev, d, b)

StreamedCovered ==
  Live => \A d \in Day : \A b \in 0..(host.slot[d].to - 1) :
    Settled(host.rev, d, b) => Covered(d, b, Len(toMain))
ProgressCovered ==
  \A i \in 1..Len(toMain) :
    MineBack(i) /\ toMain[i].type = "progress" /\ toMain[i].rev = client.rev =>
      \A d \in Day : \A b \in 0..(toMain[i].computed[d] - 1) : Covered(d, b, i - 1)

LEMMA SettledLater ==
  ASSUME PlaybackTyped, NEW rev \in Nat, NEW later \in Nat, rev <= later,
         NEW d, NEW b, Settled(rev, d, b)
  PROVE  Settled(later, d, b)
<1>1. \A p \in client.cuts : p.rev \in Nat BY Numbers
<1> QED BY <1>1 DEF Settled

LEMMA AllSettled ==
  ASSUME PlaybackTyped, Ordered, NEW d, NEW b
  PROVE  Settled(client.rev, d, b)
<1>1. client.rev \in Nat /\ \A p \in client.cuts : p.rev \in Nat BY Numbers
<1>2. \A p \in client.cuts : ~(p.rev > client.rev) BY <1>1 DEF Ordered, CutsNumbered
<1> QED BY <1>2 DEF Settled

(* More messages, all sent at one revision that no later cut unsettles. *)
LEMMA CoveredGrows ==
  ASSUME PlaybackTyped, Stamped, client' = client, results' = results,
         NEW d, NEW b, NEW n \in Nat, NEW k \in Nat, n <= k, k <= Len(toMain'),
         n <= Len(toMain), n < k => n = Len(toMain) /\ Settled(host'.rev, d, b), Covered(d, b, n)
  PROVE  Covered(d, b, k)'
<1>1. PICK l, r : l = Len(toMain) /\ r = Len(toMain') OBVIOUS
<1>2. /\ l \in Nat /\ r \in Nat /\ l <= r
      /\ \A i \in 1..l : i \in 1..r /\ toMain'[i] = toMain[i]
      /\ \A i \in (l + 1)..r : i \in 1..r /\ toMain'[i].rev = host'.rev
  BY <1>1, SentFrom
<1>3. \A i \in 1..n : i \in 1..l /\ i \in 1..k BY <1>1, <1>2
<1>4. \A rev : Settled(rev, d, b)' <=> Settled(rev, d, b) BY DEF Settled
<1>5. CASE /\ results.main[<<d, b>>] # None
           /\ \A i \in 1..n : MineBack(i) => Settled(toMain[i].rev, d, b)
  <2>1. ASSUME NEW i \in 1..k, toMain'[i].run = client.run
        PROVE  \A p \in client.cuts : p.rev > toMain'[i].rev => ~Affects(p, d, b)
    <3>1. CASE i \in 1..n
      <4>1. MineBack(i) /\ toMain'[i] = toMain[i] BY <1>1, <1>2, <1>3, <2>1, <3>1 DEF MineBack
      <4> QED BY <1>5, <3>1, <4>1 DEF Settled
    <3>2. CASE i \notin 1..n
      <4>1. n < k /\ i \in (l + 1)..r BY <1>1, <1>2, <3>2
      <4> QED BY <1>2, <4>1 DEF Settled
    <3> QED BY <3>1, <3>2
  <2> QED BY <1>5, <2>1 DEF Covered, MineBack, Settled
<1>6. ASSUME NEW j \in 1..n, MineBack(j), toMain[j].type = "chunk", toMain[j].day = d,
             b \in toMain[j].from..(toMain[j].to - 1), Settled(toMain[j].rev, d, b)
      PROVE  Covered(d, b, k)'
  <2>1. j \in 1..k /\ j \in 1..r /\ toMain'[j] = toMain[j] BY <1>2, <1>3
  <2> QED BY <1>1, <1>6, <2>1 DEF Covered, MineBack, Settled
<1> QED BY <1>5, <1>6 DEF Covered

(* A fork that leaves the bucket alone. *)
LEMMA CoveredUnderFork ==
  ASSUME PlaybackTyped, NEW p, NEW m, ForkStep(p, m), NEW d \in Day, NEW b \in Bucket,
         ~Affects(p, d, b), NEW n \in Nat, Covered(d, b, n)
  PROVE  Covered(d, b, n)'
<1>1. /\ client'.run = client.run /\ client'.cuts = client.cuts \cup {p} /\ toMain' = toMain
      /\ results' = CutResults(results, {p})
  BY DEF ForkStep, Posts
<1>2. results'.main[<<d, b>>] = results.main[<<d, b>>]
  <2>1. CutResults(results, {p}).main[<<d, b>>]
          = IF Gone({p}, d, b) THEN None ELSE results.main[<<d, b>>]
    BY CutResultsTyped DEF PlaybackTyped, ResultsTyped
  <2>2. ~Gone({p}, d, b) BY DEF Gone
  <2> QED BY <1>1, <2>1, <2>2
<1>3. \A rev : Settled(rev, d, b) => Settled(rev, d, b)' BY <1>1 DEF Settled
<1> QED BY <1>1, <1>2, <1>3 DEF Covered, MineBack, Settled

(* Taking a message: it keeps the bucket or brings it. *)
LEMMA MainKept ==
  ASSUME PlaybackTyped, NEW m, ReceiveStep(m), m.run = client.run, NEW d \in Day, NEW b \in Bucket,
         results.main[<<d, b>>] # None,
         \A p \in client.cuts : p.rev > m.rev => ~Affects(p, d, b)
  PROVE  results'.main[<<d, b>>] # None
<1>1. ResultMessage(m) /\ Handled(m) /\ StoreWell(results)
  BY DEF ReceiveStep, PlaybackTyped, ResultsTyped
<1>2. ASSUME NEW from, NEW to, NEW added, Accept(m, from, to, added), StoreWell(added),
             added.main[<<d, b>>] # None
      PROVE  results'.main[<<d, b>>] # None
  <2>1. CASE results' = results BY <2>1
  <2>2. CASE results' = CutResults(added, Recuts(m, to))
    <3>1. ~Gone(Recuts(m, to), d, b) BY DEF Gone, Recuts, Newer
    <3>2. CutResults(added, Recuts(m, to)).main[<<d, b>>] = added.main[<<d, b>>]
      BY <1>2, <3>1, CutResultsTyped
    <3> QED BY <1>2, <2>2, <3>2
  <2> QED BY <1>2, <2>1, <2>2 DEF Accept
<1>3. CASE m.type = "chunk"
  <2>1. Accept(m, m.from, m.to, AddChunk(results, m))
    BY <1>1, <1>3 DEF Handled, OnReady, OnProgress, OnChunk, OnTrace, OnDetail, OnDayComplete, OnError
  <2>2. /\ StoreWell(AddChunk(results, m))
        /\ AddChunk(results, m).main[<<d, b>>] =
              IF d = m.day /\ b \in m.from..(m.to - 1)
              THEN [deps |-> m.results[b], analyst |-> m.analyst] ELSE results.main[<<d, b>>]
    BY <1>1, <1>3, AddChunkTyped
  <2>3. AddChunk(results, m).main[<<d, b>>] \in Shown \cup {None} /\ None \notin Shown
    BY <2>2, StoreAssumption DEF StoreWell
  <2>4. d = m.day /\ b \in m.from..(m.to - 1) =>
          [deps |-> m.results[b], analyst |-> m.analyst] \in Shown
    <3>1. SUFFICES ASSUME d = m.day, b \in m.from..(m.to - 1)
                   PROVE  [deps |-> m.results[b], analyst |-> m.analyst] \in Shown
      OBVIOUS
    <3>2. m.analyst \in Analyst /\ m.results \in [m.from..(m.to - 1) -> Revs]
      BY <1>1, <1>3 DEF ResultMessage
    <3>3. m.results[b] \in Revs BY <3>1, <3>2
    <3> QED BY <3>2, <3>3 DEF Shown
  <2>5. AddChunk(results, m).main[<<d, b>>] # None BY <2>2, <2>3, <2>4
  <2> QED BY <1>2, <2>1, <2>2, <2>5
<1>4. CASE m.type = "trace"
  <2>1. results' = results \/ Accept(m, 0, m.to, AddTrace(results, m))
    BY <1>1, <1>4 DEF Handled, OnReady, OnProgress, OnChunk, OnTrace, OnDetail, OnDayComplete, OnError
  <2>2. StoreWell(AddTrace(results, m)) /\ AddTrace(results, m).main = results.main
    BY <1>1, <1>4, AddTraceTyped
  <2> QED BY <1>2, <2>1, <2>2
<1>5. CASE m.type = "detail"
  <2>1. Accept(m, m.from, m.to, AddDetail(results, m))
    BY <1>1, <1>5 DEF Handled, OnReady, OnProgress, OnChunk, OnTrace, OnDetail, OnDayComplete, OnError
  <2>2. StoreWell(AddDetail(results, m)) /\ AddDetail(results, m).main = results.main
    BY <1>1, <1>5, AddDetailTyped
  <2> QED BY <1>2, <2>1, <2>2
<1>6. CASE m.type = "dayComplete"
  <2>1. \/ results' = results
        \/ results' = [results EXCEPT !.rollup[m.day] = m.results]
    BY <1>1, <1>6 DEF Handled, OnReady, OnProgress, OnChunk, OnTrace, OnDetail, OnDayComplete, OnError
  <2>2. results'.main = results.main BY <1>1, <2>1 DEF StoreWell
  <2> QED BY <2>2
<1>7. CASE m.type \in {"ready", "progress", "error"}
  <2>1. results' = results
    BY <1>1, <1>7 DEF Handled, OnReady, OnProgress, OnChunk, OnTrace, OnDetail, OnDayComplete, OnError
  <2> QED BY <2>1
<1> QED BY <1>1, <1>3, <1>4, <1>5, <1>6, <1>7 DEF ResultMessage

LEMMA ChunkBrings ==
  ASSUME PlaybackTyped, NEW m, ReceiveStep(m), m.run = client.run, m.type = "chunk",
         m.rev <= client.rev, NEW b \in m.from..(m.to - 1),
         \A p \in client.cuts : p.rev > m.rev => ~Affects(p, m.day, b)
  PROVE  results'.main[<<m.day, b>>] # None
<1>1. ResultMessage(m) /\ Handled(m) /\ StoreWell(results)
  BY DEF ReceiveStep, PlaybackTyped, ResultsTyped
<1>2. /\ m.day \in Day /\ m.from \in Bucket /\ m.to \in (m.from + 1)..Buckets /\ m.analyst \in Analyst
      /\ m.results \in [m.from..(m.to - 1) -> Revs] /\ m.rev \in Nat
  BY <1>1 DEF ResultMessage, Revision
<1>3. b \in Bucket /\ m.from <= b /\ client.rev \in Nat
  <2>1. PICK from, to : from = m.from /\ to = m.to OBVIOUS
  <2>2. Buckets \in Nat /\ from \in 0..(Buckets - 1) /\ to \in (from + 1)..Buckets /\ b \in from..(to - 1)
    BY <1>2, <2>1, ProtocolAssumption DEF Bucket
  <2>3. b \in 0..(Buckets - 1) /\ from <= b BY <2>2
  <2> QED BY <2>1, <2>3, Numbers DEF Bucket
<1>4. Accept(m, m.from, m.to, AddChunk(results, m))
  BY <1>1 DEF Handled, OnReady, OnProgress, OnChunk, OnTrace, OnDetail, OnDayComplete, OnError
<1>5. ~Drops(m, m.from)
  <2>1. SUFFICES ASSUME NEW p \in Newer(m.rev), Affects(p, m.day, m.from) PROVE FALSE BY DEF Drops
  <2>2. p \in client.cuts /\ p.rev > m.rev /\ p \in Patch BY <2>1, Numbers DEF Newer
  <2>3. Affects(p, m.day, b) BY <1>2, <1>3, <2>1, <2>2, AffectsLater
  <2> QED BY <2>2, <2>3
<1>6. results' = CutResults(AddChunk(results, m), Recuts(m, m.to)) BY <1>2, <1>3, <1>4, <1>5 DEF Accept
<1>7. ~Gone(Recuts(m, m.to), m.day, b) BY DEF Gone, Recuts, Newer
<1>8. /\ StoreWell(AddChunk(results, m))
      /\ AddChunk(results, m).main[<<m.day, b>>] = [deps |-> m.results[b], analyst |-> m.analyst]
  BY <1>1, <1>2, <1>3, AddChunkTyped
<1>9. results'.main[<<m.day, b>>] = [deps |-> m.results[b], analyst |-> m.analyst]
  BY <1>2, <1>3, <1>6, <1>7, <1>8, CutResultsTyped
<1>10. m.results[b] \in SUBSET (1..MaxForks) BY <1>2 DEF Revs
<1>11. [deps |-> m.results[b], analyst |-> m.analyst] \in Shown BY <1>2, <1>10 DEF Shown
<1> QED BY <1>9, <1>11, StoreAssumption

LEMMA CoveredShifts ==
  ASSUME PlaybackTyped, Ordered, NEW m, ReceiveStep(m), NEW d \in Day, NEW b \in Bucket,
         NEW n \in 1..Len(toMain), Covered(d, b, n)
  PROVE  Covered(d, b, n - 1)'
<1>1. PICK l : l = Len(toMain) OBVIOUS
<1>2. /\ l \in Nat /\ l >= 1 /\ Len(toMain') = l - 1 /\ m = toMain[1] /\ n \in 1..l
      /\ \A i \in 1..(l - 1) : i + 1 \in 1..l /\ toMain'[i] = toMain[i + 1]
      /\ client'.run = client.run /\ client'.cuts = client.cuts
  BY <1>1, ReceivedFrom DEF ReceiveStep
<1>3. \A i \in 1..(n - 1) : i \in 1..(l - 1) /\ i + 1 \in 1..n BY <1>2
<1>4. \A j \in 2..n : j - 1 \in 1..(n - 1) /\ j - 1 \in 1..(l - 1) /\ toMain'[j - 1] = toMain[j]
  <2>1. ASSUME NEW j \in 2..n PROVE j - 1 \in 1..(n - 1) /\ j - 1 \in 1..(l - 1) /\ (j - 1) + 1 = j
    BY <1>2
  <2> QED BY <1>2, <2>1
<1>5. \A i \in 1..l : toMain[i].rev \in Nat BY <1>1, Numbers
<1>6. ASSUME results'.main[<<d, b>>] # None,
             \A k \in 2..n : MineBack(k) => Settled(toMain[k].rev, d, b)
      PROVE  Covered(d, b, n - 1)'
  <2>1. ASSUME NEW i \in 1..(n - 1), toMain'[i].run = client.run
        PROVE  \A p \in client.cuts : p.rev > toMain'[i].rev => ~Affects(p, d, b)
    <3>1. i + 1 \in 2..n /\ toMain'[i] = toMain[i + 1] /\ i + 1 \in 1..l BY <1>2, <1>3
    <3>2. MineBack(i + 1) BY <1>1, <2>1, <3>1 DEF MineBack
    <3>3. Settled(toMain[i + 1].rev, d, b) BY <1>6, <3>1, <3>2
    <3> QED BY <3>1, <3>3 DEF Settled
  <2> QED BY <1>2, <1>6, <2>1 DEF Covered, MineBack, Settled
<1>7. CASE /\ results.main[<<d, b>>] # None
           /\ \A k \in 1..n : MineBack(k) => Settled(toMain[k].rev, d, b)
  <2>1. \A k \in 2..n : k \in 1..n BY <1>2
  <2>2. results'.main[<<d, b>>] # None
    <3>1. CASE m.run # client.run
      <4>1. results' = results BY <3>1 DEF ReceiveStep
      <4> QED BY <1>7, <4>1
    <3>2. CASE m.run = client.run
      <4>1. 1 \in 1..n /\ MineBack(1) BY <1>1, <1>2, <3>2 DEF MineBack
      <4>2. Settled(m.rev, d, b) BY <1>2, <1>7, <4>1
      <4> QED BY <1>7, <3>2, <4>2, MainKept DEF Settled
    <3> QED BY <3>1, <3>2
  <2> QED BY <1>6, <1>7, <2>1, <2>2
<1>8. ASSUME NEW j \in 1..n, MineBack(j), toMain[j].type = "chunk", toMain[j].day = d,
             b \in toMain[j].from..(toMain[j].to - 1), Settled(toMain[j].rev, d, b)
      PROVE  Covered(d, b, n - 1)'
  <2>1. CASE j # 1
    <3>1. j \in 2..n BY <1>2, <2>1
    <3>2. j - 1 \in 1..(n - 1) /\ j - 1 \in 1..(l - 1) /\ toMain'[j - 1] = toMain[j] BY <1>4, <3>1
    <3>3. toMain'[j - 1].run = client.run BY <1>8, <3>2 DEF MineBack
    <3> QED BY <1>2, <1>8, <3>2, <3>3 DEF Covered, MineBack, Settled
  <2>2. CASE j = 1
    <3>1. m.run = client.run /\ m.type = "chunk" /\ m.day = d /\ b \in m.from..(m.to - 1)
          /\ Settled(m.rev, d, b)
      BY <1>2, <1>8, <2>2 DEF MineBack
    <3>2. m.rev <= client.rev
      <4>1. Ours /\ toMain[1].rev <= host.rev
        BY <1>8, <2>2 DEF Ordered, ResultsInOrder, MineBack
      <4>2. host.rev <= client.rev BY <4>1 DEF Ordered, ForksInOrder
      <4>3. host.rev \in Nat /\ client.rev \in Nat BY <4>1, Numbers DEF Ours
      <4> QED BY <1>2, <1>5, <4>1, <4>2, <4>3
    <3>3. results'.main[<<d, b>>] # None BY <3>1, <3>2, ChunkBrings DEF Settled
    <3>4. ASSUME NEW k \in 2..n, MineBack(k) PROVE Settled(toMain[k].rev, d, b)
      <4>1. MineBack(1) /\ 1 < k /\ k \in 1..l /\ 1 \in 1..l BY <1>1, <1>2, <1>8, <2>2
      <4>2. toMain[1].rev <= toMain[k].rev
        BY <1>1, <3>4, <4>1 DEF Ordered, ResultsInOrder
      <4> QED BY <1>2, <1>5, <3>1, <4>1, <4>2, SettledLater
    <3> QED BY <1>6, <3>3, <3>4
  <2> QED BY <2>1, <2>2
<1> QED BY <1>7, <1>8 DEF Covered

-----------------------------------------------------------------------------
(* What a fork the worker takes leaves of a day was settled before it.       *)
LEMMA CutSettled ==
  ASSUME PlaybackTyped, Ordered, NEW m, HostForkStep(m), Ours,
         NEW d \in Day, NEW b \in 0..(CutTo(m.patch, d) - 1), Settled(m.patch.rev, d, b)
  PROVE  b \in 0..(host.slot[d].to - 1) /\ Settled(host.rev, d, b)
<1>1. PICK p : p = m.patch OBVIOUS
<1>2. /\ p \in Patch /\ host # None /\ m = toWorker[1] /\ m.type = "fork" /\ m.run = client.run
      /\ Len(toWorker) \in Nat /\ Len(toWorker) >= 1
  BY <1>1 DEF HostForkStep, Takes, Active, Ours
<1>3. HostWell(host) BY <1>2 DEF PlaybackTyped, HostTyped
<1>4. host.slot[d].to \in 0..Buckets BY <1>3 DEF HostWell, HostRuns, Slots
<1>5. p.at \in Nat /\ p.day \in Nat /\ d \in Nat /\ Buckets \in Nat
  BY <1>2, ProtocolAssumption DEF Patch, Bucket, Day
<1>6. b \in 0..(host.slot[d].to - 1) /\ ~Affects(p, d, b)
  BY <1>1, <1>4, <1>5 DEF CutTo, Affects
<1>7. 1 \in 1..Len(toWorker) /\ Forked(1) BY <1>2 DEF Forked, Mine
<1>8. p \in client.cuts BY <1>1, <1>2, <1>7 DEF Ordered, ForksInOrder
<1>9. ASSUME NEW q \in client.cuts, q.rev > host.rev PROVE ~Affects(q, d, b)
  <2>1. q.rev \in Nat /\ p.rev \in Nat /\ host.rev \in Nat BY <1>2, <1>8, Numbers
  <2>2. ~(q.rev <= host.rev) /\ ~host.failed BY <1>9, <2>1 DEF HostForkStep, Active
  <2>3. PICK i \in 1..Len(toWorker) : Forked(i) /\ toWorker[i].patch = q
    BY <2>2 DEF Ordered, ForksInOrder
  <2>4. p.rev <= q.rev
    <3>1. CASE i = 1 BY <1>1, <1>2, <2>1, <2>3, <3>1
    <3>2. CASE i # 1
      <4>1. 1 < i BY <1>2, <3>2
      <4>2. toWorker[1].patch.rev < toWorker[i].patch.rev
        BY <1>7, <2>3, <4>1 DEF Ordered, ForksInOrder
      <4> QED BY <1>1, <1>2, <2>1, <2>3, <4>2
    <3> QED BY <3>1, <3>2
  <2>5. CASE q = p BY <1>6, <2>5
  <2>6. CASE q # p
    <3>1. q.rev # p.rev BY <1>8, <2>6 DEF Ordered, CutsNumbered
    <3>2. q.rev > p.rev BY <2>1, <2>4, <3>1
    <3> QED BY <1>1, <3>2 DEF Settled
  <2> QED BY <2>5, <2>6
<1> QED BY <1>6, <1>9 DEF Settled

(* What a unit of work streams is on its way, ahead of the progress that     *)
(* counts it.                                                                *)
Streamed(d, end) ==
  LET n == Len(toMain)
  IN  /\ Len(toMain') \in {n + 2, n + 3}
      /\ toMain'[n + 1].type = "chunk" /\ toMain'[n + 1].day = d
      /\ toMain'[n + 1].from = host.slot[d].to /\ toMain'[n + 1].to = end
      /\ host'.slot[d].to = end
      /\ \A e \in Day \ {d} : host'.slot[e].to = host.slot[e].to
      /\ toMain'[n + 2].type = "progress"
      /\ toMain'[n + 2].computed = [e \in Day |-> host'.slot[e].to]
      /\ Len(toMain') = n + 3 => toMain'[n + 3].type = "dayComplete" /\ toMain'[n + 3].day = d
      /\ end = Buckets => Len(toMain') = n + 3
StreamedNothing ==
  /\ \A d \in Day : host'.slot[d].to = host.slot[d].to
  /\ \A i \in (Len(toMain) + 1)..Len(toMain') : toMain'[i].type # "progress"

LEMMA WorkCovers ==
  ASSUME PlaybackTyped, WorkStep, Ours
  PROVE  \/ StreamedNothing
         \/ \E d \in Day : \E end \in (host.slot[d].to + 1)..Buckets : Streamed(d, end)
<1>1. host # None /\ ChannelsTyped /\ HostWell(host) /\ Work
  BY DEF WorkStep, Active, PlaybackTyped, HostTyped
<1>2. ASSUME SameStreams, Sends({"detail", "error"}) \/ Sends({"error"}) \/ Sends({"trace"})
      PROVE  StreamedNothing
  BY <1>2 DEF SameStreams, Sends, StreamedNothing
<1>3. ASSUME NEW job \in host.details, StepDetail(job) PROVE StreamedNothing
  BY <1>1, <1>2, <1>3, DetailDoes
<1>4. ASSUME NEW d \in Day, StepDensify(d) PROVE StreamedNothing
  BY <1>1, <1>2, <1>4, DensifyDoes
<1>5. ASSUME NEW t \in host.traces, StepTrace(t) PROVE StreamedNothing
  BY <1>1, <1>2, <1>5, TraceDoes
<1>6. ASSUME NEW d \in Day, ~host.slot[d].complete, StepDay(d)
      PROVE  \/ StreamedNothing
             \/ \E end \in (host.slot[d].to + 1)..Buckets :
                  /\ ChunkStep(d, end)
                  /\ \A e \in Day \ {d} : host'.slot[e].to = host.slot[e].to
  <2>1. /\ \A e \in Day \ {d} : host'.slot[e].to = host.slot[e].to
        /\ \/ SameStreams /\ Sends({"error"})
           \/ SilentStep(d)
           \/ \E end \in (host.slot[d].to + 1)..Buckets : ChunkStep(d, end)
    BY <1>1, <1>6, DayDoes
  <2>2. ASSUME SilentStep(d) PROVE StreamedNothing
    BY <2>1, <2>2 DEF SilentStep, Sends, StreamedNothing
  <2> QED BY <1>2, <2>1, <2>2
<1>7. ASSUME NEW d \in Day, NEW end \in (host.slot[d].to + 1)..Buckets, ChunkStep(d, end),
             \A e \in Day \ {d} : host'.slot[e].to = host.slot[e].to
      PROVE  Streamed(d, end)
  <2>1. PICK n : n = Len(toMain) OBVIOUS
  <2>2. /\ StreamRun(d).now = host.slot[d].to /\ host'.slot[d].to = end
        /\ toMain'[n + 1] = ChunkMessage(d, end) /\ toMain'[n + 2] = ProgressMessage(d, end)
        /\ Len(toMain') \in {n + 2, n + 3}
        /\ Len(toMain') = n + 3 => toMain'[n + 3] = CompleteMessage(d, end)
        /\ end = Buckets => Len(toMain') = n + 3
    BY <1>7, <2>1 DEF ChunkStep
  <2>3. /\ ChunkMessage(d, end).type = "chunk" /\ ChunkMessage(d, end).day = d
        /\ ChunkMessage(d, end).from = host.slot[d].to /\ ChunkMessage(d, end).to = end
    BY <2>2 DEF ChunkMessage
  <2>4. CompleteMessage(d, end).type = "dayComplete" /\ CompleteMessage(d, end).day = d
    BY DEF CompleteMessage
  <2>5. ProgressMessage(d, end).computed = [e \in Day |-> host'.slot[e].to]
    <3>1. ProgressMessage(d, end).computed = [e \in Day |-> IF e = d THEN end ELSE host.slot[e].to]
      BY DEF ProgressMessage
    <3>2. \A e \in Day : (IF e = d THEN end ELSE host.slot[e].to) = host'.slot[e].to BY <1>7, <2>2
    <3> QED BY <3>1, <3>2
  <2>6. ProgressMessage(d, end).type = "progress" BY DEF ProgressMessage
  <2> QED BY <1>7, <2>1, <2>2, <2>3, <2>4, <2>5, <2>6 DEF Streamed
<1> QED BY <1>1, <1>3, <1>4, <1>5, <1>6, <1>7, WorkCases

(* What was streamed stays held or on its way, after every step. *)
LEMMA CoverNext ==
  ASSUME PlaybackTyped, Ordered, StreamedCovered, ProgressCovered, AStep
  PROVE  StreamedCovered' /\ ProgressCovered'
<1>1. /\ Len(toMain) \in Nat /\ client.run \in Nat /\ client.rev \in Nat /\ Buckets \in Nat
      /\ \A i \in 1..Len(toMain) : toMain[i].run \in Nat /\ toMain[i].rev \in Nat
      /\ host # None => host.rev \in Nat /\ host.run \in Nat
  BY Numbers, ProtocolAssumption
<1>2. host # None => \A d \in Day : host.slot[d].to \in 0..Buckets
  BY DEF PlaybackTyped, HostTyped, HostWell, HostRuns, Slots
<1>3. ASSUME NEW i \in 1..Len(toMain), toMain[i].type = "progress", NEW d \in Day,
             NEW b \in 0..(toMain[i].computed[d] - 1)
      PROVE  b \in Bucket
  <2>1. ResultMessage(toMain[i]) BY DEF PlaybackTyped, ChannelsTyped
  <2>2. toMain[i].computed[d] \in 0..Buckets BY <1>3, <2>1 DEF ResultMessage
  <2> QED BY <1>1, <2>2 DEF Bucket
<1>4. ASSUME host # None, NEW d \in Day, NEW b \in 0..(host.slot[d].to - 1) PROVE b \in Bucket
  BY <1>1, <1>2, <1>4 DEF Bucket
<1>5. ASSUME client'.run = client.run, client'.rev = client.rev, client'.cuts = client.cuts,
             results' = results, toMain' = toMain,
             host # None, host' # None => host'.run = host.run /\ host'.rev = host.rev
               /\ host'.failed = host.failed /\ \A d \in Day : host'.slot[d].to = host.slot[d].to
      PROVE  StreamedCovered' /\ ProgressCovered'
  BY <1>5 DEF StreamedCovered, ProgressCovered, Covered, Settled, MineBack, Live, Ours
<1>6. ASSUME client'.run = client.run, client'.rev = client.rev, client'.cuts = client.cuts,
             results' = results, toMain' = toMain, host' = host
      PROVE  StreamedCovered' /\ ProgressCovered'
  BY <1>6 DEF StreamedCovered, ProgressCovered, Covered, Settled, MineBack, Live, Ours
<1>7. ASSUME NEW p, NEW m, ForkStep(p, m) PROVE StreamedCovered' /\ ProgressCovered'
  <2>1. /\ client'.run = client.run /\ client'.cuts = client.cuts \cup {p} /\ p \in Patch
        /\ client'.rev = client.rev + 1 /\ p.rev = client.rev + 1 /\ toMain' = toMain /\ host' = host
    BY <1>7 DEF ForkStep, Posts
  <2>2. Ours => host.rev <= client.rev BY DEF Ordered, ForksInOrder
  <2>3. ASSUME Live, NEW d \in Day, NEW b \in 0..(host.slot[d].to - 1),
               \A q \in client'.cuts : q.rev > host.rev => ~Affects(q, d, b)
        PROVE  Covered(d, b, Len(toMain))'
    <3>1. b \in Bucket /\ host # None BY <1>4, <2>3 DEF Live, Ours
    <3>2. p.rev > host.rev BY <1>1, <2>1, <2>2, <2>3 DEF Live, Ours
    <3>3. ~Affects(p, d, b) BY <2>1, <2>3, <3>2
    <3>4. Settled(host.rev, d, b) BY <2>1, <2>3 DEF Settled
    <3>5. Covered(d, b, Len(toMain)) BY <2>3, <3>4 DEF StreamedCovered
    <3>6. PICK n : n = Len(toMain) OBVIOUS
    <3>7. Covered(d, b, n)' BY <1>1, <1>7, <3>1, <3>3, <3>5, <3>6, CoveredUnderFork
    <3> QED BY <2>1, <3>6, <3>7
  <2>4. StreamedCovered' BY <2>1, <2>3 DEF StreamedCovered, Live, Ours, Settled
  <2>5. ASSUME NEW i \in 1..Len(toMain), MineBack(i) PROVE toMain[i].rev # client.rev + 1
    <3>1. Ours /\ toMain[i].rev <= host.rev BY <2>5 DEF Ordered, ResultsInOrder
    <3> QED BY <1>1, <2>2, <3>1 DEF Ours
  <2>6. ProgressCovered' BY <2>1, <2>5 DEF ProgressCovered, MineBack
  <2> QED BY <2>4, <2>6
<1>8. ASSUME NEW m, ResetStep(m) PROVE StreamedCovered' /\ ProgressCovered'
  <2>1. client'.run = client.run + 1 /\ toMain' = toMain /\ host' = host
    BY <1>8 DEF ResetStep, Posts, NewClient
  <2>2. ~Live' BY <1>1, <2>1 DEF Ordered, RunsInOrder, Live, Ours
  <2>3. \A i \in 1..Len(toMain) : ~(toMain[i].run = client.run + 1)
    BY <1>1 DEF Ordered, ResultsInOrder
  <2> QED BY <2>1, <2>2, <2>3 DEF StreamedCovered, ProgressCovered, MineBack
<1>9. ASSUME NEW m, ReceiveStep(m) PROVE StreamedCovered' /\ ProgressCovered'
  <2>1. PICK n : n = Len(toMain) OBVIOUS
  <2>2. /\ n \in Nat /\ n >= 1 /\ Len(toMain') = n - 1 /\ m = toMain[1]
        /\ \A i \in 1..(n - 1) : i + 1 \in 1..n /\ toMain'[i] = toMain[i + 1]
        /\ client'.run = client.run /\ client'.rev = client.rev /\ client'.cuts = client.cuts
        /\ host' = host
    BY <1>9, <2>1, ReceivedFrom DEF ReceiveStep
  <2>3. ASSUME NEW d \in Day, NEW b \in Bucket, NEW j \in 1..n, Covered(d, b, j)
        PROVE  Covered(d, b, j - 1)'
    BY <1>9, <2>1, <2>3, CoveredShifts
  <2>4. ASSUME Live, NEW d \in Day, NEW b \in 0..(host.slot[d].to - 1), Settled(host.rev, d, b)
        PROVE  Covered(d, b, n - 1)'
    <3>1. b \in Bucket BY <1>4, <2>4 DEF Live, Ours
    <3>2. Covered(d, b, n) BY <2>1, <2>4 DEF StreamedCovered
    <3> QED BY <2>2, <2>3, <3>1, <3>2
  <2>5. StreamedCovered' BY <2>2, <2>4 DEF StreamedCovered, Live, Ours, Settled
  <2>6. ASSUME NEW i \in 1..(n - 1), toMain[i + 1].run = client.run,
               toMain[i + 1].type = "progress", toMain[i + 1].rev = client.rev,
               NEW d \in Day, NEW b \in 0..(toMain[i + 1].computed[d] - 1)
        PROVE  Covered(d, b, i - 1)'
    <3>1. PICK j : j = i + 1 OBVIOUS
    <3>2. j \in 1..n /\ i \in 1..n /\ j - 1 = i BY <2>2, <3>1
    <3>3. MineBack(j) BY <2>1, <2>6, <3>1, <3>2 DEF MineBack
    <3>4. Covered(d, b, i) BY <2>1, <2>6, <3>1, <3>2, <3>3 DEF ProgressCovered
    <3>5. b \in Bucket BY <1>3, <2>1, <2>6, <3>1, <3>2
    <3> QED BY <2>3, <3>2, <3>4, <3>5
  <2>7. ProgressCovered' BY <2>2, <2>6 DEF ProgressCovered, MineBack
  <2> QED BY <2>5, <2>7

<1>10. ASSUME Stamped, client' = client, results' = results,
              \A i \in (Len(toMain) + 1)..Len(toMain') : toMain'[i].type # "progress"
       PROVE  ProgressCovered'
  <2>1. PICK n, k : n = Len(toMain) /\ k = Len(toMain') OBVIOUS
  <2>2. /\ n \in Nat /\ k \in Nat /\ n <= k
        /\ \A i \in 1..n : i \in 1..k /\ toMain'[i] = toMain[i]
        /\ \A i \in 1..k : i \in 1..n \/ i \in (n + 1)..k
    BY <1>10, <2>1, SentFrom
  <2>3. ASSUME NEW i \in 1..k, toMain'[i].run = client.run,
               toMain'[i].type = "progress", toMain'[i].rev = client.rev,
               NEW d \in Day, NEW b \in 0..(toMain'[i].computed[d] - 1)
        PROVE  Covered(d, b, i - 1)'
    <3>1. i \in 1..n /\ toMain'[i] = toMain[i] BY <1>10, <2>1, <2>2, <2>3
    <3>2. MineBack(i) BY <2>1, <2>3, <3>1 DEF MineBack
    <3>3. Covered(d, b, i - 1) BY <2>1, <2>3, <3>1, <3>2 DEF ProgressCovered
    <3>4. PICK j : j = i - 1 OBVIOUS
    <3>5. j \in Nat /\ j <= n /\ j <= k BY <2>2, <3>1, <3>4
    <3>6. Covered(d, b, j)' BY <1>10, <2>1, <3>3, <3>4, <3>5, CoveredGrows
    <3> QED BY <3>4, <3>6
  <2> QED BY <1>10, <2>1, <2>3 DEF ProgressCovered, MineBack
<1>11. ASSUME Stamped, client' = client, results' = results, host'.run = host.run, host # None,
              host' # None, Live' => ~host.failed,
              Live => \A d \in Day : \A b \in 0..(host'.slot[d].to - 1) : Settled(host'.rev, d, b) =>
                        b \in 0..(host.slot[d].to - 1) /\ Settled(host.rev, d, b)
       PROVE  StreamedCovered'
  <2>1. PICK n, k : n = Len(toMain) /\ k = Len(toMain') OBVIOUS
  <2>2. n \in Nat /\ k \in Nat /\ n <= k BY <1>11, <2>1, SentFrom
  <2>3. ASSUME Live', NEW d \in Day, NEW b \in 0..(host'.slot[d].to - 1), Settled(host'.rev, d, b)
        PROVE  Covered(d, b, k)'
    <3>1. Live BY <1>11, <2>3 DEF Live, Ours
    <3>2. b \in 0..(host.slot[d].to - 1) /\ Settled(host.rev, d, b) BY <1>11, <2>3, <3>1
    <3>3. Covered(d, b, n) BY <2>1, <3>1, <3>2 DEF StreamedCovered
    <3> QED BY <1>11, <2>1, <2>2, <2>3, <3>3, CoveredGrows
  <2> QED BY <1>11, <2>1, <2>3 DEF StreamedCovered, Settled
<1>12. ASSUME NEW m, StartStep(m) PROVE StreamedCovered' /\ ProgressCovered'
  <2>1. /\ Len(toMain') = Len(toMain) + 1 /\ toMain'[Len(toMain) + 1].type = "ready"
        /\ Stamped /\ client' = client /\ results' = results
        /\ \A d \in Day : host'.slot[d].to = 0
    BY <1>12 DEF StartStep, Takes
  <2>2. \A i \in (Len(toMain) + 1)..Len(toMain') : toMain'[i].type # "progress"
    <3>1. \A i \in (Len(toMain) + 1)..Len(toMain') : i = Len(toMain) + 1 BY <1>1, <2>1
    <3> QED BY <2>1, <3>1
  <2>3. StreamedCovered' BY <2>1 DEF StreamedCovered
  <2> QED BY <1>10, <2>1, <2>2, <2>3
<1>13. ASSUME NEW m, HostForkStep(m) PROVE StreamedCovered' /\ ProgressCovered'
  <2>1. /\ Stamped /\ client' = client /\ results' = results /\ Sends({"detail"})
        /\ host'.run = host.run /\ host # None /\ host' # None /\ ~host.failed
        /\ host'.rev = m.patch.rev /\ \A d \in Day : host'.slot[d].to = CutTo(m.patch, d)
    BY <1>13 DEF HostForkStep, Takes, Active
  <2>2. \A i \in (Len(toMain) + 1)..Len(toMain') : toMain'[i].type # "progress" BY <2>1 DEF Sends
  <2>3. ASSUME Live, NEW d \in Day, NEW b \in 0..(host'.slot[d].to - 1), Settled(host'.rev, d, b)
        PROVE  b \in 0..(host.slot[d].to - 1) /\ Settled(host.rev, d, b)
    <3>1. b \in 0..(CutTo(m.patch, d) - 1) /\ Settled(m.patch.rev, d, b) BY <2>1, <2>3
    <3> QED BY <1>13, <2>3, <3>1, CutSettled DEF Live
  <2> QED BY <1>10, <1>11, <2>1, <2>2, <2>3
<1>14. ASSUME NEW m, HostOtherStep(m) PROVE StreamedCovered' /\ ProgressCovered'
  BY <1>5, <1>14 DEF HostOtherStep, Takes, Active
<1>15. ASSUME NEW m, DropStep(m) \/ OtherStep(m) PROVE StreamedCovered' /\ ProgressCovered'
  BY <1>6, <1>15 DEF DropStep, OtherStep, Posts, Takes, SameClock, SameResults
<1>16. ASSUME QuietStep \/ vars' = vars PROVE StreamedCovered' /\ ProgressCovered'
  BY <1>6, <1>16 DEF QuietStep, SameClock, SameResults, vars
<1>17. ASSUME WorkStep PROVE StreamedCovered' /\ ProgressCovered'
  <2>1. /\ Stamped /\ client' = client /\ results' = results /\ host # None /\ host' # None
        /\ host'.run = host.run /\ host'.rev = host.rev /\ ~host.failed
    BY <1>17 DEF WorkStep, Active, SameRun
  <2>2. CASE ~Ours
    <3>1. ~Live' BY <2>1, <2>2 DEF Live, Ours
    <3>2. PICK n, k : n = Len(toMain) /\ k = Len(toMain') OBVIOUS
    <3>3. /\ \A i \in 1..n : i \in 1..k /\ toMain'[i] = toMain[i]
          /\ \A i \in 1..k : i \in 1..n \/ i \in (n + 1)..k
          /\ \A i \in (n + 1)..k : toMain'[i].run = host'.run
      BY <2>1, <3>2, SentFrom
    <3>4. ASSUME NEW i \in 1..k, toMain'[i].run = client.run PROVE FALSE
      <4>1. CASE i \in 1..n
        <5>1. MineBack(i) BY <3>2, <3>3, <3>4, <4>1 DEF MineBack
        <5> QED BY <2>2, <3>2, <4>1, <5>1 DEF Ordered, ResultsInOrder
      <4>2. CASE i \in (n + 1)..k BY <2>1, <2>2, <3>3, <3>4, <4>2 DEF Ours
      <4> QED BY <3>3, <4>1, <4>2
    <3> QED BY <2>1, <3>1, <3>2, <3>4 DEF StreamedCovered, ProgressCovered, MineBack
  <2>3. CASE Ours /\ StreamedNothing
    <3>1. StreamedCovered' BY <1>11, <2>1, <2>3 DEF StreamedNothing
    <3>2. ProgressCovered' BY <1>10, <2>1, <2>3 DEF StreamedNothing
    <3> QED BY <3>1, <3>2
  <2>4. ASSUME Ours, NEW d \in Day, NEW end \in (host.slot[d].to + 1)..Buckets, Streamed(d, end)
        PROVE  StreamedCovered' /\ ProgressCovered'
    <3>1. PICK n, k : n = Len(toMain) /\ k = Len(toMain') OBVIOUS
    <3>2. /\ n \in Nat /\ k \in Nat /\ n <= k
          /\ \A i \in 1..n : i \in 1..k /\ toMain'[i] = toMain[i]
          /\ \A i \in (n + 1)..k : i \in 1..k /\ toMain'[i].run = host'.run /\ toMain'[i].rev = host'.rev
      BY <2>1, <3>1, SentFrom
    <3>3. /\ k \in {n + 2, n + 3}
          /\ toMain'[n + 1].type = "chunk" /\ toMain'[n + 1].day = d
          /\ toMain'[n + 1].from = host.slot[d].to /\ toMain'[n + 1].to = end
          /\ host'.slot[d].to = end
          /\ \A e \in Day \ {d} : host'.slot[e].to = host.slot[e].to
          /\ toMain'[n + 2].computed = [e \in Day |-> host'.slot[e].to]
          /\ k = n + 3 => toMain'[n + 3].type # "progress"
      BY <2>4, <3>1 DEF Streamed
    <3>4. n + 1 \in 1..k /\ n + 1 \in (n + 1)..k /\ n + 1 <= k /\ n + 1 \in Nat BY <3>2, <3>3
    <3>5. toMain'[n + 1].run = client.run /\ toMain'[n + 1].rev = host.rev
      BY <2>1, <2>4, <3>2, <3>4 DEF Ours
    <3>6. Live BY <2>1, <2>4 DEF Live
    <3>7. ASSUME NEW e \in Day, NEW b \in 0..(host'.slot[e].to - 1), Settled(host.rev, e, b),
                 NEW j \in Nat, n + 1 <= j, j <= k
          PROVE  Covered(e, b, j)'
      <4>1. CASE b \in 0..(host.slot[e].to - 1)
        <5>1. Covered(e, b, n) BY <3>1, <3>6, <3>7, <4>1 DEF StreamedCovered
        <5>2. n <= j BY <3>2, <3>7
        <5> QED BY <2>1, <3>1, <3>2, <3>7, <5>1, <5>2, CoveredGrows
      <4>2. CASE b \notin 0..(host.slot[e].to - 1)
        <5>1. e = d BY <3>3, <3>7, <4>2
        <5>2. host.slot[d].to \in 0..Buckets BY <1>2, <2>1
        <5>3. b \in host.slot[d].to..(end - 1) BY <1>1, <3>3, <3>7, <4>2, <5>1, <5>2
        <5>4. n + 1 \in 1..j BY <3>2, <3>7
        <5>5. \A p \in client.cuts : p.rev > toMain'[n + 1].rev => ~Affects(p, e, b)
          BY <3>5, <3>7 DEF Settled
        <5> QED BY <2>1, <3>1, <3>3, <3>4, <3>5, <5>1, <5>3, <5>4, <5>5
                DEF Covered, MineBack, Settled
      <4> QED BY <4>1, <4>2
    <3>8. StreamedCovered'
      <4>1. ASSUME NEW e \in Day, NEW b \in 0..(host'.slot[e].to - 1), Settled(host.rev, e, b)
            PROVE  Covered(e, b, k)'
        BY <3>2, <3>4, <3>7, <4>1
      <4> QED BY <2>1, <3>1, <4>1 DEF StreamedCovered, Settled
    <3>9. ASSUME NEW i \in 1..k, toMain'[i].run = client.run,
                 toMain'[i].type = "progress", toMain'[i].rev = client.rev,
                 NEW e \in Day, NEW b \in 0..(toMain'[i].computed[e] - 1)
          PROVE  Covered(e, b, i - 1)'
      <4>1. i \in 1..n \/ i = n + 2 BY <3>2, <3>3, <3>9
      <4>2. CASE i \in 1..n
        <5>1. toMain'[i] = toMain[i] BY <3>2, <4>2
        <5>2. MineBack(i) BY <3>1, <3>9, <4>2, <5>1 DEF MineBack
        <5>3. Covered(e, b, i - 1) BY <3>1, <3>9, <4>2, <5>1, <5>2 DEF ProgressCovered
        <5>4. PICK j : j = i - 1 OBVIOUS
        <5>5. j \in Nat /\ j <= n /\ j <= k BY <3>2, <4>2, <5>4
        <5>6. Covered(e, b, j)' BY <2>1, <3>1, <5>3, <5>4, <5>5, CoveredGrows
        <5> QED BY <5>4, <5>6
      <4>3. CASE i = n + 2
        <5>1. b \in 0..(host'.slot[e].to - 1) BY <3>3, <3>9, <4>3
        <5>2. i \in (n + 1)..k BY <3>2, <4>3, <3>9
        <5>3. client.rev = host.rev BY <2>1, <3>2, <3>9, <5>2
        <5>4. Settled(host.rev, e, b) BY <5>3, AllSettled
        <5>5. PICK j : j = i - 1 OBVIOUS
        <5>6. j \in Nat /\ n + 1 <= j /\ j <= k BY <3>2, <4>3, <5>2, <5>5
        <5>7. Covered(e, b, j)' BY <3>7, <5>1, <5>4, <5>6
        <5> QED BY <5>5, <5>7
      <4> QED BY <4>1, <4>2, <4>3
    <3>10. ProgressCovered' BY <2>1, <3>1, <3>9 DEF ProgressCovered, MineBack
    <3> QED BY <3>8, <3>10
  <2>5. Ours => StreamedNothing \/ \E d \in Day : \E end \in (host.slot[d].to + 1)..Buckets : Streamed(d, end)
    BY <1>17, WorkCovers
  <2> QED BY <2>2, <2>3, <2>4, <2>5
<1> QED BY <1>7, <1>8, <1>9, <1>12, <1>13, <1>14, <1>15, <1>16, <1>17 DEF AStep

-----------------------------------------------------------------------------
(* What counts as computed is held, after every step. *)
LEMMA HeldNext ==
  ASSUME PlaybackTyped, Ordered, StaleUncomputed, ProgressCovered, ComputedHeld, AStep
  PROVE  ComputedHeld'
<1>1. \A d \in Day : client.computed[d] \in 0..Buckets BY DEF PlaybackTyped, ClientTyped
<1>2. Buckets \in Nat /\ \A b \in Bucket : b \in 0..(Buckets - 1)
  BY ProtocolAssumption DEF Bucket
<1>3. ASSUME client'.computed = client.computed, results' = results PROVE ComputedHeld'
  BY <1>3 DEF ComputedHeld
<1>4. ASSUME NEW p, NEW m, ForkStep(p, m) PROVE ComputedHeld'
  <2>1. /\ p \in Patch /\ client'.computed = [d \in Day |-> CutComputed(p, d)]
        /\ results' = CutResults(results, {p})
    BY <1>4 DEF ForkStep
  <2>2. ASSUME NEW d \in Day, NEW b \in Bucket, b < CutComputed(p, d)
        PROVE  results'.main[<<d, b>>] # None
    <3>1. /\ CutComputed(p, d) \in 0..Buckets /\ CutComputed(p, d) <= client.computed[d]
          /\ Affects(p, d, b) => b >= CutComputed(p, d)
      BY <2>1, CutComputedFits
    <3>2. b < client.computed[d] /\ ~Affects(p, d, b) BY <1>1, <1>2, <2>2, <3>1
    <3>3. ~Gone({p}, d, b) BY <3>2 DEF Gone
    <3>4. results'.main[<<d, b>>] = results.main[<<d, b>>]
      BY <2>1, <3>3, CutResultsTyped DEF PlaybackTyped, ResultsTyped
    <3> QED BY <3>2, <3>4 DEF ComputedHeld
  <2> QED BY <2>1, <2>2 DEF ComputedHeld
<1>5. ASSUME NEW m, ResetStep(m) PROVE ComputedHeld'
  <2>1. \A d \in Day : client'.computed[d] = 0 BY <1>5 DEF ResetStep, NewClient
  <2>2. \A b \in Bucket : ~(b < 0) BY <1>2
  <2> QED BY <2>1, <2>2 DEF ComputedHeld
<1>6. ASSUME NEW m, ReceiveStep(m) PROVE ComputedHeld'
  <2>1. PICK n : n = Len(toMain) OBVIOUS
  <2>2. /\ n \in Nat /\ n >= 1 /\ m = toMain[1] /\ 1 \in 1..n BY <1>6, <2>1, ReceivedFrom
  <2>3. CASE m.run # client.run BY <1>3, <1>6, <2>3 DEF ReceiveStep
  <2>4. CASE m.run = client.run /\ m.type = "progress" /\ m.rev = client.rev
    <3>1. client'.computed = m.computed BY <1>6, <2>4 DEF ReceiveStep
    <3>2. results' = results
      BY <1>6, <2>4 DEF ReceiveStep, Handled, OnReady, OnProgress, OnChunk, OnTrace, OnDetail,
                        OnDayComplete, OnError
    <3>3. m.computed \in [Day -> 0..Buckets] BY <1>6, <2>4 DEF ReceiveStep, ResultMessage
    <3>4. ASSUME NEW d \in Day, NEW b \in Bucket, b < m.computed[d]
          PROVE  results.main[<<d, b>>] # None
      <4>1. m.computed[d] \in 0..Buckets BY <3>3
      <4>2. b \in 0..(m.computed[d] - 1) BY <1>2, <3>4, <4>1
      <4>3. MineBack(1) BY <2>1, <2>2, <2>4 DEF MineBack
      <4>4. Covered(d, b, 1 - 1) BY <2>1, <2>2, <2>4, <4>2, <4>3 DEF ProgressCovered
      <4>5. ~\E j \in 1..(1 - 1) : TRUE OBVIOUS
      <4> QED BY <4>4, <4>5 DEF Covered
    <3> QED BY <3>1, <3>2, <3>4 DEF ComputedHeld
  <2>5. CASE m.run = client.run /\ ~(m.type = "progress" /\ m.rev = client.rev)
    <3>1. client'.computed = client.computed BY <1>6, <2>5 DEF ReceiveStep
    <3>2. MineBack(1) BY <2>1, <2>2, <2>5 DEF MineBack
    <3>3. ComputedBefore(m.rev) BY <2>1, <2>2, <3>2 DEF StaleUncomputed
    <3>4. ASSUME NEW d \in Day, NEW b \in Bucket, b < client.computed[d]
          PROVE  results'.main[<<d, b>>] # None
      <4>1. ~(b >= client.computed[d]) BY <1>1, <1>2, <3>4
      <4>2. \A p \in client.cuts : p.rev > m.rev => ~Affects(p, d, b)
        BY <3>3, <4>1 DEF ComputedBefore
      <4> QED BY <1>6, <2>5, <3>4, <4>2, MainKept DEF ComputedHeld
    <3> QED BY <3>1, <3>4 DEF ComputedHeld
  <2> QED BY <2>3, <2>4, <2>5
<1>7. ASSUME NEW m, OtherStep(m) PROVE ComputedHeld'
  BY <1>3, <1>7 DEF OtherStep, SameClock, SameResults
<1>8. ASSUME QuietStep \/ WorkStep \/ vars' = vars PROVE ComputedHeld'
  BY <1>3, <1>8 DEF QuietStep, WorkStep, vars, SameClock, SameResults
<1>9. ASSUME NEW m, StartStep(m) \/ HostForkStep(m) \/ HostOtherStep(m) \/ DropStep(m)
      PROVE ComputedHeld'
  BY <1>3, <1>9 DEF StartStep, HostForkStep, HostOtherStep, DropStep, Takes
<1> QED BY <1>4, <1>5, <1>6, <1>7, <1>8, <1>9 DEF AStep

(* The playhead never plays over a hole (store.ts, host.ts): a bucket counts *)
(* as computed only while the store holds it, however the user's forks cross *)
(* the worker's chunks and progress.                                         *)
THEOREM ComputedIsHeld == Spec => []ComputedHeld
<1> DEFINE IInv == StaleUncomputed /\ StreamedCovered /\ ProgressCovered /\ ComputedHeld
<1>1. Init => IInv
  <2> SUFFICES ASSUME Init PROVE IInv OBVIOUS
  <2>1. /\ host = None /\ Len(toMain) = 0 /\ client.cuts = {} /\ \A d \in Day : client.computed[d] = 0
    BY DEF Init, NewClient
  <2>2. StaleUncomputed /\ StreamedCovered /\ ProgressCovered
    BY <2>1 DEF StaleUncomputed, ComputedBefore, StreamedCovered, ProgressCovered, Live, Ours
  <2>3. \A b \in Bucket : ~(b < 0) BY ProtocolAssumption DEF Bucket
  <2>4. ComputedHeld BY <2>1, <2>3 DEF ComputedHeld
  <2> QED BY <2>2, <2>4
<1>2. PlaybackTyped /\ Ordered /\ IInv /\ [Next]_vars => IInv'
  <2> SUFFICES ASSUME PlaybackTyped, Ordered, IInv, [Next]_vars PROVE IInv' OBVIOUS
  <2>1. AStep BY Steps
  <2> QED BY <2>1, StaleNext, CoverNext, HeldNext
<1>3. IInv => ComputedHeld OBVIOUS
<1> HIDE DEF IInv
<1> QED BY <1>1, <1>2, <1>3, PlaybackIsTyped, ChannelsAreOrdered, PTL DEF Spec

(* What the store shows outside the detail windows is current, nothing       *)
(* counts as computed that is not held, and the two sides come to agree:     *)
(* what the run `playback` checks, for every week, grid and number of forks, *)
(* resets, seeks and changes of analyst.                                     *)
THEOREM StoreIsTrue == Spec => []StoreTrue
<1>1. ResultsCurrent /\ ComputedHeld /\ Agreed => StoreTrue BY DEF StoreTrue
<1> QED BY <1>1, ResultsAreCurrent, ComputedIsHeld, TheTwoSidesAgree, PTL

-----------------------------------------------------------------------------
(* Nothing the worker sent once is needed again: the progress and the        *)
(* rollups.                                                                  *)

(* With no fork on its way to it, the worker has seen them all. *)
LEMMA CaughtUp ==
  ASSUME PlaybackTyped, Ordered, Live, \A k \in 1..Len(toWorker) : ~Forked(k)
  PROVE  host.rev = client.rev
<1>1. host.rev <= client.rev /\ host.rev \in Nat /\ client.rev \in Nat
  BY Numbers DEF Ordered, ForksInOrder, Live, Ours
<1>2. \A p \in client.cuts : p.rev <= host.rev BY DEF Ordered, ForksInOrder, Live
<1>3. CASE client.rev = 0 BY <1>1, <1>3
<1>4. CASE client.rev # 0
  <2>1. client.rev \in 1..client.rev BY <1>1, <1>4
  <2>2. PICK p \in client.cuts : p.rev = client.rev BY <2>1 DEF Ordered, CutsNumbered
  <2> QED BY <1>1, <1>2, <2>2
<1> QED BY <1>3, <1>4

(* When the worker has streamed the whole week and knows every cut, the last *)
(* progress that will count says so, or it has been taken already.           *)
Full(computed) == \A d \in Day : computed[d] = Buckets
Told(i) == MineBack(i) /\ toMain[i].type = "progress" /\ toMain[i].rev = client.rev
WeekStreamed == host.rev = client.rev /\ \A d \in Day : host.slot[d].to = Buckets
ProgressTold ==
  Live /\ WeekStreamed =>
    /\ (\A i \in 1..Len(toMain) : ~Told(i)) => Full(client.computed)
    /\ \A i \in 1..Len(toMain) :
         Told(i) /\ (\A j \in (i + 1)..Len(toMain) : ~Told(j)) => Full(toMain[i].computed)

LEMMA ToldNext ==
  ASSUME PlaybackTyped, Ordered, ProgressTold, AStep
  PROVE  ProgressTold'
<1>1. /\ Len(toMain) \in Nat /\ client.run \in Nat /\ client.rev \in Nat /\ Buckets \in Nat \ {0}
      /\ host # None => host.rev \in Nat /\ host.run \in Nat
      /\ 0 \in Day
  BY Numbers, ProtocolAssumption DEF Day
<1>2. ASSUME client'.run = client.run, client'.rev = client.rev, client'.computed = client.computed,
             toMain' = toMain, host # None, host' # None => host'.run = host.run /\ host'.rev = host.rev
               /\ host'.failed = host.failed /\ \A d \in Day : host'.slot[d].to = host.slot[d].to
      PROVE  ProgressTold'
  BY <1>2 DEF ProgressTold, WeekStreamed, Told, Full, MineBack, Live, Ours
<1>3. ASSUME client'.run = client.run, client'.rev = client.rev, client'.computed = client.computed,
             toMain' = toMain, host' = host
      PROVE  ProgressTold'
  BY <1>3 DEF ProgressTold, WeekStreamed, Told, Full, MineBack, Live, Ours
<1>4. ASSUME NEW p, NEW m, ForkStep(p, m) PROVE ProgressTold'
  <2>1. client'.run = client.run /\ client'.rev = client.rev + 1 /\ host' = host
    BY <1>4 DEF ForkStep, Posts
  <2>2. Ours => host.rev <= client.rev BY DEF Ordered, ForksInOrder
  <2>3. Ours => host.rev # client.rev + 1 BY <1>1, <2>2 DEF Ours
  <2> QED BY <2>1, <2>3 DEF ProgressTold, WeekStreamed, Live, Ours
<1>5. ASSUME NEW m, ResetStep(m) PROVE ProgressTold'
  <2>1. client'.run = client.run + 1 /\ host' = host BY <1>5 DEF ResetStep, Posts, NewClient
  <2>2. ~Live' BY <1>1, <2>1 DEF Ordered, RunsInOrder, Live, Ours
  <2> QED BY <2>2 DEF ProgressTold
<1>6. ASSUME NEW m, ReceiveStep(m) PROVE ProgressTold'
  <2>1. PICK n : n = Len(toMain) OBVIOUS
  <2>2. /\ n \in Nat /\ n >= 1 /\ Len(toMain') = n - 1 /\ m = toMain[1]
        /\ \A i \in 1..(n - 1) : i + 1 \in 1..n /\ toMain'[i] = toMain[i + 1]
        /\ client'.run = client.run /\ client'.rev = client.rev /\ host' = host
    BY <1>6, <2>1, ReceivedFrom DEF ReceiveStep
  <2>3. SUFFICES ASSUME Live, WeekStreamed
                 PROVE  /\ (\A i \in 1..(n - 1) : ~Told(i)') => Full(client'.computed)
                        /\ \A i \in 1..(n - 1) :
                             Told(i)' /\ (\A j \in (i + 1)..(n - 1) : ~Told(j)')
                               => Full(toMain'[i].computed)
    BY <2>2 DEF ProgressTold, Live, Ours, WeekStreamed, Full
  <2>4. \A i \in 1..(n - 1) : Told(i)' <=> Told(i + 1) BY <2>1, <2>2 DEF Told, MineBack
  <2>5. Told(1) <=> m.run = client.run /\ m.type = "progress" /\ m.rev = client.rev
    BY <2>1, <2>2 DEF Told, MineBack
  <2>6. \A j \in 2..n : j - 1 \in 1..(n - 1) /\ (j - 1) + 1 = j BY <2>2
  <2>7. ASSUME \A i \in 1..(n - 1) : ~Told(i)' PROVE Full(client'.computed)
    <3>1. \A j \in 2..n : ~Told(j) BY <2>4, <2>6, <2>7
    <3>2. CASE Told(1)
      <4>1. client'.computed = m.computed BY <1>6, <2>5, <3>2 DEF ReceiveStep
      <4>2. Full(toMain[1].computed)
        <5>1. 1 \in 1..n /\ 1 + 1 = 2 BY <2>2
        <5> QED BY <2>1, <2>3, <3>1, <3>2, <5>1 DEF ProgressTold
      <4> QED BY <2>2, <4>1, <4>2
    <3>3. CASE ~Told(1)
      <4>1. client'.computed = client.computed BY <1>6, <2>5, <3>3 DEF ReceiveStep
      <4>2. \A j \in 1..n : j = 1 \/ j \in 2..n BY <2>2
      <4>3. \A j \in 1..n : ~Told(j) BY <3>1, <3>3, <4>2
      <4> QED BY <2>1, <2>3, <4>1, <4>3 DEF ProgressTold
    <3> QED BY <3>2, <3>3
  <2>8. ASSUME NEW i \in 1..(n - 1), Told(i)', \A j \in (i + 1)..(n - 1) : ~Told(j)'
        PROVE  Full(toMain'[i].computed)
    <3>1. PICK k : k = i + 1 OBVIOUS
    <3>2. k \in 1..n /\ Told(k) /\ toMain'[i] = toMain[k] BY <2>2, <2>4, <2>8, <3>1
    <3>3. ASSUME NEW j \in (k + 1)..n PROVE ~Told(j)
      <4>1. j \in 2..n /\ j - 1 \in (i + 1)..(n - 1) BY <2>2, <3>1
      <4> QED BY <2>4, <2>6, <2>8, <4>1
    <3> QED BY <2>1, <2>3, <3>2, <3>3 DEF ProgressTold
  <2> QED BY <2>7, <2>8
<1>7. ASSUME NEW m, StartStep(m) PROVE ProgressTold'
  <2>1. host'.slot[0].to # Buckets BY <1>1, <1>7 DEF StartStep
  <2> QED BY <1>1, <2>1 DEF ProgressTold, WeekStreamed
<1>8. ASSUME NEW m, HostForkStep(m) PROVE ProgressTold'
  <2>1. /\ HostWell(host) /\ m.patch \in Patch /\ \A d \in Day : host'.slot[d].to = CutTo(m.patch, d)
    BY <1>8 DEF HostForkStep, Active, PlaybackTyped, HostTyped
  <2>2. m.patch.day \in Day /\ m.patch.at \in 0..(Buckets - 1) BY <2>1 DEF Patch, Bucket
  <2>3. host.slot[m.patch.day].to \in 0..Buckets BY <2>1, <2>2 DEF HostWell, HostRuns, Slots
  <2>4. CutTo(m.patch, m.patch.day) # Buckets BY <1>1, <2>2, <2>3 DEF CutTo
  <2> QED BY <2>1, <2>2, <2>4 DEF ProgressTold, WeekStreamed
<1>9. ASSUME NEW m, HostOtherStep(m) PROVE ProgressTold'
  BY <1>2, <1>9 DEF HostOtherStep, Takes, Active
<1>10. ASSUME NEW m, DropStep(m) \/ OtherStep(m) PROVE ProgressTold'
  BY <1>3, <1>10 DEF DropStep, OtherStep, Posts, Takes, SameClock, SameResults
<1>11. ASSUME QuietStep \/ vars' = vars PROVE ProgressTold'
  BY <1>3, <1>11 DEF QuietStep, SameClock, SameResults, vars
<1>12. ASSUME WorkStep PROVE ProgressTold'
  <2>1. /\ Stamped /\ client' = client /\ host # None /\ host' # None
        /\ host'.run = host.run /\ host'.rev = host.rev /\ ~host.failed
    BY <1>12 DEF WorkStep, Active, SameRun
  <2>2. SUFFICES ASSUME Ours PROVE ProgressTold'
    BY <2>1 DEF ProgressTold, Live, Ours
  <2>3. PICK n, k : n = Len(toMain) /\ k = Len(toMain') OBVIOUS
  <2>4. /\ n \in Nat /\ k \in Nat /\ n <= k
        /\ \A i \in 1..n : i \in 1..k /\ toMain'[i] = toMain[i]
        /\ \A i \in 1..k : i \in 1..n \/ i \in (n + 1)..k
        /\ \A i \in (n + 1)..k : i \in 1..k /\ toMain'[i].run = host'.run /\ toMain'[i].rev = host'.rev
    BY <2>1, <2>3, SentFrom
  <2>5. Live BY <2>1, <2>2 DEF Live
  <2>6. \A i \in 1..n : Told(i)' <=> Told(i) BY <2>1, <2>3, <2>4 DEF Told, MineBack
  <2>7. CASE StreamedNothing
    <3>1. \A i \in (n + 1)..k : ~Told(i)' BY <2>3, <2>7 DEF StreamedNothing, Told
    <3>2. \A d \in Day : host'.slot[d].to = host.slot[d].to BY <2>7 DEF StreamedNothing
    <3>3. ASSUME WeekStreamed', \A i \in 1..k : ~Told(i)' PROVE Full(client.computed)
      <4>1. WeekStreamed BY <2>1, <3>2, <3>3 DEF WeekStreamed
      <4>2. \A i \in 1..n : ~Told(i) BY <2>4, <2>6, <3>3
      <4> QED BY <2>3, <2>5, <4>1, <4>2 DEF ProgressTold
    <3>4. ASSUME WeekStreamed', NEW i \in 1..k, Told(i)', \A j \in (i + 1)..k : ~Told(j)'
          PROVE  Full(toMain'[i].computed)
      <4>1. WeekStreamed BY <2>1, <3>2, <3>4 DEF WeekStreamed
      <4>2. i \in 1..n BY <2>4, <3>1, <3>4
      <4>3. \A j \in (i + 1)..n : j \in 1..n /\ j \in (i + 1)..k BY <2>4, <4>2
      <4>4. Told(i) /\ (\A j \in (i + 1)..n : ~Told(j)) /\ toMain'[i] = toMain[i]
        BY <2>4, <2>6, <3>4, <4>2, <4>3
      <4> QED BY <2>3, <2>5, <4>1, <4>2, <4>4 DEF ProgressTold
    <3> QED BY <2>1, <2>3, <3>3, <3>4 DEF ProgressTold, Full
  <2>8. ASSUME NEW d \in Day, NEW end \in (host.slot[d].to + 1)..Buckets, Streamed(d, end)
        PROVE  ProgressTold'
    <3>1. /\ k \in {n + 2, n + 3} /\ toMain'[n + 2].computed = [e \in Day |-> host'.slot[e].to]
          /\ toMain'[n + 2].type = "progress"
          /\ k = n + 3 => toMain'[n + 3].type # "progress"
      BY <2>3, <2>8 DEF Streamed
    <3>2. n + 2 \in 1..k /\ n + 2 \in (n + 1)..k BY <2>4, <3>1
    <3>3. WeekStreamed' => Told(n + 2)'
      BY <2>1, <2>2, <2>3, <2>4, <3>1, <3>2 DEF Told, MineBack, Ours, WeekStreamed
    <3>4. ASSUME WeekStreamed', NEW i \in 1..k, Told(i)', \A j \in (i + 1)..k : ~Told(j)'
          PROVE  Full(toMain'[i].computed)
      <4>1. ~(n + 2 \in (i + 1)..k) BY <3>3, <3>4
      <4>2. i = n + 2 \/ i = n + 3 BY <2>4, <3>1, <3>2, <4>1
      <4>3. i = n + 2 BY <2>3, <2>4, <3>1, <3>4, <4>2 DEF Told
      <4> QED BY <3>1, <3>4, <4>3 DEF Full, WeekStreamed
    <3> QED BY <2>3, <3>2, <3>3, <3>4 DEF ProgressTold
  <2>9. StreamedNothing \/ \E d \in Day : \E end \in (host.slot[d].to + 1)..Buckets : Streamed(d, end)
    BY <1>12, <2>2, WorkCovers
  <2> QED BY <2>7, <2>8, <2>9
<1> QED BY <1>4, <1>5, <1>6, <1>7, <1>8, <1>9, <1>10, <1>11, <1>12 DEF AStep

-----------------------------------------------------------------------------
(* What taking a message does to the store.                                  *)

(* The three kinds of results a newer cut may straddle. *)
Adds(m, added) ==
  \/ m.type = "chunk" /\ added = AddChunk(results, m)
  \/ m.type = "trace" /\ m.analyst = client.tracked /\ added = AddTrace(results, m)
  \/ m.type = "detail" /\ added = AddDetail(results, m)
Refused(m) ==
  m.rev <= client.rev =>
    /\ m.type = "chunk" => Drops(m, m.from)
    /\ m.type = "trace" => m.analyst # client.tracked \/ Drops(m, 0)
    /\ m.type = "detail" => Drops(m, m.from)
    /\ m.type = "dayComplete" => DayInvalidated(m)

Taking(m) ==
  \/ results' = results /\ Refused(m)
  \/ m.type = "dayComplete" /\ results' = [results EXCEPT !.rollup[m.day] = m.results]
  \/ \E added : Adds(m, added) /\ results' = CutResults(added, Recuts(m, m.to))

LEMMA Takings ==
  ASSUME PlaybackTyped, NEW m, ReceiveStep(m), m.run = client.run
  PROVE  /\ ResultMessage(m) /\ StoreWell(results) /\ m.rev \in Nat /\ client.rev \in Nat
         /\ Taking(m)
<1>1. ResultMessage(m) /\ Handled(m) /\ StoreWell(results)
  BY DEF ReceiveStep, PlaybackTyped, ResultsTyped
<1>2. m.rev \in Nat /\ client.rev \in Nat BY <1>1, Numbers DEF ResultMessage, Revision
<1> SUFFICES Taking(m) BY <1>1, <1>2
<1>3. CASE m.type = "chunk"
  <2>1. Accept(m, m.from, m.to, AddChunk(results, m))
    BY <1>1, <1>3 DEF Handled, OnReady, OnProgress, OnChunk, OnTrace, OnDetail, OnDayComplete, OnError
  <2>2. Adds(m, AddChunk(results, m)) BY <1>3 DEF Adds
  <2>3. CASE m.rev > client.rev \/ Drops(m, m.from)
    <3>1. results' = results BY <2>1, <2>3 DEF Accept
    <3>2. Refused(m) BY <1>2, <1>3, <2>3 DEF Refused
    <3> QED BY <3>1, <3>2 DEF Taking
  <2>4. CASE ~(m.rev > client.rev \/ Drops(m, m.from)) BY <2>1, <2>2, <2>4 DEF Accept, Taking
  <2> QED BY <2>3, <2>4
<1>4. CASE m.type = "trace"
  <2>1. IF m.analyst # client.tracked THEN results' = results
        ELSE Accept(m, 0, m.to, AddTrace(results, m))
    BY <1>1, <1>4 DEF Handled, OnReady, OnProgress, OnChunk, OnTrace, OnDetail, OnDayComplete, OnError
  <2>2. CASE m.analyst # client.tracked
    <3>1. Refused(m) BY <1>4, <2>2 DEF Refused
    <3> QED BY <2>1, <2>2, <3>1 DEF Taking
  <2>3. CASE m.analyst = client.tracked
    <3>1. Adds(m, AddTrace(results, m)) BY <1>4, <2>3 DEF Adds
    <3>2. CASE m.rev > client.rev \/ Drops(m, 0)
      <4>1. results' = results BY <2>1, <2>3, <3>2 DEF Accept
      <4>2. Refused(m) BY <1>2, <1>4, <3>2 DEF Refused
      <4> QED BY <4>1, <4>2 DEF Taking
    <3>3. CASE ~(m.rev > client.rev \/ Drops(m, 0)) BY <2>1, <2>3, <3>1, <3>3 DEF Accept, Taking
    <3> QED BY <3>2, <3>3
  <2> QED BY <2>2, <2>3
<1>5. CASE m.type = "detail"
  <2>1. Accept(m, m.from, m.to, AddDetail(results, m))
    BY <1>1, <1>5 DEF Handled, OnReady, OnProgress, OnChunk, OnTrace, OnDetail, OnDayComplete, OnError
  <2>2. Adds(m, AddDetail(results, m)) BY <1>5 DEF Adds
  <2>3. CASE m.rev > client.rev \/ Drops(m, m.from)
    <3>1. results' = results BY <2>1, <2>3 DEF Accept
    <3>2. Refused(m) BY <1>2, <1>5, <2>3 DEF Refused
    <3> QED BY <3>1, <3>2 DEF Taking
  <2>4. CASE ~(m.rev > client.rev \/ Drops(m, m.from)) BY <2>1, <2>2, <2>4 DEF Accept, Taking
  <2> QED BY <2>3, <2>4
<1>6. CASE m.type = "dayComplete"
  <2>1. results' = IF m.rev > client.rev \/ DayInvalidated(m) THEN results
                   ELSE [results EXCEPT !.rollup[m.day] = m.results]
    BY <1>1, <1>6 DEF Handled, OnReady, OnProgress, OnChunk, OnTrace, OnDetail, OnDayComplete, OnError
  <2>2. CASE m.rev > client.rev \/ DayInvalidated(m)
    <3>1. Refused(m) BY <1>2, <1>6, <2>2 DEF Refused
    <3> QED BY <2>1, <2>2, <3>1 DEF Taking
  <2>3. CASE ~(m.rev > client.rev \/ DayInvalidated(m)) BY <1>6, <2>1, <2>3 DEF Taking
  <2> QED BY <2>2, <2>3
<1>7. CASE m.type \in {"ready", "progress", "error"}
  <2>1. results' = results
    BY <1>1, <1>7 DEF Handled, OnReady, OnProgress, OnChunk, OnTrace, OnDetail, OnDayComplete, OnError
  <2>2. Refused(m) BY <1>7 DEF Refused
  <2> QED BY <2>1, <2>2 DEF Taking
<1> QED BY <1>1, <1>2, <1>3, <1>4, <1>5, <1>6, <1>7 DEF ResultMessage

(* What is added leaves the rest of the store alone. *)
LEMMA AddedWell ==
  ASSUME StoreWell(results), NEW m, ResultMessage(m), NEW added, Adds(m, added)
  PROVE  /\ StoreWell(added) /\ added.rollup = results.rollup
         /\ m.type # "chunk" => added.main = results.main
         /\ m.type # "trace" => added.trace = results.trace
         /\ m.type # "detail" => added.details = results.details
<1>1. CASE m.type = "chunk"
  <2>1. added = AddChunk(results, m) BY <1>1 DEF Adds
  <2>2. added.details = results.details BY <2>1 DEF AddChunk, StoreWell
  <2> QED BY <1>1, <2>1, <2>2, AddChunkTyped
<1>2. CASE m.type = "trace"
  <2>1. added = AddTrace(results, m) BY <1>2 DEF Adds
  <2> QED BY <1>2, <2>1, AddTraceTyped
<1>3. CASE m.type = "detail"
  <2>1. added = AddDetail(results, m) BY <1>3 DEF Adds
  <2> QED BY <1>3, <2>1, AddDetailTyped
<1> QED BY <1>1, <1>2, <1>3 DEF Adds

(* A cut that spares a bucket of a message does not drop what starts earlier. *)
LEMMA NotDropped ==
  ASSUME PlaybackTyped, NEW m, m.day \in Day, NEW from \in Bucket, NEW b \in Bucket, from <= b,
         Settled(m.rev, m.day, b)
  PROVE  ~Drops(m, from)
<1>1. SUFFICES ASSUME NEW p \in Newer(m.rev), Affects(p, m.day, from) PROVE FALSE BY DEF Drops
<1>2. p \in client.cuts /\ p.rev > m.rev /\ p \in Patch BY <1>1, Numbers DEF Newer
<1>3. Affects(p, m.day, b) BY <1>1, <1>2, AffectsLater
<1> QED BY <1>2, <1>3 DEF Settled

LEMMA NotRecut ==
  ASSUME NEW m, NEW to, NEW d, NEW b, Settled(m.rev, d, b)
  PROVE  ~Gone(Recuts(m, to), d, b)
<1> QED BY DEF Settled, Gone, Recuts, Newer

LEMMA RollupTaken ==
  ASSUME PlaybackTyped, NEW m, ReceiveStep(m), m.run = client.run, m.rev <= client.rev,
         NEW d \in Day, Settled(m.rev, d, Buckets - 1),
         results.rollup[d] # None \/ (m.type = "dayComplete" /\ m.day = d)
  PROVE  results'.rollup[d] # None
<1>1. /\ ResultMessage(m) /\ StoreWell(results)
      /\ Taking(m)
  BY Takings
<1>2. CASE results' = results /\ Refused(m)
  <2>1. ~(m.type = "dayComplete" /\ m.day = d)
    BY <1>2 DEF Refused, DayInvalidated, Newer, Settled
  <2> QED BY <1>2, <2>1
<1>3. CASE m.type = "dayComplete" /\ results' = [results EXCEPT !.rollup[m.day] = m.results]
  <2>1. m.day \in Day /\ m.results \in Revs BY <1>1, <1>3 DEF ResultMessage
  <2>2. results'.rollup[d] = IF d = m.day THEN m.results ELSE results.rollup[d]
    BY <1>1, <1>3, <2>1 DEF StoreWell
  <2> QED BY <2>1, <2>2, StoreAssumption
<1>4. ASSUME NEW added, Adds(m, added), results' = CutResults(added, Recuts(m, m.to))
      PROVE  results'.rollup[d] # None
  <2>1. StoreWell(added) /\ added.rollup = results.rollup BY <1>1, <1>4, AddedWell
  <2>2. ~Gone(Recuts(m, m.to), d, Buckets - 1) BY NotRecut
  <2>3. results'.rollup[d] = results.rollup[d] BY <1>4, <2>1, <2>2, CutStore
  <2>4. m.type # "dayComplete" BY <1>4 DEF Adds
  <2> QED BY <2>3, <2>4
<1> QED BY <1>1, <1>2, <1>3, <1>4 DEF Taking

(* Once what is on its way is taken, the store has the day's rollup. *)
RollupComes(d) ==
  \/ /\ results.rollup[d] # None
     /\ \A k \in 1..Len(toMain) : MineBack(k) => Settled(toMain[k].rev, d, Buckets - 1)
  \/ \E j \in 1..Len(toMain) : /\ MineBack(j) /\ toMain[j].type = "dayComplete" /\ toMain[j].day = d
                               /\ Settled(toMain[j].rev, d, Buckets - 1)
RollupDue ==
  Live => \A d \in Day :
    host.slot[d].to = Buckets /\ Settled(host.rev, d, Buckets - 1) => RollupComes(d)

LEMMA RollupGrows ==
  ASSUME PlaybackTyped, Stamped, client' = client, results' = results, NEW d \in Day,
         Settled(host'.rev, d, Buckets - 1), RollupComes(d)
  PROVE  RollupComes(d)'
<1>1. PICK n, k : n = Len(toMain) /\ k = Len(toMain') OBVIOUS
<1>2. /\ n \in Nat /\ k \in Nat /\ n <= k
      /\ \A i \in 1..n : i \in 1..k /\ toMain'[i] = toMain[i]
      /\ \A i \in 1..k : i \in 1..n \/ i \in (n + 1)..k
      /\ \A i \in (n + 1)..k : i \in 1..k /\ toMain'[i].rev = host'.rev
  BY <1>1, SentFrom
<1>3. ASSUME results.rollup[d] # None,
             \A i \in 1..n : MineBack(i) => Settled(toMain[i].rev, d, Buckets - 1)
      PROVE  RollupComes(d)'
  <2>1. ASSUME NEW i \in 1..k, toMain'[i].run = client.run
        PROVE  Settled(toMain'[i].rev, d, Buckets - 1)
    <3>1. CASE i \in 1..n BY <1>1, <1>2, <1>3, <2>1, <3>1 DEF MineBack
    <3>2. CASE i \in (n + 1)..k BY <1>2, <3>2
    <3> QED BY <1>2, <3>1, <3>2
  <2> QED BY <1>1, <1>3, <2>1 DEF RollupComes, MineBack, Settled
<1>4. ASSUME NEW j \in 1..n, MineBack(j), toMain[j].type = "dayComplete", toMain[j].day = d,
             Settled(toMain[j].rev, d, Buckets - 1)
      PROVE  RollupComes(d)'
  <2>1. j \in 1..k /\ toMain'[j] = toMain[j] BY <1>2
  <2> QED BY <1>1, <1>4, <2>1 DEF RollupComes, MineBack, Settled
<1> QED BY <1>1, <1>3, <1>4 DEF RollupComes

LEMMA RollupShifts ==
  ASSUME PlaybackTyped, Ordered, NEW m, ReceiveStep(m), NEW d \in Day, RollupComes(d)
  PROVE  RollupComes(d)'
<1>1. PICK n : n = Len(toMain) OBVIOUS
<1>2. /\ n \in Nat /\ n >= 1 /\ Len(toMain') = n - 1 /\ m = toMain[1]
      /\ \A i \in 1..(n - 1) : i + 1 \in 1..n /\ toMain'[i] = toMain[i + 1]
      /\ client'.run = client.run /\ client'.cuts = client.cuts
  BY <1>1, ReceivedFrom DEF ReceiveStep
<1>3. \A j \in 2..n : j \in 1..n /\ j - 1 \in 1..(n - 1) /\ toMain'[j - 1] = toMain[j]
  <2>1. \A j \in 2..n : j \in 1..n /\ j - 1 \in 1..(n - 1) /\ (j - 1) + 1 = j BY <1>2
  <2> QED BY <1>2, <2>1
<1>4. \A i \in 1..n : toMain[i].rev \in Nat BY <1>1, Numbers
<1>5. m.run = client.run => MineBack(1) /\ m.rev <= client.rev /\ 1 \in 1..n
  <2>1. SUFFICES ASSUME m.run = client.run PROVE MineBack(1) /\ m.rev <= client.rev /\ 1 \in 1..n
    OBVIOUS
  <2>2. MineBack(1) /\ 1 \in 1..n BY <1>1, <1>2, <2>1 DEF MineBack
  <2>3. Ours /\ m.rev <= host.rev BY <1>1, <1>2, <2>2 DEF Ordered, ResultsInOrder
  <2>4. host.rev <= client.rev BY <2>3 DEF Ordered, ForksInOrder
  <2>5. host.rev \in Nat /\ client.rev \in Nat BY <2>3, Numbers DEF Ours
  <2> QED BY <1>2, <1>4, <2>2, <2>3, <2>4, <2>5
<1>6. ASSUME results'.rollup[d] # None,
             \A k \in 2..n : MineBack(k) => Settled(toMain[k].rev, d, Buckets - 1)
      PROVE  RollupComes(d)'
  <2>1. ASSUME NEW i \in 1..(n - 1), toMain'[i].run = client.run
        PROVE  Settled(toMain'[i].rev, d, Buckets - 1)
    <3>1. i + 1 \in 2..n /\ toMain'[i] = toMain[i + 1] /\ i + 1 \in 1..n BY <1>2
    <3>2. MineBack(i + 1) BY <1>1, <2>1, <3>1 DEF MineBack
    <3> QED BY <1>6, <3>1, <3>2
  <2> QED BY <1>2, <1>6, <2>1 DEF RollupComes, MineBack, Settled
<1>7. ASSUME results.rollup[d] # None,
             \A k \in 1..n : MineBack(k) => Settled(toMain[k].rev, d, Buckets - 1)
      PROVE  RollupComes(d)'
  <2>1. results'.rollup[d] # None
    <3>1. CASE m.run # client.run
      <4>1. results' = results BY <3>1 DEF ReceiveStep
      <4> QED BY <1>7, <4>1
    <3>2. CASE m.run = client.run
      <4>1. Settled(m.rev, d, Buckets - 1) /\ m.rev <= client.rev BY <1>2, <1>5, <1>7, <3>2
      <4> QED BY <1>7, <3>2, <4>1, RollupTaken
    <3> QED BY <3>1, <3>2
  <2> QED BY <1>3, <1>6, <1>7, <2>1
<1>8. ASSUME NEW j \in 1..n, MineBack(j), toMain[j].type = "dayComplete", toMain[j].day = d,
             Settled(toMain[j].rev, d, Buckets - 1)
      PROVE  RollupComes(d)'
  <2>1. CASE j # 1
    <3>1. j \in 2..n BY <1>2, <2>1
    <3>2. j - 1 \in 1..(n - 1) /\ toMain'[j - 1] = toMain[j] BY <1>3, <3>1
    <3>3. toMain'[j - 1].run = client.run BY <1>8, <3>2 DEF MineBack
    <3> QED BY <1>2, <1>8, <3>2, <3>3 DEF RollupComes, MineBack, Settled
  <2>2. CASE j = 1
    <3>1. m.run = client.run /\ m.type = "dayComplete" /\ m.day = d
          /\ Settled(m.rev, d, Buckets - 1)
      BY <1>2, <1>8, <2>2 DEF MineBack
    <3>2. results'.rollup[d] # None BY <1>5, <3>1, RollupTaken
    <3>3. ASSUME NEW k \in 2..n, MineBack(k) PROVE Settled(toMain[k].rev, d, Buckets - 1)
      <4>1. MineBack(1) /\ 1 < k /\ k \in 1..n /\ 1 \in 1..n BY <1>2, <1>8, <2>2
      <4>2. toMain[1].rev <= toMain[k].rev
        BY <1>1, <3>3, <4>1 DEF Ordered, ResultsInOrder
      <4> QED BY <1>2, <1>4, <3>1, <4>1, <4>2, SettledLater
    <3> QED BY <1>6, <3>2, <3>3
  <2> QED BY <2>1, <2>2
<1> QED BY <1>1, <1>7, <1>8 DEF RollupComes

LEMMA RollupNext ==
  ASSUME PlaybackTyped, Ordered, RollupDue, AStep
  PROVE  RollupDue'
<1>1. /\ Len(toMain) \in Nat /\ client.run \in Nat /\ client.rev \in Nat /\ Buckets \in Nat \ {0}
      /\ host # None => host.rev \in Nat /\ host.run \in Nat
  BY Numbers, ProtocolAssumption
<1>2. host # None => \A d \in Day : host.slot[d].to \in 0..Buckets
  BY DEF PlaybackTyped, HostTyped, HostWell, HostRuns, Slots
<1>3. ASSUME client'.run = client.run, client'.cuts = client.cuts, results' = results,
             toMain' = toMain, host # None, host' # None => host'.run = host.run
               /\ host'.rev = host.rev /\ host'.failed = host.failed
               /\ \A d \in Day : host'.slot[d].to = host.slot[d].to
      PROVE  RollupDue'
  BY <1>3 DEF RollupDue, RollupComes, Settled, MineBack, Live, Ours
<1>4. ASSUME client'.run = client.run, client'.cuts = client.cuts, results' = results,
             toMain' = toMain, host' = host
      PROVE  RollupDue'
  BY <1>4 DEF RollupDue, RollupComes, Settled, MineBack, Live, Ours
<1>5. ASSUME NEW p, NEW m, ForkStep(p, m) PROVE RollupDue'
  <2>1. /\ client'.run = client.run /\ client'.cuts = client.cuts \cup {p} /\ p \in Patch
        /\ p.rev = client.rev + 1 /\ toMain' = toMain /\ host' = host
        /\ results' = CutResults(results, {p})
    BY <1>5 DEF ForkStep, Posts
  <2>2. Ours => host.rev <= client.rev BY DEF Ordered, ForksInOrder
  <2>3. ASSUME Live, NEW d \in Day, host.slot[d].to = Buckets, Settled(host.rev, d, Buckets - 1)'
        PROVE  RollupComes(d)'
    <3>1. p.rev > host.rev BY <1>1, <2>1, <2>2, <2>3 DEF Live, Ours
    <3>2. ~Affects(p, d, Buckets - 1) BY <2>1, <2>3, <3>1 DEF Settled
    <3>3. Settled(host.rev, d, Buckets - 1) BY <2>1, <2>3 DEF Settled
    <3>4. RollupComes(d) BY <2>3, <3>3 DEF RollupDue
    <3>5. results'.rollup[d] = results.rollup[d]
      <4>1. ~Gone({p}, d, Buckets - 1) BY <3>2 DEF Gone
      <4> QED BY <2>1, <4>1, CutStore DEF PlaybackTyped, ResultsTyped
    <3>6. \A rev : Settled(rev, d, Buckets - 1) => Settled(rev, d, Buckets - 1)'
      BY <2>1, <3>2 DEF Settled
    <3> QED BY <2>1, <3>4, <3>5, <3>6 DEF RollupComes, MineBack, Settled
  <2> QED BY <2>1, <2>3 DEF RollupDue, Live, Ours, Settled
<1>6. ASSUME NEW m, ResetStep(m) PROVE RollupDue'
  <2>1. client'.run = client.run + 1 /\ host' = host BY <1>6 DEF ResetStep, Posts, NewClient
  <2>2. ~Live' BY <1>1, <2>1 DEF Ordered, RunsInOrder, Live, Ours
  <2> QED BY <2>2 DEF RollupDue
<1>7. ASSUME NEW m, ReceiveStep(m) PROVE RollupDue'
  <2>1. client'.run = client.run /\ client'.cuts = client.cuts /\ host' = host
    BY <1>7 DEF ReceiveStep
  <2>2. \A d \in Day : RollupComes(d) => RollupComes(d)' BY <1>7, RollupShifts
  <2> QED BY <2>1, <2>2 DEF RollupDue, Live, Ours, Settled
<1>8. ASSUME NEW m, StartStep(m) PROVE RollupDue'
  <2>1. \A d \in Day : host'.slot[d].to # Buckets BY <1>1, <1>8 DEF StartStep
  <2> QED BY <2>1 DEF RollupDue
<1>9. ASSUME Stamped, client' = client, results' = results, host'.run = host.run, host # None,
             host' # None, Live' => ~host.failed,
             Live => \A d \in Day : host'.slot[d].to = Buckets /\ Settled(host'.rev, d, Buckets - 1) =>
                       host.slot[d].to = Buckets /\ Settled(host.rev, d, Buckets - 1)
      PROVE  RollupDue'
  <2>1. ASSUME Live', NEW d \in Day, host'.slot[d].to = Buckets, Settled(host'.rev, d, Buckets - 1)
        PROVE  RollupComes(d)'
    <3>1. Live BY <1>9, <2>1 DEF Live, Ours
    <3>2. RollupComes(d) BY <1>9, <2>1, <3>1 DEF RollupDue
    <3> QED BY <1>9, <2>1, <3>2, RollupGrows
  <2> QED BY <1>9, <2>1 DEF RollupDue, Settled
<1>10. ASSUME NEW m, HostForkStep(m) PROVE RollupDue'
  <2>1. /\ Stamped /\ client' = client /\ results' = results
        /\ host'.run = host.run /\ host # None /\ host' # None /\ ~host.failed
        /\ host'.rev = m.patch.rev /\ \A d \in Day : host'.slot[d].to = CutTo(m.patch, d)
    BY <1>10 DEF HostForkStep, Takes, Active
  <2>2. ASSUME Live, NEW d \in Day, host'.slot[d].to = Buckets, Settled(host'.rev, d, Buckets - 1)
        PROVE  host.slot[d].to = Buckets /\ Settled(host.rev, d, Buckets - 1)
    <3>1. Buckets - 1 \in 0..(CutTo(m.patch, d) - 1) BY <1>1, <2>1, <2>2
    <3>2. Buckets - 1 \in 0..(host.slot[d].to - 1) /\ Settled(host.rev, d, Buckets - 1)
      BY <1>10, <2>1, <2>2, <3>1, CutSettled DEF Live
    <3> QED BY <1>1, <1>2, <2>1, <3>2
  <2> QED BY <1>9, <2>1, <2>2
<1>11. ASSUME NEW m, HostOtherStep(m) PROVE RollupDue'
  BY <1>3, <1>11 DEF HostOtherStep, Takes, Active
<1>12. ASSUME NEW m, DropStep(m) \/ OtherStep(m) PROVE RollupDue'
  BY <1>4, <1>12 DEF DropStep, OtherStep, Posts, Takes, SameClock, SameResults
<1>13. ASSUME QuietStep \/ vars' = vars PROVE RollupDue'
  BY <1>4, <1>13 DEF QuietStep, SameClock, SameResults, vars
<1>14. ASSUME WorkStep PROVE RollupDue'
  <2>1. /\ Stamped /\ client' = client /\ results' = results /\ host # None /\ host' # None
        /\ host'.run = host.run /\ host'.rev = host.rev /\ ~host.failed
    BY <1>14 DEF WorkStep, Active, SameRun
  <2>2. SUFFICES ASSUME Ours PROVE RollupDue'
    BY <2>1 DEF RollupDue, Live, Ours
  <2>3. CASE StreamedNothing BY <1>9, <2>1, <2>3 DEF StreamedNothing
  <2>4. ASSUME NEW d \in Day, NEW end \in (host.slot[d].to + 1)..Buckets, Streamed(d, end)
        PROVE  RollupDue'
    <3>1. PICK n, k : n = Len(toMain) /\ k = Len(toMain') OBVIOUS
    <3>2. /\ n \in Nat /\ k \in Nat /\ n <= k
          /\ \A i \in (n + 1)..k : i \in 1..k /\ toMain'[i].run = host'.run /\ toMain'[i].rev = host'.rev
      BY <2>1, <3>1, SentFrom
    <3>3. /\ end = Buckets => k = n + 3 /\ toMain'[n + 3].type = "dayComplete" /\ toMain'[n + 3].day = d
          /\ host'.slot[d].to = end
          /\ \A e \in Day \ {d} : host'.slot[e].to = host.slot[e].to
      BY <2>4, <3>1 DEF Streamed
    <3>4. ASSUME Live', NEW e \in Day, host'.slot[e].to = Buckets, Settled(host'.rev, e, Buckets - 1)
          PROVE  RollupComes(e)'
      <4>1. CASE e = d
        <5>1. k = n + 3 /\ toMain'[k].type = "dayComplete" /\ toMain'[k].day = d
          BY <3>3, <3>4, <4>1
        <5>2. k \in 1..k /\ k \in (n + 1)..k BY <3>2, <5>1
        <5>3. toMain'[k].run = client.run /\ toMain'[k].rev = host'.rev
          BY <2>1, <2>2, <3>2, <5>2 DEF Ours
        <5> QED BY <2>1, <3>1, <3>4, <4>1, <5>1, <5>2, <5>3 DEF RollupComes, MineBack, Settled
      <4>2. CASE e # d
        <5>1. Live /\ host.slot[e].to = Buckets /\ Settled(host.rev, e, Buckets - 1)
          BY <2>1, <2>2, <3>3, <3>4, <4>2 DEF Live
        <5>2. RollupComes(e) BY <5>1 DEF RollupDue
        <5> QED BY <2>1, <3>4, <5>2, RollupGrows
      <4> QED BY <4>1, <4>2
    <3> QED BY <2>1, <3>4 DEF RollupDue, Settled
  <2>5. StreamedNothing \/ \E d \in Day : \E end \in (host.slot[d].to + 1)..Buckets : Streamed(d, end)
    BY <1>14, <2>2, WorkCovers
  <2> QED BY <2>3, <2>4, <2>5
<1> QED BY <1>5, <1>6, <1>7, <1>8, <1>10, <1>11, <1>12, <1>13, <1>14 DEF AStep

-----------------------------------------------------------------------------
(* The detail windows: what the worker's steps do to its jobs.               *)

(* A job has the results of the buckets of its window it has passed. *)
JobRight(j) ==
  /\ j.from < j.to
  /\ j.run = None => DOMAIN j.results = {}
  /\ j.run # None => j.run.now < j.to /\ DOMAIN j.results = j.from..(j.run.now - 1)
JobsRight == host # None => \A j \in host.details : JobRight(j)

LEMMA WindowAhead ==
  ASSUME NEW w \in Window
  PROVE  w[1] \in Day /\ w[2] \in Bucket /\ WindowEnd(w) \in 1..Buckets /\ w[2] < WindowEnd(w)
<1> QED BY ProtocolAssumption DEF Window, WindowEnd, Bucket

LEMMA DetailStepRight ==
  ASSUME HostWell(host), NEW job \in host.details, JobRight(job)
  PROVE  IF DetailNext(job).now = job.to THEN DOMAIN DetailGot(job) = job.from..(job.to - 1)
         ELSE JobRight([job EXCEPT !.run = DetailNext(job), !.results = DetailGot(job)])
<1>1. /\ host \in HostRuns /\ job \in DetailJobs /\ job.day \in Day /\ job.from \in 0..Buckets
      /\ job.to \in 0..Buckets /\ job.run \in DayRuns \cup {None} /\ job.results \in ResultSets
      /\ Buckets \in Nat \ {0} /\ job.from \in Nat
  BY ProtocolAssumption DEF HostWell, HostRuns, DetailJobs, Bucket
<1>0. /\ job.from < job.to
      /\ job.run = None => DOMAIN job.results = {}
      /\ \A now \in 0..Buckets : now <= job.from => job.from..(now - 1) = {} /\ now < job.to
  BY <1>1 DEF JobRight
<1>2. DetailRun(job) \in DayRuns /\ DetailRun(job).now < job.to
      /\ DOMAIN job.results = job.from..(DetailRun(job).now - 1)
  <2>1. CASE job.run # None BY <1>1, <2>1 DEF DetailRun, JobRight
  <2>2. CASE job.run = None /\ Reusable(job)
    <3>1. host.cache \in [day : Day, run : DayRuns] BY <1>1, <2>2 DEF Reusable, HostRuns
    <3>2. DetailRun(job) = host.cache.run /\ host.cache.run.now <= job.from BY <2>2 DEF DetailRun, Reusable
    <3>3. host.cache.run \in DayRuns /\ host.cache.run.now \in 0..Buckets BY <3>1 DEF DayRuns
    <3> QED BY <1>0, <2>2, <3>2, <3>3
  <2>3. CASE job.run = None /\ ~Reusable(job)
    <3>1. OpenRunAt(host, job.day, job.from) \in DayRuns
          /\ OpenRunAt(host, job.day, job.from).now <= job.from
      BY <1>1, OpenTyped
    <3>2. DetailRun(job) = OpenRunAt(host, job.day, job.from) BY <2>3 DEF DetailRun
    <3>3. OpenRunAt(host, job.day, job.from).now \in 0..Buckets BY <3>1 DEF DayRuns
    <3> QED BY <1>0, <2>3, <3>1, <3>2, <3>3
  <2> QED BY <2>1, <2>2, <2>3
<1>3. DetailRun(job).now \in 0..Buckets BY <1>2 DEF DayRuns
<1>4. PICK now, end : now = DetailRun(job).now
        /\ end = SilentEnd(now, IF now < job.from THEN job.from ELSE job.to)
  OBVIOUS
<1>5. now \in 0..Buckets /\ end \in (now + 1)..(IF now < job.from THEN job.from ELSE job.to)
      /\ end \in 0..Buckets
  <2>1. CASE now < job.from
    <3>1. end \in (now + 1)..job.from BY <1>1, <1>3, <1>4, <2>1, SilentEndAhead
    <3> QED BY <1>1, <1>3, <1>4, <2>1, <3>1
  <2>2. CASE ~(now < job.from)
    <3>1. end \in (now + 1)..job.to BY <1>1, <1>2, <1>3, <1>4, <2>2, SilentEndAhead
    <3> QED BY <1>1, <1>3, <1>4, <2>2, <3>1
  <2> QED BY <2>1, <2>2
<1>6. DetailNext(job) \in DayRuns /\ DetailNext(job).now = end /\ DetailNext(job) # None
  BY <1>1, <1>2, <1>4, <1>5, AdvanceTyped, HostAssumption DEF DetailNext
<1>7. DOMAIN DetailGot(job) = job.from..(end - 1) /\ job.from < job.to
  <2>1. CASE now < job.from
    <3>1. DetailGot(job) = job.results BY <1>4, <2>1 DEF DetailGot
    <3> QED BY <1>1, <1>2, <1>4, <1>5, <2>1, <3>1 DEF JobRight
  <2>2. CASE ~(now < job.from)
    <3>1. DetailGot(job) = Joined(Results(DetailRun(job), job.day, end), job.results)
      BY <1>4, <1>6, <2>2 DEF DetailGot
    <3>2. DOMAIN Results(DetailRun(job), job.day, end) = now..(end - 1)
      BY <1>2, <1>4, <1>5, ResultsOfTyped
    <3>3. DOMAIN DetailGot(job) = (now..(end - 1)) \cup (job.from..(now - 1))
      BY <1>2, <1>4, <3>1, <3>2 DEF Joined
    <3> QED BY <1>1, <1>5, <2>2, <3>3 DEF JobRight
  <2> QED BY <2>1, <2>2
<1>8. CASE end = job.to BY <1>6, <1>7, <1>8
<1>9. CASE end # job.to
  <2>1. PICK j : j = [job EXCEPT !.run = DetailNext(job), !.results = DetailGot(job)] OBVIOUS
  <2>2. j.run = DetailNext(job) /\ j.results = DetailGot(job) /\ j.from = job.from /\ j.to = job.to
    BY <1>1, <2>1 DEF DetailJobs
  <2>3. end < job.to BY <1>1, <1>5, <1>7, <1>9
  <2>4. JobRight(j) BY <1>6, <1>7, <2>2, <2>3 DEF JobRight
  <2> QED BY <1>6, <1>9, <2>1, <2>4
<1> QED BY <1>8, <1>9

LEMMA StartDetails ==
  ASSUME NEW m, StartStep(m)
  PROVE  host'.details = {} /\ \A d \in Day : host'.slot[d].run = None
<1> QED BY DEF StartStep, Start, NewRun

LEMMA HostForkDetails ==
  ASSUME PlaybackTyped, NEW m, HostForkStep(m)
  PROVE  /\ host'.details = {j \in host.details : ~Outdates(m.patch, j)}
         /\ \A i \in (Len(toMain) + 1)..Len(toMain') :
              \E j \in host.details : Outdates(m.patch, j) /\ toMain'[i].tag = j.tag
<1>1. ChannelsTyped /\ HostWell(host) /\ InboxMessage(m) /\ Fork(m) /\ m.patch.rev > host.rev
  BY DEF PlaybackTyped, HostTyped, HostForkStep, Takes, Active
<1> QED BY <1>1, ForkDoes

LEMMA HostOtherDetails ==
  ASSUME PlaybackTyped, NEW m, HostOtherStep(m)
  PROVE  host'.details = host.details \cup IF m.type = "requestDetail" THEN {JobOf(m)} ELSE {}
<1>1. ChannelsTyped /\ HostWell(host) /\ InboxMessage(m)
  BY DEF PlaybackTyped, HostTyped, HostOtherStep, Takes, Active
<1>2. CASE Focus(m)
  <2>1. m.type = "focus" /\ host'.details = host.details BY <1>1, <1>2, FocusDoes DEF Focus
  <2> QED BY <2>1
<1>3. CASE RequestDetail(m)
  <2>1. m.type = "requestDetail" /\ host'.details = host.details \cup {JobOf(m)}
    BY <1>1, <1>3, RequestDoes DEF RequestDetail
  <2> QED BY <2>1
<1>4. CASE Track(m)
  <2>1. m.type = "track" /\ host'.details = host.details BY <1>1, <1>4, TrackDoes DEF Track
  <2> QED BY <2>1
<1> QED BY <1>2, <1>3, <1>4 DEF HostOtherStep

LEMMA WorkDetails ==
  ASSUME PlaybackTyped, WorkStep
  PROVE  \/ /\ host'.details = host.details
            /\ \A i \in (Len(toMain) + 1)..Len(toMain') : toMain'[i].type # "detail"
         \/ \E job \in host.details :
              /\ host'.failed = host.failed
              /\ IF DetailNext(job).now = job.to THEN DetailDone(job) ELSE DetailGoesOn(job)
<1>1. ChannelsTyped /\ HostWell(host) /\ Work /\ Len(toMain) \in Nat
  BY Numbers DEF PlaybackTyped, HostTyped, WorkStep, Active
<1>2. ASSUME NEW job \in host.details, StepDetail(job)
      PROVE  \/ /\ host'.details = host.details
                /\ \A i \in (Len(toMain) + 1)..Len(toMain') : toMain'[i].type # "detail"
             \/ /\ host'.failed = host.failed
                /\ IF DetailNext(job).now = job.to THEN DetailDone(job) ELSE DetailGoesOn(job)
  BY <1>1, <1>2, DetailDoes DEF Sends
<1>3. ASSUME NEW d \in Day, ~host.slot[d].complete, StepDay(d)
      PROVE  /\ host'.details = host.details
             /\ \A i \in (Len(toMain) + 1)..Len(toMain') : toMain'[i].type # "detail"
  <2>1. /\ host'.details = host.details
        /\ \/ SameStreams /\ Sends({"error"})
           \/ SilentStep(d)
           \/ \E end \in (host.slot[d].to + 1)..Buckets : ChunkStep(d, end)
    BY <1>1, <1>3, DayDoes
  <2>2. ASSUME NEW end, ChunkStep(d, end), NEW i \in (Len(toMain) + 1)..Len(toMain')
        PROVE  toMain'[i].type # "detail"
    <3>1. PICK n, k : n = Len(toMain) /\ k = Len(toMain') OBVIOUS
    <3>2. k \in {n + 2, n + 3} /\ i \in (n + 1)..k /\ n \in Nat BY <1>1, <2>2, <3>1 DEF ChunkStep
    <3>3. i = n + 1 \/ i = n + 2 \/ (i = n + 3 /\ k = n + 3) BY <3>2
    <3>4. toMain'[n + 1].type = "chunk" /\ toMain'[n + 2].type = "progress"
          /\ (k = n + 3 => toMain'[n + 3].type = "dayComplete")
      BY <2>2, <3>1 DEF ChunkStep, ChunkMessage, ProgressMessage, CompleteMessage
    <3> QED BY <3>3, <3>4
  <2> QED BY <2>1, <2>2 DEF Sends, SilentStep
<1>4. ASSUME NEW t \in host.traces, StepTrace(t)
      PROVE  /\ host'.details = host.details
             /\ \A i \in (Len(toMain) + 1)..Len(toMain') : toMain'[i].type # "detail"
  BY <1>1, <1>4, TraceDoes DEF Sends
<1>5. ASSUME NEW d \in Day, StepDensify(d)
      PROVE  /\ host'.details = host.details
             /\ \A i \in (Len(toMain) + 1)..Len(toMain') : toMain'[i].type # "detail"
  BY <1>1, <1>5, DensifyDoes DEF Sends
<1> QED BY <1>1, <1>2, <1>3, <1>4, <1>5, WorkCases

(* A unit of work leaves every job as it is, takes it further, or answers it. *)
LEMMA WorkJobs ==
  ASSUME PlaybackTyped, WorkStep
  PROVE  /\ \A j \in host'.details : \E job \in host.details :
              j.tag = job.tag /\ j.day = job.day /\ j.from = job.from /\ j.to = job.to
         /\ \A i \in (Len(toMain) + 1)..Len(toMain') : toMain'[i].type = "detail" =>
              \E job \in host.details : /\ toMain'[i] = Detail(host, job, DetailGot(job))
                                        /\ DetailNext(job).now = job.to
         /\ \A job \in host.details :
              \/ \E j \in host'.details : j.tag = job.tag
              \/ \E i \in (Len(toMain) + 1)..Len(toMain') :
                   toMain'[i].type = "detail" /\ toMain'[i].tag = job.tag
<1>1. host.details \in SUBSET DetailJobs /\ Len(toMain) \in Nat
  BY Numbers DEF PlaybackTyped, HostTyped, HostWell, WorkStep, Active, HostRuns
<1>2. CASE /\ host'.details = host.details
           /\ \A i \in (Len(toMain) + 1)..Len(toMain') : toMain'[i].type # "detail"
  BY <1>2
<1>3. ASSUME NEW job \in host.details, DetailNext(job).now = job.to, DetailDone(job)
      PROVE  /\ \A j \in host'.details : j \in host.details
             /\ \A i \in (Len(toMain) + 1)..Len(toMain') : toMain'[i] = Detail(host, job, DetailGot(job))
             /\ \A k \in host.details : k = job \/ k \in host'.details
             /\ Len(toMain) + 1 \in (Len(toMain) + 1)..Len(toMain')
             /\ Detail(host, job, DetailGot(job)).type = "detail"
             /\ Detail(host, job, DetailGot(job)).tag = job.tag
  <2>1. \A i \in (Len(toMain) + 1)..Len(toMain') : i = Len(toMain) + 1 BY <1>1, <1>3 DEF DetailDone
  <2> QED BY <1>1, <1>3, <2>1 DEF DetailDone, Detail
<1>4. ASSUME NEW job \in host.details, DetailGoesOn(job)
      PROVE  LET on == [job EXCEPT !.run = DetailNext(job), !.results = DetailGot(job)]
             IN  /\ on.tag = job.tag /\ on.day = job.day /\ on.from = job.from /\ on.to = job.to
                 /\ \A j \in host'.details : j = on \/ j \in host.details
                 /\ \A i \in (Len(toMain) + 1)..Len(toMain') : FALSE
                 /\ \A k \in host.details : k = job \/ k \in host'.details
                 /\ on \in host'.details
  <2>1. job \in DetailJobs BY <1>1
  <2>2. Len(toMain') = Len(toMain) BY <1>4 DEF DetailGoesOn
  <2> QED BY <1>1, <1>4, <2>1, <2>2 DEF DetailGoesOn, DetailJobs
<1>5. ASSUME NEW job \in host.details, DetailNext(job).now = job.to, DetailDone(job)
      PROVE  /\ \A j \in host'.details : \E k \in host.details :
                  j.tag = k.tag /\ j.day = k.day /\ j.from = k.from /\ j.to = k.to
             /\ \A i \in (Len(toMain) + 1)..Len(toMain') : toMain'[i].type = "detail" =>
                  \E k \in host.details : /\ toMain'[i] = Detail(host, k, DetailGot(k))
                                          /\ DetailNext(k).now = k.to
             /\ \A k \in host.details :
                  \/ \E j \in host'.details : j.tag = k.tag
                  \/ \E i \in (Len(toMain) + 1)..Len(toMain') :
                       toMain'[i].type = "detail" /\ toMain'[i].tag = k.tag
  BY <1>3, <1>5
<1>6. ASSUME NEW job \in host.details, DetailGoesOn(job)
      PROVE  /\ \A j \in host'.details : \E k \in host.details :
                  j.tag = k.tag /\ j.day = k.day /\ j.from = k.from /\ j.to = k.to
             /\ \A i \in (Len(toMain) + 1)..Len(toMain') : FALSE
             /\ \A k \in host.details : \E j \in host'.details : j.tag = k.tag
  BY <1>4, <1>6
<1> QED BY <1>2, <1>5, <1>6, WorkDetails

LEMMA JobsNext ==
  ASSUME PlaybackTyped, JobsRight, AStep
  PROVE  JobsRight'
<1>1. ASSUME host' = host PROVE JobsRight' BY <1>1 DEF JobsRight, JobRight
<1>2. ASSUME NEW m, StartStep(m) PROVE JobsRight' BY <1>2, StartDetails DEF JobsRight
<1>3. ASSUME NEW m, HostForkStep(m) PROVE JobsRight'
  <2>1. host # None BY <1>3 DEF HostForkStep, Active
  <2> QED BY <1>3, <2>1, HostForkDetails DEF JobsRight, JobRight
<1>4. ASSUME NEW m, HostOtherStep(m) PROVE JobsRight'
  <2>1. host # None /\ InboxMessage(m) BY <1>4 DEF HostOtherStep, Active, Takes
  <2>2. m.type = "requestDetail" => JobRight(JobOf(m))
    BY <2>1, WindowAhead DEF InboxMessage, JobOf, JobRight, NoResults
  <2>3. \A j \in host'.details : j \in host.details \/ (m.type = "requestDetail" /\ j = JobOf(m))
    BY <1>4, HostOtherDetails
  <2> QED BY <2>1, <2>2, <2>3 DEF JobsRight, JobRight
<1>5. ASSUME WorkStep PROVE JobsRight'
  <2>1. host # None /\ HostWell(host) BY <1>5 DEF WorkStep, Active, PlaybackTyped, HostTyped
  <2>2. CASE host'.details = host.details BY <2>1, <2>2 DEF JobsRight, JobRight
  <2>3. ASSUME NEW job \in host.details, DetailNext(job).now = job.to, DetailDone(job)
        PROVE  JobsRight'
    BY <2>1, <2>3 DEF JobsRight, JobRight, DetailDone
  <2>4. ASSUME NEW job \in host.details, DetailNext(job).now # job.to, DetailGoesOn(job)
        PROVE  JobsRight'
    <3>1. JobRight(job) BY <2>1 DEF JobsRight
    <3>2. JobRight([job EXCEPT !.run = DetailNext(job), !.results = DetailGot(job)])
      BY <2>1, <2>4, <3>1, DetailStepRight
    <3>3. \A j \in host'.details : JobRight(j) BY <2>1, <2>4, <3>2 DEF DetailGoesOn, JobsRight
    <3> QED BY <3>3 DEF JobsRight, JobRight
  <2> QED BY <1>5, <2>2, <2>3, <2>4, WorkDetails
<1> QED BY <1>1, <1>2, <1>3, <1>4, <1>5
    DEF AStep, ForkStep, ResetStep, OtherStep, Posts, QuietStep, ReceiveStep, DropStep, vars

(* What taking a message does to the windows asked for. *)
Answered(m) == {q[2] : q \in {x \in client.pending :
                                x[1] = m.tag /\ m.rev = client.rev /\ ~Drops(m, m.from)}}

LEMMA ReceivedWindows ==
  ASSUME PlaybackTyped, NEW m, ReceiveStep(m)
  PROVE  IF m.run = client.run /\ m.type = "detail"
         THEN /\ client'.pending = {q \in client.pending : q[1] # m.tag}
              /\ client'.received = client.received \cup Answered(m)
         ELSE client'.pending = client.pending /\ client'.received = client.received
<1>1. client.run = client.run
      /\ {"pending", "received", "computed", "tracked"} \subseteq DOMAIN client
  BY DEF PlaybackTyped, ClientTyped
<1>2. CASE m.run # client.run BY <1>2 DEF ReceiveStep
<1>3. CASE m.run = client.run
  <2>1. Handled(m) BY <1>3 DEF ReceiveStep
  <2>2. CASE m.type = "detail"
    <3>1. OnDetail(m) BY <2>1, <2>2
      DEF Handled, OnReady, OnProgress, OnChunk, OnTrace, OnDetail, OnDayComplete, OnError
    <3>2. client' = [client EXCEPT
             !.received = client.received \cup Answered(m),
             !.pending = {q \in client.pending : q[1] # m.tag}]
      BY <3>1 DEF OnDetail, Answered
    <3> QED BY <1>1, <1>3, <2>2, <3>2
  <2>3. CASE m.type # "detail"
    <3>1. CASE OnReady(m) BY <1>1, <2>3, <3>1 DEF OnReady
    <3>2. CASE OnProgress(m) BY <1>1, <2>3, <3>2 DEF OnProgress
    <3>3. CASE OnChunk(m) \/ OnTrace(m) \/ OnDayComplete(m) \/ OnError(m)
      BY <2>3, <3>3 DEF OnChunk, OnTrace, OnDayComplete, OnError
    <3>4. CASE OnDetail(m) BY <2>3, <3>4 DEF OnDetail
    <3> QED BY <2>1, <3>1, <3>2, <3>3, <3>4 DEF Handled
  <2> QED BY <2>2, <2>3
<1> QED BY <1>2, <1>3

(* Every tag in use was given out. *)
TagsBounded ==
  /\ \A i \in 1..Len(toWorker) :
       toWorker[i].type = "requestDetail" => toWorker[i].tag < used["details"]
  /\ host # None => \A j \in host.details : j.tag < used["details"]
  /\ \A i \in 1..Len(toMain) :
       toMain[i].type = "detail" => toMain[i].tag \in Nat /\ toMain[i].tag < used["details"]
  /\ \A q \in client.pending : q[1] < used["details"]

LEMMA TagsNext ==
  ASSUME PlaybackTyped, TagsBounded, AStep
  PROVE  TagsBounded'
<1>1. /\ Len(toMain) \in Nat /\ Len(toWorker) \in Nat /\ used["details"] \in Nat
      /\ \A i \in 1..Len(toWorker) : toWorker[i].type = "requestDetail" => toWorker[i].tag \in Nat
      /\ client.pending \in SUBSET (Nat \X Window)
  BY Numbers DEF PlaybackTyped, UsedTyped, ChannelsTyped, InboxMessage, ClientTyped
<1>2. host # None => host.details \in SUBSET DetailJobs /\ \A j \in host.details : j.tag \in Nat
  BY DEF PlaybackTyped, HostTyped, HostWell, HostRuns, DetailJobs
<1>3. ASSUME NEW m, Posts(m), client'.pending = {},
             m.type # "requestDetail", used'["details"] = used["details"]
      PROVE  TagsBounded'
  <2>1. PICK n : n = Len(toWorker) OBVIOUS
  <2>2. /\ Len(toWorker') = n + 1 /\ toWorker'[n + 1] = m
        /\ \A i \in 1..n : toWorker'[i] = toWorker[i]
        /\ \A i \in 1..(n + 1) : i \in 1..n \/ i = n + 1
    BY <1>3, <2>1, PostedFrom
  <2> QED BY <1>3, <2>1, <2>2 DEF TagsBounded, Posts
<1>4. ASSUME NEW m, OtherStep(m) PROVE TagsBounded'
  <2>1. PICK n, u, v : n = Len(toWorker) /\ u = used["details"] /\ v = used'["details"] OBVIOUS
  <2>2. /\ Len(toWorker') = n + 1 /\ toWorker'[n + 1] = m
        /\ \A i \in 1..n : toWorker'[i] = toWorker[i]
        /\ \A i \in 1..(n + 1) : i \in 1..n \/ i = n + 1
        /\ toMain' = toMain /\ host' = host
    BY <1>4, <2>1, PostedFrom DEF OtherStep, Posts
  <2>3. /\ u \in Nat /\ v \in {u, u + 1}
        /\ m.type = "requestDetail" => m.tag = u /\ v = u + 1
             /\ client'.pending = client.pending \cup {<<m.tag, m.window>>}
        /\ m.type # "requestDetail" => client'.pending = client.pending
    BY <1>1, <1>4, <2>1 DEF OtherStep, SameWindows
  <2>4. \A i \in 1..(n + 1) : toWorker'[i].type = "requestDetail" => toWorker'[i].tag < v
    BY <1>1, <2>1, <2>2, <2>3 DEF TagsBounded
  <2>5. host # None => \A j \in host.details : j.tag < v BY <1>2, <2>1, <2>3 DEF TagsBounded
  <2>6. \A i \in 1..Len(toMain) :
          toMain[i].type = "detail" => toMain[i].tag \in Nat /\ toMain[i].tag < v
    <3>1. ASSUME NEW i \in 1..Len(toMain), toMain[i].type = "detail"
          PROVE  toMain[i].tag \in Nat /\ toMain[i].tag < v
      <4>1. toMain[i].tag \in Nat /\ toMain[i].tag < u BY <2>1, <3>1 DEF TagsBounded
      <4> QED BY <2>3, <4>1
    <3> QED BY <3>1
  <2>7. \A q \in client'.pending : q[1] < v BY <1>1, <2>1, <2>3 DEF TagsBounded
  <2> QED BY <2>1, <2>2, <2>4, <2>5, <2>6, <2>7 DEF TagsBounded
<1>5. ASSUME NEW m, ReceiveStep(m) PROVE TagsBounded'
  <2>1. PICK n : n = Len(toMain) OBVIOUS
  <2>2. /\ Len(toMain') = n - 1
        /\ \A i \in 1..(n - 1) : i + 1 \in 1..n /\ toMain'[i] = toMain[i + 1]
        /\ toWorker' = toWorker /\ host' = host /\ used' = used
    BY <1>5, <2>1, ReceivedFrom DEF ReceiveStep
  <2>3. client'.pending \subseteq client.pending BY <1>5, ReceivedWindows
  <2> QED BY <2>1, <2>2, <2>3 DEF TagsBounded
<1>6. ASSUME NEW m, Takes(m), host' # None,
             \A j \in host'.details : j.tag < used["details"],
             \A i \in (Len(toMain) + 1)..Len(toMain') :
               toMain'[i].type = "detail" =>
                 toMain'[i].tag \in Nat /\ toMain'[i].tag < used["details"]
      PROVE  TagsBounded'
  <2>1. PICK n, k, l : n = Len(toMain) /\ k = Len(toMain') /\ l = Len(toWorker) OBVIOUS
  <2>2. /\ \A i \in 1..n : toMain'[i] = toMain[i]
        /\ \A i \in 1..k : i \in 1..n \/ i \in (n + 1)..k
    BY <1>6, <2>1, SentFrom DEF Takes
  <2>3. Len(toWorker') = l - 1 /\ \A i \in 1..(l - 1) : i + 1 \in 1..l /\ toWorker'[i] = toWorker[i + 1]
    BY <1>6, <2>1, TakenFrom
  <2>4. used' = used /\ client' = client BY <1>6 DEF Takes
  <2> QED BY <1>6, <2>1, <2>2, <2>3, <2>4 DEF TagsBounded
<1>7. ASSUME NEW m, StartStep(m) PROVE TagsBounded'
  <2>1. /\ Takes(m) /\ host' # None /\ host'.details = {}
        /\ \A i \in (Len(toMain) + 1)..Len(toMain') : i = Len(toMain) + 1
        /\ toMain'[Len(toMain) + 1].type = "ready"
    BY <1>1, <1>7, StartDetails DEF StartStep
  <2> QED BY <1>6, <2>1
<1>8. ASSUME NEW m, HostForkStep(m) PROVE TagsBounded'
  <2>1. Takes(m) /\ host # None /\ host' # None BY <1>8 DEF HostForkStep, Active
  <2> QED BY <1>2, <1>6, <1>8, <2>1, HostForkDetails DEF TagsBounded
<1>9. ASSUME NEW m, HostOtherStep(m) PROVE TagsBounded'
  <2>1. Takes(m) /\ host # None /\ host' # None /\ toMain' = toMain
    BY <1>9 DEF HostOtherStep, Active
  <2>2. m.type = "requestDetail" => JobOf(m).tag < used["details"]
    <3>1. m = toWorker[1] /\ 1 \in 1..Len(toWorker) BY <1>1, <2>1 DEF Takes
    <3> QED BY <3>1 DEF TagsBounded, JobOf
  <2>3. \A j \in host'.details : j.tag < used["details"]
    BY <1>9, <2>1, <2>2, HostOtherDetails DEF TagsBounded
  <2>4. \A i \in (Len(toMain) + 1)..Len(toMain') : FALSE BY <1>1, <2>1
  <2> QED BY <1>6, <2>1, <2>3, <2>4
<1>10. ASSUME WorkStep PROVE TagsBounded'
  <2>1. PICK n, k : n = Len(toMain) /\ k = Len(toMain') OBVIOUS
  <2>2. /\ toWorker' = toWorker /\ client' = client /\ used' = used /\ host # None /\ Stamped
    BY <1>10 DEF WorkStep, Active
  <2>3. /\ \A i \in 1..n : toMain'[i] = toMain[i]
        /\ \A i \in 1..k : i \in 1..n \/ i \in (n + 1)..k
    BY <2>1, <2>2, SentFrom
  <2>4. ASSUME NEW i \in (n + 1)..k, toMain'[i].type = "detail"
        PROVE  toMain'[i].tag \in Nat /\ toMain'[i].tag < used["details"]
    <3>1. PICK job \in host.details : toMain'[i] = Detail(host, job, DetailGot(job))
      BY <1>10, <2>1, <2>4, WorkJobs
    <3>2. toMain'[i].tag = job.tag BY <3>1 DEF Detail
    <3> QED BY <1>2, <2>2, <3>2 DEF TagsBounded
  <2>5. \A j \in host'.details : j.tag < used["details"]
    BY <1>10, <2>2, WorkJobs DEF TagsBounded
  <2> QED BY <2>1, <2>2, <2>3, <2>4, <2>5 DEF TagsBounded
<1>11. ASSUME NEW m, DropStep(m) PROVE TagsBounded'
  <2>1. PICK l : l = Len(toWorker) OBVIOUS
  <2>2. Len(toWorker') = l - 1 /\ \A i \in 1..(l - 1) : i + 1 \in 1..l /\ toWorker'[i] = toWorker[i + 1]
    BY <1>11, <2>1, TakenFrom DEF DropStep
  <2> QED BY <1>11, <2>1, <2>2 DEF TagsBounded, DropStep, Takes
<1>12. ASSUME QuietStep \/ vars' = vars PROVE TagsBounded'
  BY <1>12 DEF TagsBounded, QuietStep, SameResults, SameWindows, vars
<1>13. ASSUME NEW p, NEW m, ForkStep(p, m) PROVE TagsBounded' BY <1>3, <1>13 DEF ForkStep
<1>14. ASSUME NEW m, ResetStep(m) PROVE TagsBounded' BY <1>3, <1>14 DEF ResetStep, NewClient
<1> QED BY <1>4, <1>5, <1>7, <1>8, <1>9, <1>10, <1>11, <1>12, <1>13, <1>14 DEF AStep

(* What carries the tag of a window that is asked for is about that window,  *)
(* and the worker has by then seen every fork it will answer under.          *)
Asks(i) == Mine(i) /\ toWorker[i].type = "requestDetail"
Answers(i) == MineBack(i) /\ toMain[i].type = "detail"
InWindow(w) == w[2]..(WindowEnd(w) - 1)
AsksRight(q) ==
  \A i \in 1..Len(toWorker) : Asks(i) /\ toWorker[i].tag = q[1] =>
    toWorker[i].window = q[2] /\ \A k \in 1..Len(toWorker) : Forked(k) => k < i
JobsFor(q) ==
  Ours => \A j \in host.details : j.tag = q[1] =>
    /\ j.day = q[2][1] /\ j.from = q[2][2] /\ j.to = WindowEnd(q[2])
    /\ \A k \in 1..Len(toWorker) : ~Forked(k)
AnswersRight(q) ==
  \A i \in 1..Len(toMain) : Answers(i) /\ toMain[i].tag = q[1] =>
    /\ toMain[i].rev = client.rev
    /\ toMain[i].day = q[2][1] /\ DOMAIN toMain[i].results = InWindow(q[2])
TagsRight == \A q \in client.pending : AsksRight(q) /\ JobsFor(q) /\ AnswersRight(q)

LEMMA TagsRightNext ==
  ASSUME PlaybackTyped, Ordered, TagsBounded, JobsRight, TagsRight, AStep
  PROVE  TagsRight'
<1>1. /\ Len(toMain) \in Nat /\ Len(toWorker) \in Nat /\ used["details"] \in Nat
      /\ client.run \in Nat /\ client.rev \in Nat
      /\ client.pending \in SUBSET (Nat \X Window)
  BY Numbers DEF PlaybackTyped, UsedTyped, ClientTyped
<1>2. ASSUME client'.pending = {} PROVE TagsRight' BY <1>2 DEF TagsRight
<1>3. ASSUME NEW m, OtherStep(m) PROVE TagsRight'
  <2>1. PICK n, u : n = Len(toWorker) /\ u = used["details"] OBVIOUS
  <2>2. /\ n \in Nat /\ Len(toWorker') = n + 1 /\ toWorker'[n + 1] = m
        /\ \A i \in 1..n : i \in 1..(n + 1) /\ toWorker'[i] = toWorker[i]
        /\ \A i \in 1..(n + 1) : i \in 1..n \/ i = n + 1
        /\ toMain' = toMain /\ host' = host /\ m.run = client.run /\ m.type # "fork"
        /\ client'.run = client.run /\ client'.rev = client.rev
    BY <1>3, <2>1, PostedFrom DEF OtherStep, Posts, SameClock
  <2>3. \A k \in 1..(n + 1) : Forked(k)' <=> k \in 1..n /\ Forked(k)
    BY <2>1, <2>2 DEF Forked, Mine
  <2>4. \A i \in 1..n : Asks(i)' <=> Asks(i) BY <2>1, <2>2 DEF Asks, Mine
  <2>5. CASE m.type = "requestDetail"
    <3>1. m.tag = u /\ client'.pending = client.pending \cup {<<m.tag, m.window>>}
      BY <1>3, <2>1, <2>5 DEF OtherStep
    <3>2. ASSUME NEW q \in client.pending PROVE AsksRight(q)' /\ JobsFor(q)' /\ AnswersRight(q)'
      <4>1. q[1] < u /\ q[1] \in Nat /\ u \in Nat BY <1>1, <2>1 DEF TagsBounded
      <4>2. m.tag # q[1] BY <3>1, <4>1
      <4>3. AsksRight(q) /\ JobsFor(q) /\ AnswersRight(q) BY DEF TagsRight
      <4>4. AsksRight(q)'
        <5>1. ASSUME NEW i \in 1..(n + 1), Asks(i)', toWorker'[i].tag = q[1]
              PROVE  /\ toWorker'[i].window = q[2]
                     /\ \A k \in 1..(n + 1) : Forked(k)' => k < i
          <6>1. i \in 1..n BY <2>2, <4>2, <5>1
          <6> QED BY <2>1, <2>2, <2>3, <2>4, <4>3, <5>1, <6>1 DEF AsksRight
        <5> QED BY <2>2, <5>1 DEF AsksRight
      <4>5. JobsFor(q)' BY <2>1, <2>2, <2>3, <4>3 DEF JobsFor, Ours
      <4>6. AnswersRight(q)' BY <2>2, <4>3 DEF AnswersRight, Answers, MineBack
      <4> QED BY <4>4, <4>5, <4>6
    <3>3. ASSUME NEW q, q = <<m.tag, m.window>>
          PROVE  AsksRight(q)' /\ JobsFor(q)' /\ AnswersRight(q)'
      <4>1. q[1] = u /\ q[2] = m.window BY <3>1, <3>3
      <4>2. AsksRight(q)'
        <5>1. ASSUME NEW i \in 1..(n + 1), Asks(i)', toWorker'[i].tag = q[1]
              PROVE  /\ toWorker'[i].window = q[2]
                     /\ \A k \in 1..(n + 1) : Forked(k)' => k < i
          <6>1. ASSUME i \in 1..n PROVE FALSE
            <7>1. Asks(i) /\ toWorker[i].tag = u BY <2>2, <2>4, <4>1, <5>1, <6>1
            <7>2. toWorker[i].tag < u BY <2>1, <6>1, <7>1 DEF TagsBounded, Asks
            <7> QED BY <1>1, <2>1, <7>1, <7>2
          <6>2. i = n + 1 BY <2>2, <6>1
          <6> QED BY <2>2, <2>3, <4>1, <6>2
        <5> QED BY <2>2, <5>1 DEF AsksRight
      <4>3. JobsFor(q)'
        <5>1. host # None => \A j \in host.details : j.tag # u
          BY <1>1, <2>1 DEF TagsBounded
        <5> QED BY <2>2, <4>1, <5>1 DEF JobsFor, Ours
      <4>4. AnswersRight(q)'
        <5>1. \A i \in 1..Len(toMain) : toMain[i].type = "detail" => toMain[i].tag # u
          BY <1>1, <2>1 DEF TagsBounded
        <5> QED BY <2>2, <4>1, <5>1 DEF AnswersRight, Answers
      <4> QED BY <4>2, <4>3, <4>4
    <3> QED BY <3>1, <3>2, <3>3 DEF TagsRight
  <2>6. CASE m.type # "requestDetail"
    <3>1. client'.pending = client.pending BY <1>3, <2>6 DEF OtherStep, SameWindows
    <3>2. ASSUME NEW q \in client.pending PROVE AsksRight(q)' /\ JobsFor(q)' /\ AnswersRight(q)'
      <4>1. AsksRight(q) /\ JobsFor(q) /\ AnswersRight(q) BY DEF TagsRight
      <4>2. AsksRight(q)'
        <5>1. ASSUME NEW i \in 1..(n + 1), Asks(i)', toWorker'[i].tag = q[1]
              PROVE  /\ toWorker'[i].window = q[2]
                     /\ \A k \in 1..(n + 1) : Forked(k)' => k < i
          <6>1. i \in 1..n BY <2>2, <2>6, <5>1 DEF Asks
          <6> QED BY <2>1, <2>2, <2>3, <2>4, <4>1, <5>1, <6>1 DEF AsksRight
        <5> QED BY <2>2, <5>1 DEF AsksRight
      <4>3. JobsFor(q)' BY <2>1, <2>2, <2>3, <4>1 DEF JobsFor, Ours
      <4>4. AnswersRight(q)' BY <2>2, <4>1 DEF AnswersRight, Answers, MineBack
      <4> QED BY <4>2, <4>3, <4>4
    <3> QED BY <3>1, <3>2 DEF TagsRight
  <2> QED BY <2>5, <2>6
<1>4. ASSUME NEW m, ReceiveStep(m) PROVE TagsRight'
  <2>1. PICK n : n = Len(toMain) OBVIOUS
  <2>2. /\ Len(toMain') = n - 1
        /\ \A i \in 1..(n - 1) : i + 1 \in 1..n /\ toMain'[i] = toMain[i + 1]
        /\ toWorker' = toWorker /\ host' = host
        /\ client'.run = client.run /\ client'.rev = client.rev
    BY <1>4, <2>1, ReceivedFrom DEF ReceiveStep
  <2>3. client'.pending \subseteq client.pending BY <1>4, ReceivedWindows
  <2>4. ASSUME NEW q \in client.pending PROVE AsksRight(q)' /\ JobsFor(q)' /\ AnswersRight(q)'
    <3>1. AsksRight(q) /\ JobsFor(q) /\ AnswersRight(q) BY DEF TagsRight
    <3>2. \A i \in 1..(n - 1) : Answers(i)' => Answers(i + 1)
      BY <2>1, <2>2 DEF Answers, MineBack
    <3>3. AnswersRight(q)' BY <2>1, <2>2, <3>1, <3>2 DEF AnswersRight
    <3>4. AsksRight(q)' /\ JobsFor(q)'
      BY <2>2, <3>1 DEF AsksRight, JobsFor, Asks, Forked, Mine, Ours
    <3> QED BY <3>3, <3>4
  <2> QED BY <2>3, <2>4 DEF TagsRight
<1>5. ASSUME NEW m, Takes(m), NEW q \in client.pending
      PROVE  AsksRight(q)' /\ ((\A k \in 1..Len(toWorker) : ~Forked(k)) =>
                                 \A k \in 1..Len(toWorker') : ~Forked(k)')
  <2>1. PICK n : n = Len(toWorker) OBVIOUS
  <2>2. /\ n \in Nat /\ Len(toWorker') = n - 1 /\ client' = client
        /\ \A i \in 1..(n - 1) : i + 1 \in 1..n /\ toWorker'[i] = toWorker[i + 1]
    BY <1>5, <2>1, TakenFrom
  <2>3. \A i \in 1..(n - 1) : (Forked(i)' => Forked(i + 1)) /\ (Asks(i)' => Asks(i + 1))
    BY <2>1, <2>2 DEF Asks, Forked, Mine
  <2>4. AsksRight(q) BY DEF TagsRight
  <2>5. ASSUME NEW i \in 1..(n - 1), Asks(i)', toWorker'[i].tag = q[1]
        PROVE  toWorker'[i].window = q[2] /\ \A k \in 1..(n - 1) : Forked(k)' => k < i
    <3>1. /\ toWorker[i + 1].window = q[2] /\ toWorker'[i] = toWorker[i + 1]
          /\ \A k \in 1..n : Forked(k) => k < i + 1
      BY <2>1, <2>2, <2>3, <2>4, <2>5 DEF AsksRight
    <3> QED BY <2>2, <2>3, <3>1
  <2> QED BY <2>1, <2>2, <2>3, <2>5 DEF AsksRight
<1>6. ASSUME NEW q \in client.pending, Stamped, client' = client,
             \A i \in (Len(toMain) + 1)..Len(toMain') :
               toMain'[i].run = client.run /\ toMain'[i].type = "detail" /\ toMain'[i].tag = q[1] =>
                 /\ toMain'[i].rev = client.rev
                 /\ toMain'[i].day = q[2][1] /\ DOMAIN toMain'[i].results = InWindow(q[2])
      PROVE  AnswersRight(q)'
  <2>1. PICK n, k : n = Len(toMain) /\ k = Len(toMain') OBVIOUS
  <2>2. /\ \A i \in 1..n : toMain'[i] = toMain[i]
        /\ \A i \in 1..k : i \in 1..n \/ i \in (n + 1)..k
    BY <1>6, <2>1, SentFrom
  <2>3. AnswersRight(q) BY DEF TagsRight
  <2>4. \A i \in 1..n : Answers(i)' => Answers(i) BY <1>6, <2>1, <2>2 DEF Answers, MineBack
  <2>5. \A i \in 1..k : Answers(i)' /\ toMain'[i].tag = q[1] =>
          /\ toMain'[i].rev = client.rev
          /\ toMain'[i].day = q[2][1] /\ DOMAIN toMain'[i].results = InWindow(q[2])
    <3>1. ASSUME NEW i \in 1..k, Answers(i)', toMain'[i].tag = q[1]
          PROVE  /\ toMain'[i].rev = client.rev
                 /\ toMain'[i].day = q[2][1] /\ DOMAIN toMain'[i].results = InWindow(q[2])
      <4>1. CASE i \in 1..n BY <2>1, <2>2, <2>3, <2>4, <3>1, <4>1 DEF AnswersRight
      <4>2. CASE i \in (n + 1)..k
        BY <1>6, <2>1, <3>1, <4>2 DEF Answers, MineBack
      <4> QED BY <2>2, <4>1, <4>2
    <3> QED BY <3>1
  <2> QED BY <1>6, <2>1, <2>5 DEF AnswersRight
<1>7. ASSUME NEW m, Takes(m), toMain' = toMain, NEW q \in client.pending
      PROVE  AnswersRight(q)'
  <2>1. \A i \in (Len(toMain) + 1)..Len(toMain') : FALSE BY <1>1, <1>7
  <2> QED BY <1>6, <1>7, <2>1 DEF Takes
<1>8. ASSUME NEW m, StartStep(m) PROVE TagsRight'
  <2>1. /\ Takes(m) /\ Stamped /\ client' = client /\ host'.details = {}
        /\ \A i \in (Len(toMain) + 1)..Len(toMain') : i = Len(toMain) + 1
        /\ toMain'[Len(toMain) + 1].type = "ready"
    BY <1>1, <1>8, StartDetails DEF StartStep, Takes
  <2>2. ASSUME NEW q \in client.pending PROVE AsksRight(q)' /\ JobsFor(q)' /\ AnswersRight(q)'
    <3>1. AnswersRight(q)' BY <1>6, <2>1
    <3> QED BY <1>5, <2>1, <3>1 DEF JobsFor
  <2> QED BY <2>1, <2>2 DEF TagsRight
<1>9. ASSUME NEW m, HostForkStep(m) PROVE TagsRight'
  <2>1. /\ Takes(m) /\ Stamped /\ client' = client /\ host # None /\ host'.run = host.run
        /\ m = toWorker[1] /\ 1 \in 1..Len(toWorker) /\ m.type = "fork" /\ m.run = host.run
    BY <1>1, <1>9 DEF HostForkStep, Takes, Active
  <2>2. Ours => Forked(1) BY <2>1 DEF Ours, Forked, Mine
  <2>3. ASSUME NEW q \in client.pending PROVE AsksRight(q)' /\ JobsFor(q)' /\ AnswersRight(q)'
    <3>1. Ours => \A j \in host.details : j.tag # q[1] BY <2>1, <2>2 DEF TagsRight, JobsFor
    <3>2. JobsFor(q)' BY <1>9, <2>1, <3>1, HostForkDetails DEF JobsFor, Ours
    <3>3. \A i \in (Len(toMain) + 1)..Len(toMain') : toMain'[i].run = client.run => toMain'[i].tag # q[1]
      <4>1. ASSUME NEW i \in (Len(toMain) + 1)..Len(toMain'), toMain'[i].run = client.run
            PROVE  toMain'[i].tag # q[1]
        <5>1. Ours BY <2>1, <4>1 DEF Stamped, Ours
        <5>2. \E j \in host.details : toMain'[i].tag = j.tag BY <1>9, <4>1, HostForkDetails
        <5> QED BY <3>1, <5>1, <5>2
      <4> QED BY <4>1
    <3>4. AnswersRight(q)' BY <1>6, <2>1, <3>3
    <3> QED BY <1>5, <2>1, <3>2, <3>4
  <2> QED BY <2>1, <2>3 DEF TagsRight
<1>10. ASSUME NEW m, HostOtherStep(m) PROVE TagsRight'
  <2>1. /\ Takes(m) /\ client' = client /\ host # None /\ host'.run = host.run /\ toMain' = toMain
        /\ m = toWorker[1] /\ 1 \in 1..Len(toWorker) /\ m.run = host.run
    BY <1>1, <1>10 DEF HostOtherStep, Takes, Active
  <2>2. ASSUME NEW q \in client.pending PROVE AsksRight(q)' /\ JobsFor(q)' /\ AnswersRight(q)'
    <3>1. AsksRight(q) /\ JobsFor(q) BY DEF TagsRight
    <3>2. ASSUME Ours, m.type = "requestDetail", m.tag = q[1]
          PROVE  m.window = q[2] /\ \A k \in 1..Len(toWorker) : ~Forked(k)
      <4>1. Asks(1) BY <2>1, <3>2 DEF Ours, Asks, Mine
      <4> QED BY <1>1, <2>1, <3>1, <3>2, <4>1 DEF AsksRight
    <3>3. ASSUME Ours, NEW j \in host'.details, j.tag = q[1]
          PROVE  /\ j.day = q[2][1] /\ j.from = q[2][2] /\ j.to = WindowEnd(q[2])
                 /\ \A k \in 1..Len(toWorker) : ~Forked(k)
      <4>1. CASE j \in host.details BY <3>1, <3>3, <4>1 DEF JobsFor
      <4>2. CASE m.type = "requestDetail" /\ j = JobOf(m) BY <3>2, <3>3, <4>2 DEF JobOf
      <4> QED BY <1>10, <3>3, <4>1, <4>2, HostOtherDetails
    <3>4. AsksRight(q)' /\ ((\A k \in 1..Len(toWorker) : ~Forked(k)) =>
                              \A k \in 1..Len(toWorker') : ~Forked(k)')
      BY <1>5, <2>1
    <3>5. JobsFor(q)'
      <4>1. SUFFICES ASSUME Ours', NEW j \in host'.details, j.tag = q[1]
                     PROVE  /\ j.day = q[2][1] /\ j.from = q[2][2] /\ j.to = WindowEnd(q[2])
                            /\ \A k \in 1..Len(toWorker') : ~Forked(k)'
        BY DEF JobsFor
      <4>2. Ours BY <2>1, <4>1 DEF Ours
      <4> QED BY <3>3, <3>4, <4>1, <4>2
    <3> QED BY <1>7, <2>1, <3>4, <3>5
  <2> QED BY <2>1, <2>2 DEF TagsRight
<1>11. ASSUME NEW m, DropStep(m) PROVE TagsRight'
  <2>1. Takes(m) /\ client' = client /\ host' = host /\ toMain' = toMain BY <1>11 DEF DropStep, Takes
  <2>2. ASSUME NEW q \in client.pending PROVE AsksRight(q)' /\ JobsFor(q)' /\ AnswersRight(q)'
    <3>1. JobsFor(q) BY DEF TagsRight
    <3>2. AsksRight(q)' /\ ((\A k \in 1..Len(toWorker) : ~Forked(k)) =>
                              \A k \in 1..Len(toWorker') : ~Forked(k)')
      BY <1>5, <2>1
    <3>3. JobsFor(q)' BY <2>1, <3>1, <3>2 DEF JobsFor, Ours
    <3> QED BY <1>7, <2>1, <3>2, <3>3
  <2> QED BY <2>1, <2>2 DEF TagsRight
<1>12. ASSUME WorkStep PROVE TagsRight'
  <2>1. /\ toWorker' = toWorker /\ client' = client /\ host # None /\ Stamped /\ ~host.failed
        /\ host'.run = host.run /\ host'.rev = host.rev /\ HostWell(host)
    BY <1>12 DEF WorkStep, Active, SameRun, PlaybackTyped, HostTyped
  <2>2. ASSUME NEW q \in client.pending PROVE AsksRight(q)' /\ JobsFor(q)' /\ AnswersRight(q)'
    <3>1. AsksRight(q) /\ JobsFor(q) BY DEF TagsRight
    <3>2. AsksRight(q)' BY <2>1, <3>1 DEF AsksRight, Asks, Forked, Mine
    <3>3. JobsFor(q)'
      <4>1. SUFFICES ASSUME Ours', NEW j \in host'.details, j.tag = q[1]
                     PROVE  /\ j.day = q[2][1] /\ j.from = q[2][2] /\ j.to = WindowEnd(q[2])
                            /\ \A k \in 1..Len(toWorker') : ~Forked(k)'
        BY DEF JobsFor
      <4>2. PICK job \in host.details :
              j.tag = job.tag /\ j.day = job.day /\ j.from = job.from /\ j.to = job.to
        BY <1>12, <4>1, WorkJobs
      <4>3. Ours BY <2>1, <4>1 DEF Ours
      <4> QED BY <2>1, <3>1, <4>1, <4>2, <4>3 DEF JobsFor, Forked, Mine
    <3>4. ASSUME NEW i \in (Len(toMain) + 1)..Len(toMain'), toMain'[i].run = client.run,
                 toMain'[i].type = "detail", toMain'[i].tag = q[1]
          PROVE  /\ toMain'[i].rev = client.rev
                 /\ toMain'[i].day = q[2][1] /\ DOMAIN toMain'[i].results = InWindow(q[2])
      <4>1. PICK job \in host.details : /\ toMain'[i] = Detail(host, job, DetailGot(job))
                                        /\ DetailNext(job).now = job.to
        BY <1>12, <3>4, WorkJobs
      <4>2. /\ toMain'[i].tag = job.tag /\ toMain'[i].day = job.day /\ toMain'[i].rev = host.rev
            /\ toMain'[i].results = DetailGot(job) /\ toMain'[i].run = host.run
        BY <4>1 DEF Detail
      <4>3. Live BY <2>1, <3>4, <4>2 DEF Live, Ours
      <4>4. job.day = q[2][1] /\ job.from = q[2][2] /\ job.to = WindowEnd(q[2])
            /\ \A k \in 1..Len(toWorker) : ~Forked(k)
        BY <3>1, <3>4, <4>2, <4>3 DEF JobsFor, Live
      <4>5. host.rev = client.rev BY <4>3, <4>4, CaughtUp
      <4>6. DOMAIN DetailGot(job) = job.from..(job.to - 1)
        BY <2>1, <4>1, DetailStepRight DEF JobsRight
      <4> QED BY <4>2, <4>4, <4>5, <4>6 DEF InWindow
    <3>5. AnswersRight(q)' BY <1>6, <2>1, <3>4
    <3> QED BY <3>2, <3>3, <3>5
  <2> QED BY <2>1, <2>2 DEF TagsRight
<1>13. ASSUME QuietStep \/ vars' = vars PROVE TagsRight'
  BY <1>13 DEF TagsRight, AsksRight, JobsFor, AnswersRight, Asks, Answers, Forked, Mine, MineBack, Ours,
               QuietStep, SameResults, SameClock, SameWindows, vars
<1>14. ASSUME NEW p, NEW m, ForkStep(p, m) PROVE TagsRight' BY <1>2, <1>14 DEF ForkStep
<1>15. ASSUME NEW m, ResetStep(m) PROVE TagsRight' BY <1>2, <1>15 DEF ResetStep, NewClient
<1> QED BY <1>3, <1>4, <1>8, <1>9, <1>10, <1>11, <1>12, <1>13, <1>14, <1>15 DEF AStep

(* A window that is asked for will be answered, unless the run fails: the    *)
(* question is on its way, or the worker has the job, or the answer is on    *)
(* its way.                                                                  *)
AskComes(q) == \E i \in 1..Len(toWorker) : Asks(i) /\ toWorker[i].tag = q[1]
JobWaits(q) == Ours /\ (host.failed \/ \E j \in host.details : j.tag = q[1])
AnswerComes(q) == \E i \in 1..Len(toMain) : Answers(i) /\ toMain[i].tag = q[1]
Due(q) == AskComes(q) \/ JobWaits(q) \/ AnswerComes(q)
PendingDue == \A q \in client.pending : Due(q)

LEMMA PendingNext ==
  ASSUME PlaybackTyped, Ordered, TagsRight, PendingDue, AStep
  PROVE  PendingDue'
<1>1. Len(toMain) \in Nat /\ Len(toWorker) \in Nat BY Numbers
<1>2. ASSUME client'.pending = {} PROVE PendingDue' BY <1>2 DEF PendingDue
<1>3. ASSUME Stamped, client' = client, NEW q, AnswerComes(q) PROVE AnswerComes(q)'
  <2>1. \A i \in 1..Len(toMain) : i \in 1..Len(toMain') /\ toMain'[i] = toMain[i] BY <1>3, SentFrom
  <2> QED BY <1>3, <2>1 DEF AnswerComes, Answers, MineBack
<1>4. ASSUME NEW m, Takes(m), NEW q, AskComes(q), ~(Asks(1) /\ m.tag = q[1]) PROVE AskComes(q)'
  <2>1. PICK n : n = Len(toWorker) OBVIOUS
  <2>2. /\ n \in Nat /\ Len(toWorker') = n - 1 /\ m = toWorker[1] /\ client' = client
        /\ \A j \in 2..n : j \in 1..n /\ j - 1 \in 1..(n - 1) /\ toWorker'[j - 1] = toWorker[j]
    BY <1>4, <2>1, TakenFrom
  <2>3. PICK i \in 1..n : Asks(i) /\ toWorker[i].tag = q[1] BY <1>4, <2>1 DEF AskComes
  <2>4. i \in 2..n BY <1>4, <2>2, <2>3
  <2>5. i - 1 \in 1..(n - 1) /\ toWorker'[i - 1] = toWorker[i] BY <2>2, <2>4
  <2>6. Asks(i - 1)' BY <2>2, <2>3, <2>5 DEF Asks, Mine
  <2> QED BY <2>2, <2>3, <2>5, <2>6 DEF AskComes
<1>5. ASSUME NEW m, OtherStep(m) PROVE PendingDue'
  <2>1. PICK n : n = Len(toWorker) OBVIOUS
  <2>2. /\ n \in Nat /\ Len(toWorker') = n + 1 /\ toWorker'[n + 1] = m /\ n + 1 \in 1..(n + 1)
        /\ \A i \in 1..n : i \in 1..(n + 1) /\ toWorker'[i] = toWorker[i]
        /\ toMain' = toMain /\ host' = host /\ m.run = client.run /\ client'.run = client.run
    BY <1>5, <2>1, PostedFrom DEF OtherStep, Posts, SameClock
  <2>3. ASSUME NEW q \in client.pending PROVE Due(q)'
    <3>1. Due(q) BY DEF PendingDue
    <3>2. AskComes(q) => AskComes(q)' BY <2>1, <2>2 DEF AskComes, Asks, Mine
    <3>3. JobWaits(q) => JobWaits(q)' BY <2>2 DEF JobWaits, Ours
    <3>4. AnswerComes(q) => AnswerComes(q)' BY <2>2 DEF AnswerComes, Answers, MineBack
    <3> QED BY <3>1, <3>2, <3>3, <3>4 DEF Due
  <2>4. CASE m.type = "requestDetail"
    <3>1. client'.pending = client.pending \cup {<<m.tag, m.window>>} BY <1>5, <2>4 DEF OtherStep
    <3>2. ASSUME NEW q, q[1] = m.tag PROVE AskComes(q)'
      <4>1. Asks(n + 1)' BY <2>2, <2>4 DEF Asks, Mine
      <4> QED BY <2>2, <3>2, <4>1 DEF AskComes
    <3> QED BY <2>3, <3>1, <3>2 DEF PendingDue, Due
  <2>5. CASE m.type # "requestDetail"
    <3>1. client'.pending = client.pending BY <1>5, <2>5 DEF OtherStep, SameWindows
    <3> QED BY <2>3, <3>1 DEF PendingDue
  <2> QED BY <2>4, <2>5
<1>6. ASSUME NEW m, ReceiveStep(m) PROVE PendingDue'
  <2>1. PICK n : n = Len(toMain) OBVIOUS
  <2>2. /\ n \in Nat /\ Len(toMain') = n - 1 /\ m = toMain[1]
        /\ \A i \in 1..(n - 1) : i + 1 \in 1..n /\ toMain'[i] = toMain[i + 1]
        /\ toWorker' = toWorker /\ host' = host /\ client'.run = client.run
    BY <1>6, <2>1, ReceivedFrom DEF ReceiveStep
  <2>3. ASSUME NEW q \in client'.pending PROVE Due(q)'
    <3>1. q \in client.pending BY <1>6, ReceivedWindows
    <3>2. Due(q) BY <3>1 DEF PendingDue
    <3>3. AskComes(q) => AskComes(q)' BY <2>2 DEF AskComes, Asks, Mine
    <3>4. JobWaits(q) => JobWaits(q)' BY <2>2 DEF JobWaits, Ours
    <3>5. ASSUME AnswerComes(q) PROVE AnswerComes(q)'
      <4>1. PICK i \in 1..n : Answers(i) /\ toMain[i].tag = q[1] BY <2>1, <3>5 DEF AnswerComes
      <4>2. i # 1
        <5>1. SUFFICES ASSUME i = 1 PROVE FALSE OBVIOUS
        <5>2. m.run = client.run /\ m.type = "detail" /\ m.tag = q[1]
          BY <2>2, <4>1, <5>1 DEF Answers, MineBack
        <5> QED BY <1>6, <5>2, ReceivedWindows
      <4>3. PICK j : j = i - 1 OBVIOUS
      <4>4. j \in 1..(n - 1) /\ j + 1 = i BY <2>2, <4>2, <4>3
      <4>5. toMain'[j] = toMain[i] BY <2>2, <4>4
      <4> QED BY <2>2, <4>1, <4>4, <4>5 DEF AnswerComes, Answers, MineBack
    <3> QED BY <3>2, <3>3, <3>4, <3>5 DEF Due
  <2> QED BY <2>3 DEF PendingDue
<1>7. ASSUME NEW m, StartStep(m) PROVE PendingDue'
  <2>1. Takes(m) /\ Stamped /\ client' = client /\ Starts(m) /\ m = toWorker[1] /\ 1 \in 1..Len(toWorker)
    BY <1>1, <1>7 DEF StartStep, Takes
  <2>2. ~Asks(1) BY <2>1 DEF Asks, Starts
  <2>3. ~Ours BY <2>1 DEF Ordered, RunsInOrder
  <2>4. ASSUME NEW q \in client.pending PROVE Due(q)'
    <3>1. AskComes(q) \/ AnswerComes(q) BY <2>3 DEF PendingDue, Due, JobWaits
    <3> QED BY <1>3, <1>4, <2>1, <2>2, <3>1 DEF Due
  <2> QED BY <2>1, <2>4 DEF PendingDue
<1>8. ASSUME NEW m, HostForkStep(m) PROVE PendingDue'
  <2>1. /\ Takes(m) /\ Stamped /\ client' = client /\ ~host.failed /\ m.run = host.run
        /\ m.type = "fork" /\ m = toWorker[1] /\ 1 \in 1..Len(toWorker)
    BY <1>1, <1>8 DEF HostForkStep, Takes, Active
  <2>2. ~Asks(1) BY <2>1 DEF Asks
  <2>3. Ours => Forked(1) BY <2>1 DEF Ours, Forked, Mine
  <2>4. ASSUME NEW q \in client.pending PROVE Due(q)'
    <3>1. ~JobWaits(q) BY <2>1, <2>3 DEF TagsRight, JobsFor, JobWaits
    <3>2. AskComes(q) \/ AnswerComes(q) BY <3>1 DEF PendingDue, Due
    <3> QED BY <1>3, <1>4, <2>1, <2>2, <3>2 DEF Due
  <2> QED BY <2>1, <2>4 DEF PendingDue
<1>9. ASSUME NEW m, HostOtherStep(m) PROVE PendingDue'
  <2>1. /\ Takes(m) /\ Stamped /\ client' = client /\ host # None /\ host' # None /\ m.run = host.run
        /\ host'.run = host.run /\ host'.failed = host.failed /\ m = toWorker[1]
    BY <1>9 DEF HostOtherStep, Takes, Active
  <2>2. ASSUME NEW q \in client.pending PROVE Due(q)'
    <3>1. Due(q) BY DEF PendingDue
    <3>2. JobWaits(q) => JobWaits(q)' BY <1>9, <2>1, HostOtherDetails DEF JobWaits, Ours
    <3>3. ASSUME Asks(1), m.tag = q[1] PROVE JobWaits(q)'
      <4>1. m.type = "requestDetail" /\ m.run = client.run BY <2>1, <3>3 DEF Asks, Mine
      <4>2. JobOf(m) \in host'.details /\ JobOf(m).tag = q[1]
        BY <1>9, <3>3, <4>1, HostOtherDetails DEF JobOf
      <4> QED BY <2>1, <4>1, <4>2 DEF JobWaits, Ours
    <3> QED BY <1>3, <1>4, <2>1, <3>1, <3>2, <3>3 DEF Due
  <2> QED BY <2>1, <2>2 DEF PendingDue
<1>10. ASSUME NEW m, DropStep(m) PROVE PendingDue'
  <2>1. /\ Takes(m) /\ Stamped /\ client' = client /\ host' = host /\ ~Starts(m) /\ m = toWorker[1]
        /\ 1 \in 1..Len(toWorker)
    BY <1>1, <1>10 DEF DropStep, Takes
  <2>2. ~Live BY <1>10, NoDrop
  <2>3. ~Ours => m.run # client.run
    <3>1. SUFFICES ASSUME ~Ours, m.run = client.run PROVE FALSE OBVIOUS
    <3>2. PICK k \in 1..Len(toWorker) : StartsAt(k) BY <3>1 DEF Ordered, RunsInOrder
    <3>3. k = 1 \/ 1 \in 1..(k - 1) BY <1>1
    <3> QED BY <2>1, <3>1, <3>2, <3>3 DEF StartsAt
  <2>4. ASSUME NEW q \in client.pending PROVE Due(q)'
    <3>1. Due(q) BY DEF PendingDue
    <3>2. JobWaits(q) => JobWaits(q)' BY <2>1 DEF JobWaits, Ours
    <3>3. Asks(1) => JobWaits(q)' BY <2>1, <2>2, <2>3 DEF Asks, Mine, JobWaits, Live, Ours
    <3> QED BY <1>3, <1>4, <2>1, <3>1, <3>2, <3>3 DEF Due
  <2> QED BY <2>1, <2>4 DEF PendingDue
<1>11. ASSUME WorkStep PROVE PendingDue'
  <2>1. /\ toWorker' = toWorker /\ client' = client /\ host # None /\ host' # None /\ Stamped
        /\ ~host.failed /\ host'.run = host.run
    BY <1>11 DEF WorkStep, Active, SameRun
  <2>2. ASSUME NEW q \in client.pending PROVE Due(q)'
    <3>1. Due(q) BY DEF PendingDue
    <3>2. AskComes(q) => AskComes(q)' BY <2>1 DEF AskComes, Asks, Mine
    <3>3. ASSUME JobWaits(q) PROVE JobWaits(q)' \/ AnswerComes(q)'
      <4>1. PICK job \in host.details : job.tag = q[1] BY <2>1, <3>3 DEF JobWaits
      <4>2. CASE \E j \in host'.details : j.tag = job.tag
        BY <2>1, <3>3, <4>1, <4>2 DEF JobWaits, Ours
      <4>3. ASSUME NEW i \in (Len(toMain) + 1)..Len(toMain'),
                   toMain'[i].type = "detail", toMain'[i].tag = job.tag
            PROVE  AnswerComes(q)'
        <5>1. i \in 1..Len(toMain') /\ toMain'[i].run = client.run
          BY <2>1, <3>3, SentFrom DEF JobWaits, Ours
        <5> QED BY <2>1, <4>1, <4>3, <5>1 DEF AnswerComes, Answers, MineBack
      <4> QED BY <1>11, <4>2, <4>3, WorkJobs
    <3> QED BY <1>3, <2>1, <3>1, <3>2, <3>3 DEF Due
  <2> QED BY <2>1, <2>2 DEF PendingDue
<1>12. ASSUME QuietStep \/ vars' = vars PROVE PendingDue'
  BY <1>12 DEF PendingDue, Due, AskComes, JobWaits, AnswerComes, Asks, Answers, Mine, MineBack, Ours,
               QuietStep, SameResults, SameClock, SameWindows, vars
<1>13. ASSUME NEW p, NEW m, ForkStep(p, m) PROVE PendingDue' BY <1>2, <1>13 DEF ForkStep
<1>14. ASSUME NEW m, ResetStep(m) PROVE PendingDue' BY <1>2, <1>14 DEF ResetStep, NewClient
<1> QED BY <1>5, <1>6, <1>7, <1>8, <1>9, <1>10, <1>11, <1>12, <1>13, <1>14 DEF AStep

(* A window that no cut changes stays in the store. *)
LEMMA DetailKept ==
  ASSUME NEW r, StoreWell(r), NEW P, NEW e \in r.details, DOMAIN e.results # {},
         \A b \in DOMAIN e.results : ~Gone(P, e.day, b)
  PROVE  \E f \in CutResults(r, P).details : f.day = e.day /\ DOMAIN f.results = DOMAIN e.results
<1>1. e \in ShownDetails /\ e.results \in ResultSets /\ e.day \in Day
  BY DEF StoreWell, ShownDetails
<1>2. PICK k : k = Kept(P, e.day, e.results) OBVIOUS
<1>3. k \in ResultSets /\ DOMAIN k = DOMAIN e.results
  <2>1. \A f \in ResultSets : Kept(P, e.day, f) \in ResultSets
          /\ DOMAIN Kept(P, e.day, f) = {b \in DOMAIN f : ~Gone(P, e.day, b)}
    BY KeptResults
  <2> QED BY <1>1, <1>2, <2>1
<1>4. k # <<>>
  <2>1. DOMAIN <<>> = {} OBVIOUS
  <2> QED BY <1>3, <2>1
<1>5. PICK f : f = [e EXCEPT !.results = k] OBVIOUS
<1>6. f \in ShownDetails /\ f.day = e.day /\ f.results = k BY <1>1, <1>3, <1>5 DEF ShownDetails
<1>7. e # None /\ f # None BY <1>1, <1>6, StoreAssumption
<1>8. f = IF e = None \/ Kept(P, e.day, e.results) = <<>> THEN None
          ELSE [e EXCEPT !.results = Kept(P, e.day, @)]
  BY <1>2, <1>4, <1>5, <1>7
<1>9. f \in CutResults(r, P).details BY <1>7, <1>8 DEF CutResults
<1> QED BY <1>3, <1>6, <1>9

(* A window that was answered is in the store, and stays there: only a fork  *)
(* discards it, and then it is asked for anew.                               *)
WindowSettled(w) ==
  \A b \in InWindow(w) :
    /\ Settled(host.rev, w[1], b)
    /\ \A k \in 1..Len(toMain) : MineBack(k) => Settled(toMain[k].rev, w[1], b)
WindowHeld(r, w) == \E e \in r.details : e.day = w[1] /\ DOMAIN e.results = InWindow(w)
WindowsHeld == \A w \in client.received : Ours /\ WindowSettled(w) /\ WindowHeld(results, w)

LEMMA WindowKept ==
  ASSUME NEW r, StoreWell(r), NEW P, NEW w \in Window, WindowHeld(r, w),
         \A b \in InWindow(w) : ~Gone(P, w[1], b)
  PROVE  WindowHeld(CutResults(r, P), w)
<1>1. PICK e \in r.details : e.day = w[1] /\ DOMAIN e.results = InWindow(w) BY DEF WindowHeld
<1>2. InWindow(w) # {}
  <2>1. w[2] \in Int /\ WindowEnd(w) \in Int /\ w[2] < WindowEnd(w) BY WindowAhead, ProtocolAssumption DEF Bucket
  <2>2. w[2] \in InWindow(w) BY <2>1 DEF InWindow
  <2> QED BY <2>2
<1>3. \E f \in CutResults(r, P).details : f.day = e.day /\ DOMAIN f.results = DOMAIN e.results
  BY <1>1, <1>2, DetailKept
<1> QED BY <1>1, <1>3 DEF WindowHeld

(* A message that spares the window leaves it in the store. *)
LEMMA WindowTaken ==
  ASSUME PlaybackTyped, NEW m, ReceiveStep(m), m.run = client.run, NEW w \in Window,
         \A b \in InWindow(w) : Settled(m.rev, w[1], b), WindowHeld(results, w)
  PROVE  WindowHeld(results', w)
<1>1. ResultMessage(m) /\ StoreWell(results) /\ Taking(m) BY Takings
<1>2. CASE results' = results BY <1>2
<1>3. CASE m.type = "dayComplete" /\ results' = [results EXCEPT !.rollup[m.day] = m.results]
  <2>1. results'.details = results.details BY <1>1, <1>3 DEF StoreWell
  <2> QED BY <2>1 DEF WindowHeld
<1>4. ASSUME NEW added, Adds(m, added), results' = CutResults(added, Recuts(m, m.to))
      PROVE  WindowHeld(results', w)
  <2>1. StoreWell(added) BY <1>1, <1>4, AddedWell
  <2>2. results.details \subseteq added.details
    <3>1. CASE m.type # "detail" BY <1>1, <1>4, <3>1, AddedWell
    <3>2. CASE m.type = "detail"
      <4>1. added = AddDetail(results, m) BY <1>4, <3>2 DEF Adds
      <4> QED BY <1>1, <3>2, <4>1, AddDetailTyped
    <3> QED BY <3>1, <3>2
  <2>3. WindowHeld(added, w) BY <2>2 DEF WindowHeld
  <2>4. \A b \in InWindow(w) : ~Gone(Recuts(m, m.to), w[1], b) BY NotRecut
  <2> QED BY <1>4, <2>1, <2>3, <2>4, WindowKept
<1> QED BY <1>1, <1>2, <1>3, <1>4 DEF Taking

LEMMA WindowAnswered ==
  ASSUME PlaybackTyped, Ordered, TagsRight, NEW m, ReceiveStep(m), m.run = client.run,
         m.type = "detail", NEW w \in Answered(m)
  PROVE  /\ w \in Window /\ Ours /\ m.rev = client.rev /\ host.rev = client.rev
         /\ WindowSettled(w) /\ WindowHeld(results', w)
<1>1. PICK q \in client.pending : q[1] = m.tag /\ q[2] = w /\ m.rev = client.rev BY DEF Answered
<1>2. w \in Window BY <1>1 DEF PlaybackTyped, ClientTyped
<1>3. /\ m = toMain[1] /\ 1 \in 1..Len(toMain) /\ Len(toMain) \in Nat
      /\ \A k \in 1..Len(toMain) : toMain[k].rev \in Nat
      /\ client.rev \in Nat /\ (host # None => host.rev \in Nat)
  BY Numbers DEF ReceiveStep
<1>4. MineBack(1) /\ Answers(1) BY <1>3 DEF MineBack, Answers
<1>5. m.day = w[1] /\ DOMAIN m.results = InWindow(w)
  BY <1>1, <1>3, <1>4 DEF TagsRight, AnswersRight
<1>6. Ours /\ client.rev <= host.rev /\ host.rev <= client.rev
  BY <1>1, <1>3, <1>4 DEF Ordered, ResultsInOrder, ForksInOrder
<1>7. host.rev = client.rev BY <1>3, <1>6 DEF Ours
<1>8. \A k \in 1..Len(toMain) : MineBack(k) => toMain[k].rev = client.rev
  <2>1. SUFFICES ASSUME NEW k \in 1..Len(toMain), MineBack(k) PROVE toMain[k].rev = client.rev
    OBVIOUS
  <2>2. toMain[k].rev <= host.rev BY <2>1 DEF Ordered, ResultsInOrder
  <2>3. k = 1 \/ 1 < k BY <1>3
  <2>4. toMain[1].rev <= toMain[k].rev BY <1>3, <1>4, <2>1, <2>3 DEF Ordered, ResultsInOrder
  <2> QED BY <1>1, <1>3, <1>7, <2>1, <2>2, <2>4
<1>9. WindowSettled(w) BY <1>7, <1>8, AllSettled DEF WindowSettled
<1>10. WindowHeld(results', w)
  <2>1. ResultMessage(m) /\ StoreWell(results) /\ Taking(m) BY Takings
  <2>2. Newer(client.rev) = {}
    <3>1. \A p \in client.cuts : p.rev <= client.rev /\ p.rev \in Nat
      BY Numbers DEF Ordered, CutsNumbered
    <3> QED BY <1>3, <3>1 DEF Newer
  <2>3. ~Drops(m, m.from) /\ Recuts(m, m.to) = {} BY <1>1, <2>2 DEF Drops, Recuts
  <2>4. ~Refused(m)
    <3>1. m.rev <= client.rev BY <1>1, <1>3
    <3> QED BY <2>3, <3>1 DEF Refused
  <2>5. PICK added : Adds(m, added) /\ results' = CutResults(added, {})
    BY <2>1, <2>3, <2>4 DEF Taking
  <2>6. added = AddDetail(results, m) BY <2>5 DEF Adds
  <2>7. m.results # <<>>
    <3>1. DOMAIN <<>> = {} OBVIOUS
    <3>2. w[2] \in Int /\ WindowEnd(w) \in Int /\ w[2] < WindowEnd(w)
      BY <1>2, WindowAhead, ProtocolAssumption DEF Bucket
    <3>3. w[2] \in InWindow(w) BY <3>2 DEF InWindow
    <3> QED BY <1>5, <3>1, <3>3
  <2>8. StoreWell(added) /\ [day |-> m.day, results |-> m.results] \in added.details
    BY <2>1, <2>6, <2>7, AddDetailTyped
  <2>9. WindowHeld(added, w) BY <1>5, <2>8 DEF WindowHeld
  <2>10. \A b \in InWindow(w) : ~Gone({}, w[1], b) BY DEF Gone
  <2> QED BY <1>2, <2>5, <2>8, <2>9, <2>10, WindowKept
<1> QED BY <1>1, <1>2, <1>6, <1>7, <1>9, <1>10

LEMMA WindowsNext ==
  ASSUME PlaybackTyped, Ordered, TagsRight, WindowsHeld, AStep
  PROVE  WindowsHeld'
<1>1. /\ Len(toMain) \in Nat /\ client.received \in SUBSET Window /\ client.rev \in Nat
      /\ host # None => host.rev \in Nat /\ host.run \in Nat
      /\ \A i \in 1..Len(toMain) : toMain[i].rev \in Nat
  BY Numbers DEF PlaybackTyped, ClientTyped
<1>2. \A w \in client.received : w[1] \in Day /\ \A b \in InWindow(w) : b \in Bucket /\ b < WindowEnd(w)
  BY <1>1, WindowAhead, ProtocolAssumption DEF InWindow, Bucket
<1>3. ASSUME NEW p, NEW m, ForkStep(p, m) PROVE WindowsHeld'
  <2>1. /\ toMain' = toMain /\ host' = host /\ client'.run = client.run /\ p \in Patch
        /\ client'.cuts = client.cuts \cup {p} /\ results' = CutResults(results, {p})
        /\ client'.received = {w \in client.received : ~((w[1] = p.day /\ WindowEnd(w) > p.at)
                                                        \/ (p.lasting /\ w[1] > p.day))}
    BY <1>3 DEF ForkStep, Posts
  <2>2. SUFFICES ASSUME NEW w \in client'.received
                 PROVE  Ours' /\ WindowSettled(w)' /\ WindowHeld(results', w)
    BY DEF WindowsHeld
  <2>3. /\ w \in client.received /\ w \in Window
        /\ ~(w[1] = p.day /\ WindowEnd(w) > p.at) /\ ~(p.lasting /\ w[1] > p.day)
    BY <1>1, <2>1, <2>2
  <2>4. \A b \in InWindow(w) : ~Affects(p, w[1], b)
    <3>1. p.at \in Int /\ WindowEnd(w) \in Int
      BY <2>1, <2>3, WindowAhead, ProtocolAssumption DEF Patch, Bucket
    <3> QED BY <1>2, <2>3, <3>1, ProtocolAssumption DEF Affects, Bucket
  <2>5. Ours /\ WindowSettled(w) /\ WindowHeld(results, w) BY <2>3 DEF WindowsHeld
  <2>6. WindowSettled(w)' BY <2>1, <2>4, <2>5 DEF WindowSettled, Settled, MineBack
  <2>7. \A b \in InWindow(w) : ~Gone({p}, w[1], b) BY <2>4 DEF Gone
  <2>8. WindowHeld(results', w) BY <2>1, <2>3, <2>5, <2>7, WindowKept DEF PlaybackTyped, ResultsTyped
  <2> QED BY <2>1, <2>5, <2>6, <2>8 DEF Ours
<1>4. ASSUME client'.run = client.run, client'.cuts = client.cuts, results' = results,
             client'.received = client.received, toMain' = toMain,
             host # None, host' # None, host'.run = host.run, host'.rev = host.rev
      PROVE  WindowsHeld'
  BY <1>4 DEF WindowsHeld, WindowSettled, WindowHeld, Settled, MineBack, Ours
<1>5. ASSUME client'.run = client.run, client'.cuts = client.cuts, results' = results,
             client'.received = client.received, toMain' = toMain, host' = host
      PROVE  WindowsHeld'
  BY <1>5 DEF WindowsHeld, WindowSettled, WindowHeld, Settled, MineBack, Ours
<1>6. ASSUME NEW m, ReceiveStep(m) PROVE WindowsHeld'
  <2>1. PICK n : n = Len(toMain) OBVIOUS
  <2>2. /\ n \in Nat /\ n >= 1 /\ Len(toMain') = n - 1 /\ m = toMain[1] /\ 1 \in 1..n
        /\ \A i \in 1..(n - 1) : i + 1 \in 1..n /\ toMain'[i] = toMain[i + 1]
        /\ host' = host /\ client'.run = client.run /\ client'.cuts = client.cuts
    BY <1>6, <2>1, ReceivedFrom DEF ReceiveStep
  <2>3. ASSUME NEW w, WindowSettled(w) PROVE WindowSettled(w)'
    <3>1. \A i \in 1..(n - 1) : MineBack(i)' => MineBack(i + 1) BY <2>1, <2>2 DEF MineBack
    <3> QED BY <2>1, <2>2, <2>3, <3>1 DEF WindowSettled, Settled
  <2>4. ASSUME NEW w \in client.received PROVE Ours' /\ WindowSettled(w)' /\ WindowHeld(results', w)
    <3>1. w \in Window /\ Ours /\ WindowSettled(w) /\ WindowHeld(results, w)
      BY <1>1 DEF WindowsHeld
    <3>2. CASE m.run = client.run
      <4>1. MineBack(1) BY <2>1, <2>2, <3>2 DEF MineBack
      <4>2. \A b \in InWindow(w) : Settled(m.rev, w[1], b)
        BY <2>1, <2>2, <3>1, <4>1 DEF WindowSettled
      <4>3. WindowHeld(results', w) BY <1>6, <3>1, <3>2, <4>2, WindowTaken
      <4> QED BY <2>2, <2>3, <3>1, <4>3 DEF Ours
    <3>3. CASE m.run # client.run
      <4>1. results' = results BY <1>6, <3>3 DEF ReceiveStep
      <4> QED BY <2>2, <2>3, <3>1, <4>1 DEF Ours
    <3> QED BY <3>2, <3>3
  <2>5. CASE m.run = client.run /\ m.type = "detail"
    <3>1. client'.received = client.received \cup Answered(m) BY <1>6, <2>5, ReceivedWindows
    <3>2. ASSUME NEW w \in Answered(m) PROVE Ours' /\ WindowSettled(w)' /\ WindowHeld(results', w)
      <4>1. Ours /\ WindowSettled(w) /\ WindowHeld(results', w) BY <1>6, <2>5, <3>2, WindowAnswered
      <4> QED BY <2>2, <2>3, <4>1 DEF Ours
    <3> QED BY <2>4, <3>1, <3>2 DEF WindowsHeld
  <2>6. CASE ~(m.run = client.run /\ m.type = "detail")
    <3>1. client'.received = client.received BY <1>6, <2>6, ReceivedWindows
    <3> QED BY <2>4, <3>1 DEF WindowsHeld
  <2> QED BY <2>5, <2>6
<1>7. ASSUME Stamped, client' = client, results' = results, host # None, host' # None,
             host'.run = host.run, host.rev <= host'.rev, host'.rev \in Nat
      PROVE  WindowsHeld'
  <2>1. PICK n, k : n = Len(toMain) /\ k = Len(toMain') OBVIOUS
  <2>2. /\ \A i \in 1..n : toMain'[i] = toMain[i]
        /\ \A i \in 1..k : i \in 1..n \/ i \in (n + 1)..k
        /\ \A i \in (n + 1)..k : toMain'[i].rev = host'.rev
    BY <1>7, <2>1, SentFrom
  <2>3. SUFFICES ASSUME NEW w \in client.received PROVE Ours' /\ WindowSettled(w)' /\ WindowHeld(results, w)
    BY <1>7 DEF WindowsHeld
  <2>4. Ours /\ WindowSettled(w) /\ WindowHeld(results, w) BY DEF WindowsHeld
  <2>5. \A b \in InWindow(w) : Settled(host'.rev, w[1], b)
    BY <1>1, <1>7, <2>4, SettledLater DEF WindowSettled
  <2>6. \A i \in 1..n : MineBack(i)' => MineBack(i) BY <1>7, <2>1, <2>2 DEF MineBack
  <2>7. \A b \in InWindow(w) : \A i \in 1..k : MineBack(i)' => Settled(toMain'[i].rev, w[1], b)
    <3>1. SUFFICES ASSUME NEW b \in InWindow(w), NEW i \in 1..k, MineBack(i)'
                   PROVE  Settled(toMain'[i].rev, w[1], b)
      OBVIOUS
    <3>2. CASE i \in 1..n BY <2>1, <2>2, <2>4, <2>6, <3>1, <3>2 DEF WindowSettled
    <3>3. CASE i \in (n + 1)..k BY <2>2, <2>5, <3>3
    <3> QED BY <2>2, <3>2, <3>3
  <2>8. WindowSettled(w)' BY <1>7, <2>1, <2>5, <2>7 DEF WindowSettled, Settled
  <2> QED BY <1>7, <2>4, <2>8 DEF Ours
<1>8. ASSUME NEW m, StartStep(m) PROVE WindowsHeld'
  <2>1. Starts(m) /\ m = toWorker[1] /\ 1 \in 1..Len(toWorker) /\ client' = client
    BY <1>8, Numbers DEF StartStep, Takes
  <2>2. ~Ours BY <2>1 DEF Ordered, RunsInOrder
  <2>3. client.received = {} BY <2>2 DEF WindowsHeld
  <2> QED BY <2>1, <2>3 DEF WindowsHeld
<1>9. ASSUME NEW m, HostForkStep(m) PROVE WindowsHeld'
  <2>1. /\ Stamped /\ client' = client /\ results' = results /\ host # None /\ host' # None
        /\ host'.run = host.run /\ host'.rev = m.patch.rev /\ m.patch.rev > host.rev /\ m.patch \in Patch
    BY <1>9 DEF HostForkStep, Takes, Active
  <2>2. host'.rev \in Nat /\ host.rev <= host'.rev BY <1>1, <2>1, Numbers
  <2> QED BY <1>7, <2>1, <2>2
<1>10. ASSUME NEW m, HostOtherStep(m) PROVE WindowsHeld'
  BY <1>4, <1>10 DEF HostOtherStep, Takes, Active
<1>11. ASSUME WorkStep PROVE WindowsHeld'
  <2>1. /\ Stamped /\ client' = client /\ results' = results /\ host # None /\ host' # None
        /\ host'.run = host.run /\ host'.rev = host.rev
    BY <1>11 DEF WorkStep, Active, SameRun
  <2> QED BY <1>1, <1>7, <2>1
<1>12. ASSUME NEW m, OtherStep(m) PROVE WindowsHeld'
  <2>1. client'.received = client.received BY <1>12 DEF OtherStep, SameWindows, InboxMessage
  <2> QED BY <1>5, <1>12, <2>1 DEF OtherStep, Posts, SameClock, SameResults
<1>13. ASSUME NEW m, DropStep(m) PROVE WindowsHeld'
  BY <1>5, <1>13 DEF DropStep, Takes
<1>14. ASSUME QuietStep \/ vars' = vars PROVE WindowsHeld'
  BY <1>5, <1>14 DEF QuietStep, SameClock, SameResults, SameWindows, vars
<1>15. ASSUME NEW m, ResetStep(m) PROVE WindowsHeld'
  BY <1>15 DEF ResetStep, NewClient, WindowsHeld
<1> QED BY <1>3, <1>6, <1>8, <1>9, <1>10, <1>11, <1>12, <1>13, <1>14, <1>15 DEF AStep

-----------------------------------------------------------------------------
(* The records of the tracked analyst: the traces in the store.              *)

TracesShown == \A d \in Day : results.trace[d] # None => results.trace[d] \in ShownTraces

(* A cut keeps of a trace what it does not change. *)
LEMMA TraceCut ==
  ASSUME NEW r, StoreWell(r), NEW P, NEW d \in Day, r.trace[d] # None => r.trace[d] \in ShownTraces
  PROVE  /\ CutResults(r, P).trace[d] # None => CutResults(r, P).trace[d] \in ShownTraces
         /\ \A b : r.trace[d] # None /\ b \in DOMAIN r.trace[d].results /\ ~Gone(P, d, b) =>
              /\ CutResults(r, P).trace[d] # None
              /\ CutResults(r, P).trace[d].analyst = r.trace[d].analyst
              /\ b \in DOMAIN CutResults(r, P).trace[d].results
<1>1. PICK x, y : x = r.trace[d] /\ y = CutResults(r, P).trace[d] OBVIOUS
<1>2. y = IF x = None \/ Kept(P, d, x.results) = <<>> THEN None
          ELSE [x EXCEPT !.results = Kept(P, d, @)]
  BY <1>1 DEF CutResults
<1>3. CASE x = None BY <1>1, <1>2, <1>3
<1>4. CASE x # None
  <2>1. x \in ShownTraces BY <1>1, <1>4
  <2>2. PICK k : k = Kept(P, d, x.results) OBVIOUS
  <2>3. k \in ResultSets /\ \A b : b \in DOMAIN k <=> b \in DOMAIN x.results /\ ~Gone(P, d, b)
    <3>1. \A f \in ResultSets : Kept(P, d, f) \in ResultSets
            /\ DOMAIN Kept(P, d, f) = {b \in DOMAIN f : ~Gone(P, d, b)}
      BY KeptResults
    <3>2. x.results \in ResultSets BY <2>1 DEF ShownTraces
    <3> QED BY <2>2, <3>1, <3>2
  <2>4. PICK z : z = [x EXCEPT !.results = k] OBVIOUS
  <2>5. z \in ShownTraces /\ z.analyst = x.analyst /\ z.results = k
    BY <2>1, <2>3, <2>4 DEF ShownTraces
  <2>6. z # None BY <2>5, StoreAssumption
  <2>7. y = IF k = <<>> THEN None ELSE z BY <1>2, <1>4, <2>2, <2>4
  <2>8. \A b : b \in DOMAIN k => k # <<>>
    <3>1. DOMAIN <<>> = {} OBVIOUS
    <3> QED BY <3>1
  <2> QED BY <1>1, <1>4, <2>3, <2>5, <2>6, <2>7, <2>8
<1> QED BY <1>3, <1>4

LEMMA TraceShown ==
  ASSUME PlaybackTyped, SentRight, NEW m, ReceiveStep(m), m.run = client.run, m.type = "trace"
  PROVE  /\ [analyst |-> m.analyst, results |-> m.results] \in ShownTraces
         /\ m.day \in Day /\ m.to \in 1..Buckets /\ DOMAIN m.results = 0..(m.to - 1)
<1>1. m = toMain[1] /\ 1 \in 1..Len(toMain) /\ ResultMessage(m) BY DEF ReceiveStep
<1>2. MineBack(1) BY <1>1 DEF MineBack
<1>3. \A b \in 0..(m.to - 1) : m.results[b] = Deps(Seen(m.rev), m.day, b)
  BY <1>1, <1>2 DEF SentRight, RightUnder
<1>4. \A b : Deps(Seen(m.rev), m.day, b) \in Revs
  <2>1. \A p \in client.cuts : p.rev \in 1..MaxForks BY Numbers DEF Patch
  <2> QED BY <2>1 DEF Deps, Seen, Revs
<1>5. /\ m.day \in Day /\ m.to \in 1..Buckets /\ m.analyst \in Analyst
      /\ m.results = [b \in 0..(m.to - 1) |-> m.results[b]]
  BY <1>1 DEF ResultMessage
<1>6. m.results \in [0..(m.to - 1) -> Revs] BY <1>3, <1>4, <1>5
<1>7. 0..(m.to - 1) \in SUBSET Bucket BY <1>5, ProtocolAssumption DEF Bucket
<1>8. m.results \in ResultSets BY <1>6, <1>7 DEF ResultSets
<1> QED BY <1>5, <1>6, <1>8 DEF ShownTraces

LEMMA TracesShownNext ==
  ASSUME PlaybackTyped, SentRight, TracesShown, AStep
  PROVE  TracesShown'
<1>1. StoreWell(results) BY DEF PlaybackTyped, ResultsTyped
<1>2. ASSUME results' = results PROVE TracesShown' BY <1>2 DEF TracesShown
<1>3. ASSUME NEW r, StoreWell(r), NEW P, results' = CutResults(r, P),
             \A d \in Day : r.trace[d] # None => r.trace[d] \in ShownTraces
      PROVE  TracesShown'
  BY <1>3, TraceCut DEF TracesShown
<1>4. ASSUME NEW m, ReceiveStep(m) PROVE TracesShown'
  <2>1. CASE m.run # client.run BY <1>2, <1>4, <2>1 DEF ReceiveStep
  <2>2. CASE m.run = client.run
    <3>1. ResultMessage(m) /\ Taking(m) BY <1>4, <2>2, Takings
    <3>2. CASE m.type = "dayComplete" /\ results' = [results EXCEPT !.rollup[m.day] = m.results]
      <4>1. results'.trace = results.trace BY <1>1, <3>2 DEF StoreWell
      <4> QED BY <4>1 DEF TracesShown
    <3>3. ASSUME NEW added, Adds(m, added), results' = CutResults(added, Recuts(m, m.to))
          PROVE  TracesShown'
      <4>1. StoreWell(added) BY <1>1, <3>1, <3>3, AddedWell
      <4>2. ASSUME NEW d \in Day, added.trace[d] # None PROVE added.trace[d] \in ShownTraces
        <5>1. CASE m.type # "trace"
          BY <1>1, <3>1, <3>3, <4>2, <5>1, AddedWell DEF TracesShown
        <5>2. CASE m.type = "trace"
          <6>1. added = AddTrace(results, m) BY <3>3, <5>2 DEF Adds
          <6>2. added.trace[d] = IF d = m.day THEN [analyst |-> m.analyst, results |-> m.results]
                                 ELSE results.trace[d]
            BY <1>1, <3>1, <5>2, <6>1, AddTraceTyped
          <6> QED BY <1>4, <2>2, <4>2, <5>2, <6>2, TraceShown DEF TracesShown
        <5> QED BY <5>1, <5>2
      <4> QED BY <1>3, <3>3, <4>1, <4>2
    <3> QED BY <1>2, <3>1, <3>2, <3>3 DEF Taking
  <2> QED BY <2>1, <2>2
<1>5. ASSUME NEW p, NEW m, ForkStep(p, m) PROVE TracesShown'
  <2>1. results' = CutResults(results, {p}) BY <1>5 DEF ForkStep
  <2> QED BY <1>1, <1>3, <2>1 DEF TracesShown
<1>6. ASSUME NEW m, ResetStep(m) PROVE TracesShown'
  BY <1>6 DEF ResetStep, NoData, TracesShown
<1> QED BY <1>2, <1>4, <1>5, <1>6
    DEF AStep, OtherStep, SameResults, QuietStep, StartStep, HostForkStep, HostOtherStep, DropStep,
        Takes, WorkStep, vars

(* The live runs record the tracked analyst, and so do the traces owed, of   *)
(* which a day has one at most.                                              *)
RunsTracked ==
  host # None => \A d \in Day : host.slot[d].run # None => host.slot[d].run.analyst = host.tracked
TracesTracked ==
  host # None => /\ \A t \in host.traces : t.analyst = host.tracked
                 /\ \A t, u \in host.traces : t.day = u.day => t = u

LEMMA HostOtherTracks ==
  ASSUME PlaybackTyped, NEW m, HostOtherStep(m)
  PROVE  \/ /\ host'.traces = host.traces /\ host'.tracked = host.tracked
            /\ m.type = "track" => m.analyst = host.tracked
            /\ \A d \in Day : host'.slot[d].run = host.slot[d].run
         \/ /\ m.type = "track" /\ m.analyst # host.tracked /\ host'.tracked = m.analyst
            /\ host'.traces = {TraceOwed(d, m.analyst) : d \in {e \in Day : host.slot[e].to > 0}}
            /\ \A d \in Day : host'.slot[d].run = Rebind(host.slot[d].run, host.patches, m.analyst)
<1>1. ChannelsTyped /\ HostWell(host) /\ InboxMessage(m)
  BY DEF PlaybackTyped, HostTyped, HostOtherStep, Takes, Active
<1>2. CASE Focus(m)
  <2>1. m.type = "focus" /\ host'.traces = host.traces /\ host'.tracked = host.tracked /\ SameStreams
    BY <1>1, <1>2, FocusDoes DEF Focus
  <2> QED BY <2>1 DEF SameStreams
<1>3. CASE RequestDetail(m)
  <2>1. m.type = "requestDetail" /\ host'.traces = host.traces /\ SameRun /\ SameStreams
    BY <1>1, <1>3, RequestDoes DEF RequestDetail
  <2> QED BY <2>1 DEF SameStreams, SameRun
<1>4. CASE Track(m)
  <2>1. m.type = "track" /\ host'.tracked = m.analyst BY <1>1, <1>4, TrackDoes DEF Track
  <2>2. CASE m.analyst = host.tracked
    <3>1. host' = host BY <1>1, <1>4, <2>2, TrackDoes
    <3> QED BY <2>2, <3>1
  <2>3. CASE m.analyst # host.tracked BY <1>1, <1>4, <2>1, <2>3, TrackDoes
  <2> QED BY <2>2, <2>3
<1> QED BY <1>2, <1>3, <1>4 DEF HostOtherStep

LEMMA StreamTracked ==
  ASSUME HostWell(host), RunsTracked, host # None, NEW d \in Day
  PROVE  /\ StreamRun(d).analyst = host.tracked
         /\ \A end : Advance(StreamRun(d), d, end).analyst = host.tracked
<1>1. StreamRun(d) \in DayRuns BY StreamTyped
<1>2. StreamRun(d).analyst = host.tracked
  BY DEF StreamRun, RunsTracked, OpenRunAt, CreateDayRun, Restore
<1>3. \A end : Advance(StreamRun(d), d, end).analyst = StreamRun(d).analyst
  BY <1>1 DEF Advance, DayRuns
<1> QED BY <1>2, <1>3

LEMMA RunsTrackedNext ==
  ASSUME PlaybackTyped, RunsTracked, AStep
  PROVE  RunsTracked'
<1>1. ASSUME host' = host PROVE RunsTracked' BY <1>1 DEF RunsTracked
<1>2. ASSUME NEW m, StartStep(m) PROVE RunsTracked' BY <1>2, StartDetails DEF RunsTracked
<1>3. ASSUME NEW m, HostForkStep(m) PROVE RunsTracked'
  <2>1. host # None /\ host'.tracked = host.tracked /\ \A d \in Day : host'.slot[d].run = CutRun(m.patch, d)
    BY <1>3 DEF HostForkStep, Active
  <2>2. \A d \in Day : CutRun(m.patch, d) # None => CutRun(m.patch, d).analyst = host.tracked
    BY <2>1 DEF CutRun, Rebind, Restore, RunsTracked
  <2> QED BY <2>1, <2>2 DEF RunsTracked
<1>4. ASSUME NEW m, HostOtherStep(m) PROVE RunsTracked'
  <2>1. host # None BY <1>4 DEF HostOtherStep, Active
  <2>2. \A run : Rebind(run, host.patches, m.analyst) # None =>
          Rebind(run, host.patches, m.analyst).analyst = m.analyst
    BY DEF Rebind, Restore
  <2> QED BY <1>4, <2>1, <2>2, HostOtherTracks DEF RunsTracked
<1>5. ASSUME WorkStep PROVE RunsTracked'
  <2>1. /\ host # None /\ HostWell(host) /\ ChannelsTyped /\ Work /\ host'.tracked = host.tracked
    BY <1>5 DEF WorkStep, Active, PlaybackTyped, HostTyped, SameRun
  <2>2. ASSUME SameStreams PROVE RunsTracked' BY <2>1, <2>2 DEF SameStreams, RunsTracked
  <2>3. ASSUME NEW d \in Day, ~host.slot[d].complete, StepDay(d) PROVE RunsTracked'
    <3>1. /\ \A e \in Day \ {d} : host'.slot[e].run = host.slot[e].run
          /\ \/ SameStreams
             \/ SilentStep(d)
             \/ \E end \in (host.slot[d].to + 1)..Buckets : ChunkStep(d, end)
      BY <2>1, <2>3, DayDoes
    <3>2. ASSUME SilentStep(d) \/ \E end : ChunkStep(d, end)
          PROVE  host'.slot[d].run # None => host'.slot[d].run.analyst = host.tracked
      BY <2>1, <3>2, StreamTracked DEF SilentStep, ChunkStep
    <3> QED BY <2>1, <2>2, <3>1, <3>2 DEF RunsTracked
  <2>4. ASSUME NEW job \in host.details, StepDetail(job) PROVE RunsTracked'
    BY <2>1, <2>2, <2>4, DetailDoes
  <2>5. ASSUME NEW t \in host.traces, StepTrace(t) PROVE RunsTracked' BY <2>1, <2>2, <2>5, TraceDoes
  <2>6. ASSUME NEW d \in Day, StepDensify(d) PROVE RunsTracked' BY <2>1, <2>2, <2>6, DensifyDoes
  <2> QED BY <2>1, <2>3, <2>4, <2>5, <2>6, WorkCases
<1> QED BY <1>1, <1>2, <1>3, <1>4, <1>5
    DEF AStep, ForkStep, ResetStep, OtherStep, Posts, QuietStep, ReceiveStep, DropStep, vars

(* What a fork leaves of a trace. *)
Shortened(t, p) == IF t.day = p.day /\ p.at < t.to THEN [t EXCEPT !.to = p.at] ELSE t

LEMMA CutTracesAre ==
  ASSUME NEW traces \in SUBSET TraceJobs, NEW p \in Patch
  PROVE  /\ \A t \in CutTraces(traces, p) : \E u \in traces : t = Shortened(u, p)
         /\ \A u \in traces : /\ Shortened(u, p).day = u.day /\ Shortened(u, p).analyst = u.analyst
                              /\ Shortened(u, p).to =
                                   IF u.day = p.day /\ p.at < u.to THEN p.at ELSE u.to
         /\ \A u \in traces : Shortened(u, p).to > 0 /\ ~(p.lasting /\ u.day > p.day) =>
              Shortened(u, p) \in CutTraces(traces, p)
<1>1. \A u \in traces : u \in TraceJobs OBVIOUS
<1>2. \A u \in traces : /\ Shortened(u, p).day = u.day /\ Shortened(u, p).analyst = u.analyst
                        /\ Shortened(u, p).to = IF u.day = p.day /\ p.at < u.to THEN p.at ELSE u.to
  BY <1>1 DEF Shortened, TraceJobs
<1>3. CutTraces(traces, p) =
        {t \in {Shortened(u, p) : u \in traces} : t.to > 0 /\ ~(p.lasting /\ t.day > p.day)}
  BY DEF CutTraces, Shortened
<1> QED BY <1>2, <1>3

LEMMA TracesTrackedNext ==
  ASSUME PlaybackTyped, TracesTracked, AStep
  PROVE  TracesTracked'
<1>1. ASSUME host # None => host'.traces = host.traces /\ host'.tracked = host.tracked,
             host = None => host' = None
      PROVE  TracesTracked'
  BY <1>1 DEF TracesTracked
<1>2. ASSUME NEW m, StartStep(m) PROVE TracesTracked' BY <1>2 DEF StartStep, TracesTracked
<1>3. ASSUME NEW m, HostForkStep(m) PROVE TracesTracked'
  <2>1. /\ host # None /\ host'.tracked = host.tracked /\ m.patch \in Patch
        /\ host'.traces = CutTraces(host.traces, m.patch) /\ host.traces \in SUBSET TraceJobs
    BY <1>3 DEF HostForkStep, Active, PlaybackTyped, HostTyped, HostWell, HostRuns
  <2>2. \A u \in host.traces : /\ Shortened(u, m.patch).day = u.day
                               /\ Shortened(u, m.patch).analyst = u.analyst
    BY <2>1, CutTracesAre
  <2>3. \A t \in host'.traces : \E u \in host.traces : t = Shortened(u, m.patch)
    BY <2>1, CutTracesAre
  <2>4. \A t \in host'.traces : t.analyst = host.tracked BY <2>1, <2>2, <2>3 DEF TracesTracked
  <2>5. ASSUME NEW t \in host'.traces, NEW v \in host'.traces, t.day = v.day PROVE t = v
    <3>1. PICK u \in host.traces : t = Shortened(u, m.patch) BY <2>3
    <3>2. PICK w \in host.traces : v = Shortened(w, m.patch) BY <2>3
    <3>3. u.day = w.day BY <2>2, <2>5, <3>1, <3>2
    <3>4. u = w BY <2>1, <3>3 DEF TracesTracked
    <3> QED BY <3>1, <3>2, <3>4
  <2> QED BY <2>1, <2>4, <2>5 DEF TracesTracked
<1>4. ASSUME NEW m, HostOtherStep(m) PROVE TracesTracked'
  <2>1. host # None BY <1>4 DEF HostOtherStep, Active
  <2>2. \A d, a : TraceOwed(d, a).day = d /\ TraceOwed(d, a).analyst = a BY DEF TraceOwed
  <2> QED BY <1>1, <1>4, <2>1, <2>2, HostOtherTracks DEF TracesTracked
<1>5. ASSUME WorkStep PROVE TracesTracked'
  <2>1. /\ host # None /\ HostWell(host) /\ ChannelsTyped /\ Work /\ host'.tracked = host.tracked
    BY <1>5 DEF WorkStep, Active, PlaybackTyped, HostTyped, SameRun
  <2>2. ASSUME NEW t \in host.traces, StepTrace(t) PROVE TracesTracked'
    <3>1. PICK u : u = [t EXCEPT !.run = TraceNext(t), !.results = TraceGot(t)] OBVIOUS
    <3>2. \A v \in host'.traces : v = u \/ (v \in host.traces /\ v # t)
      BY <2>1, <2>2, <3>1, TraceDoes
    <3>3. t \in TraceJobs BY <2>1, <2>2, TraceTyped
    <3>4. u.day = t.day /\ u.analyst = t.analyst BY <3>1, <3>3 DEF TraceJobs
    <3> QED BY <2>1, <3>2, <3>4 DEF TracesTracked
  <2>3. ASSUME NEW d \in Day, ~host.slot[d].complete, StepDay(d) PROVE TracesTracked'
    BY <1>1, <2>1, <2>3, DayDoes
  <2>4. ASSUME NEW job \in host.details, StepDetail(job) PROVE TracesTracked'
    BY <1>1, <2>1, <2>4, DetailDoes
  <2>5. ASSUME NEW d \in Day, StepDensify(d) PROVE TracesTracked' BY <1>1, <2>1, <2>5, DensifyDoes
  <2> QED BY <2>1, <2>2, <2>3, <2>4, <2>5, WorkCases
<1> QED BY <1>1, <1>2, <1>3, <1>4, <1>5
    DEF AStep, ForkStep, ResetStep, OtherStep, Posts, QuietStep, ReceiveStep, DropStep, vars

(* What a unit of work does to the records: nothing, it streams a chunk, or  *)
(* it takes a trace further or sends it.                                     *)
RecordsNothing ==
  /\ host'.traces = host.traces /\ \A d \in Day : host'.slot[d].to = host.slot[d].to
  /\ \A i \in (Len(toMain) + 1)..Len(toMain') : toMain'[i].type \notin {"chunk", "trace"}
RecordsChunk(d, end) ==
  LET n == Len(toMain)
  IN  /\ host'.traces = host.traces
      /\ host'.slot[d].to = end /\ \A e \in Day \ {d} : host'.slot[e].to = host.slot[e].to
      /\ n + 1 \in (n + 1)..Len(toMain')
      /\ toMain'[n + 1].type = "chunk" /\ toMain'[n + 1].day = d
      /\ toMain'[n + 1].from = host.slot[d].to /\ toMain'[n + 1].to = end
      /\ toMain'[n + 1].analyst = host.tracked
      /\ \A i \in (n + 1)..Len(toMain') : i # n + 1 => toMain'[i].type \notin {"chunk", "trace"}
RecordsTrace(t) ==
  LET n == Len(toMain)
      on == [t EXCEPT !.run = TraceNext(t), !.results = TraceGot(t)]
  IN  /\ \A d \in Day : host'.slot[d].to = host.slot[d].to
      /\ \/ /\ host'.traces = (host.traces \ {t}) \cup {on}
            /\ on.day = t.day /\ on.to = t.to
            /\ \A i \in (n + 1)..Len(toMain') : FALSE
         \/ /\ host'.traces = host.traces \ {t}
            /\ n + 1 \in (n + 1)..Len(toMain')
            /\ \A i \in (n + 1)..Len(toMain') : i = n + 1
            /\ toMain'[n + 1] = TraceMessage(t)

LEMMA WorkRecords ==
  ASSUME PlaybackTyped, RunsTracked, WorkStep
  PROVE  \/ RecordsNothing
         \/ \E d \in Day : \E end \in (host.slot[d].to + 1)..Buckets : RecordsChunk(d, end)
         \/ \E t \in host.traces : RecordsTrace(t)
<1>1. /\ host # None /\ HostWell(host) /\ ChannelsTyped /\ Work /\ Len(toMain) \in Nat
      /\ Len(toMain') \in Nat
  BY Numbers, SentFrom DEF WorkStep, Active, PlaybackTyped, HostTyped
<1>2. ASSUME NEW job \in host.details, StepDetail(job) PROVE RecordsNothing
  BY <1>1, <1>2, DetailDoes DEF RecordsNothing, SameStreams, Sends
<1>3. ASSUME NEW d \in Day, StepDensify(d) PROVE RecordsNothing
  BY <1>1, <1>3, DensifyDoes DEF RecordsNothing, SameStreams, Sends
<1>4. ASSUME NEW d \in Day, ~host.slot[d].complete, StepDay(d)
      PROVE  RecordsNothing \/ \E end \in (host.slot[d].to + 1)..Buckets : RecordsChunk(d, end)
  <2>1. /\ host'.traces = host.traces
        /\ \A e \in Day \ {d} : host'.slot[e].to = host.slot[e].to
        /\ \/ SameStreams /\ Sends({"error"})
           \/ SilentStep(d)
           \/ \E end \in (host.slot[d].to + 1)..Buckets : ChunkStep(d, end)
    BY <1>1, <1>4, DayDoes
  <2>2. CASE SameStreams /\ Sends({"error"})
    BY <2>1, <2>2 DEF RecordsNothing, SameStreams, Sends
  <2>3. CASE SilentStep(d) BY <2>1, <2>3 DEF RecordsNothing, SilentStep, Sends
  <2>4. ASSUME NEW end \in (host.slot[d].to + 1)..Buckets, ChunkStep(d, end) PROVE RecordsChunk(d, end)
    <3>1. PICK n, k : n = Len(toMain) /\ k = Len(toMain') OBVIOUS
    <3>2. k \in {n + 2, n + 3} /\ n \in Nat /\ host'.slot[d].to = end /\ StreamRun(d).now = host.slot[d].to
      BY <1>1, <2>4, <3>1 DEF ChunkStep
    <3>3. n + 1 \in (n + 1)..k /\ \A i \in (n + 1)..k : i = n + 1 \/ i = n + 2 \/ (i = n + 3 /\ k = n + 3)
      BY <3>2
    <3>4. /\ toMain'[n + 1] = ChunkMessage(d, end)
          /\ toMain'[n + 2].type = "progress"
          /\ (k = n + 3 => toMain'[n + 3].type = "dayComplete")
      BY <2>4, <3>1 DEF ChunkStep, ProgressMessage, CompleteMessage
    <3>5. /\ toMain'[n + 1].type = "chunk" /\ toMain'[n + 1].day = d
          /\ toMain'[n + 1].from = host.slot[d].to /\ toMain'[n + 1].to = end
          /\ toMain'[n + 1].analyst = host.tracked
      BY <1>1, <3>2, <3>4, StreamTracked DEF ChunkMessage
    <3>6. \A i \in (n + 1)..k : i # n + 1 => toMain'[i].type \notin {"chunk", "trace"}
      BY <3>3, <3>4
    <3> QED BY <2>1, <3>1, <3>2, <3>3, <3>5, <3>6 DEF RecordsChunk
  <2> QED BY <2>1, <2>2, <2>3, <2>4
<1>5. ASSUME NEW t \in host.traces, StepTrace(t) PROVE RecordsTrace(t)
  <2>1. PICK n, k, on : n = Len(toMain) /\ k = Len(toMain')
                        /\ on = [t EXCEPT !.run = TraceNext(t), !.results = TraceGot(t)]
    OBVIOUS
  <2>2. t \in TraceJobs /\ TraceNext(t) \in DayRuns BY <1>1, <1>5, TraceTyped
  <2>3. on.day = t.day /\ on.to = t.to BY <2>1, <2>2 DEF TraceJobs
  <2>4. /\ SameStreams
        /\ host'.traces = (host.traces \ {t}) \cup IF TraceNext(t).now >= t.to THEN {} ELSE {on}
        /\ \A i \in (n + 1)..k : toMain'[i] = TraceMessage(t) /\ TraceNext(t).now >= t.to
        /\ TraceNext(t).now >= t.to => k = n + 1
    BY <1>1, <1>5, <2>1, TraceDoes
  <2>5. n \in Nat /\ k \in Nat BY <1>1, <2>1
  <2>6. CASE TraceNext(t).now >= t.to
    <3>1. k = n + 1 BY <2>4, <2>6
    <3>2. n + 1 \in (n + 1)..k /\ \A i \in (n + 1)..k : i = n + 1 BY <2>5, <3>1
    <3>3. host'.traces = host.traces \ {t} BY <2>4, <2>6
    <3> QED BY <2>1, <2>4, <3>2, <3>3 DEF RecordsTrace, SameStreams
  <2>7. CASE ~(TraceNext(t).now >= t.to)
    <3>1. \A i \in (n + 1)..k : FALSE BY <2>4, <2>7
    <3>2. host'.traces = (host.traces \ {t}) \cup {on} BY <2>4, <2>7
    <3> QED BY <2>1, <2>3, <2>4, <3>1, <3>2 DEF RecordsTrace, SameStreams
  <2> QED BY <2>6, <2>7
<1> QED BY <1>1, <1>2, <1>3, <1>4, <1>5, WorkCases

(* Until an analyst is tracked nothing is traced. *)
NoTraces ==
  client.tracked = None =>
    /\ \A i \in 1..Len(toWorker) : ~Tracks(i)
    /\ Ours => host.traces = {}
    /\ \A i \in 1..Len(toMain) : MineBack(i) => toMain[i].type # "trace"

LEMMA NoTracesNext ==
  ASSUME PlaybackTyped, Ordered, RunsTracked, NoTraces, AStep
  PROVE  NoTraces'
<1>1. Len(toMain) \in Nat /\ Len(toWorker) \in Nat /\ client.run \in Nat
      /\ (\A i \in 1..Len(toMain) : toMain[i].run \in Nat)
      /\ (\A i \in 1..Len(toWorker) : toWorker[i].run \in Nat)
      /\ (host # None => host.run \in Nat)
  BY Numbers
<1>2. ASSUME NEW m, Posts(m), m.type # "track", client'.tracked = client.tracked,
             client'.run = client.run
      PROVE  NoTraces'
  <2>1. PICK n : n = Len(toWorker) OBVIOUS
  <2>2. /\ Len(toWorker') = n + 1 /\ toWorker'[n + 1] = m /\ toMain' = toMain /\ host' = host
        /\ \A i \in 1..n : toWorker'[i] = toWorker[i]
        /\ \A i \in 1..(n + 1) : i \in 1..n \/ i = n + 1
    BY <1>2, <2>1, PostedFrom DEF Posts
  <2>3. \A i \in 1..(n + 1) : Tracks(i)' => i \in 1..n /\ Tracks(i)
    BY <1>2, <2>1, <2>2 DEF Tracks, Mine
  <2> QED BY <1>2, <2>1, <2>2, <2>3 DEF NoTraces, Ours, MineBack
<1>3. ASSUME NEW m, ResetStep(m) PROVE NoTraces'
  <2>1. PICK n : n = Len(toWorker) OBVIOUS
  <2>2. /\ Len(toWorker') = n + 1 /\ toWorker'[n + 1] = m /\ toMain' = toMain /\ host' = host
        /\ \A i \in 1..n : toWorker'[i] = toWorker[i]
        /\ \A i \in 1..(n + 1) : i \in 1..n \/ i = n + 1
        /\ client'.run = client.run + 1 /\ m.type = "reset"
    BY <1>3, <2>1, PostedFrom DEF ResetStep, Posts, NewClient
  <2>3. ASSUME NEW i \in 1..(n + 1), Tracks(i)' PROVE FALSE
    <3>1. i \in 1..n BY <2>2, <2>3 DEF Tracks
    <3>2. toWorker[i].run = client.run + 1 BY <2>2, <2>3, <3>1 DEF Tracks, Mine
    <3> QED BY <1>1, <2>1, <3>1, <3>2 DEF Ordered, RunsInOrder
  <2>4. ~Ours' BY <1>1, <2>2 DEF Ordered, RunsInOrder, Ours
  <2>5. \A i \in 1..Len(toMain) : toMain[i].run # client.run + 1
    <3>1. SUFFICES ASSUME NEW i \in 1..Len(toMain) PROVE toMain[i].run # client.run + 1 OBVIOUS
    <3>2. toMain[i].run <= client.run BY DEF Ordered, ResultsInOrder
    <3> QED BY <1>1, <3>2
  <2> QED BY <2>2, <2>3, <2>4, <2>5 DEF NoTraces, MineBack
<1>4. ASSUME NEW m, OtherStep(m) PROVE NoTraces'
  <2>1. CASE m.type = "track"
    <3>1. client'.tracked \in Analyst BY <1>4, <2>1 DEF OtherStep, Posts, InboxMessage
    <3> QED BY <3>1, ProtocolAssumption DEF NoTraces
  <2>2. CASE m.type # "track" BY <1>2, <1>4, <2>2 DEF OtherStep, SameClock
  <2> QED BY <2>1, <2>2
<1>5. ASSUME NEW m, ReceiveStep(m) PROVE NoTraces'
  <2>1. PICK n : n = Len(toMain) OBVIOUS
  <2>2. /\ Len(toMain') = n - 1
        /\ \A i \in 1..(n - 1) : i + 1 \in 1..n /\ toMain'[i] = toMain[i + 1]
        /\ toWorker' = toWorker /\ host' = host /\ client'.run = client.run
    BY <1>5, <2>1, ReceivedFrom DEF ReceiveStep
  <2>3. client'.tracked = None => client.tracked = None
    BY <1>5, ProtocolAssumption DEF ReceiveStep
  <2>4. \A i \in 1..(n - 1) : MineBack(i)' => MineBack(i + 1) BY <2>1, <2>2 DEF MineBack
  <2> QED BY <2>1, <2>2, <2>3, <2>4 DEF NoTraces, Tracks, Mine, Ours
<1>6. ASSUME NEW m, Takes(m), host # None /\ Ours' => Ours /\ (host.traces = {} => host'.traces = {}),
             host = None => host' = None \/ host'.traces = {},
             \A i \in (Len(toMain) + 1)..Len(toMain') : toMain'[i].type # "trace"
      PROVE  NoTraces'
  <2>1. PICK n, k, l : n = Len(toMain) /\ k = Len(toMain') /\ l = Len(toWorker) OBVIOUS
  <2>2. /\ \A i \in 1..n : toMain'[i] = toMain[i]
        /\ \A i \in 1..k : i \in 1..n \/ i \in (n + 1)..k
    BY <1>6, <2>1, SentFrom DEF Takes
  <2>3. Len(toWorker') = l - 1 /\ \A i \in 1..(l - 1) : i + 1 \in 1..l /\ toWorker'[i] = toWorker[i + 1]
    BY <1>6, <2>1, TakenFrom
  <2>4. client' = client BY <1>6 DEF Takes
  <2>5. \A i \in 1..(l - 1) : Tracks(i)' => Tracks(i + 1) BY <2>1, <2>3, <2>4 DEF Tracks, Mine
  <2>6. \A i \in 1..k : MineBack(i)' /\ toMain'[i].type = "trace" =>
          i \in 1..n /\ MineBack(i) /\ toMain[i].type = "trace"
    BY <1>6, <2>1, <2>2, <2>4 DEF MineBack
  <2>7. client.tracked = None => (Ours' => host'.traces = {}) BY <1>6 DEF NoTraces, Ours
  <2> QED BY <2>1, <2>3, <2>4, <2>5, <2>6, <2>7 DEF NoTraces
<1>7. ASSUME NEW m, StartStep(m) PROVE NoTraces'
  <2>1. /\ Takes(m) /\ client' = client /\ host'.traces = {} /\ host' # None /\ Starts(m)
        /\ m = toWorker[1] /\ 1 \in 1..Len(toWorker)
        /\ Len(toMain') = Len(toMain) + 1 /\ toMain'[Len(toMain) + 1].type = "ready"
    BY <1>1, <1>7 DEF StartStep, Takes
  <2>2. \A i \in (Len(toMain) + 1)..Len(toMain') : i = Len(toMain) + 1 BY <1>1, <2>1
  <2>3. PICK n, k, l : n = Len(toMain) /\ k = Len(toMain') /\ l = Len(toWorker) OBVIOUS
  <2>4. /\ \A i \in 1..n : toMain'[i] = toMain[i]
        /\ \A i \in 1..k : i \in 1..n \/ i \in (n + 1)..k
    BY <2>1, <2>3, SentFrom DEF Takes
  <2>5. Len(toWorker') = l - 1 /\ \A i \in 1..(l - 1) : i + 1 \in 1..l /\ toWorker'[i] = toWorker[i + 1]
    BY <2>1, <2>3, TakenFrom
  <2>6. \A i \in 1..(l - 1) : Tracks(i)' => Tracks(i + 1) BY <2>1, <2>3, <2>5 DEF Tracks, Mine
  <2>7. \A i \in 1..k : MineBack(i)' /\ toMain'[i].type = "trace" =>
          i \in 1..n /\ MineBack(i) /\ toMain[i].type = "trace"
    BY <2>1, <2>2, <2>3, <2>4 DEF MineBack
  <2> QED BY <2>1, <2>3, <2>5, <2>6, <2>7 DEF NoTraces
<1>8. ASSUME NEW m, HostForkStep(m) PROVE NoTraces'
  <2>1. /\ Takes(m) /\ client' = client /\ host # None /\ host'.run = host.run
        /\ host'.traces = CutTraces(host.traces, m.patch) /\ Sends({"detail"})
    BY <1>8 DEF HostForkStep, Takes, Active
  <2>2. host.traces = {} => host'.traces = {} BY <2>1 DEF CutTraces
  <2> QED BY <1>6, <2>1, <2>2 DEF Ours, Sends
<1>9. ASSUME NEW m, HostOtherStep(m) PROVE NoTraces'
  <2>1. /\ Takes(m) /\ client' = client /\ host # None /\ host'.run = host.run /\ toMain' = toMain
        /\ m = toWorker[1] /\ 1 \in 1..Len(toWorker) /\ m.run = host.run
    BY <1>1, <1>9 DEF HostOtherStep, Takes, Active
  <2>2. \A i \in (Len(toMain) + 1)..Len(toMain') : FALSE BY <1>1, <2>1
  <2>3. CASE host'.traces = host.traces BY <1>6, <2>1, <2>2, <2>3 DEF Ours
  <2>4. CASE m.type = "track"
    <3>1. SUFFICES ASSUME client.tracked = None PROVE ~Ours'
      <4>1. client.tracked # None => NoTraces' BY <2>1 DEF NoTraces
      <4> QED BY <1>6, <2>1, <2>2, <3>1, <4>1
    <3>2. ~Tracks(1) BY <2>1, <3>1 DEF NoTraces
    <3> QED BY <2>1, <2>4, <3>2 DEF Tracks, Mine, Ours
  <2> QED BY <1>9, <2>3, <2>4, HostOtherTracks
<1>10. ASSUME NEW m, DropStep(m) PROVE NoTraces'
  <2>1. Takes(m) /\ client' = client /\ host' = host /\ toMain' = toMain BY <1>10 DEF DropStep, Takes
  <2>2. \A i \in (Len(toMain) + 1)..Len(toMain') : FALSE BY <1>1, <2>1
  <2> QED BY <1>6, <2>1, <2>2 DEF Ours
<1>11. ASSUME WorkStep PROVE NoTraces'
  <2>1. /\ toWorker' = toWorker /\ client' = client /\ host # None /\ Stamped /\ host'.run = host.run
    BY <1>11 DEF WorkStep, Active, SameRun
  <2>2. PICK n, k : n = Len(toMain) /\ k = Len(toMain') OBVIOUS
  <2>3. /\ \A i \in 1..n : toMain'[i] = toMain[i]
        /\ \A i \in 1..k : i \in 1..n \/ i \in (n + 1)..k
        /\ \A i \in (n + 1)..k : toMain'[i].run = host.run
    BY <2>1, <2>2, SentFrom
  <2>4. SUFFICES ASSUME client.tracked = None PROVE NoTraces' BY <2>1 DEF NoTraces
  <2>5. Ours => /\ host'.traces = host.traces
                /\ \A i \in (n + 1)..k : toMain'[i].type # "trace"
    <3>1. SUFFICES ASSUME Ours PROVE /\ host'.traces = host.traces
                                     /\ \A i \in (n + 1)..k : toMain'[i].type # "trace"
      OBVIOUS
    <3>2. host.traces = {} BY <2>4, <3>1 DEF NoTraces
    <3>3. CASE RecordsNothing BY <2>2, <3>3 DEF RecordsNothing
    <3>4. ASSUME NEW d, NEW end, RecordsChunk(d, end)
          PROVE  /\ host'.traces = host.traces
                 /\ \A i \in (n + 1)..k : toMain'[i].type # "trace"
      BY <2>2, <3>4 DEF RecordsChunk
    <3> QED BY <1>11, <3>2, <3>3, <3>4, WorkRecords
  <2>6. \A i \in 1..k : MineBack(i)' /\ toMain'[i].type = "trace" =>
          i \in 1..n /\ MineBack(i) /\ toMain[i].type = "trace"
    BY <2>1, <2>2, <2>3, <2>5 DEF MineBack, Ours
  <2> QED BY <2>1, <2>2, <2>4, <2>5, <2>6 DEF NoTraces, Tracks, Mine, Ours
<1>12. ASSUME QuietStep \/ vars' = vars PROVE NoTraces'
  BY <1>12 DEF NoTraces, QuietStep, SameResults, SameClock, Tracks, Mine, MineBack, Ours, vars
<1>13. ASSUME NEW p, NEW m, ForkStep(p, m) PROVE NoTraces' BY <1>2, <1>13 DEF ForkStep
<1> QED BY <1>3, <1>4, <1>5, <1>7, <1>8, <1>9, <1>10, <1>11, <1>12, <1>13 DEF AStep

(* A chunk that will count is one of the stream that goes on: the stream is  *)
(* nowhere behind it.                                                        *)
ChunkOf(k, d, b) ==
  /\ MineBack(k) /\ toMain[k].type = "chunk" /\ toMain[k].day = d
  /\ b \in toMain[k].from..(toMain[k].to - 1) /\ Settled(toMain[k].rev, d, b)
NotAhead ==
  Live => \A d \in Day, b \in Bucket : \A k \in 1..Len(toMain) : ChunkOf(k, d, b) => b < host.slot[d].to

LEMMA NotAheadNext ==
  ASSUME PlaybackTyped, Ordered, RunsTracked, NotAhead, AStep
  PROVE  NotAhead'
<1>1. /\ Len(toMain) \in Nat /\ Len(toWorker) \in Nat /\ client.run \in Nat /\ Buckets \in Nat
      /\ (\A i \in 1..Len(toMain) : toMain[i].rev \in Nat)
      /\ (host # None => host.rev \in Nat /\ \A d \in Day : host.slot[d].to \in 0..Buckets)
  BY Numbers, ProtocolAssumption DEF PlaybackTyped, HostTyped, HostWell, HostRuns, Slots
<1>2. ASSUME client'.run = client.run, client.cuts \subseteq client'.cuts, toMain' = toMain, Live' => Live,
             host # None => \A d \in Day : host'.slot[d].to = host.slot[d].to
      PROVE  NotAhead'
  <2>1. ASSUME NEW d, NEW b, NEW k, ChunkOf(k, d, b)' PROVE ChunkOf(k, d, b)
    BY <1>2, <2>1 DEF ChunkOf, MineBack, Settled
  <2> QED BY <1>2, <2>1 DEF NotAhead, Live, Ours
<1>3. ASSUME NEW m, ReceiveStep(m) PROVE NotAhead'
  <2>1. PICK n : n = Len(toMain) OBVIOUS
  <2>2. /\ Len(toMain') = n - 1
        /\ \A i \in 1..(n - 1) : i + 1 \in 1..n /\ toMain'[i] = toMain[i + 1]
        /\ host' = host /\ client'.run = client.run /\ client'.cuts = client.cuts
    BY <1>3, <2>1, ReceivedFrom DEF ReceiveStep
  <2>3. \A d, b : \A i \in 1..(n - 1) : ChunkOf(i, d, b)' => i + 1 \in 1..n /\ ChunkOf(i + 1, d, b)
    BY <2>1, <2>2 DEF ChunkOf, MineBack, Settled
  <2> QED BY <2>1, <2>2, <2>3 DEF NotAhead, Live, Ours
<1>4. ASSUME NEW m, ResetStep(m) PROVE NotAhead'
  <2>1. client'.run = client.run + 1 /\ host' = host BY <1>4 DEF ResetStep, Posts, NewClient
  <2>2. ~Live' BY <1>1, <2>1 DEF Ordered, RunsInOrder, Live, Ours
  <2> QED BY <2>2 DEF NotAhead
<1>5. ASSUME Stamped, client' = client, NEW d \in Day, NEW b, NEW k \in 1..Len(toMain'),
             ChunkOf(k, d, b)'
      PROVE  \/ k \in 1..Len(toMain) /\ ChunkOf(k, d, b)
             \/ k \in (Len(toMain) + 1)..Len(toMain') /\ toMain'[k].type = "chunk"
                /\ toMain'[k].day = d /\ b \in toMain'[k].from..(toMain'[k].to - 1)
  <2>1. PICK n, l : n = Len(toMain) /\ l = Len(toMain') OBVIOUS
  <2>2. /\ \A i \in 1..n : toMain'[i] = toMain[i]
        /\ \A i \in 1..l : i \in 1..n \/ i \in (n + 1)..l
    BY <1>5, <2>1, SentFrom
  <2> QED BY <1>5, <2>1, <2>2 DEF ChunkOf, MineBack, Settled
<1>6. ASSUME NEW m, StartStep(m) PROVE NotAhead'
  <2>1. /\ Takes(m) /\ Stamped /\ client' = client /\ Starts(m) /\ host'.run = m.run
        /\ m = toWorker[1] /\ 1 \in 1..Len(toWorker)
        /\ Len(toMain') = Len(toMain) + 1 /\ toMain'[Len(toMain) + 1].type = "ready"
    BY <1>1, <1>6 DEF StartStep, Takes
  <2>2. \A i \in (Len(toMain) + 1)..Len(toMain') : i = Len(toMain) + 1 BY <1>1, <2>1
  <2>3. ~Ours BY <2>1 DEF Ordered, RunsInOrder
  <2>4. \A k \in 1..Len(toMain) : \A d, b : ~ChunkOf(k, d, b)
    BY <2>3 DEF ChunkOf, Ordered, ResultsInOrder
  <2>5. \A d \in Day, b \in Bucket : \A k \in 1..Len(toMain') : ~ChunkOf(k, d, b)'
    BY <1>5, <2>1, <2>2, <2>4
  <2> QED BY <2>5 DEF NotAhead
<1>7. ASSUME NEW m, HostForkStep(m) PROVE NotAhead'
  <2>1. /\ Stamped /\ client' = client /\ host # None /\ ~host.failed /\ host'.run = host.run
        /\ Sends({"detail"}) /\ m.patch.rev > host.rev /\ m.patch \in Patch
        /\ \A d \in Day : host'.slot[d].to = CutTo(m.patch, d)
        /\ m.type = "fork" /\ m.run = host.run /\ m = toWorker[1] /\ 1 \in 1..Len(toWorker)
    BY <1>1, <1>7 DEF HostForkStep, Takes, Active
  <2>2. SUFFICES ASSUME Live', NEW d \in Day, NEW b \in Bucket, NEW k \in 1..Len(toMain'),
                        ChunkOf(k, d, b)'
                 PROVE  b < CutTo(m.patch, d)
    BY <2>1 DEF NotAhead
  <2>3. Live BY <2>1, <2>2 DEF Live, Ours
  <2>4. k \in 1..Len(toMain) /\ ChunkOf(k, d, b) BY <1>5, <2>1, <2>2 DEF Sends
  <2>5. b < host.slot[d].to BY <2>3, <2>4 DEF NotAhead
  <2>6. m.patch \in client.cuts BY <2>1, <2>3 DEF Live, Ours, Ordered, ForksInOrder, Forked, Mine
  <2>7. toMain[k].rev <= host.rev BY <2>4 DEF ChunkOf, Ordered, ResultsInOrder
  <2>8. m.patch.rev > toMain[k].rev BY <1>1, <2>1, <2>4, <2>6, <2>7, Numbers
  <2>9. ~Affects(m.patch, d, b) BY <2>4, <2>6, <2>8 DEF ChunkOf, Settled
  <2>10. m.patch.at \in Nat /\ m.patch.day \in Nat /\ d \in Nat /\ b \in Nat
         /\ host.slot[d].to \in Nat
    <3>1. m.patch.at \in Nat /\ m.patch.day \in Nat BY <1>1, <2>1, ProtocolAssumption DEF Patch, Bucket, Day
    <3>2. d \in Nat /\ b \in Nat BY <1>1, ProtocolAssumption DEF Bucket, Day
    <3>3. host.slot[d].to \in Nat BY <1>1, <2>1
    <3> QED BY <3>1, <3>2, <3>3
  <2> QED BY <2>5, <2>9, <2>10 DEF CutTo, Affects
<1>8. ASSUME NEW m, HostOtherStep(m) PROVE NotAhead'
  BY <1>2, <1>8 DEF HostOtherStep, Takes, Active, Live, Ours
<1>9. ASSUME NEW m, DropStep(m) PROVE NotAhead'
  BY <1>2, <1>9 DEF DropStep, Takes, Live, Ours
<1>10. ASSUME QuietStep \/ vars' = vars \/ (\E m : OtherStep(m)) \/ (\E p, m : ForkStep(p, m))
       PROVE  NotAhead'
  BY <1>2, <1>10 DEF QuietStep, OtherStep, ForkStep, Posts, SameClock, SameResults, Live, Ours, vars
<1>11. ASSUME WorkStep PROVE NotAhead'
  <2>1. /\ Stamped /\ client' = client /\ host # None /\ ~host.failed /\ host'.run = host.run
    BY <1>11 DEF WorkStep, Active, SameRun
  <2>2. SUFFICES ASSUME Live', NEW d \in Day, NEW b \in Bucket, NEW k \in 1..Len(toMain'),
                        ChunkOf(k, d, b)'
                 PROVE  b < host'.slot[d].to
    BY DEF NotAhead
  <2>3. Live BY <2>1, <2>2 DEF Live, Ours
  <2>4. b \in Nat BY <1>1 DEF Bucket
  <2>5. CASE k \in 1..Len(toMain) /\ ChunkOf(k, d, b)
    <3>1. b < host.slot[d].to /\ host.slot[d].to \in Nat BY <1>1, <2>1, <2>3, <2>5 DEF NotAhead
    <3>2. ASSUME NEW e \in Day, NEW end \in (host.slot[e].to + 1)..Buckets, RecordsChunk(e, end)
          PROVE  b < host'.slot[d].to
      <4>1. host'.slot[e].to = end /\ host.slot[e].to \in Nat /\ end \in Nat /\ end > host.slot[e].to
            /\ (d # e => host'.slot[d].to = host.slot[d].to)
        BY <1>1, <2>1, <3>2 DEF RecordsChunk
      <4> QED BY <2>4, <3>1, <4>1
    <3> QED BY <1>11, <3>1, <3>2, WorkRecords DEF RecordsNothing, RecordsTrace
  <2>6. CASE k \in (Len(toMain) + 1)..Len(toMain') /\ toMain'[k].type = "chunk"
             /\ toMain'[k].day = d /\ b \in toMain'[k].from..(toMain'[k].to - 1)
    <3>1. ~RecordsNothing BY <2>6 DEF RecordsNothing
    <3>2. ASSUME NEW t \in host.traces, RecordsTrace(t) PROVE FALSE
      BY <2>6, <3>2 DEF RecordsTrace, TraceMessage
    <3>3. ASSUME NEW e \in Day, NEW end \in (host.slot[e].to + 1)..Buckets, RecordsChunk(e, end)
          PROVE  b < host'.slot[d].to
      <4>1. k = Len(toMain) + 1 BY <2>6, <3>3 DEF RecordsChunk
      <4>2. d = e /\ toMain'[k].from = host.slot[e].to /\ toMain'[k].to = end /\ host'.slot[e].to = end
        BY <2>6, <3>3, <4>1 DEF RecordsChunk
      <4>3. host.slot[e].to \in Nat BY <1>1, <2>1
      <4> QED BY <1>1, <2>6, <3>3, <4>2, <4>3
    <3> QED BY <1>11, <3>1, <3>2, <3>3, WorkRecords
  <2> QED BY <1>5, <2>1, <2>2, <2>5, <2>6
<1> QED BY <1>3, <1>4, <1>6, <1>7, <1>8, <1>9, <1>10, <1>11 DEF AStep

(* Every nonempty set of places in a sequence has a last one. *)
LEMMA LastPlace ==
  ASSUME NEW n \in Nat, NEW T \in SUBSET (1..n), T # {}
  PROVE  \E x \in T : \A y \in T : y <= x
<1> DEFINE U == {k \in Nat : \E i \in T : k = n - i}
<1>1. U # {}
  <2>1. PICK i \in T : TRUE OBVIOUS
  <2>2. n - i \in U BY <2>1
  <2> QED BY <2>2
<1>2. \E u \in U : \A v \in U : ~(<<v, u>> \in OpToRel(<, Nat))
  <2>1. U \subseteq Nat OBVIOUS
  <2> HIDE DEF U
  <2> QED BY <1>1, <2>1, NatLessThanWellFounded, WFMin, Zenon
<1>3. \A x, y \in Nat : x < y => <<x, y>> \in OpToRel(<, Nat) BY DEF OpToRel
<1>4. PICK u \in U : \A v \in U : ~(v < u) BY <1>2, <1>3
<1>5. PICK x \in T : u = n - x BY <1>4
<1>6. \A y \in T : n - y \in U OBVIOUS
<1> QED BY <1>4, <1>5, <1>6

(* No change of the tracked analyst is on its way to the worker: the main    *)
(* thread tracks the same one, or has yet to learn whom.                     *)
Steady == Live /\ \A i \in 1..Len(toWorker) : Tracks(i) => toWorker[i].analyst = host.tracked

LEMMA SteadyTracked ==
  ASSUME PlaybackTyped, TrackAgreed, Steady
  PROVE  client.tracked \in {None, host.tracked}
<1>1. PICK n : n = Len(toWorker) OBVIOUS
<1>2. n \in Nat BY <1>1, Numbers
<1>3. CASE \E i \in 1..n : Tracks(i)
  <2>1. PICK T : T = {i \in 1..n : Tracks(i)} OBVIOUS
  <2>2. PICK x \in T : \A y \in T : y <= x BY <1>2, <1>3, <2>1, LastPlace
  <2>3. x \in 1..n /\ Tracks(x) BY <2>1, <2>2
  <2>4. \A j \in (x + 1)..n : ~Tracks(j)
    <3>1. SUFFICES ASSUME NEW j \in (x + 1)..n, Tracks(j) PROVE FALSE OBVIOUS
    <3>2. j \in 1..n /\ ~(j <= x) BY <1>2, <2>3, <3>1
    <3> QED BY <2>1, <2>2, <3>1, <3>2
  <2>5. toWorker[x].analyst = client.tracked BY <1>1, <2>3, <2>4 DEF TrackAgreed
  <2> QED BY <1>1, <2>3, <2>5 DEF Steady
<1>4. CASE \A i \in 1..n : ~Tracks(i)
  <2>1. client.userTracked => host.tracked = client.tracked BY <1>1, <1>4 DEF TrackAgreed, Steady
  <2>2. ~client.userTracked => client.tracked \in {None, host.tracked}
    BY DEF TrackAgreed, Steady, Live
  <2> QED BY <2>1, <2>2
<1> QED BY <1>3, <1>4

-----------------------------------------------------------------------------
(* The records of the tracked analyst: what taking a message keeps of them.  *)

MainHas(a, d, b) == results.main[<<d, b>>] # None /\ results.main[<<d, b>>].analyst = a
TraceHas(a, d, b) ==
  /\ results.trace[d] # None /\ results.trace[d].analyst = a
  /\ b \in DOMAIN results.trace[d].results

LEMMA MainTaken ==
  ASSUME PlaybackTyped, NEW m, ReceiveStep(m), m.run = client.run, m.rev <= client.rev,
         NEW d \in Day, NEW b \in Bucket, Settled(m.rev, d, b), NEW a,
         MainHas(a, d, b) \/ (m.type = "chunk" /\ m.day = d /\ b \in m.from..(m.to - 1)),
         m.type = "chunk" /\ m.day = d /\ b \in m.from..(m.to - 1) => m.analyst = a
  PROVE  MainHas(a, d, b)'
<1>1. ResultMessage(m) /\ StoreWell(results) /\ Taking(m) BY Takings
<1>2. CASE results' = results /\ Refused(m)
  <2>1. ASSUME m.type = "chunk", m.day = d, b \in m.from..(m.to - 1) PROVE FALSE
    <3>1. m.from \in Bucket /\ m.to \in (m.from + 1)..Buckets BY <1>1, <2>1 DEF ResultMessage
    <3>2. m.from <= b BY <2>1, <3>1, ProtocolAssumption DEF Bucket
    <3>3. ~Drops(m, m.from) BY <2>1, <3>1, <3>2, NotDropped
    <3> QED BY <1>2, <2>1, <3>3 DEF Refused
  <2> QED BY <1>2, <2>1 DEF MainHas
<1>3. CASE m.type = "dayComplete" /\ results' = [results EXCEPT !.rollup[m.day] = m.results]
  <2>1. results'.main = results.main BY <1>1, <1>3 DEF StoreWell
  <2> QED BY <1>3, <2>1 DEF MainHas
<1>4. ASSUME NEW added, Adds(m, added), results' = CutResults(added, Recuts(m, m.to))
      PROVE  MainHas(a, d, b)'
  <2>1. StoreWell(added) BY <1>1, <1>4, AddedWell
  <2>2. ~Gone(Recuts(m, m.to), d, b) BY NotRecut
  <2>3. results'.main[<<d, b>>] = added.main[<<d, b>>] BY <1>4, <2>1, <2>2, CutResultsTyped
  <2>4. CASE m.type # "chunk"
    <3>1. added.main = results.main BY <1>1, <1>4, <2>4, AddedWell
    <3> QED BY <2>3, <2>4, <3>1 DEF MainHas
  <2>5. CASE m.type = "chunk"
    <3>1. added = AddChunk(results, m) BY <1>4, <2>5 DEF Adds
    <3>2. added.main[<<d, b>>] =
            IF d = m.day /\ b \in m.from..(m.to - 1)
            THEN [deps |-> m.results[b], analyst |-> m.analyst] ELSE results.main[<<d, b>>]
      BY <1>1, <2>5, <3>1, AddChunkTyped
    <3>3. CASE d = m.day /\ b \in m.from..(m.to - 1)
      <4>1. m.analyst \in Analyst /\ m.results \in [m.from..(m.to - 1) -> Revs]
        BY <1>1, <2>5 DEF ResultMessage
      <4>2. m.results[b] \in Revs BY <3>3, <4>1
      <4>3. [deps |-> m.results[b], analyst |-> m.analyst] \in Shown BY <4>1, <4>2 DEF Shown
      <4>4. [deps |-> m.results[b], analyst |-> m.analyst] # None BY <4>3, StoreAssumption
      <4>5. results'.main[<<d, b>>] = [deps |-> m.results[b], analyst |-> m.analyst]
        BY <2>3, <3>2, <3>3
      <4>6. m.analyst = a BY <2>5, <3>3
      <4> QED BY <4>4, <4>5, <4>6 DEF MainHas
    <3>4. CASE ~(d = m.day /\ b \in m.from..(m.to - 1)) BY <2>3, <3>2, <3>4 DEF MainHas
    <3> QED BY <3>3, <3>4
  <2> QED BY <2>4, <2>5
<1> QED BY <1>1, <1>2, <1>3, <1>4 DEF Taking

LEMMA TraceTaken ==
  ASSUME PlaybackTyped, SentRight, TracesShown, NEW m, ReceiveStep(m), m.run = client.run,
         m.rev <= client.rev, NEW d \in Day, NEW b \in Bucket, Settled(m.rev, d, b), NEW a,
         m.type = "trace" => client.tracked = a,
         TraceHas(a, d, b) \/ (m.type = "trace" /\ m.day = d /\ m.analyst = a /\ b < m.to),
         m.type = "trace" /\ m.day = d /\ m.analyst = a => b < m.to
  PROVE  TraceHas(a, d, b)'
<1>1. ResultMessage(m) /\ StoreWell(results) /\ Taking(m) BY Takings
<1>2. CASE results' = results /\ Refused(m)
  <2>1. ASSUME m.type = "trace", m.day = d, m.analyst = a PROVE FALSE
    <3>1. 0 \in Bucket /\ 0 <= b BY ProtocolAssumption DEF Bucket
    <3>2. ~Drops(m, 0) BY <2>1, <3>1, NotDropped
    <3> QED BY <1>2, <2>1, <3>2 DEF Refused
  <2> QED BY <1>2, <2>1 DEF TraceHas
<1>3. CASE m.type = "dayComplete" /\ results' = [results EXCEPT !.rollup[m.day] = m.results]
  <2>1. results'.trace = results.trace BY <1>1, <1>3 DEF StoreWell
  <2> QED BY <1>3, <2>1 DEF TraceHas
<1>4. ASSUME NEW added, Adds(m, added), results' = CutResults(added, Recuts(m, m.to))
      PROVE  TraceHas(a, d, b)'
  <2>1. StoreWell(added) BY <1>1, <1>4, AddedWell
  <2>2. ~Gone(Recuts(m, m.to), d, b) BY NotRecut
  <2>3. SUFFICES /\ added.trace[d] \in ShownTraces /\ added.trace[d].analyst = a
                 /\ b \in DOMAIN added.trace[d].results
    <3>1. added.trace[d] # None BY <2>3, StoreAssumption
    <3> QED BY <1>4, <2>1, <2>2, <2>3, <3>1, TraceCut DEF TraceHas
  <2>4. CASE m.type # "trace"
    <3>1. added.trace = results.trace BY <1>1, <1>4, <2>4, AddedWell
    <3> QED BY <2>4, <3>1 DEF TraceHas, TracesShown
  <2>5. CASE m.type = "trace"
    <3>1. added = AddTrace(results, m) /\ m.analyst = a BY <1>4, <2>5 DEF Adds
    <3>2. added.trace[d] = IF d = m.day THEN [analyst |-> m.analyst, results |-> m.results]
                           ELSE results.trace[d]
      BY <1>1, <2>5, <3>1, AddTraceTyped
    <3>3. /\ [analyst |-> m.analyst, results |-> m.results] \in ShownTraces
          /\ m.to \in 1..Buckets /\ DOMAIN m.results = 0..(m.to - 1)
      BY <2>5, TraceShown
    <3>4. CASE d = m.day
      <4>1. b < m.to BY <2>5, <3>1, <3>4
      <4>2. b \in DOMAIN m.results BY <3>3, <4>1, ProtocolAssumption DEF Bucket
      <4> QED BY <3>1, <3>2, <3>3, <3>4, <4>2
    <3>5. CASE d # m.day
      <4>1. TraceHas(a, d, b) BY <3>5
      <4> QED BY <3>2, <3>5, <4>1 DEF TraceHas, TracesShown
    <3> QED BY <3>4, <3>5
  <2> QED BY <2>4, <2>5
<1> QED BY <1>1, <1>2, <1>3, <1>4 DEF Taking

(* A record of the tracked analyst is the day's chunk's, unless a later      *)
(* chunk overwrites it with another's; or the day's trace's, unless a later  *)
(* and shorter trace of the same analyst does.                               *)
ByChunk(a, d, b) ==
  /\ \A k \in 1..Len(toMain) : ChunkOf(k, d, b) => toMain[k].analyst = a
  /\ \/ /\ MainHas(a, d, b)
        /\ \A k \in 1..Len(toMain) : MineBack(k) => Settled(toMain[k].rev, d, b)
     \/ \E k \in 1..Len(toMain) : ChunkOf(k, d, b)
TraceOf(k, a, d) ==
  MineBack(k) /\ toMain[k].type = "trace" /\ toMain[k].day = d /\ toMain[k].analyst = a
Spares(k, a, d, b) ==
  /\ MineBack(k) => Settled(toMain[k].rev, d, b)
  /\ TraceOf(k, a, d) => b < toMain[k].to
ByTrace(a, d, b) ==
  \/ TraceHas(a, d, b) /\ \A k \in 1..Len(toMain) : Spares(k, a, d, b)
  \/ \E j \in 1..Len(toMain) :
       /\ TraceOf(j, a, d) /\ b < toMain[j].to /\ Settled(toMain[j].rev, d, b)
       /\ \A k \in (j + 1)..Len(toMain) : Spares(k, a, d, b)

(* More messages, all sent at one revision that no later cut unsettles. *)
LEMMA ByChunkGrows ==
  ASSUME PlaybackTyped, Stamped, client' = client, results' = results, NEW a, NEW d \in Day, NEW b,
         \A k \in (Len(toMain) + 1)..Len(toMain') :
           ~(toMain'[k].type = "chunk" /\ toMain'[k].day = d /\ b \in toMain'[k].from..(toMain'[k].to - 1)),
         Settled(host'.rev, d, b), ByChunk(a, d, b)
  PROVE  ByChunk(a, d, b)'
<1>1. PICK n, l : n = Len(toMain) /\ l = Len(toMain') OBVIOUS
<1>2. /\ \A i \in 1..n : i \in 1..l /\ toMain'[i] = toMain[i]
      /\ \A i \in 1..l : i \in 1..n \/ i \in (n + 1)..l
      /\ \A i \in (n + 1)..l : toMain'[i].rev = host'.rev
  BY <1>1, SentFrom
<1>3. \A i \in 1..l : ChunkOf(i, d, b)' => i \in 1..n /\ ChunkOf(i, d, b)
  BY <1>1, <1>2 DEF ChunkOf, MineBack, Settled
<1>4. \A i \in 1..n : ChunkOf(i, d, b) => ChunkOf(i, d, b)'
  BY <1>1, <1>2 DEF ChunkOf, MineBack, Settled
<1>5. ASSUME \A i \in 1..n : MineBack(i) => Settled(toMain[i].rev, d, b), NEW i \in 1..l, MineBack(i)'
      PROVE  Settled(toMain'[i].rev, d, b)
  <2>1. CASE i \in 1..n BY <1>1, <1>2, <1>5, <2>1 DEF MineBack
  <2>2. CASE i \in (n + 1)..l BY <1>2, <2>2
  <2> QED BY <1>2, <2>1, <2>2
<1>6. MainHas(a, d, b) => MainHas(a, d, b)' BY DEF MainHas
<1>7. \A k \in 1..l : ChunkOf(k, d, b)' => toMain'[k].analyst = a
  BY <1>1, <1>2, <1>3 DEF ByChunk
<1>8. CASE \E k \in 1..n : ChunkOf(k, d, b)
  <2>1. \E k \in 1..l : ChunkOf(k, d, b)' BY <1>2, <1>4, <1>8
  <2> QED BY <1>1, <1>7, <2>1 DEF ByChunk
<1>9. CASE MainHas(a, d, b) /\ \A k \in 1..n : MineBack(k) => Settled(toMain[k].rev, d, b)
  <2>1. \A k \in 1..l : MineBack(k)' => Settled(toMain'[k].rev, d, b) BY <1>5, <1>9
  <2> QED BY <1>1, <1>6, <1>7, <1>9, <2>1 DEF ByChunk, Settled
<1> QED BY <1>1, <1>8, <1>9 DEF ByChunk

LEMMA ByTraceGrows ==
  ASSUME PlaybackTyped, Stamped, client' = client, results' = results, NEW a, NEW d \in Day, NEW b,
         \A k \in (Len(toMain) + 1)..Len(toMain') : ~(toMain'[k].type = "trace" /\ toMain'[k].day = d),
         Settled(host'.rev, d, b), ByTrace(a, d, b)
  PROVE  ByTrace(a, d, b)'
<1>1. PICK n, l : n = Len(toMain) /\ l = Len(toMain') OBVIOUS
<1>2. /\ n \in Nat /\ l \in Nat /\ n <= l
      /\ \A i \in 1..n : i \in 1..l /\ toMain'[i] = toMain[i]
      /\ \A i \in 1..l : i \in 1..n \/ i \in (n + 1)..l
      /\ \A i \in (n + 1)..l : toMain'[i].rev = host'.rev
  BY <1>1, SentFrom
<1>3. \A i \in 1..n : TraceOf(i, a, d)' <=> TraceOf(i, a, d)
  BY <1>1, <1>2 DEF TraceOf, MineBack
<1>4. \A i \in 1..n : Spares(i, a, d, b) => Spares(i, a, d, b)'
  BY <1>1, <1>2, <1>3 DEF Spares, MineBack, Settled
<1>5. \A i \in (n + 1)..l : Spares(i, a, d, b)'
  BY <1>1, <1>2 DEF Spares, TraceOf, Settled
<1>6. \A i \in 1..l : i \in 1..n \/ i \in (n + 1)..l BY <1>2
<1>7. CASE TraceHas(a, d, b) /\ \A k \in 1..n : Spares(k, a, d, b)
  <2>1. TraceHas(a, d, b)' BY <1>7 DEF TraceHas
  <2>2. \A k \in 1..l : Spares(k, a, d, b)' BY <1>4, <1>5, <1>6, <1>7
  <2> QED BY <1>1, <2>1, <2>2 DEF ByTrace
<1>8. ASSUME NEW j \in 1..n, TraceOf(j, a, d), b < toMain[j].to, Settled(toMain[j].rev, d, b),
             \A k \in (j + 1)..n : Spares(k, a, d, b)
      PROVE  ByTrace(a, d, b)'
  <2>1. /\ j \in 1..l /\ TraceOf(j, a, d)' /\ b < toMain'[j].to /\ Settled(toMain'[j].rev, d, b)
    BY <1>2, <1>3, <1>8
  <2>2. ASSUME NEW k \in (j + 1)..l PROVE Spares(k, a, d, b)'
    <3>1. (k \in (j + 1)..n /\ k \in 1..n) \/ k \in (n + 1)..l BY <1>2, <1>8, <2>2
    <3> QED BY <1>4, <1>5, <1>8, <3>1
  <2> QED BY <1>1, <2>1, <2>2 DEF ByTrace, Settled
<1> QED BY <1>1, <1>7, <1>8 DEF ByTrace

(* A fork that leaves the bucket alone. *)
LEMMA RecordsUnderFork ==
  ASSUME PlaybackTyped, TracesShown, NEW p, NEW m, ForkStep(p, m), NEW a, NEW d \in Day, NEW b \in Bucket,
         ~Affects(p, d, b)
  PROVE  (ByChunk(a, d, b) => ByChunk(a, d, b)') /\ (ByTrace(a, d, b) => ByTrace(a, d, b)')
<1>1. /\ client'.run = client.run /\ client'.cuts = client.cuts \cup {p} /\ toMain' = toMain
      /\ results' = CutResults(results, {p}) /\ StoreWell(results)
  BY DEF ForkStep, Posts, PlaybackTyped, ResultsTyped
<1>2. ~Gone({p}, d, b) BY DEF Gone
<1>3. \A rev : Settled(rev, d, b)' <=> Settled(rev, d, b) BY <1>1 DEF Settled
<1>4. \A k : ChunkOf(k, d, b)' <=> ChunkOf(k, d, b) BY <1>1, <1>3 DEF ChunkOf, MineBack
<1>5. \A k : (MineBack(k)' <=> MineBack(k)) /\ (TraceOf(k, a, d)' <=> TraceOf(k, a, d))
  BY <1>1 DEF TraceOf, MineBack
<1>6. \A k : Spares(k, a, d, b)' <=> Spares(k, a, d, b) BY <1>1, <1>3, <1>5 DEF Spares
<1>7. MainHas(a, d, b) => MainHas(a, d, b)'
  <2>1. results'.main[<<d, b>>] = results.main[<<d, b>>] BY <1>1, <1>2, CutResultsTyped
  <2> QED BY <2>1 DEF MainHas
<1>8. TraceHas(a, d, b) => TraceHas(a, d, b)'
  BY <1>1, <1>2, TraceCut DEF TraceHas, TracesShown
<1>9. ByChunk(a, d, b) => ByChunk(a, d, b)' BY <1>1, <1>3, <1>4, <1>5, <1>7 DEF ByChunk
<1>10. ByTrace(a, d, b) => ByTrace(a, d, b)' BY <1>1, <1>3, <1>5, <1>6, <1>8 DEF ByTrace
<1> QED BY <1>9, <1>10

(* Taking a message: what is taken is of the run in progress, and no cut     *)
(* that it leaves a bucket to is later than those of the messages behind it. *)
LEMMA TakenFirst ==
  ASSUME PlaybackTyped, Ordered, NEW m, ReceiveStep(m), m.run = client.run
  PROVE  /\ 1 \in 1..Len(toMain) /\ MineBack(1) /\ toMain[1] = m /\ m.rev <= client.rev
         /\ \A d, b : Settled(m.rev, d, b) =>
              \A k \in 2..Len(toMain) : MineBack(k) => Settled(toMain[k].rev, d, b)
<1>1. PICK n : n = Len(toMain) OBVIOUS
<1>2. n \in Nat /\ n >= 1 /\ m = toMain[1] BY <1>1, ReceivedFrom
<1>3. MineBack(1) /\ 1 \in 1..n BY <1>1, <1>2 DEF MineBack
<1>4. Ours /\ m.rev <= host.rev BY <1>1, <1>2, <1>3 DEF Ordered, ResultsInOrder
<1>5. host.rev <= client.rev BY <1>4 DEF Ordered, ForksInOrder
<1>6. host.rev \in Nat /\ client.rev \in Nat /\ \A i \in 1..n : toMain[i].rev \in Nat
  BY <1>1, <1>4, Numbers DEF Ours
<1>7. ASSUME NEW d, NEW b, Settled(m.rev, d, b), NEW k \in 2..n, MineBack(k)
      PROVE  Settled(toMain[k].rev, d, b)
  <2>1. k \in 1..n /\ 1 < k BY <1>2, <1>7
  <2>2. toMain[1].rev <= toMain[k].rev
    BY <1>1, <1>3, <1>7, <2>1 DEF Ordered, ResultsInOrder
  <2> QED BY <1>2, <1>3, <1>6, <1>7, <2>1, <2>2, SettledLater
<1> QED BY <1>1, <1>2, <1>3, <1>4, <1>5, <1>6, <1>7

LEMMA ByChunkShifts ==
  ASSUME PlaybackTyped, Ordered, NEW m, ReceiveStep(m), NEW a, NEW d \in Day, NEW b \in Bucket,
         ByChunk(a, d, b)
  PROVE  ByChunk(a, d, b)'
<1>1. PICK n : n = Len(toMain) OBVIOUS
<1>2. /\ n \in Nat /\ n >= 1 /\ Len(toMain') = n - 1 /\ m = toMain[1]
      /\ \A i \in 1..(n - 1) : i + 1 \in 1..n /\ toMain'[i] = toMain[i + 1]
      /\ client'.run = client.run /\ client'.cuts = client.cuts
  BY <1>1, ReceivedFrom DEF ReceiveStep
<1>3. \A i \in 1..(n - 1) : /\ ChunkOf(i, d, b)' <=> ChunkOf(i + 1, d, b)
                            /\ MineBack(i)' <=> MineBack(i + 1)
  BY <1>1, <1>2 DEF ChunkOf, MineBack, Settled
<1>4. \A j \in 2..n : j - 1 \in 1..(n - 1) /\ (j - 1) + 1 = j BY <1>2
<1>5. \A k \in 1..(n - 1) : ChunkOf(k, d, b)' => toMain'[k].analyst = a
  BY <1>1, <1>2, <1>3 DEF ByChunk
<1>6. ASSUME MainHas(a, d, b)', \A k \in 2..n : MineBack(k) => Settled(toMain[k].rev, d, b)
      PROVE  ByChunk(a, d, b)'
  <2>1. \A k \in 1..(n - 1) : k + 1 \in 2..n BY <1>2
  <2>2. \A k \in 1..(n - 1) : MineBack(k)' => Settled(toMain'[k].rev, d, b)
    BY <1>2, <1>3, <1>6, <2>1
  <2> QED BY <1>2, <1>5, <1>6, <2>2 DEF ByChunk, Settled
<1>7. ASSUME m.run = client.run, Settled(m.rev, d, b),
             MainHas(a, d, b) \/ (m.type = "chunk" /\ m.day = d /\ b \in m.from..(m.to - 1))
      PROVE  ByChunk(a, d, b)'
  <2>1. MineBack(1) /\ m.rev <= client.rev /\ 1 \in 1..n
        /\ \A k \in 2..n : MineBack(k) => Settled(toMain[k].rev, d, b)
    BY <1>1, <1>7, TakenFirst
  <2>2. m.type = "chunk" /\ m.day = d /\ b \in m.from..(m.to - 1) => m.analyst = a
    BY <1>1, <1>2, <1>7, <2>1 DEF ByChunk, ChunkOf
  <2>3. MainHas(a, d, b)' BY <1>7, <2>1, <2>2, MainTaken
  <2> QED BY <1>6, <2>1, <2>3
<1>8. CASE MainHas(a, d, b) /\ \A k \in 1..n : MineBack(k) => Settled(toMain[k].rev, d, b)
  <2>1. CASE m.run = client.run
    <3>1. MineBack(1) /\ 1 \in 1..n BY <1>1, <2>1, TakenFirst
    <3> QED BY <1>2, <1>7, <1>8, <2>1, <3>1
  <2>2. CASE m.run # client.run
    <3>1. results' = results BY <2>2 DEF ReceiveStep
    <3>2. \A k \in 2..n : k \in 1..n BY <1>2
    <3>3. MainHas(a, d, b)' BY <1>8, <3>1 DEF MainHas
    <3> QED BY <1>6, <1>8, <3>2, <3>3
  <2> QED BY <2>1, <2>2
<1>9. ASSUME NEW j \in 1..n, ChunkOf(j, d, b) PROVE ByChunk(a, d, b)'
  <2>1. CASE j = 1
    <3>1. m.run = client.run /\ Settled(m.rev, d, b) /\ m.type = "chunk" /\ m.day = d
          /\ b \in m.from..(m.to - 1)
      BY <1>2, <1>9, <2>1 DEF ChunkOf, MineBack
    <3> QED BY <1>7, <3>1
  <2>2. CASE j # 1
    <3>1. j \in 2..n BY <1>2, <2>2
    <3>2. j - 1 \in 1..(n - 1) /\ ChunkOf(j - 1, d, b)' BY <1>3, <1>4, <1>9, <3>1
    <3> QED BY <1>2, <1>5, <3>2 DEF ByChunk
  <2> QED BY <2>1, <2>2
<1> QED BY <1>1, <1>8, <1>9 DEF ByChunk

LEMMA ByTraceShifts ==
  ASSUME PlaybackTyped, Ordered, SentRight, TracesShown, NEW m, ReceiveStep(m), NEW a,
         NEW d \in Day, NEW b \in Bucket, m.run = client.run /\ m.type = "trace" => client.tracked = a,
         ByTrace(a, d, b)
  PROVE  ByTrace(a, d, b)'
<1>1. PICK n : n = Len(toMain) OBVIOUS
<1>2. /\ n \in Nat /\ n >= 1 /\ Len(toMain') = n - 1 /\ m = toMain[1]
      /\ \A i \in 1..(n - 1) : i + 1 \in 1..n /\ toMain'[i] = toMain[i + 1]
      /\ client'.run = client.run /\ client'.cuts = client.cuts
  BY <1>1, ReceivedFrom DEF ReceiveStep
<1>3. \A i \in 1..(n - 1) : /\ TraceOf(i, a, d)' <=> TraceOf(i + 1, a, d)
                            /\ MineBack(i)' <=> MineBack(i + 1)
  BY <1>1, <1>2 DEF TraceOf, MineBack
<1>4. \A i \in 1..(n - 1) : Spares(i + 1, a, d, b) => Spares(i, a, d, b)'
  BY <1>2, <1>3 DEF Spares, Settled
<1>5. ASSUME TraceHas(a, d, b)', \A k \in 2..n : Spares(k, a, d, b) PROVE ByTrace(a, d, b)'
  <2>1. \A k \in 1..(n - 1) : k + 1 \in 2..n BY <1>2
  <2>2. \A k \in 1..(n - 1) : Spares(k, a, d, b)' BY <1>4, <1>5, <2>1
  <2> QED BY <1>2, <1>5, <2>2 DEF ByTrace
<1>6. CASE TraceHas(a, d, b) /\ \A k \in 1..n : Spares(k, a, d, b)
  <2>1. TraceHas(a, d, b)'
    <3>1. CASE m.run = client.run
      <4>1. MineBack(1) /\ 1 \in 1..n /\ m.rev <= client.rev BY <1>1, <3>1, TakenFirst
      <4>2. Settled(m.rev, d, b) /\ (m.type = "trace" /\ m.day = d /\ m.analyst = a => b < m.to)
        BY <1>2, <1>6, <4>1 DEF Spares, TraceOf
      <4> QED BY <1>6, <3>1, <4>1, <4>2, TraceTaken
    <3>2. CASE m.run # client.run BY <1>6, <3>2 DEF ReceiveStep, TraceHas
    <3> QED BY <3>1, <3>2
  <2>2. \A k \in 2..n : k \in 1..n BY <1>2
  <2> QED BY <1>5, <1>6, <2>1, <2>2
<1>7. ASSUME NEW j \in 1..n, TraceOf(j, a, d), b < toMain[j].to, Settled(toMain[j].rev, d, b),
             \A k \in (j + 1)..n : Spares(k, a, d, b)
      PROVE  ByTrace(a, d, b)'
  <2>1. CASE j = 1
    <3>1. /\ m.run = client.run /\ m.type = "trace" /\ m.day = d /\ m.analyst = a /\ b < m.to
          /\ Settled(m.rev, d, b)
      BY <1>2, <1>7, <2>1 DEF TraceOf, MineBack
    <3>2. m.rev <= client.rev BY <3>1, TakenFirst
    <3>3. TraceHas(a, d, b)' BY <3>1, <3>2, TraceTaken
    <3> QED BY <1>5, <1>7, <2>1, <3>3
  <2>2. CASE j # 1
    <3>1. PICK i \in 1..(n - 1) : j = i + 1
      <4>1. j - 1 \in 1..(n - 1) /\ j = (j - 1) + 1 BY <1>2, <1>7, <2>2
      <4> QED BY <4>1
    <3>2. TraceOf(i, a, d)' /\ b < toMain'[i].to /\ Settled(toMain'[i].rev, d, b)
      BY <1>2, <1>3, <1>7, <3>1
    <3>3. ASSUME NEW k \in (i + 1)..(n - 1) PROVE Spares(k, a, d, b)'
      <4>1. k \in 1..(n - 1) /\ k + 1 \in (j + 1)..n BY <1>2, <3>1, <3>3
      <4> QED BY <1>4, <1>7, <4>1
    <3> QED BY <1>2, <3>2, <3>3 DEF ByTrace, Settled
  <2> QED BY <2>1, <2>2
<1> QED BY <1>1, <1>6, <1>7 DEF ByTrace

-----------------------------------------------------------------------------
(* Every record of the tracked analyst that was streamed is kept, or on its  *)
(* way, or owed: the trace of the day has yet to be computed.                *)
Owed(d, b) == \E t \in host.traces : t.day = d /\ b < t.to
Recorded(d, b) ==
  \/ Owed(d, b)
  \/ ByChunk(host.tracked, d, b)
  \/ ByTrace(host.tracked, d, b) /\ \A t \in host.traces : t.day # d
AnalystKept ==
  Steady => \A d \in Day : \A b \in 0..(host.slot[d].to - 1) :
    Settled(host.rev, d, b) => Recorded(d, b)

(* A step of the worker that sends results, or a chunk of other buckets.     *)
LEMMA RecordedGrows ==
  ASSUME PlaybackTyped, Stamped, client' = client, results' = results, host'.tracked = host.tracked,
         NEW d \in Day, NEW b, Settled(host'.rev, d, b), Recorded(d, b), Owed(d, b) => Owed(d, b)',
         \A t \in host'.traces : \E u \in host.traces : t.day = u.day,
         \A k \in (Len(toMain) + 1)..Len(toMain') :
           /\ ~(toMain'[k].type = "trace" /\ toMain'[k].day = d)
           /\ ~(toMain'[k].type = "chunk" /\ toMain'[k].day = d /\ b \in toMain'[k].from..(toMain'[k].to - 1))
  PROVE  Recorded(d, b)'
<1>1. PICK a : a = host.tracked OBVIOUS
<1>2. ByChunk(a, d, b) => ByChunk(a, d, b)' BY ByChunkGrows
<1>3. ByTrace(a, d, b) => ByTrace(a, d, b)' BY ByTraceGrows
<1>4. ByChunk(host.tracked, d, b)' <=> ByChunk(a, d, b)'
  BY <1>1 DEF ByChunk, MainHas
<1>5. ByTrace(host.tracked, d, b)' <=> ByTrace(a, d, b)'
  BY <1>1 DEF ByTrace, TraceHas, TraceOf, Spares
<1>6. (\A t \in host.traces : t.day # d) => \A t \in host'.traces : t.day # d OBVIOUS
<1> QED BY <1>1, <1>2, <1>3, <1>4, <1>5, <1>6 DEF Recorded

LEMMA AnalystNext ==
  ASSUME PlaybackTyped, Ordered, SentRight, TracesShown, NoTraces, TrackAgreed, RunsTracked,
         TracesTracked, NotAhead, AnalystKept, AStep
  PROVE  AnalystKept'
<1>1. /\ Len(toMain) \in Nat /\ Len(toWorker) \in Nat /\ client.run \in Nat /\ client.rev \in Nat
      /\ Buckets \in Nat \ {0}
      /\ (host # None => host.rev \in Nat /\ host.traces \in SUBSET TraceJobs
                         /\ \A d \in Day : host.slot[d].to \in 0..Buckets)
  BY Numbers, ProtocolAssumption DEF PlaybackTyped, HostTyped, HostWell, HostRuns, Slots
<1>2. ASSUME NEW d \in Day, host # None, NEW b \in 0..(host.slot[d].to - 1) PROVE b \in Bucket
  BY <1>1, <1>2 DEF Bucket
<1>3. ASSUME client'.run = client.run, client'.cuts = client.cuts, results' = results, toMain' = toMain,
             Steady' => Steady, host # None, host'.traces = host.traces, host'.tracked = host.tracked,
             host'.rev = host.rev, \A d \in Day : host'.slot[d].to = host.slot[d].to
      PROVE  AnalystKept'
  <2>1. PICK a : a = host.tracked OBVIOUS
  <2>2. \A d, b : ByChunk(a, d, b) => ByChunk(a, d, b)'
    BY <1>3 DEF ByChunk, MainHas, ChunkOf, MineBack, Settled
  <2>3. \A d, b : ByTrace(a, d, b) => ByTrace(a, d, b)'
    BY <1>3 DEF ByTrace, TraceHas, TraceOf, Spares, MineBack, Settled
  <2>4. \A d, b : Recorded(d, b) => Recorded(d, b)'
    BY <1>3, <2>1, <2>2, <2>3 DEF Recorded, Owed
  <2>5. \A d, b : Settled(host.rev, d, b)' => Settled(host.rev, d, b) BY <1>3 DEF Settled
  <2> QED BY <1>3, <2>4, <2>5 DEF AnalystKept
<1>4. ASSUME NEW p, NEW m, ForkStep(p, m) PROVE AnalystKept'
  <2>1. /\ client'.run = client.run /\ client'.cuts = client.cuts \cup {p} /\ p \in Patch
        /\ p.rev = client.rev + 1 /\ toMain' = toMain /\ host' = host /\ Posts(m) /\ m.type = "fork"
    BY <1>4 DEF ForkStep, Posts
  <2>2. Steady' => Steady
    <3>1. \A i \in 1..Len(toWorker) : Tracks(i) => Tracks(i)' /\ i \in 1..Len(toWorker')
                                                    /\ toWorker'[i] = toWorker[i]
      BY <2>1, PostedFrom DEF Tracks, Mine, Posts
    <3> QED BY <2>1, <3>1 DEF Steady, Live, Ours
  <2>3. SUFFICES ASSUME Steady', NEW d \in Day, NEW b \in 0..(host.slot[d].to - 1),
                        Settled(host.rev, d, b)'
                 PROVE  Recorded(d, b)'
    BY <2>1 DEF AnalystKept
  <2>4. Steady /\ Live /\ host # None BY <2>2, <2>3 DEF Steady, Live, Ours
  <2>5. host.rev <= client.rev BY <2>4 DEF Live, Ordered, ForksInOrder
  <2>6. p.rev > host.rev BY <1>1, <2>1, <2>4, <2>5
  <2>7. ~Affects(p, d, b) BY <2>1, <2>3, <2>6 DEF Settled
  <2>8. Settled(host.rev, d, b) BY <2>1, <2>3 DEF Settled
  <2>9. Recorded(d, b) BY <2>3, <2>4, <2>8 DEF AnalystKept
  <2>10. b \in Bucket BY <1>2, <2>3, <2>4
  <2>11. PICK a : a = host.tracked OBVIOUS
  <2>12. (ByChunk(a, d, b) => ByChunk(a, d, b)') /\ (ByTrace(a, d, b) => ByTrace(a, d, b)')
    BY <1>4, <2>7, <2>10, RecordsUnderFork
  <2> QED BY <2>1, <2>9, <2>11, <2>12 DEF Recorded, Owed
<1>5. ASSUME NEW m, ResetStep(m) PROVE AnalystKept'
  <2>1. client'.run = client.run + 1 /\ host' = host BY <1>5 DEF ResetStep, Posts, NewClient
  <2>2. ~Live' BY <1>1, <2>1 DEF Ordered, RunsInOrder, Live, Ours
  <2> QED BY <2>2 DEF AnalystKept, Steady
<1>6. ASSUME NEW m, OtherStep(m) PROVE AnalystKept'
  <2>1. /\ client'.run = client.run /\ client'.cuts = client.cuts /\ results' = results
        /\ toMain' = toMain /\ host' = host /\ Posts(m)
    BY <1>6 DEF OtherStep, Posts, SameClock, SameResults
  <2>2. Steady' => Steady
    <3>1. \A i \in 1..Len(toWorker) : Tracks(i) => Tracks(i)' /\ i \in 1..Len(toWorker')
                                                    /\ toWorker'[i] = toWorker[i]
      BY <2>1, PostedFrom DEF Tracks, Mine, Posts
    <3> QED BY <2>1, <3>1 DEF Steady, Live, Ours
  <2>3. ~Steady => AnalystKept' BY <2>2 DEF AnalystKept
  <2>4. Steady => host # None BY DEF Steady, Live, Ours
  <2> QED BY <1>3, <2>1, <2>2, <2>3, <2>4
<1>7. ASSUME QuietStep \/ vars' = vars PROVE AnalystKept'
  <2>1. /\ client'.run = client.run /\ client'.cuts = client.cuts /\ results' = results
        /\ toMain' = toMain /\ host' = host /\ toWorker' = toWorker
    BY <1>7 DEF QuietStep, SameClock, SameResults, vars
  <2>2. Steady' => Steady BY <2>1 DEF Steady, Live, Ours, Tracks, Mine
  <2>3. ~Steady => AnalystKept' BY <2>2 DEF AnalystKept
  <2>4. Steady => host # None BY DEF Steady, Live, Ours
  <2> QED BY <1>3, <2>1, <2>2, <2>3, <2>4
<1>8. ASSUME NEW m, ReceiveStep(m) PROVE AnalystKept'
  <2>1. client'.run = client.run /\ client'.cuts = client.cuts /\ host' = host /\ toWorker' = toWorker
        /\ m = toMain[1] /\ 1 \in 1..Len(toMain)
    BY <1>8 DEF ReceiveStep
  <2>2. SUFFICES ASSUME Steady', NEW d \in Day, NEW b \in 0..(host.slot[d].to - 1),
                        Settled(host.rev, d, b)'
                 PROVE  Recorded(d, b)'
    BY <2>1 DEF AnalystKept
  <2>3. Steady /\ host # None BY <2>1, <2>2 DEF Steady, Live, Ours, Tracks, Mine
  <2>4. Settled(host.rev, d, b) BY <2>1, <2>2 DEF Settled
  <2>5. Recorded(d, b) BY <2>2, <2>3, <2>4 DEF AnalystKept
  <2>6. b \in Bucket BY <1>2, <2>2, <2>3
  <2>7. PICK a : a = host.tracked OBVIOUS
  <2>8. m.run = client.run /\ m.type = "trace" => client.tracked = a
    <3>1. m.run = client.run /\ m.type = "trace" => client.tracked # None
      BY <2>1 DEF NoTraces, MineBack
    <3> QED BY <2>3, <2>7, <3>1, SteadyTracked
  <2>9. ByChunk(a, d, b) => ByChunk(a, d, b)' BY <1>8, <2>6, ByChunkShifts
  <2>10. ByTrace(a, d, b) => ByTrace(a, d, b)' BY <1>8, <2>6, <2>8, ByTraceShifts
  <2> QED BY <2>1, <2>5, <2>7, <2>9, <2>10 DEF Recorded, Owed
<1>9. ASSUME NEW m, StartStep(m) PROVE AnalystKept'
  <2>1. \A d \in Day : \A b \in 0..(host'.slot[d].to - 1) : FALSE BY <1>9 DEF StartStep
  <2> QED BY <2>1 DEF AnalystKept
<1>10. ASSUME NEW m, HostForkStep(m) PROVE AnalystKept'
  <2>1. /\ Stamped /\ client' = client /\ results' = results /\ host # None /\ ~host.failed
        /\ host'.run = host.run /\ host'.rev = m.patch.rev /\ host'.tracked = host.tracked
        /\ host'.traces = CutTraces(host.traces, m.patch) /\ m.patch \in Patch
        /\ \A d \in Day : host'.slot[d].to = CutTo(m.patch, d)
        /\ Sends({"detail"}) /\ Takes(m) /\ m.type = "fork"
    BY <1>10 DEF HostForkStep, Takes, Active
  <2>2. SUFFICES ASSUME Steady', NEW d \in Day, NEW b \in 0..(CutTo(m.patch, d) - 1),
                        Settled(host'.rev, d, b)
                 PROVE  Recorded(d, b)'
    BY <2>1 DEF AnalystKept, Settled
  <2>3. Live BY <2>1, <2>2 DEF Steady, Live, Ours
  <2>4. Steady
    <3>1. ASSUME NEW i \in 1..Len(toWorker), Tracks(i) PROVE toWorker[i].analyst = host.tracked
      <4>1. i # 1 BY <2>1, <3>1 DEF Tracks, Takes
      <4>2. i \in 2..Len(toWorker) BY <1>1, <4>1
      <4>3. i - 1 \in 1..Len(toWorker') /\ toWorker'[i - 1] = toWorker[i] BY <2>1, <4>2, TakenFrom
      <4>4. Tracks(i - 1)' BY <2>1, <3>1, <4>3 DEF Tracks, Mine
      <4> QED BY <2>1, <2>2, <4>3, <4>4 DEF Steady
    <3> QED BY <2>3, <3>1 DEF Steady
  <2>5. b \in 0..(host.slot[d].to - 1) /\ Settled(host.rev, d, b)
    BY <1>10, <2>1, <2>2, <2>3, CutSettled DEF Live
  <2>6. Recorded(d, b) BY <2>4, <2>5 DEF AnalystKept
  <2>7. host.traces \in SUBSET TraceJobs BY <1>1, <2>1
  <2>8. \A u \in host.traces : /\ Shortened(u, m.patch).day = u.day
                               /\ Shortened(u, m.patch).to =
                                    IF u.day = m.patch.day /\ m.patch.at < u.to THEN m.patch.at ELSE u.to
    BY <2>1, <2>7, CutTracesAre
  <2>9. \A t \in host'.traces : \E u \in host.traces : t.day = u.day
    <3>1. m.patch \in Patch BY <2>1
    <3>2. \A t \in CutTraces(host.traces, m.patch) : \E u \in host.traces : t = Shortened(u, m.patch)
      BY <2>7, <3>1, CutTracesAre
    <3> QED BY <2>1, <2>8, <3>2
  <2>10. ASSUME Owed(d, b) PROVE Owed(d, b)'
    <3>1. PICK u \in host.traces : u.day = d /\ b < u.to BY <2>10 DEF Owed
    <3>2. /\ m.patch.at \in Nat /\ host.slot[d].to \in Nat /\ b \in Nat
          /\ CutTo(m.patch, d) \in Int
      BY <1>1, <2>1, <2>2, ProtocolAssumption DEF Patch, Bucket, CutTo
    <3>3. b < CutTo(m.patch, d) BY <2>2, <3>2
    <3>4. (d = m.patch.day => b < m.patch.at) /\ ~(m.patch.lasting /\ d > m.patch.day)
      <4>1. m.patch.day \in Nat /\ d \in Nat BY <2>1, ProtocolAssumption DEF Patch, Day
      <4> QED BY <3>2, <3>3, <4>1 DEF CutTo
    <3>5. Shortened(u, m.patch).to > b /\ Shortened(u, m.patch).day = d
      BY <2>8, <3>1, <3>4
    <3>6. Shortened(u, m.patch).to \in Int
      <4>1. u.to \in Int BY <2>7, <3>1 DEF TraceJobs
      <4> QED BY <2>8, <3>2, <4>1
    <3>7. Shortened(u, m.patch).to > 0 /\ ~(m.patch.lasting /\ u.day > m.patch.day)
      BY <3>1, <3>2, <3>4, <3>5, <3>6
    <3>8. Shortened(u, m.patch) \in host'.traces BY <2>1, <2>7, <3>7, CutTracesAre
    <3> QED BY <3>2, <3>5, <3>6, <3>8 DEF Owed
  <2>11. \A k \in (Len(toMain) + 1)..Len(toMain') :
           toMain'[k].type # "trace" /\ toMain'[k].type # "chunk"
    BY <2>1 DEF Sends
  <2> QED BY <2>1, <2>2, <2>6, <2>9, <2>10, <2>11, RecordedGrows
<1>11. ASSUME NEW m, HostOtherStep(m) PROVE AnalystKept'
  <2>1. /\ Takes(m) /\ client' = client /\ results' = results /\ toMain' = toMain /\ host # None
        /\ ~host.failed /\ host'.run = host.run /\ host'.rev = host.rev
        /\ \A d \in Day : host'.slot[d].to = host.slot[d].to
    BY <1>11 DEF HostOtherStep, Takes, Active
  <2>2. CASE /\ host'.traces = host.traces /\ host'.tracked = host.tracked
             /\ m.type = "track" => m.analyst = host.tracked
    <3>1. Steady' => Steady
      <4>1. SUFFICES ASSUME Steady' PROVE Steady OBVIOUS
      <4>2. ASSUME NEW i \in 1..Len(toWorker), Tracks(i) PROVE toWorker[i].analyst = host.tracked
        <5>1. CASE i = 1 BY <2>1, <2>2, <4>2, <5>1 DEF Tracks, Takes
        <5>2. CASE i # 1
          <6>1. i \in 2..Len(toWorker) BY <1>1, <5>2
          <6>2. i - 1 \in 1..Len(toWorker') /\ toWorker'[i - 1] = toWorker[i] BY <2>1, <6>1, TakenFrom
          <6>3. Tracks(i - 1)' BY <2>1, <4>2, <6>2 DEF Tracks, Mine
          <6> QED BY <2>2, <4>1, <6>2, <6>3 DEF Steady
        <5> QED BY <5>1, <5>2
      <4> QED BY <2>1, <4>1, <4>2 DEF Steady, Live, Ours
    <3> QED BY <1>3, <2>1, <2>2, <3>1
  <2>3. CASE host'.traces = {TraceOwed(d, m.analyst) : d \in {e \in Day : host.slot[e].to > 0}}
    <3>1. ASSUME NEW d \in Day, NEW b \in 0..(host.slot[d].to - 1) PROVE Owed(d, b)'
      <4>1. host.slot[d].to \in Nat BY <1>1, <2>1
      <4>2. host.slot[d].to > 0 /\ b < host.slot[d].to BY <3>1, <4>1
      <4>3. TraceOwed(d, m.analyst) \in host'.traces BY <2>3, <4>2
      <4>4. TraceOwed(d, m.analyst).day = d /\ TraceOwed(d, m.analyst).to = host.slot[d].to
        BY DEF TraceOwed
      <4> QED BY <4>2, <4>3, <4>4 DEF Owed
    <3> QED BY <2>1, <3>1 DEF AnalystKept, Recorded
  <2> QED BY <1>11, <2>2, <2>3, HostOtherTracks
<1>12. ASSUME NEW m, DropStep(m) PROVE AnalystKept'
  <2>1. host' = host /\ client' = client BY <1>12 DEF DropStep, Takes
  <2>2. Live' => Live BY <2>1 DEF Live, Ours
  <2>3. ~Live' BY <1>12, <2>2, NoDrop
  <2> QED BY <2>3 DEF AnalystKept, Steady
<1>13. ASSUME WorkStep PROVE AnalystKept'
  <2>1. /\ Stamped /\ client' = client /\ results' = results /\ toWorker' = toWorker
        /\ host # None /\ ~host.failed /\ host'.run = host.run /\ host'.rev = host.rev
        /\ host'.tracked = host.tracked
    BY <1>13 DEF WorkStep, Active, SameRun
  <2>2. SUFFICES ASSUME Steady', NEW d \in Day, NEW b \in 0..(host'.slot[d].to - 1),
                        Settled(host'.rev, d, b)
                 PROVE  Recorded(d, b)'
    BY <2>1 DEF AnalystKept, Settled
  <2>3. Steady /\ Live /\ Ours BY <2>1, <2>2 DEF Steady, Live, Ours, Tracks, Mine
  <2>4. b \in 0..(host.slot[d].to - 1) => Recorded(d, b) BY <2>1, <2>2, <2>3 DEF AnalystKept
  <2>5. host.slot[d].to \in Nat BY <1>1, <2>1
  <2>6. PICK n, l : n = Len(toMain) /\ l = Len(toMain') OBVIOUS
  <2>7. /\ n \in Nat /\ l \in Nat /\ n <= l
        /\ \A i \in 1..n : i \in 1..l /\ toMain'[i] = toMain[i]
        /\ \A i \in 1..l : i \in 1..n \/ i \in (n + 1)..l
        /\ \A i \in (n + 1)..l : i \in 1..l /\ toMain'[i].run = host.run /\ toMain'[i].rev = host.rev
    BY <2>1, <2>6, SentFrom
  <2>8. CASE RecordsNothing
    <3>1. Recorded(d, b) /\ (Owed(d, b) => Owed(d, b)') BY <2>2, <2>4, <2>8 DEF RecordsNothing, Owed
    <3> QED BY <2>1, <2>2, <2>8, <3>1, RecordedGrows DEF RecordsNothing
  <2>9. ASSUME NEW e \in Day, NEW end \in (host.slot[e].to + 1)..Buckets, RecordsChunk(e, end)
        PROVE  Recorded(d, b)'
    <3>1. /\ host'.traces = host.traces /\ host'.slot[e].to = end
          /\ \A f \in Day \ {e} : host'.slot[f].to = host.slot[f].to
          /\ n + 1 \in (n + 1)..l
          /\ toMain'[n + 1].type = "chunk" /\ toMain'[n + 1].day = e
          /\ toMain'[n + 1].from = host.slot[e].to /\ toMain'[n + 1].to = end
          /\ toMain'[n + 1].analyst = host.tracked
          /\ \A i \in (n + 1)..l : i # n + 1 => toMain'[i].type \notin {"chunk", "trace"}
      BY <2>6, <2>9 DEF RecordsChunk
    <3>2. CASE b \in 0..(host.slot[d].to - 1)
      <4>1. Recorded(d, b) /\ (Owed(d, b) => Owed(d, b)') BY <2>4, <3>1, <3>2 DEF Owed
      <4>2. \A k \in (n + 1)..l : /\ ~(toMain'[k].type = "trace" /\ toMain'[k].day = d)
                                  /\ ~(toMain'[k].type = "chunk" /\ toMain'[k].day = d
                                       /\ b \in toMain'[k].from..(toMain'[k].to - 1))
        <5>1. ~(e = d /\ b \in host.slot[e].to..(end - 1)) BY <2>5, <2>9, <3>2
        <5> QED BY <3>1, <5>1
      <4> QED BY <2>1, <2>2, <2>6, <3>1, <4>1, <4>2, RecordedGrows
    <3>3. CASE b \notin 0..(host.slot[d].to - 1)
      <4>1. d = e /\ b \in host.slot[d].to..(end - 1) BY <2>2, <2>5, <2>9, <3>1, <3>3
      <4>2. b \in Bucket BY <1>1, <2>5, <2>9, <4>1 DEF Bucket
      <4>3. \A k \in 1..n : ~ChunkOf(k, d, b)
        <5>1. ASSUME NEW k \in 1..n, ChunkOf(k, d, b) PROVE FALSE
          <6>1. b < host.slot[d].to BY <2>3, <2>6, <4>2, <5>1 DEF NotAhead
          <6> QED BY <2>5, <2>9, <4>1, <6>1
        <5> QED BY <5>1
      <4>4. \A k \in 1..l : ChunkOf(k, d, b)' => k = n + 1
        <5>1. ASSUME NEW k \in 1..l, ChunkOf(k, d, b)' PROVE k = n + 1
          <6>1. CASE k \in 1..n
            <7>1. ChunkOf(k, d, b)
              BY <2>1, <2>6, <2>7, <5>1, <6>1 DEF ChunkOf, MineBack, Settled
            <7> QED BY <4>3, <6>1, <7>1
          <6>2. CASE k \in (n + 1)..l BY <3>1, <5>1, <6>2 DEF ChunkOf
          <6> QED BY <2>7, <6>1, <6>2
        <5> QED BY <5>1
      <4>5. n + 1 \in 1..l /\ toMain'[n + 1].run = client.run /\ toMain'[n + 1].rev = host'.rev
        BY <2>1, <2>3, <2>7, <3>1 DEF Ours
      <4>6. ChunkOf(n + 1, d, b)'
        BY <2>1, <2>2, <2>6, <3>1, <4>1, <4>5 DEF ChunkOf, MineBack, Settled
      <4>7. \A k \in 1..l : ChunkOf(k, d, b)' => toMain'[k].analyst = host'.tracked
        BY <2>1, <3>1, <4>4
      <4>8. ByChunk(host.tracked, d, b)' BY <2>6, <4>5, <4>6, <4>7 DEF ByChunk
      <4> QED BY <4>8 DEF Recorded
    <3> QED BY <3>2, <3>3
  <2>10. ASSUME NEW t \in host.traces, RecordsTrace(t) PROVE Recorded(d, b)'
    <3>1. b \in 0..(host.slot[d].to - 1) BY <2>2, <2>10 DEF RecordsTrace
    <3>2. Recorded(d, b) BY <2>4, <3>1
    <3>3. PICK on : on = [t EXCEPT !.run = TraceNext(t), !.results = TraceGot(t)] OBVIOUS
    <3>4. CASE /\ host'.traces = (host.traces \ {t}) \cup {on}
               /\ on.day = t.day /\ on.to = t.to
               /\ \A i \in (n + 1)..l : FALSE
      <4>1. Owed(d, b) => Owed(d, b)' BY <3>4 DEF Owed
      <4>2. \A v \in host'.traces : \E u \in host.traces : v.day = u.day BY <3>4
      <4> QED BY <2>1, <2>2, <2>6, <3>2, <3>4, <4>1, <4>2, RecordedGrows
    <3>5. CASE /\ host'.traces = host.traces \ {t}
               /\ n + 1 \in (n + 1)..l
               /\ \A i \in (n + 1)..l : i = n + 1
               /\ toMain'[n + 1] = TraceMessage(t)
      <4>1. PICK a : a = host.tracked OBVIOUS
      <4>2. /\ toMain'[n + 1].type = "trace" /\ toMain'[n + 1].day = t.day
            /\ toMain'[n + 1].analyst = t.analyst /\ toMain'[n + 1].to = t.to
        BY <3>5 DEF TraceMessage
      <4>3. t.analyst = a /\ \A u \in host.traces : u.day = t.day => u = t
        BY <2>1, <4>1 DEF TracesTracked
      <4>4. n + 1 \in 1..l /\ toMain'[n + 1].run = client.run /\ toMain'[n + 1].rev = host'.rev
        BY <2>1, <2>3, <2>7, <3>5 DEF Ours
      <4>5. CASE t.day = d /\ b < t.to
        <5>1. TraceOf(n + 1, a, d)'
          BY <2>1, <2>6, <4>2, <4>3, <4>4, <4>5 DEF TraceOf, MineBack
        <5>2. \A k \in (n + 2)..l : FALSE
          <6>1. \A k \in (n + 2)..l : k \in (n + 1)..l /\ k # n + 1 BY <2>7
          <6> QED BY <3>5, <6>1
        <5>3. Settled(toMain'[n + 1].rev, d, b) /\ b < toMain'[n + 1].to BY <2>2, <4>2, <4>4, <4>5
        <5>4. (n + 1) + 1 = n + 2 BY <2>7
        <5>5. ByTrace(a, d, b)'
          BY <2>1, <2>6, <4>4, <5>1, <5>2, <5>3, <5>4 DEF ByTrace, Settled
        <5>6. \A u \in host'.traces : u.day # d BY <3>5, <4>3, <4>5
        <5>7. ByTrace(host.tracked, d, b)' <=> ByTrace(a, d, b)'
          BY <2>1, <4>1 DEF ByTrace, TraceHas, TraceOf, Spares
        <5> QED BY <5>5, <5>6, <5>7 DEF Recorded
      <4>6. CASE ~(t.day = d /\ b < t.to)
        <5>1. Owed(d, b) => Owed(d, b)' BY <3>5, <4>6 DEF Owed
        <5>2. CASE t.day # d
          BY <2>1, <2>2, <2>6, <3>2, <3>5, <4>2, <5>1, <5>2, RecordedGrows
        <5>3. CASE t.day = d
          <6>1. Owed(d, b) \/ ByChunk(a, d, b) BY <3>2, <4>1, <5>3 DEF Recorded
          <6>2. ByChunk(a, d, b) => ByChunk(a, d, b)'
            BY <2>1, <2>2, <2>6, <3>5, <4>2, ByChunkGrows
          <6>3. ByChunk(host.tracked, d, b)' <=> ByChunk(a, d, b)'
            BY <2>1, <4>1 DEF ByChunk, MainHas
          <6> QED BY <5>1, <6>1, <6>2, <6>3 DEF Recorded
        <5> QED BY <5>2, <5>3
      <4> QED BY <4>5, <4>6
    <3> QED BY <2>6, <2>10, <3>3, <3>4, <3>5 DEF RecordsTrace
  <2> QED BY <1>13, <2>8, <2>9, <2>10, WorkRecords
<1> QED BY <1>4, <1>5, <1>6, <1>7, <1>8, <1>9, <1>10, <1>11, <1>12, <1>13 DEF AStep

-----------------------------------------------------------------------------
(* Nothing is lost.                                                          *)

(* What has been streamed and answered is in the store or on its way. *)
NothingDropped ==
  /\ StreamedCovered /\ ProgressCovered /\ ProgressTold /\ RollupDue
  /\ JobsRight /\ TagsBounded /\ TagsRight /\ PendingDue /\ WindowsHeld
  /\ StreamsRight /\ SentRight /\ TracesShown /\ TrackAgreed
  /\ RunsTracked /\ TracesTracked /\ NoTraces /\ NotAhead /\ AnalystKept

LEMMA NothingDroppedAtFirst ==
  ASSUME Init
  PROVE  NothingDropped
<1> DEFINE m == [type |-> "init", run |-> 1, at |-> Entry]
<1>1. /\ toWorker = <<m>> /\ toMain = <<>> /\ host = None /\ client = NewClient(1, Entry)
      /\ results = NoData
  BY DEF Init
<1>2. /\ client.userTracked = FALSE /\ client.tracked = None /\ client.pending = {}
      /\ client.received = {}
  BY <1>1 DEF NewClient
<1>3. m.type = "init" OBVIOUS
<1> HIDE DEF m
<1>4. Len(toWorker) = 1 /\ toWorker[1] = m /\ Len(toMain) = 0 BY <1>1, ShortSeqs
<1>5. ~Ours /\ ~Live /\ (\A i \in 1..1 : i = 1) /\ 1..0 = {} BY <1>1 DEF Ours, Live
<1>6. StreamedCovered /\ ProgressCovered /\ ProgressTold /\ RollupDue
  BY <1>4, <1>5 DEF StreamedCovered, ProgressCovered, ProgressTold, RollupDue
<1>7. JobsRight /\ TagsBounded /\ TagsRight /\ PendingDue /\ WindowsHeld
  BY <1>1, <1>2, <1>3, <1>4, <1>5 DEF JobsRight, TagsBounded, TagsRight, PendingDue, WindowsHeld
<1>8. StreamsRight /\ SentRight /\ RunsTracked /\ TracesTracked /\ NotAhead /\ AnalystKept
  BY <1>1, <1>4, <1>5
     DEF StreamsRight, SentRight, RunsTracked, TracesTracked, NotAhead, AnalystKept, Steady
<1>9. \A i \in 1..Len(toWorker) : ~Tracks(i) BY <1>3, <1>4, <1>5 DEF Tracks
<1>10. TrackAgreed BY <1>2, <1>5, <1>9 DEF TrackAgreed
<1>11. NoTraces BY <1>4, <1>5, <1>9 DEF NoTraces
<1>12. TracesShown
  <2>1. \A d \in Day : NoData.trace[d] = None BY DEF NoData
  <2> QED BY <1>1, <2>1 DEF TracesShown
<1> QED BY <1>6, <1>7, <1>8, <1>10, <1>11, <1>12 DEF NothingDropped

LEMMA NothingDroppedNext ==
  ASSUME PlaybackTyped, PlaybackTyped', Ordered, NothingDropped, AStep
  PROVE  NothingDropped'
<1>1. StreamedCovered' /\ ProgressCovered' BY CoverNext DEF NothingDropped
<1>2. ProgressTold' /\ RollupDue' BY ToldNext, RollupNext DEF NothingDropped
<1>3. JobsRight' /\ TagsBounded' BY JobsNext, TagsNext DEF NothingDropped
<1>4. TagsRight' /\ PendingDue' BY TagsRightNext, PendingNext DEF NothingDropped
<1>5. WindowsHeld' BY WindowsNext DEF NothingDropped
<1>6. StreamsRight' /\ SentRight' BY StreamsNext, SentNext DEF NothingDropped
<1>7. TracesShown' /\ TrackAgreed' BY TracesShownNext, TrackNext DEF NothingDropped
<1>8. RunsTracked' /\ TracesTracked' BY RunsTrackedNext, TracesTrackedNext DEF NothingDropped
<1>9. NoTraces' /\ NotAhead' BY NoTracesNext, NotAheadNext DEF NothingDropped
<1>10. AnalystKept' BY AnalystNext DEF NothingDropped
<1> QED BY <1>1, <1>2, <1>3, <1>4, <1>5, <1>6, <1>7, <1>8, <1>9, <1>10 DEF NothingDropped

(* With nothing left to do and nothing on its way, what is in the store or   *)
(* on its way to it is in the store.                                         *)
LEMMA IdleIsComplete ==
  ASSUME PlaybackTyped, Ordered, NothingDropped, Idle
  PROVE  StoreComplete
<1>1. /\ host # None /\ ~host.failed /\ host.run = client.run /\ toWorker = <<>> /\ toMain = <<>>
      /\ host.details = {} /\ host.traces = {} /\ \A d \in Day : host.slot[d].complete
  BY DEF Idle, Active
<1>2. Len(toWorker) = 0 /\ Len(toMain) = 0 /\ 1..0 = {} BY <1>1, ShortSeqs
<1>3. Ours /\ Live BY <1>1 DEF Ours, Live
<1>4. host.rev = client.rev
  <2>1. \A k \in 1..Len(toWorker) : ~Forked(k) BY <1>2
  <2> QED BY <1>3, <2>1, CaughtUp
<1>5. \A d \in Day : host.slot[d].to = Buckets
  <2>1. HostWell(host) BY <1>1 DEF PlaybackTyped, HostTyped
  <2> QED BY <1>1, <2>1 DEF HostWell, SlotBounded
<1>6. \A d, b : Settled(host.rev, d, b) BY <1>4, AllSettled
<1>7. host.tracked = client.tracked
  <2>1. ~ReadyComes BY <1>2 DEF ReadyComes
  <2> QED BY <1>2, <1>3, <2>1 DEF NothingDropped, TrackAgreed
<1>8. client.computed = [d \in Day |-> Buckets]
  <2>1. Full(client.computed) BY <1>2, <1>3, <1>4, <1>5 DEF NothingDropped, ProgressTold, WeekStreamed
  <2>2. client.computed \in [Day -> 0..Buckets] BY DEF PlaybackTyped, ClientTyped
  <2> QED BY <2>1, <2>2 DEF Full
<1>9. \A d \in Day : results.rollup[d] # None
  <2>1. \A d \in Day : RollupComes(d) BY <1>3, <1>5, <1>6 DEF NothingDropped, RollupDue
  <2> QED BY <1>2, <2>1 DEF RollupComes
<1>10. ASSUME NEW d \in Day, NEW b \in Bucket
       PROVE  /\ results.main[<<d, b>>] # None
              /\ \/ results.main[<<d, b>>].analyst = client.tracked
                 \/ /\ results.trace[d] # None /\ results.trace[d].analyst = client.tracked
                    /\ b \in DOMAIN results.trace[d].results
  <2>1. b \in 0..(host.slot[d].to - 1) BY <1>5 DEF Bucket
  <2>2. Covered(d, b, Len(toMain)) BY <1>3, <1>6, <2>1 DEF NothingDropped, StreamedCovered
  <2>3. results.main[<<d, b>>] # None BY <1>2, <2>2 DEF Covered
  <2>4. Steady BY <1>2, <1>3 DEF Steady
  <2>5. Recorded(d, b) BY <1>6, <2>1, <2>4 DEF NothingDropped, AnalystKept
  <2>6. ~Owed(d, b) BY <1>1 DEF Owed
  <2>7. CASE ByChunk(host.tracked, d, b)
    <3>1. \A k \in 1..Len(toMain) : FALSE BY <1>2
    <3> QED BY <1>7, <2>3, <2>7, <3>1 DEF ByChunk, MainHas
  <2>8. CASE ByTrace(host.tracked, d, b)
    <3>1. \A k \in 1..Len(toMain) : FALSE BY <1>2
    <3> QED BY <1>7, <2>3, <2>8, <3>1 DEF ByTrace, TraceHas
  <2> QED BY <2>5, <2>6, <2>7, <2>8 DEF Recorded
<1>11. client.pending = {}
  <2>1. SUFFICES ASSUME NEW q \in client.pending PROVE FALSE OBVIOUS
  <2>2. Due(q) BY DEF NothingDropped, PendingDue
  <2> QED BY <1>1, <1>2, <2>2 DEF Due, AskComes, JobWaits, AnswerComes
<1>12. \A w \in client.received :
         \E e \in results.details : e.day = w[1] /\ DOMAIN e.results = w[2]..(WindowEnd(w) - 1)
  BY DEF NothingDropped, WindowsHeld, WindowHeld, InWindow
<1> QED BY <1>8, <1>9, <1>10, <1>11, <1>12 DEF StoreComplete

(* What the worker sent once is never needed again (store.ts, host.ts): when *)
(* it has nothing left to do, the main thread has the whole week, every      *)
(* rollup, every record of the tracked analyst and an answer to every detail *)
(* request, however forks, resets, seeks and changes of analyst cross the    *)
(* results on their way.                                                     *)
THEOREM NothingIsLost == Spec => []NothingLost
<1>1. Init => NothingDropped BY NothingDroppedAtFirst
<1>2. PlaybackTyped /\ PlaybackTyped' /\ Ordered /\ NothingDropped /\ [Next]_vars => NothingDropped'
  BY Steps, NothingDroppedNext
<1>3. PlaybackTyped /\ Ordered /\ NothingDropped => NothingLost
  BY IdleIsComplete DEF NothingLost
<1> QED BY <1>1, <1>2, <1>3, PlaybackIsTyped, ChannelsAreOrdered, PTL DEF Spec
=============================================================================
