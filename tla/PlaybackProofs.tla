--------------------------- MODULE PlaybackProofs ---------------------------
(***************************************************************************)
(* Proofs about the main thread and the worker, on which those about what  *)
(* the store shows (PlaybackStoreProofs) rest.  First sequences of         *)
(* messages, the time grid, and the types of everything that is kept or    *)
(* sent.  Then the two channels: runs, forks and results keep their order  *)
(* on the way, so that the worker has seen a prefix of the forks and the   *)
(* results on their way were computed under revisions that only grow.      *)
(* Hence the two sides agree when nothing is on its way.                   *)
(***************************************************************************)
EXTENDS Playback, FiniteSetTheorems, SequenceTheorems, TLAPS

-----------------------------------------------------------------------------
(* Channels.                                                                 *)

IsSeq(s) == s \in Seq({s[i] : i \in 1..Len(s)})

(* `longer` goes on where `s` ends, with what satisfies a set of messages. *)
Extends(longer, s) ==
  /\ IsSeq(longer) /\ Len(s) <= Len(longer)
  /\ \A i \in 1..Len(s) : longer[i] = s[i]

(* A sequence over some set is one over its own elements. *)
LEMMA Narrowed ==
  ASSUME NEW S, NEW s \in Seq(S)
  PROVE  IsSeq(s) /\ Len(s) \in Nat
<1> QED BY LenProperties, ElementOfSeq, SeqDef DEF IsSeq

LEMMA IsSeqLen ==
  ASSUME NEW s, IsSeq(s)
  PROVE  Len(s) \in Nat /\ DOMAIN s = 1..Len(s)
<1> QED BY LenProperties DEF IsSeq

LEMMA Appended ==
  ASSUME NEW s, NEW m, IsSeq(s)
  PROVE  /\ IsSeq(Append(s, m)) /\ Len(Append(s, m)) = Len(s) + 1
         /\ \A i \in 1..Len(s) : Append(s, m)[i] = s[i]
         /\ Append(s, m)[Len(s) + 1] = m
<1> DEFINE S == {s[i] : i \in 1..Len(s)} \cup {m}
<1>1. s \in Seq(S) /\ Len(s) \in Nat BY DEF IsSeq
<1>2. Append(s, m) \in Seq(S) /\ Len(Append(s, m)) = Len(s) + 1 BY <1>1
<1>3. /\ \A i \in 1..Len(s) : Append(s, m)[i] = s[i]
      /\ Append(s, m)[Len(s) + 1] = m BY <1>1
<1>4. IsSeq(Append(s, m)) BY <1>2, Narrowed
<1> QED BY <1>2, <1>3, <1>4

LEMMA Joins ==
  ASSUME NEW s, NEW t, IsSeq(s), IsSeq(t)
  PROVE  /\ IsSeq(s \o t) /\ Len(s \o t) = Len(s) + Len(t)
         /\ \A i \in 1..Len(s) : (s \o t)[i] = s[i]
         /\ \A i \in 1..Len(t) : (s \o t)[Len(s) + i] = t[i]
<1> DEFINE S == {s[i] : i \in 1..Len(s)} \cup {t[i] : i \in 1..Len(t)}
<1>1. s \in Seq(S) /\ Len(s) \in Nat /\ t \in Seq(S) /\ Len(t) \in Nat BY DEF IsSeq
<1>2. s \o t \in Seq(S) /\ Len(s \o t) = Len(s) + Len(t) BY <1>1
<1>3. /\ \A i \in 1..Len(s) : (s \o t)[i] = s[i]
      /\ \A i \in 1..Len(t) : (s \o t)[Len(s) + i] = t[i] BY <1>1
<1>4. IsSeq(s \o t) BY <1>2, Narrowed
<1> QED BY <1>2, <1>3, <1>4

LEMMA ShortSeqs ==
  ASSUME NEW a, NEW b
  PROVE  /\ IsSeq(<<>>) /\ Len(<<>>) = 0
         /\ IsSeq(<<a>>) /\ Len(<<a>>) = 1 /\ <<a>>[1] = a
         /\ IsSeq(<<a, b>>) /\ Len(<<a, b>>) = 2 /\ <<a, b>>[1] = a /\ <<a, b>>[2] = b
<1>1. <<>> \in Seq({a, b}) /\ <<a>> \in Seq({a, b}) /\ <<a, b>> \in Seq({a, b}) OBVIOUS
<1>2. IsSeq(<<>>) BY <1>1, Narrowed
<1>3. IsSeq(<<a>>) BY <1>1, Narrowed
<1>4. IsSeq(<<a, b>>) BY <1>1, Narrowed
<1> QED BY <1>2, <1>3, <1>4

LEMMA Taken ==
  ASSUME NEW s, IsSeq(s), s # <<>>
  PROVE  /\ IsSeq(Tail(s)) /\ Len(Tail(s)) = Len(s) - 1 /\ Len(s) >= 1
         /\ Head(s) = s[1]
         /\ \A i \in 1..(Len(s) - 1) : Tail(s)[i] = s[i + 1]
<1> DEFINE S == {s[i] : i \in 1..Len(s)}
<1>1. s \in Seq(S) /\ Len(s) \in Nat BY DEF IsSeq
<1>2. Tail(s) \in Seq(S) /\ Len(Tail(s)) = Len(s) - 1 /\ Len(s) >= 1 /\ Head(s) = s[1]
  BY <1>1
<1>3. \A i \in 1..(Len(s) - 1) : Tail(s)[i] = s[i + 1] BY <1>1
<1>4. IsSeq(Tail(s)) BY <1>2, Narrowed
<1> QED BY <1>2, <1>3, <1>4

-----------------------------------------------------------------------------
(* The time grid.                                                            *)

LEMMA GridEndAhead ==
  ASSUME NEW from \in 0..(Buckets - 1)
  PROVE  GridEnd(from) \in (from + 1)..Buckets
<1> DEFINE q == from \div ChunkBuckets
<1>1. Buckets \in Nat /\ ChunkBuckets \in 1..Buckets BY ProtocolAssumption
<1>2. q \in Nat /\ q * ChunkBuckets <= from /\ from < (q + 1) * ChunkBuckets
  BY <1>1, Z3
<1>3. (q + 1) * ChunkBuckets \in Nat BY <1>1, <1>2
<1> QED BY <1>1, <1>2, <1>3 DEF GridEnd

LEMMA GridEndIn ==
  ASSUME NEW from \in 0..Buckets, NEW limit \in 0..Buckets
  PROVE  GridEnd(from) \in 0..Buckets /\ SilentEnd(from, limit) \in 0..Buckets
<1> DEFINE q == from \div ChunkBuckets
<1>1. Buckets \in Nat /\ ChunkBuckets \in 1..Buckets BY ProtocolAssumption
<1>2. q \in Nat BY <1>1, Z3
<1>3. (q + 1) * ChunkBuckets \in Nat BY <1>1, <1>2
<1> QED BY <1>1, <1>3 DEF GridEnd, SilentEnd

-----------------------------------------------------------------------------
(* Types.                                                                    *)

Starts(m) == m.type \in {"init", "reset"}

InboxMessage(m) ==
  /\ m.type \in {"init", "reset", "focus", "fork", "requestDetail", "track"}
  /\ m.run \in Nat
  /\ Starts(m) => m.at \in Day \X Bucket
  /\ m.type = "focus" => m.at \in Day \X Bucket /\ m.prefetch \in BOOLEAN
  /\ m.type = "fork" => m.patch \in Patch
  /\ m.type = "requestDetail" => m.window \in Window /\ m.tag \in Nat
  /\ m.type = "track" => m.analyst \in Analyst

ResultMessage(m) ==
  /\ m.type \in {"ready", "progress", "chunk", "trace", "detail", "dayComplete", "error"}
  /\ m.run \in Nat /\ m.rev \in Revision
  /\ m.type = "ready" => m.analyst = Initial
  /\ m.type = "progress" => m.computed \in [Day -> 0..Buckets]
  /\ m.type = "chunk" =>
       /\ m.day \in Day /\ m.from \in Bucket /\ m.to \in (m.from + 1)..Buckets
       /\ m.analyst \in Analyst /\ m.results \in [m.from..(m.to - 1) -> Revs]
  /\ m.type = "trace" =>
       /\ m.day \in Day /\ m.to \in 1..Buckets /\ m.analyst \in Analyst
       /\ m.results = [b \in 0..(m.to - 1) |-> m.results[b]]
  /\ m.type = "detail" => m.day \in Day /\ m.results \in ResultSets
  /\ m.type = "dayComplete" => m.day \in Day /\ m.results \in Revs

ChannelsTyped ==
  /\ IsSeq(toWorker) /\ \A i \in 1..Len(toWorker) : InboxMessage(toWorker[i])
  /\ IsSeq(toMain) /\ \A i \in 1..Len(toMain) : ResultMessage(toMain[i])

ClientTyped ==
  client \in [run : Nat, rev : Revision, cuts : SUBSET Patch, computed : [Day -> 0..Buckets],
              tracked : Analyst \cup {None}, userTracked : BOOLEAN, focusDay : Day,
              prefetchDay : Day \cup {None}, received : SUBSET Window,
              pending : SUBSET (Nat \X Window)]

UsedTyped == used \in [{"forks", "resets", "seeks", "tracks", "details"} -> Nat]

(* The store is a record, and so is a trace in it. *)
StoreWell(r) ==
  /\ DOMAIN r = {"main", "trace", "rollup", "details"}
  /\ r.main \in [Day \X Bucket -> Shown \cup {None}]
  /\ r.trace = [d \in Day |-> r.trace[d]]
  /\ \A d \in Day : r.trace[d] # None =>
       r.trace[d] = [analyst |-> r.trace[d].analyst, results |-> r.trace[d].results]
  /\ r.rollup \in [Day -> Revs \cup {None}]
  /\ r.details \in SUBSET ShownDetails
ResultsTyped == StoreWell(results)

(* The stream of a day is never behind the run that computes it. *)
SlotBounded(s) == (s.to = Buckets <=> s.complete) /\ (s.run # None => s.run.now <= s.to)
HostWell(h) == h \in HostRuns /\ IsFiniteSet(h.details) /\ \A d \in Day : SlotBounded(h.slot[d])
HostTyped == host # None => HostWell(host)

PlaybackTyped == ChannelsTyped /\ ClientTyped /\ UsedTyped /\ ResultsTyped /\ HostTyped

-----------------------------------------------------------------------------
(* What day runs, checkpoints and slots become is typed.                     *)

LEMMA AppliedTyped ==
  ASSUME NEW P \in SUBSET Patch, NEW d, NEW now
  PROVE  Applied(P, d, now) \in Revs
<1> QED BY DEF Applied, Patch, Revs

LEMMA CreateTyped ==
  ASSUME NEW P \in SUBSET Patch, NEW d, NEW a \in Analyst
  PROVE  CreateDayRun(P, d, a) \in DayRuns /\ CreateDayRun(P, d, a).now = 0
<1> QED BY AppliedTyped, ProtocolAssumption DEF CreateDayRun, DayRuns

LEMMA OpenTyped ==
  ASSUME NEW h \in HostRuns, NEW d \in Day, NEW t \in 0..Buckets
  PROVE  OpenRunAt(h, d, t) \in DayRuns /\ OpenRunAt(h, d, t).now <= t
<1> DEFINE c == CHOOSE x \in Latest(h, d, t) : TRUE
<1>0. h.patches \in SUBSET Patch /\ h.tracked \in Analyst /\ h.slot[d] \in Slots
      /\ Buckets \in Nat
  BY ProtocolAssumption DEF HostRuns
<1>1. CASE Latest(h, d, t) = {}
  BY <1>0, <1>1, CreateTyped DEF OpenRunAt
<1>2. CASE Latest(h, d, t) # {}
  <2>1. c \in Latest(h, d, t) BY <1>2
  <2>2. c \in Checkpoints /\ c.now <= t BY <2>1, <1>0 DEF Latest, Slots
  <2>3. OpenRunAt(h, d, t) = Restore(c, h.patches, h.tracked) BY <1>2 DEF OpenRunAt
  <2> QED BY <1>0, <2>2, <2>3 DEF Restore, Checkpoints, DayRuns
<1> QED BY <1>1, <1>2

LEMMA AppliedByTyped ==
  ASSUME NEW run \in DayRuns, NEW d, NEW b
  PROVE  AppliedBy(run, d, b) \in Revs
<1> QED BY DEF AppliedBy, DayRuns, Patch, Revs

LEMMA AdvanceTyped ==
  ASSUME NEW run \in DayRuns, NEW d, NEW to \in 0..Buckets
  PROVE  /\ Advance(run, d, to) \in DayRuns
         /\ Advance(run, d, to).now = to
         /\ Advance(run, d, to).applied = AppliedBy(run, d, to - 1)
         /\ Advance(run, d, to).patches = run.patches
<1> QED BY AppliedByTyped DEF Advance, DayRuns

LEMMA ResultsOfTyped ==
  ASSUME NEW run \in DayRuns, NEW d, NEW to \in 0..Buckets
  PROVE  /\ Results(run, d, to) \in [run.now..(to - 1) -> Revs]
         /\ Results(run, d, to) \in ResultSets
<1>1. Results(run, d, to) \in [run.now..(to - 1) -> Revs] BY AppliedByTyped DEF Results
<1>2. run.now..(to - 1) \in SUBSET Bucket BY ProtocolAssumption DEF DayRuns, Bucket
<1> QED BY <1>1, <1>2 DEF ResultSets

LEMMA JoinedTyped ==
  ASSUME NEW f \in ResultSets, NEW g \in ResultSets
  PROVE  Joined(f, g) \in ResultSets
<1>1. PICK A \in SUBSET Bucket : f \in [A -> Revs] BY DEF ResultSets
<1>2. PICK B \in SUBSET Bucket : g \in [B -> Revs] BY DEF ResultSets
<1>3. Joined(f, g) \in [A \cup B -> Revs] BY <1>1, <1>2 DEF Joined
<1>4. A \cup B \in SUBSET Bucket BY <1>1, <1>2
<1> QED BY <1>3, <1>4 DEF ResultSets

LEMMA NoResultsTyped == NoResults \in ResultSets
<1>1. NoResults \in [{} -> Revs] BY DEF NoResults
<1> QED BY <1>1 DEF ResultSets

LEMMA KeptTyped ==
  ASSUME NEW h \in HostRuns, NEW d \in Day, NEW run \in DayRuns, NEW from,
         NEW kept \in MaybeCheckpoint(h, d, run, from)
  PROVE  kept \in SUBSET Checkpoints
<1>1. h.slot[d].checkpoints \in SUBSET Checkpoints BY DEF HostRuns, Slots
<1>2. [now |-> run.now, applied |-> run.applied] \in Checkpoints BY DEF DayRuns, Checkpoints
<1> QED BY <1>1, <1>2 DEF MaybeCheckpoint

(* refocus changes the focus and what is rebuilt for it, and no stream. *)
LEMMA RefocusTyped ==
  ASSUME NEW h \in HostRuns, NEW at \in Day \X Bucket, NEW g \in Refocused(h, at)
  PROVE  /\ g \in HostRuns
         /\ g.run = h.run /\ g.rev = h.rev /\ g.patches = h.patches /\ g.tracked = h.tracked
         /\ g.focus = at /\ g.details = h.details /\ g.traces = h.traces /\ g.failed = h.failed
         /\ \A d \in Day : /\ g.slot[d].to = h.slot[d].to /\ g.slot[d].run = h.slot[d].run
                           /\ g.slot[d].complete = h.slot[d].complete
<1> DEFINE keep(d) == IF d = at[1] THEN {h.slot[d].checkpoints} ELSE SUBSET h.slot[d].checkpoints
           all     == [d \in Day |-> h.slot[d].checkpoints]
           some    == {f \in [Day -> UNION {keep(d) : d \in Day}] : \A d \in Day : f[d] \in keep(d)}
           cleared(kept) == [d \in Day |-> [h.slot[d] EXCEPT
                             !.checkpoints = kept[d],
                             !.densify = d = at[1] /\ h.slot[d].to > 0,
                             !.densifyRun = None]]
<1>1. PICK kept \in IF at[1] = h.focus[1] THEN {all} ELSE some :
        g = [h EXCEPT !.focus = at, !.prefetch = None, !.slot = cleared(kept)]
  BY DEF Refocused
<1>2. \A d \in Day : h.slot[d] \in Slots BY DEF HostRuns
<1>3. \A d \in Day : kept[d] \in SUBSET Checkpoints BY <1>1, <1>2 DEF Slots
<1>4. ASSUME NEW d \in Day
      PROVE  /\ cleared(kept)[d] \in Slots
             /\ cleared(kept)[d].to = h.slot[d].to /\ cleared(kept)[d].run = h.slot[d].run
             /\ cleared(kept)[d].complete = h.slot[d].complete
  <2> DEFINE s == h.slot[d]
             b == d = at[1] /\ s.to > 0
             k == kept[d]
  <2>1. s \in Slots /\ k \in SUBSET Checkpoints BY <1>2, <1>3
  <2>2. cleared(kept)[d] = [s EXCEPT !.checkpoints = k, !.densify = b, !.densifyRun = None]
    OBVIOUS
  <2>3. b \in BOOLEAN OBVIOUS
  <2> HIDE DEF b, s, k
  <2>4. /\ [s EXCEPT !.checkpoints = k, !.densify = b, !.densifyRun = None] \in Slots
        /\ [s EXCEPT !.checkpoints = k, !.densify = b, !.densifyRun = None].to = s.to
        /\ [s EXCEPT !.checkpoints = k, !.densify = b, !.densifyRun = None].run = s.run
        /\ [s EXCEPT !.checkpoints = k, !.densify = b, !.densifyRun = None].complete = s.complete
    BY <2>1, <2>3 DEF Slots
  <2> QED BY <2>2, <2>4 DEF s
<1>5. cleared(kept) \in [Day -> Slots] BY <1>4
<1> HIDE DEF cleared, all, some
<1>6. g.slot = cleared(kept) BY <1>1 DEF HostRuns
<1>7. g \in HostRuns BY <1>1, <1>5 DEF HostRuns
<1>8. /\ g.run = h.run /\ g.rev = h.rev /\ g.patches = h.patches /\ g.tracked = h.tracked
      /\ g.focus = at /\ g.details = h.details /\ g.traces = h.traces /\ g.failed = h.failed
  BY <1>1 DEF HostRuns
<1> QED BY <1>4, <1>6, <1>7, <1>8

-----------------------------------------------------------------------------
(* What the worker's units of work leave alone, and what they send.          *)

SameRun ==
  /\ host'.run = host.run /\ host'.rev = host.rev /\ host'.patches = host.patches
  /\ host'.tracked = host.tracked /\ host'.focus = host.focus
SameStreams ==
  \A d \in Day : /\ host'.slot[d].to = host.slot[d].to /\ host'.slot[d].run = host.slot[d].run
                 /\ host'.slot[d].complete = host.slot[d].complete

(* The results sent in a step carry the run and the revision of the host. *)
Stamped ==
  /\ Extends(toMain', toMain)
  /\ \A i \in (Len(toMain) + 1)..Len(toMain') :
       ResultMessage(toMain'[i]) /\ toMain'[i].run = host'.run /\ toMain'[i].rev = host'.rev
Sends(types) ==
  \A i \in (Len(toMain) + 1)..Len(toMain') : toMain'[i].type \in types

LEMMA OneSent ==
  ASSUME ChannelsTyped, NEW m, ResultMessage(m), m.run = host'.run, m.rev = host'.rev, Send(<<m>>)
  PROVE  Stamped /\ Len(toMain') = Len(toMain) + 1 /\ toMain'[Len(toMain) + 1] = m
<1>1. IsSeq(toMain) /\ Len(toMain) \in Nat BY IsSeqLen DEF ChannelsTyped
<1>2. IsSeq(<<m>>) /\ Len(<<m>>) = 1 /\ <<m>>[1] = m BY ShortSeqs
<1>3. toMain' = toMain \o <<m>> BY DEF Send
<1> QED BY <1>1, <1>2, <1>3, Joins DEF Stamped, Extends

LEMMA NoneSent ==
  ASSUME ChannelsTyped, UNCHANGED toMain
  PROVE  Stamped /\ Sends({})
<1> QED BY IsSeqLen DEF ChannelsTyped, Stamped, Extends, Sends

LEMMA FailDoes ==
  ASSUME ChannelsTyped, HostWell(host), Fail
  PROVE  HostWell(host') /\ SameRun /\ SameStreams /\ host'.traces = host.traces
         /\ host'.failed /\ host'.details = host.details /\ Stamped /\ Sends({"error"})
<1> DEFINE m == [type |-> "error", run |-> host.run, rev |-> host.rev]
<1>1. HostWell(host') /\ SameRun /\ SameStreams /\ host'.traces = host.traces /\ host'.failed
      /\ host'.details = host.details
  BY DEF Fail, HostWell, HostRuns, SameRun, SameStreams, SlotBounded
<1>2. ResultMessage(m) /\ m.run = host'.run /\ m.rev = host'.rev
  BY <1>1 DEF ResultMessage, HostWell, HostRuns, SameRun
<1>3. Send(<<m>>) BY DEF Fail
<1> HIDE DEF m
<1>4. Stamped /\ Len(toMain') = Len(toMain) + 1 /\ toMain'[Len(toMain) + 1] = m
  BY <1>2, <1>3, OneSent
<1>5. m.type = "error" BY DEF m
<1>6. Len(toMain) \in Nat BY IsSeqLen DEF ChannelsTyped
<1> QED BY <1>1, <1>4, <1>5, <1>6 DEF Sends

(* A detail job, and the unit of work that goes on with it. *)
DetailRun(job) ==
  IF job.run # None THEN job.run
  ELSE IF Reusable(job) THEN host.cache.run ELSE OpenRunAt(host, job.day, job.from)
DetailNext(job) ==
  LET run == DetailRun(job)
  IN  Advance(run, job.day, SilentEnd(run.now, IF run.now < job.from THEN job.from ELSE job.to))
DetailGot(job) ==
  LET run == DetailRun(job)
  IN  IF run.now < job.from THEN job.results
      ELSE Joined(Results(run, job.day, DetailNext(job).now), job.results)
DetailDone(job) ==
  /\ host'.details = host.details \ {job}
  /\ Len(toMain') = Len(toMain) + 1
  /\ toMain'[Len(toMain) + 1] = Detail(host, job, DetailGot(job))
DetailGoesOn(job) ==
  /\ host'.details = (host.details \ {job})
                       \cup {[job EXCEPT !.run = DetailNext(job), !.results = DetailGot(job)]}
  /\ toMain' = toMain

LEMMA DetailDoes ==
  ASSUME ChannelsTyped, HostWell(host), NEW job \in host.details, StepDetail(job)
  PROVE  /\ HostWell(host') /\ SameRun /\ SameStreams /\ host'.traces = host.traces
         /\ Stamped /\ Sends({"detail", "error"})
         /\ \/ host'.failed /\ host'.details = host.details /\ Sends({"error"})
            \/ host'.failed = host.failed /\ IF DetailNext(job).now = job.to
                                              THEN DetailDone(job) ELSE DetailGoesOn(job)
<1> DEFINE run  == DetailRun(job)
           silent == run.now < job.from
           next == DetailNext(job)
           got  == DetailGot(job)
           done == next.now = job.to
           cache == IF done THEN [day |-> job.day, run |-> next]
                    ELSE IF Reusable(job) THEN None ELSE host.cache
           m == Detail(host, job, got)
<1>1. CASE Fail BY <1>1, FailDoes DEF Sends
<1>2. CASE ~Fail
  <2>0. /\ run = IF job.run # None THEN job.run
                ELSE IF Reusable(job) THEN host.cache.run ELSE OpenRunAt(host, job.day, job.from)
        /\ next = Advance(run, job.day, SilentEnd(run.now, IF silent THEN job.from ELSE job.to))
        /\ got = IF silent THEN job.results ELSE Joined(Results(run, job.day, next.now), job.results)
    BY DEF DetailRun, DetailNext, DetailGot
  <2>1. job \in DetailJobs /\ host.cache \in [day : Day, run : DayRuns] \cup {None} /\ host \in HostRuns
        /\ IsFiniteSet(host.details)
    BY DEF HostWell, HostRuns
  <2>2. run \in DayRuns /\ Buckets \in Nat /\ job.from \in 0..Buckets
    BY <2>0, <2>1, OpenTyped, ProtocolAssumption DEF DetailJobs, Reusable, Bucket
  <2>3. SilentEnd(run.now, IF silent THEN job.from ELSE job.to) \in 0..Buckets
    BY <2>1, <2>2, GridEndIn DEF DetailJobs, DayRuns
  <2>4. next \in DayRuns /\ next.now \in 0..Buckets BY <2>0, <2>2, <2>3, AdvanceTyped
  <2>5. got \in ResultSets BY <2>0, <2>1, <2>2, <2>4, ResultsOfTyped, JoinedTyped DEF DetailJobs
  <2>6. cache \in [day : Day, run : DayRuns] \cup {None} BY <2>1, <2>4 DEF DetailJobs
  <2>7. PICK kept \in MaybeCheckpoint(host, job.day, next, run.now) :
          host' = [host EXCEPT
                     !.slot[job.day].checkpoints = kept, !.cache = cache,
                     !.details = (@ \ {job}) \cup
                       IF done THEN {} ELSE {[job EXCEPT !.run = next, !.results = got]}]
    BY <1>2 DEF StepDetail, DetailRun, DetailNext, DetailGot
  <2>8. IF done THEN Send(<<m>>) ELSE UNCHANGED toMain
    BY <1>2 DEF StepDetail, DetailRun, DetailNext, DetailGot
  <2>9. kept \in SUBSET Checkpoints /\ job.day \in Day
    BY <2>1, <2>4, KeptTyped DEF DetailJobs
  <2>10. ResultMessage(m) /\ m.run = host.run /\ m.rev = host.rev /\ m.type = "detail"
    BY <2>1, <2>5, <2>9 DEF ResultMessage, HostRuns, Detail
  <2> HIDE DEF run, silent, next, got, done, cache, m
  <2> DEFINE more == IF done THEN {} ELSE {[job EXCEPT !.run = next, !.results = got]}
  <2>11. more \in SUBSET DetailJobs /\ IsFiniteSet(more)
    BY <2>1, <2>4, <2>5, FS_EmptySet, FS_Singleton DEF DetailJobs
  <2>12. (host.details \ {job}) \cup more \in SUBSET DetailJobs
         /\ IsFiniteSet((host.details \ {job}) \cup more)
    BY <2>1, <2>11, FS_Difference, FS_Union DEF HostRuns
  <2>13. host' = [host EXCEPT !.slot[job.day].checkpoints = kept, !.cache = cache,
                    !.details = (@ \ {job}) \cup more]
    BY <2>7
  <2> HIDE DEF more
  <2> DEFINE slots == [host.slot EXCEPT ![job.day].checkpoints = kept]
             details == (host.details \ {job}) \cup more
  <2>14. HostWell(host') /\ SameRun /\ SameStreams /\ host'.traces = host.traces
         /\ host'.failed = host.failed /\ host'.details = (host.details \ {job}) \cup more
    <3>1. host.slot \in [Day -> Slots] BY <2>1 DEF HostRuns
    <3>2. /\ slots \in [Day -> Slots]
          /\ \A e \in Day : /\ slots[e].to = host.slot[e].to /\ slots[e].run = host.slot[e].run
                            /\ slots[e].complete = host.slot[e].complete
      BY <3>1, <2>9 DEF Slots
    <3>3. host' = [host EXCEPT !.slot = slots, !.cache = cache, !.details = details] BY <2>13
    <3>4. details \in SUBSET DetailJobs /\ IsFiniteSet(details) BY <2>12
    <3> HIDE DEF slots, details
    <3>5. host'.slot = slots /\ host'.details = details BY <2>1, <3>3 DEF HostRuns
    <3>6. host' \in HostRuns BY <2>1, <2>6, <3>2, <3>3, <3>4 DEF HostRuns
    <3>7. SameRun /\ host'.traces = host.traces BY <2>1, <3>3 DEF HostRuns, SameRun
    <3>8. host'.failed = host.failed BY <2>1, <3>3 DEF HostRuns
    <3> QED BY <3>2, <3>4, <3>5, <3>6, <3>7, <3>8 DEF HostWell, SameStreams, SlotBounded, details
  <2>15. CASE done
    <3>1. Stamped /\ Sends({"detail"}) /\ Len(toMain') = Len(toMain) + 1
          /\ toMain'[Len(toMain) + 1] = m
      BY <2>8, <2>10, <2>14, <2>15, OneSent, IsSeqLen DEF SameRun, Sends, ChannelsTyped
    <3>2. host'.details = host.details \ {job} BY <2>14, <2>15 DEF more
    <3>3. DetailNext(job).now = job.to BY <2>15 DEF done, next
    <3>4. m = Detail(host, job, DetailGot(job)) BY DEF m, got
    <3>5. DetailDone(job) BY <3>1, <3>2, <3>4 DEF DetailDone
    <3> QED BY <2>14, <3>1, <3>3, <3>5 DEF Sends
  <2>16. CASE ~done
    <3>1. Stamped /\ Sends({}) /\ toMain' = toMain BY <2>8, <2>16, NoneSent
    <3>2. host'.details = (host.details \ {job}) \cup {[job EXCEPT !.run = next, !.results = got]}
      BY <2>14, <2>16 DEF more
    <3>3. DetailNext(job).now # job.to BY <2>16 DEF done, next
    <3>4. DetailGoesOn(job) BY <3>1, <3>2 DEF DetailGoesOn, next, got
    <3> QED BY <2>14, <3>1, <3>3, <3>4 DEF Sends
  <2> QED BY <2>15, <2>16
<1> QED BY <1>1, <1>2

LEMMA DensifyDoes ==
  ASSUME ChannelsTyped, HostWell(host), NEW d \in Day, StepDensify(d)
  PROVE  HostWell(host') /\ SameRun /\ SameStreams /\ host'.traces = host.traces
         /\ host'.details = host.details /\ Stamped /\ Sends({"error"})
<1> DEFINE s    == host.slot[d]
           from == IF host.focus[2] < s.to THEN host.focus[2] ELSE s.to
           run  == IF s.densifyRun # None THEN s.densifyRun ELSE OpenRunAt(host, d, from)
           next == Advance(run, d, SilentEnd(run.now, s.to))
           more == next.now < s.to
           rest == IF more THEN next ELSE None
<1>1. CASE Fail BY <1>1, FailDoes DEF Sends
<1>2. CASE ~Fail
  <2>1. host \in HostRuns /\ s \in Slots /\ host.slot \in [Day -> Slots] /\ from \in 0..Buckets
        /\ IsFiniteSet(host.details)
    BY ProtocolAssumption DEF HostWell, HostRuns, Slots, Bucket
  <2>2. run \in DayRuns BY <2>1, OpenTyped DEF Slots
  <2>3. SilentEnd(run.now, s.to) \in 0..Buckets BY <2>1, <2>2, GridEndIn DEF Slots, DayRuns
  <2>4. next \in DayRuns BY <2>2, <2>3, AdvanceTyped
  <2>5. PICK kept \in MaybeCheckpoint(host, d, next, run.now) :
          host' = [host EXCEPT !.slot[d].checkpoints = kept, !.slot[d].densify = more,
                               !.slot[d].densifyRun = rest]
    BY <1>2 DEF StepDensify
  <2>6. UNCHANGED toMain BY <1>2 DEF StepDensify
  <2>7. kept \in SUBSET Checkpoints BY <2>1, <2>4, KeptTyped
  <2>8. more \in BOOLEAN /\ rest \in DayRuns \cup {None} BY <2>4
  <2> DEFINE slot == [host.slot EXCEPT ![d].checkpoints = kept, ![d].densify = more,
                                       ![d].densifyRun = rest]
  <2> HIDE DEF s, from, run, next, more, rest
  <2>9. /\ slot \in [Day -> Slots]
        /\ \A e \in Day : /\ slot[e].to = host.slot[e].to /\ slot[e].run = host.slot[e].run
                          /\ slot[e].complete = host.slot[e].complete
    BY <2>1, <2>7, <2>8 DEF Slots
  <2>10. host' = [host EXCEPT !.slot = slot] BY <2>5
  <2> HIDE DEF slot
  <2>11. host' \in HostRuns /\ host'.slot = slot /\ host'.details = host.details
         /\ SameRun /\ host'.traces = host.traces
    BY <2>1, <2>9, <2>10 DEF HostRuns, SameRun
  <2>12. HostWell(host') /\ SameStreams
    BY <2>1, <2>9, <2>11 DEF HostWell, SameStreams, SlotBounded
  <2> QED BY <2>6, <2>11, <2>12, NoneSent DEF Sends
<1> QED BY <1>1, <1>2

(* A trace, and the unit of work that goes on with it. *)
TraceRun(t) == IF t.run # None THEN t.run ELSE CreateDayRun(host.patches, t.day, t.analyst)
TraceNext(t) ==
  IF TraceRun(t).now < t.to
  THEN Advance(TraceRun(t), t.day, SilentEnd(TraceRun(t).now, t.to)) ELSE TraceRun(t)
TraceGot(t) ==
  IF TraceRun(t).now < t.to
  THEN Joined(Results(TraceRun(t), t.day, TraceNext(t).now), t.results) ELSE t.results
TraceMessage(t) ==
  [type |-> "trace", run |-> host.run, rev |-> host.rev, day |-> t.day, analyst |-> t.analyst,
   to |-> t.to, results |-> [b \in 0..(t.to - 1) |-> TraceGot(t)[b]]]

LEMMA TraceTyped ==
  ASSUME HostWell(host), NEW t \in host.traces
  PROVE  t \in TraceJobs /\ TraceRun(t) \in DayRuns /\ TraceNext(t) \in DayRuns
         /\ TraceGot(t) \in ResultSets
<1>1. t \in TraceJobs /\ host \in HostRuns BY DEF HostWell, HostRuns
<1>2. TraceRun(t) \in DayRuns BY <1>1, CreateTyped DEF TraceRun, TraceJobs, HostRuns
<1>3. SilentEnd(TraceRun(t).now, t.to) \in 0..Buckets
  BY <1>1, <1>2, GridEndIn, ProtocolAssumption DEF TraceJobs, DayRuns
<1>4. TraceNext(t) \in DayRuns BY <1>1, <1>2, <1>3, AdvanceTyped DEF TraceNext
<1>5. TraceNext(t).now \in 0..Buckets BY <1>4 DEF DayRuns
<1>6. TraceGot(t) \in ResultSets
  BY <1>1, <1>2, <1>5, ResultsOfTyped, JoinedTyped DEF TraceGot, TraceJobs
<1> QED BY <1>1, <1>2, <1>4, <1>6

LEMMA TraceDoes ==
  ASSUME ChannelsTyped, HostWell(host), NEW t \in host.traces, StepTrace(t)
  PROVE  /\ HostWell(host') /\ SameRun /\ SameStreams /\ Stamped /\ Sends({"trace"})
         /\ host'.traces = (host.traces \ {t}) \cup
              IF TraceNext(t).now >= t.to THEN {}
              ELSE {[t EXCEPT !.run = TraceNext(t), !.results = TraceGot(t)]}
         /\ \A i \in (Len(toMain) + 1)..Len(toMain') :
              toMain'[i] = TraceMessage(t) /\ TraceNext(t).now >= t.to
         /\ TraceNext(t).now >= t.to => Len(toMain') = Len(toMain) + 1
         /\ host'.details = host.details
<1> DEFINE done == TraceNext(t).now >= t.to
           more == IF done THEN {} ELSE {[t EXCEPT !.run = TraceNext(t), !.results = TraceGot(t)]}
           m    == TraceMessage(t)
           rest == (host.traces \ {t}) \cup more
<1>1. /\ t \in TraceJobs /\ TraceRun(t) \in DayRuns /\ TraceNext(t) \in DayRuns
      /\ TraceGot(t) \in ResultSets
  BY TraceTyped
<1>2. host \in HostRuns /\ host.slot \in [Day -> Slots] /\ t.day \in Day
  BY <1>1 DEF HostWell, HostRuns, TraceJobs
<1>3. PICK kept \in IF TraceRun(t).now < t.to
                    THEN MaybeCheckpoint(host, t.day, TraceNext(t), TraceRun(t).now)
                    ELSE {host.slot[t.day].checkpoints} :
        host' = [host EXCEPT !.slot[t.day].checkpoints = kept, !.traces = rest]
  BY DEF StepTrace, TraceRun, TraceNext, TraceGot
<1>4. IF done THEN Send(<<m>>) ELSE UNCHANGED toMain
  BY DEF StepTrace, TraceRun, TraceNext, TraceGot, TraceMessage
<1>5. kept \in SUBSET Checkpoints BY <1>1, <1>2, <1>3, KeptTyped DEF Slots
<1>6. ResultMessage(m) /\ m.run = host.run /\ m.rev = host.rev /\ m.type = "trace"
  BY <1>1, <1>2 DEF ResultMessage, TraceMessage, HostRuns, TraceJobs
<1>7. more \in SUBSET TraceJobs BY <1>1 DEF TraceJobs
<1>8. rest \in SUBSET TraceJobs BY <1>2, <1>7 DEF HostRuns
<1> DEFINE slot == [host.slot EXCEPT ![t.day].checkpoints = kept]
<1>9. /\ slot \in [Day -> Slots]
      /\ \A e \in Day : /\ slot[e].to = host.slot[e].to /\ slot[e].run = host.slot[e].run
                        /\ slot[e].complete = host.slot[e].complete
  BY <1>2, <1>5 DEF Slots
<1>10. host' = [host EXCEPT !.slot = slot, !.traces = rest] BY <1>3
<1> HIDE DEF slot, rest, m, done
<1>11. host' \in HostRuns /\ host'.slot = slot /\ host'.details = host.details
       /\ SameRun /\ host'.traces = rest
  BY <1>2, <1>8, <1>9, <1>10 DEF HostRuns, SameRun
<1>12. HostWell(host') /\ SameStreams
  BY <1>9, <1>11 DEF HostWell, SameStreams, SlotBounded
<1>13. Stamped /\ Sends({"trace"})
       /\ (\A i \in (Len(toMain) + 1)..Len(toMain') : toMain'[i] = m /\ done)
       /\ (done => Len(toMain') = Len(toMain) + 1)
  <2>1. CASE done
    BY <1>4, <1>6, <1>11, <2>1, OneSent, IsSeqLen DEF SameRun, Sends, ChannelsTyped
  <2>2. CASE ~done BY <1>4, <2>2, NoneSent DEF Sends
  <2> QED BY <2>1, <2>2
<1> QED BY <1>11, <1>12, <1>13 DEF rest, m, done

(* The run that continues a day's stream, and the two ways it goes on. *)
StreamRun(d) ==
  IF host.slot[d].run # None THEN host.slot[d].run ELSE OpenRunAt(host, d, host.slot[d].to)
Opens(d) == host.slot[d].run = None => ~Throws(host, d, host.slot[d].to)
ChunkMessage(d, end) ==
  [type |-> "chunk", run |-> host.run, rev |-> host.rev, day |-> d, from |-> StreamRun(d).now,
   to |-> end, analyst |-> StreamRun(d).analyst, results |-> Results(StreamRun(d), d, end)]
ProgressMessage(d, end) ==
  [type |-> "progress", run |-> host.run, rev |-> host.rev,
   computed |-> [e \in Day |-> IF e = d THEN end ELSE host.slot[e].to]]
CompleteMessage(d, end) ==
  [type |-> "dayComplete", run |-> host.run, rev |-> host.rev, day |-> d,
   results |-> Advance(StreamRun(d), d, end).applied]

SilentStep(d) ==
  LET s == host.slot[d]
      next == Advance(StreamRun(d), d, SilentEnd(StreamRun(d).now, s.to))
  IN  /\ Opens(d) /\ StreamRun(d).now < s.to /\ next.now <= s.to
      /\ host'.slot[d].to = s.to /\ host'.slot[d].run = next
      /\ Sends({})
ChunkStep(d, end) ==
  LET s == host.slot[d]
      n == Len(toMain)
  IN  /\ Opens(d) /\ StreamRun(d).now = s.to
      /\ host'.slot[d].to = end
      /\ host'.slot[d].run = IF end = Buckets THEN None ELSE Advance(StreamRun(d), d, end)
      /\ toMain'[n + 1] = ChunkMessage(d, end) /\ toMain'[n + 2] = ProgressMessage(d, end)
      /\ Len(toMain') \in {n + 2, n + 3}
      /\ Len(toMain') = n + 3 => end = Buckets /\ toMain'[n + 3] = CompleteMessage(d, end)
      /\ end = Buckets => Len(toMain') = n + 3

LEMMA StreamTyped ==
  ASSUME HostWell(host), NEW d \in Day
  PROVE  StreamRun(d) \in DayRuns /\ StreamRun(d).now <= host.slot[d].to
         /\ host.slot[d] \in Slots
<1>1. host \in HostRuns /\ host.slot[d] \in Slots /\ SlotBounded(host.slot[d])
  BY DEF HostWell, HostRuns
<1>2. host.slot[d].to \in 0..Buckets BY <1>1 DEF Slots
<1> QED BY <1>1, <1>2, OpenTyped DEF StreamRun, Slots, SlotBounded

WritesSlot(d, to, run, kept) ==
  host' = [host EXCEPT !.slot[d].run = run, !.slot[d].to = to,
                       !.slot[d].complete = (to = Buckets), !.slot[d].checkpoints = kept]

LEMMA SlotWritten ==
  ASSUME HostWell(host), NEW d \in Day, NEW to \in 0..Buckets, NEW run \in DayRuns \cup {None},
         NEW kept \in SUBSET Checkpoints, run # None => run.now <= to,
         WritesSlot(d, to, run, kept)
  PROVE  /\ HostWell(host') /\ SameRun /\ host'.traces = host.traces /\ host'.details = host.details
         /\ host'.slot[d].to = to /\ host'.slot[d].run = run
         /\ \A e \in Day \ {d} : host'.slot[e] = host.slot[e]
<1> DEFINE complete == to = Buckets
           slot == [host.slot EXCEPT ![d].run = run, ![d].to = to, ![d].complete = complete,
                                     ![d].checkpoints = kept]
<1>c. complete \in BOOLEAN /\ (complete <=> to = Buckets) OBVIOUS
<1>h. host' = [host EXCEPT !.slot = slot] BY DEF WritesSlot
<1> HIDE DEF complete
<1>1. host \in HostRuns /\ host.slot \in [Day -> Slots] BY DEF HostWell, HostRuns
<1>2. /\ slot \in [Day -> Slots] /\ slot[d].to = to /\ slot[d].run = run /\ slot[d].complete = complete
      /\ \A e \in Day \ {d} : slot[e] = host.slot[e]
  <2> DEFINE old == host.slot[d]
             new == [old EXCEPT !.run = run, !.to = to, !.complete = complete, !.checkpoints = kept]
  <2>1. old \in Slots BY <1>1
  <2>2. slot = [host.slot EXCEPT ![d] = new] BY <1>1
  <2> HIDE DEF old, slot
  <2>3. new \in Slots /\ new.to = to /\ new.run = run /\ new.complete = complete
    BY <1>c, <2>1 DEF Slots
  <2> HIDE DEF new
  <2> QED BY <1>1, <2>2, <2>3
<1> HIDE DEF slot
<1>4. host' \in HostRuns /\ host'.slot = slot /\ host'.details = host.details
      /\ SameRun /\ host'.traces = host.traces
  BY <1>1, <1>2, <1>h DEF HostRuns, SameRun
<1> QED BY <1>2, <1>4, <1>c DEF HostWell, SlotBounded

LEMMA DayDoes ==
  ASSUME ChannelsTyped, HostWell(host), NEW d \in Day, ~host.slot[d].complete, StepDay(d)
  PROVE  /\ HostWell(host') /\ SameRun /\ host'.traces = host.traces /\ Stamped
         /\ host'.details = host.details
         /\ \A e \in Day \ {d} : host'.slot[e].to = host.slot[e].to /\ host'.slot[e].run = host.slot[e].run
         /\ \/ SameStreams /\ Sends({"error"})
            \/ SilentStep(d)
            \/ \E end \in (host.slot[d].to + 1)..Buckets : ChunkStep(d, end)
<1> DEFINE s   == host.slot[d]
           run == StreamRun(d)
<1>1. /\ host \in HostRuns /\ s \in Slots /\ run \in DayRuns /\ run.now <= s.to
      /\ s.to \in 0..Buckets /\ s.to # Buckets /\ run.now \in 0..(Buckets - 1) /\ Buckets \in Nat
  <2>1. host \in HostRuns /\ s \in Slots /\ run \in DayRuns /\ run.now <= s.to BY StreamTyped DEF HostWell
  <2> HIDE DEF run
  <2> QED BY <2>1, ProtocolAssumption DEF HostWell, SlotBounded, Slots, DayRuns
<1>2. CASE s.run = None /\ Throws(host, d, s.to)
  <2>1. Fail BY <1>2 DEF StepDay
  <2> QED BY <2>1, FailDoes DEF SameStreams
<1>3. CASE ~(s.run = None /\ Throws(host, d, s.to)) /\ run.now < s.to
  <2> DEFINE end  == SilentEnd(run.now, s.to)
             next == Advance(run, d, end)
  <2>1. end \in 0..Buckets /\ end <= s.to BY <1>1, GridEndIn DEF SilentEnd
  <2>2. next \in DayRuns /\ next.now = end BY <1>1, <2>1, AdvanceTyped
  <2>3. PICK kept \in MaybeCheckpoint(host, d, next, run.now) :
          host' = [host EXCEPT !.slot[d].run = next, !.slot[d].checkpoints = kept]
    BY <1>3 DEF StepDay, StreamRun
  <2>4. UNCHANGED toMain BY <1>3 DEF StepDay, StreamRun
  <2>5. kept \in SUBSET Checkpoints BY <1>1, <2>2, <2>3, KeptTyped
  <2> HIDE DEF run, end, next
  <2>6. s.complete = (s.to = Buckets) BY <1>1 DEF Slots, HostWell, SlotBounded
  <2>7. WritesSlot(d, s.to, next, kept)
    <3>1. host' = [host EXCEPT !.slot[d].run = next, !.slot[d].to = s.to,
                               !.slot[d].complete = s.complete, !.slot[d].checkpoints = kept]
      BY <1>1, <2>3 DEF Slots, HostRuns
    <3> QED BY <2>6, <3>1 DEF WritesSlot
  <2>8. /\ HostWell(host') /\ SameRun /\ host'.traces = host.traces /\ host'.details = host.details
        /\ host'.slot[d].to = s.to /\ host'.slot[d].run = next
        /\ \A e \in Day \ {d} : host'.slot[e] = host.slot[e]
    BY <1>1, <2>1, <2>2, <2>5, <2>7, SlotWritten
  <2>9. SilentStep(d)
    BY <1>3, <2>1, <2>2, <2>4, <2>8, NoneSent DEF SilentStep, Opens, run, next, end
  <2> QED BY <2>4, <2>8, <2>9, NoneSent
<1>4. CASE ~(s.run = None /\ Throws(host, d, s.to)) /\ ~(run.now < s.to)
  <2>1. run.now = s.to BY <1>1, <1>4 DEF DayRuns
  <2>2. PICK end \in {run.now + 1, GridEnd(run.now)} :
          LET next == Advance(run, d, end)
              done == end = Buckets
              sent == [e \in Day |-> IF e = d THEN end ELSE host.slot[e].to]
          IN  /\ \E kept \in MaybeCheckpoint(host, d, next, run.now) :
                   host' = [host EXCEPT !.slot[d].run = IF done THEN None ELSE next,
                                        !.slot[d].to = end, !.slot[d].complete = done,
                                        !.slot[d].checkpoints = kept]
              /\ Send(<<ChunkMessage(d, end), ProgressMessage(d, end)>>
                      \o IF done THEN <<CompleteMessage(d, end)>> ELSE <<>>)
    BY <1>4 DEF StepDay, StreamRun, ChunkMessage, ProgressMessage, CompleteMessage
  <2> DEFINE next == Advance(run, d, end)
             done == end = Buckets
             left == IF done THEN None ELSE next
             c    == ChunkMessage(d, end)
             p    == ProgressMessage(d, end)
             f    == CompleteMessage(d, end)
             rest == IF done THEN <<f>> ELSE <<>>
  <2>3. end \in (s.to + 1)..Buckets BY <1>1, <2>1, <2>2, GridEndAhead
  <2>4. next \in DayRuns /\ next.now = end /\ end \in 0..Buckets BY <1>1, <2>3, AdvanceTyped
  <2>5. PICK kept \in MaybeCheckpoint(host, d, next, run.now) :
          host' = [host EXCEPT !.slot[d].run = left, !.slot[d].to = end,
                               !.slot[d].complete = done, !.slot[d].checkpoints = kept]
    BY <2>2
  <2>6. Send(<<c, p>> \o rest) BY <2>2
  <2>7. kept \in SUBSET Checkpoints BY <1>1, <2>4, <2>5, KeptTyped
  <2>8. left \in DayRuns \cup {None} /\ done \in BOOLEAN BY <2>4
  <2>9. ResultMessage(c) /\ c.run = host.run /\ c.rev = host.rev
    <3>1. Results(run, d, end) \in [run.now..(end - 1) -> Revs] BY <1>1, <2>4, ResultsOfTyped
    <3> QED BY <1>1, <2>1, <2>3, <3>1 DEF ResultMessage, ChunkMessage, HostRuns, DayRuns, Bucket
  <2>10. ResultMessage(p) /\ p.run = host.run /\ p.rev = host.rev
    <3>1. \A e \in Day : host.slot[e].to \in 0..Buckets BY <1>1 DEF HostRuns, Slots
    <3> QED BY <1>1, <2>4, <3>1 DEF ResultMessage, ProgressMessage, HostRuns
  <2>11. ResultMessage(f) /\ f.run = host.run /\ f.rev = host.rev
    BY <1>1, <2>4 DEF ResultMessage, CompleteMessage, HostRuns, DayRuns
  <2> HIDE DEF next, c, p, f, run
  <2>12. /\ HostWell(host') /\ SameRun /\ host'.traces = host.traces /\ host'.details = host.details
         /\ host'.slot[d].to = end /\ host'.slot[d].run = left
         /\ \A e \in Day \ {d} : host'.slot[e] = host.slot[e]
    <3>1. (left # None => left.now <= end) /\ left \in DayRuns \cup {None} /\ end \in 0..Buckets
      BY <2>4, <2>8
    <3>2. HostWell(host) /\ d \in Day BY <1>1
    <3>3. WritesSlot(d, end, left, kept) BY <2>5 DEF WritesSlot
    <3> HIDE DEF left, done, rest, s
    <3> QED BY <2>7, <3>1, <3>2, <3>3, SlotWritten
  <2>13. /\ Stamped /\ toMain'[Len(toMain) + 1] = c /\ toMain'[Len(toMain) + 2] = p
         /\ Len(toMain') \in {Len(toMain) + 2, Len(toMain) + 3}
         /\ Len(toMain') = Len(toMain) + 3 => done /\ toMain'[Len(toMain) + 3] = f
         /\ done => Len(toMain') = Len(toMain) + 3
    <3>1. IsSeq(toMain) /\ Len(toMain) \in Nat BY IsSeqLen DEF ChannelsTyped
    <3> DEFINE first == <<c, p>>
               ms    == first \o rest
    <3>2. IsSeq(first) /\ Len(first) = 2 /\ first[1] = c /\ first[2] = p BY ShortSeqs
    <3>3. IsSeq(rest) /\ Len(rest) = (IF done THEN 1 ELSE 0) /\ (done => rest[1] = f)
      <4> HIDE DEF done
      <4> QED BY ShortSeqs
    <3> HIDE DEF rest, first
    <3>4. /\ IsSeq(ms) /\ Len(ms) = 2 + Len(rest) /\ ms[1] = c /\ ms[2] = p
          /\ done => ms[3] = f
      <4>1. IsSeq(first) /\ IsSeq(rest) BY <3>2, <3>3
      <4>2. /\ IsSeq(ms) /\ Len(ms) = Len(first) + Len(rest)
            /\ \A i \in 1..Len(first) : ms[i] = first[i]
            /\ \A i \in 1..Len(rest) : ms[Len(first) + i] = rest[i]
        BY <4>1, Joins
      <4> HIDE DEF ms
      <4> QED BY <3>2, <3>3, <4>2
    <3>5. toMain' = toMain \o ms BY <2>6 DEF Send, rest, first
    <3> HIDE DEF ms
    <3>6. /\ IsSeq(toMain') /\ Len(toMain') = Len(toMain) + Len(ms)
          /\ \A i \in 1..Len(toMain) : toMain'[i] = toMain[i]
          /\ \A i \in 1..Len(ms) : toMain'[Len(toMain) + i] = ms[i]
      <4>1. IsSeq(toMain) /\ IsSeq(ms) BY <3>1, <3>4
      <4>2. /\ IsSeq(toMain \o ms) /\ Len(toMain \o ms) = Len(toMain) + Len(ms)
            /\ \A i \in 1..Len(toMain) : (toMain \o ms)[i] = toMain[i]
            /\ \A i \in 1..Len(ms) : (toMain \o ms)[Len(toMain) + i] = ms[i]
        BY <4>1, Joins
      <4> QED BY <3>5, <4>2
    <3>7. /\ toMain'[Len(toMain) + 1] = c /\ toMain'[Len(toMain) + 2] = p
          /\ Len(toMain') = Len(toMain) + (IF done THEN 3 ELSE 2)
          /\ done => toMain'[Len(toMain) + 3] = f
      BY <3>1, <3>3, <3>4, <3>6
    <3>8. ASSUME NEW i \in (Len(toMain) + 1)..Len(toMain')
          PROVE  ResultMessage(toMain'[i]) /\ toMain'[i].run = host'.run /\ toMain'[i].rev = host'.rev
      <4>1. toMain'[i] = c \/ toMain'[i] = p \/ (done /\ toMain'[i] = f) BY <3>1, <3>7
      <4> QED BY <2>9, <2>10, <2>11, <2>12, <4>1 DEF SameRun
    <3>9. Extends(toMain', toMain) BY <3>1, <3>6, <3>7 DEF Extends
    <3> QED BY <3>1, <3>7, <3>8, <3>9 DEF Stamped
  <2>14. ChunkStep(d, end)
    BY <1>4, <2>1, <2>12, <2>13 DEF ChunkStep, Opens, run, c, p, f, next
  <2> QED BY <2>3, <2>12, <2>13, <2>14
<1> QED BY <1>2, <1>3, <1>4

LEMMA WorkCases ==
  ASSUME HostWell(host), Work
  PROVE  \/ \E job \in host.details : StepDetail(job)
         \/ \E d \in Day : ~host.slot[d].complete /\ StepDay(d)
         \/ \E t \in host.traces : StepTrace(t)
         \/ \E d \in Day : StepDensify(d)
<1> DEFINE open == {d \in Day : ~host.slot[d].complete}
           owed == {t.day : t \in host.traces}
           f    == host.focus[1]
           goal == \/ \E job \in host.details : StepDetail(job)
                   \/ \E d \in Day : ~host.slot[d].complete /\ StepDay(d)
                   \/ \E t \in host.traces : StepTrace(t)
                   \/ \E d \in Day : StepDensify(d)
<1>1. f \in Day BY DEF HostWell, HostRuns
<1>2. CASE host.details # {}
  <2>1. \E job \in FirstAsked : StepDetail(job) BY <1>2 DEF Work
  <2> QED BY <2>1 DEF FirstAsked
<1>3. CASE host.details = {} /\ f \in open
  <2>1. StepDay(f) BY <1>3 DEF Work
  <2> QED BY <2>1, <1>1, <1>3
<1>4. CASE host.details = {} /\ f \notin open /\ host.prefetch \in open
  <2>1. StepDay(host.prefetch) BY <1>4 DEF Work
  <2> QED BY <2>1, <1>4
<1>5. CASE host.details = {} /\ f \notin open /\ host.prefetch \notin open
  <2>1. CASE f \in owed
    <3>1. \E t \in host.traces : t.day = f /\ StepTrace(t) BY <1>5, <2>1 DEF Work
    <3> QED BY <3>1
  <2>2. CASE f \notin owed /\ NeedsDensify(f)
    <3>1. StepDensify(f) BY <1>5, <2>2 DEF Work
    <3> QED BY <3>1, <1>1
  <2>3. CASE f \notin owed /\ ~NeedsDensify(f) /\ open # {}
    <3>1. \E d \in First(open) : StepDay(d) BY <1>5, <2>3 DEF Work
    <3> QED BY <3>1 DEF First
  <2>4. CASE f \notin owed /\ ~NeedsDensify(f) /\ open = {}
    <3>1. \E d \in First(owed) : \E t \in host.traces : t.day = d /\ StepTrace(t)
      BY <1>5, <2>4 DEF Work
    <3> QED BY <3>1
  <2> QED BY <2>1, <2>2, <2>3, <2>4
<1> QED BY <1>2, <1>3, <1>4, <1>5

-----------------------------------------------------------------------------
(* What the messages from the main thread do to the host.                    *)

LEMMA StartDoes ==
  ASSUME ChannelsTyped, NEW m, InboxMessage(m), Start(m)
  PROVE  /\ HostWell(host') /\ host'.run = m.run /\ host'.rev = 0 /\ host'.patches = {}
         /\ host'.tracked = Initial /\ host'.focus = m.at /\ ~host'.failed /\ host'.traces = {}
         /\ \A d \in Day : host'.slot[d].to = 0 /\ host'.slot[d].run = None
         /\ Stamped /\ Len(toMain') = Len(toMain) + 1
         /\ toMain'[Len(toMain) + 1].type = "ready"
<1> DEFINE r == [type |-> "ready", run |-> m.run, rev |-> 0, analyst |-> Initial]
           slot == [d \in Day |-> NewSlot]
<1>1. m.run \in Nat /\ m.at \in Day \X Bucket /\ Buckets \in Nat \ {0} /\ Initial \in Analyst
      /\ 0 \in Revision
  BY ProtocolAssumption DEF Start, InboxMessage, Starts, Revision
<1>2. slot \in [Day -> Slots]
      /\ \A d \in Day : slot[d].to = 0 /\ slot[d].run = None /\ ~slot[d].complete
  BY <1>1 DEF NewSlot, Slots
<1>3. host' = [run |-> m.run, rev |-> 0, patches |-> {}, tracked |-> Initial, focus |-> m.at,
               prefetch |-> None, slot |-> slot, details |-> {}, traces |-> {}, cache |-> None,
               failed |-> FALSE]
  BY DEF Start, NewRun
<1> HIDE DEF slot
<1>4. host' \in HostRuns BY <1>1, <1>2, <1>3 DEF HostRuns
<1>5. HostWell(host') BY <1>1, <1>2, <1>3, <1>4, FS_EmptySet DEF HostWell, SlotBounded, NewSlot
<1>6. ResultMessage(r) /\ r.run = host'.run /\ r.rev = host'.rev
  BY <1>1, <1>3 DEF ResultMessage
<1>7. Send(<<r>>) BY DEF Start
<1>8. r.type = "ready" OBVIOUS
<1> HIDE DEF r
<1> QED BY <1>2, <1>3, <1>5, <1>6, <1>7, <1>8, OneSent

LEMMA FocusDoes ==
  ASSUME ChannelsTyped, HostWell(host), NEW m, InboxMessage(m), Focus(m)
  PROVE  /\ HostWell(host') /\ SameStreams /\ UNCHANGED toMain
         /\ host'.run = host.run /\ host'.rev = host.rev /\ host'.patches = host.patches
         /\ host'.tracked = host.tracked /\ host'.failed = host.failed /\ host'.traces = host.traces
         /\ host'.details = host.details
         /\ host'.focus = IF m.prefetch THEN host.focus ELSE m.at
<1>1. m.at \in Day \X Bucket /\ host \in HostRuns BY DEF Focus, InboxMessage, HostWell
<1>2. CASE m.prefetch
  <2> DEFINE day == IF m.at[1] = host.focus[1] THEN None ELSE m.at[1]
  <2>1. host' = [host EXCEPT !.prefetch = day] /\ UNCHANGED toMain BY <1>2 DEF Focus
  <2>2. day \in Day \cup {None} BY <1>1
  <2> HIDE DEF day
  <2> QED BY <1>1, <1>2, <2>1, <2>2 DEF HostWell, HostRuns, SameStreams
<1>3. CASE ~m.prefetch
  <2>1. host' \in Refocused(host, m.at) /\ UNCHANGED toMain BY <1>3 DEF Focus
  <2> QED BY <1>1, <1>3, <2>1, RefocusTyped DEF HostWell, SameStreams, SlotBounded
<1> QED BY <1>2, <1>3

LEMMA WindowTyped ==
  ASSUME NEW w \in Window
  PROVE  w[1] \in Day /\ w[2] \in Bucket /\ WindowEnd(w) \in 0..Buckets
<1>1. w[1] \in Day /\ w[2] \in Bucket BY DEF Window
<1> QED BY <1>1, ProtocolAssumption DEF WindowEnd, Bucket

(* The job a request for a window makes. *)
JobOf(m) == [tag |-> m.tag, day |-> m.window[1], from |-> m.window[2],
             to |-> WindowEnd(m.window), run |-> None, results |-> NoResults]

LEMMA RequestDoes ==
  ASSUME ChannelsTyped, HostWell(host), NEW m, InboxMessage(m), RequestDetail(m)
  PROVE  HostWell(host') /\ SameRun /\ SameStreams /\ UNCHANGED toMain
         /\ host'.failed = host.failed /\ host'.traces = host.traces
         /\ host'.details = host.details \cup {JobOf(m)}
<1> DEFINE job == JobOf(m)
<1>1. m.window \in Window /\ m.tag \in Nat /\ host \in HostRuns
  BY DEF RequestDetail, InboxMessage, HostWell
<1>2. job \in DetailJobs BY <1>1, WindowTyped, NoResultsTyped DEF DetailJobs, JobOf
<1>3. host' = [host EXCEPT !.details = @ \cup {job}] /\ UNCHANGED toMain BY DEF RequestDetail, JobOf
<1> HIDE DEF job
<1>4. IsFiniteSet(host.details \cup {job}) BY FS_AddElement DEF HostWell
<1>5. /\ HostWell(host') /\ SameRun /\ SameStreams /\ UNCHANGED toMain
      /\ host'.failed = host.failed /\ host'.traces = host.traces
      /\ host'.details = host.details \cup {job}
  BY <1>1, <1>2, <1>3, <1>4 DEF HostWell, HostRuns, SameRun, SameStreams
<1> QED BY <1>5 DEF job

LEMMA RebindTyped ==
  ASSUME NEW run \in DayRuns \cup {None}, NEW P \in SUBSET Patch, NEW a \in Analyst
  PROVE  /\ Rebind(run, P, a) \in DayRuns \cup {None}
         /\ run # None => /\ Rebind(run, P, a).now = run.now
                          /\ Rebind(run, P, a).applied = run.applied
                          /\ Rebind(run, P, a).patches = P
         /\ run = None => Rebind(run, P, a) = None
<1> QED BY DEF Rebind, Restore, DayRuns

(* The trace of a new analyst that is owed for what is already streamed. *)
TraceOwed(d, a) == [day |-> d, analyst |-> a, to |-> host.slot[d].to, run |-> None,
                    results |-> NoResults]

LEMMA TrackDoes ==
  ASSUME ChannelsTyped, HostWell(host), NEW m, InboxMessage(m), Track(m)
  PROVE  /\ HostWell(host') /\ UNCHANGED toMain
         /\ host'.run = host.run /\ host'.rev = host.rev /\ host'.patches = host.patches
         /\ host'.tracked = m.analyst /\ host'.failed = host.failed /\ host'.focus = host.focus
         /\ host'.traces = host.traces \/ \A t \in host'.traces : t.run = None
         /\ \A d \in Day : /\ host'.slot[d].to = host.slot[d].to
                           /\ host'.slot[d].run \in {host.slot[d].run,
                                                     Rebind(host.slot[d].run, host.patches, m.analyst)}
         /\ host'.details = host.details
         /\ m.analyst = host.tracked => host' = host
         /\ m.analyst # host.tracked =>
              /\ host'.traces = {TraceOwed(d, m.analyst) : d \in {e \in Day : host.slot[e].to > 0}}
              /\ \A d \in Day : host'.slot[d].run = Rebind(host.slot[d].run, host.patches, m.analyst)
<1>1. m.analyst \in Analyst /\ host \in HostRuns BY DEF Track, InboxMessage, HostWell
<1>2. UNCHANGED toMain BY DEF Track
<1>3. CASE m.analyst = host.tracked BY <1>1, <1>2, <1>3 DEF Track
<1>4. CASE m.analyst # host.tracked
  <2> DEFINE trace(d) == TraceOwed(d, m.analyst)
             traces == {trace(d) : d \in {e \in Day : host.slot[e].to > 0}}
             slot == [d \in Day |-> [host.slot[d] EXCEPT !.run = Rebind(@, host.patches, m.analyst)]]
  <2>1. host' = [host EXCEPT !.tracked = m.analyst, !.cache = None, !.traces = traces, !.slot = slot]
    BY <1>1, <1>4 DEF Track, HostRuns, TraceOwed
  <2>2. \A d \in Day : host.slot[d] \in Slots /\ host.slot[d].to \in 0..Buckets BY <1>1 DEF HostRuns, Slots
  <2>3. traces \in SUBSET TraceJobs
    BY <1>1, <2>2, NoResultsTyped, ProtocolAssumption DEF TraceJobs, TraceOwed
  <2>4. \A t \in traces : t.run = None BY DEF TraceOwed
  <2>5. ASSUME NEW d \in Day
        PROVE  slot[d] \in Slots /\ slot[d].to = host.slot[d].to
               /\ slot[d].complete = host.slot[d].complete
               /\ slot[d].run = Rebind(host.slot[d].run, host.patches, m.analyst)
               /\ (slot[d].run # None => host.slot[d].run # None /\ slot[d].run.now = host.slot[d].run.now)
    <3> DEFINE old == host.slot[d]
               run == Rebind(old.run, host.patches, m.analyst)
    <3>1. old \in Slots /\ old.run \in DayRuns \cup {None} /\ host.patches \in SUBSET Patch
      BY <1>1, <2>2 DEF Slots, HostRuns
    <3>2. run \in DayRuns \cup {None} /\ (old.run # None => run.now = old.run.now)
          /\ (old.run = None => run = None)
      BY <1>1, <3>1, RebindTyped
    <3>3. slot[d] = [old EXCEPT !.run = run] OBVIOUS
    <3> HIDE DEF old, run, slot
    <3>4. slot[d] \in Slots /\ slot[d].to = old.to /\ slot[d].run = run /\ slot[d].complete = old.complete
      BY <3>1, <3>2, <3>3 DEF Slots
    <3> QED BY <3>2, <3>4 DEF old, run
  <2>6. slot \in [Day -> Slots] BY <2>5
  <2> HIDE DEF traces, slot
  <2>7. host' \in HostRuns /\ host'.slot = slot /\ host'.details = host.details /\ host'.traces = traces
    BY <1>1, <2>1, <2>3, <2>6 DEF HostRuns
  <2>8. /\ host'.run = host.run /\ host'.rev = host.rev /\ host'.patches = host.patches
        /\ host'.tracked = m.analyst /\ host'.failed = host.failed /\ host'.focus = host.focus
    BY <1>1, <2>1 DEF HostRuns
  <2>9. HostWell(host') BY <2>5, <2>7 DEF HostWell, SlotBounded
  <2>10. traces = {TraceOwed(d, m.analyst) : d \in {e \in Day : host.slot[e].to > 0}} BY DEF traces
  <2> QED BY <1>2, <1>4, <2>4, <2>5, <2>7, <2>8, <2>9, <2>10
<1> QED BY <1>3, <1>4

LEMMA CutSlotTyped ==
  ASSUME NEW h, h.patches \in SUBSET Patch, h.tracked \in Analyst,
         NEW s \in Slots, NEW cut \in Bucket
  PROVE  /\ CutSlot(h, s, cut) \in Slots /\ SlotBounded(CutSlot(h, s, cut))
         /\ CutSlot(h, s, cut).to = (IF s.to < cut THEN s.to ELSE cut)
         /\ CutSlot(h, s, cut).run = IF s.run # None /\ s.run.now <= CutSlot(h, s, cut).to
                                     THEN Rebind(s.run, h.patches, h.tracked) ELSE None
<1> DEFINE to  == IF s.to < cut THEN s.to ELSE cut
           run == IF s.run # None /\ s.run.now <= to THEN Rebind(s.run, h.patches, h.tracked) ELSE None
           old == {c \in s.checkpoints : c.now <= cut}
<1>1. Buckets \in Nat /\ cut \in 0..(Buckets - 1) BY ProtocolAssumption DEF Bucket
<1>2. to \in 0..(Buckets - 1) BY <1>1 DEF Slots
<1>3. run \in DayRuns \cup {None} /\ (run # None => run.now <= to)
  BY RebindTyped DEF Slots
<1>4. old \in SUBSET Checkpoints BY DEF Slots
<1>5. CutSlot(h, s, cut) = [s EXCEPT !.checkpoints = old, !.run = run, !.densifyRun = None,
                                     !.to = to, !.complete = FALSE]
  BY DEF CutSlot, Slots
<1>6. to \in 0..Buckets /\ to # Buckets BY <1>1, <1>2
<1> HIDE DEF run, old
<1>7. /\ CutSlot(h, s, cut) \in Slots /\ ~CutSlot(h, s, cut).complete
      /\ CutSlot(h, s, cut).to = to /\ CutSlot(h, s, cut).run = run
  <2> HIDE DEF to
  <2> QED BY <1>3, <1>4, <1>5, <1>6 DEF Slots
<1> QED BY <1>3, <1>6, <1>7 DEF SlotBounded, run

LEMMA CutTracesTyped ==
  ASSUME NEW traces \in SUBSET TraceJobs, NEW p \in Patch
  PROVE  CutTraces(traces, p) \in SUBSET TraceJobs
<1> SUFFICES ASSUME NEW t \in CutTraces(traces, p) PROVE t \in TraceJobs
  OBVIOUS
<1>1. PICK u \in traces : t = (IF u.day = p.day /\ p.at < u.to THEN [u EXCEPT !.to = p.at] ELSE u)
  BY DEF CutTraces
<1>2. t.to > 0 BY DEF CutTraces
<1>3. u \in TraceJobs /\ p.at \in Bucket /\ Buckets \in Nat BY ProtocolAssumption DEF Patch
<1>4. CASE t = u BY <1>3, <1>4
<1>5. CASE t = [u EXCEPT !.to = p.at]
  <2>1. t.to = p.at BY <1>3, <1>5 DEF TraceJobs
  <2>2. p.at \in 1..Buckets BY <1>2, <1>3, <2>1 DEF Bucket
  <2> QED BY <1>3, <1>5, <2>2 DEF TraceJobs
<1> QED BY <1>1, <1>4, <1>5

(* The empty answers to the details a fork invalidates. *)
LEMMA AnswersSent ==
  ASSUME ChannelsTyped, NEW h, h.run \in Nat, h.rev \in Revision,
         h.run = host'.run, h.rev = host'.rev,
         NEW gone \in SUBSET DetailJobs, IsFiniteSet(gone), NEW q \in InTurn(gone),
         Send([i \in DOMAIN q |-> Detail(h, q[i], NoResults)])
  PROVE  /\ Stamped /\ Sends({"detail"})
         /\ \A i \in (Len(toMain) + 1)..Len(toMain') :
              \E j \in gone : toMain'[i] = Detail(h, j, NoResults)
<1> DEFINE n  == Cardinality(gone)
           ms == [i \in DOMAIN q |-> Detail(h, q[i], NoResults)]
<1>1. n \in Nat BY FS_CardinalityType
<1>2. q \in [1..n -> gone] BY DEF InTurn
<1>3. ms = [i \in 1..n |-> Detail(h, q[i], NoResults)] BY <1>2
<1>4. ms \in Seq({ms[i] : i \in 1..n}) /\ Len(ms) = n BY <1>1, <1>3
<1>5. IsSeq(ms) BY <1>4, Narrowed
<1>6. \A i \in 1..Len(ms) : ms[i] = Detail(h, q[i], NoResults) BY <1>3, <1>4
<1>7. toMain' = toMain \o ms BY DEF Send
<1>8. IsSeq(toMain) /\ Len(toMain) \in Nat BY IsSeqLen DEF ChannelsTyped
<1> HIDE DEF ms, n
<1>9. /\ IsSeq(toMain') /\ Len(toMain') = Len(toMain) + Len(ms)
      /\ \A i \in 1..Len(toMain) : toMain'[i] = toMain[i]
      /\ \A i \in 1..Len(ms) : toMain'[Len(toMain) + i] = ms[i]
  BY <1>5, <1>7, <1>8, Joins
<1>10. Len(ms) \in Nat BY <1>1, <1>4
<1>11. ASSUME NEW i \in (Len(toMain) + 1)..Len(toMain')
       PROVE  /\ ResultMessage(toMain'[i]) /\ toMain'[i].run = host'.run
              /\ toMain'[i].rev = host'.rev /\ toMain'[i].type = "detail"
              /\ \E j \in gone : toMain'[i] = Detail(h, j, NoResults)
  <2>1. i - Len(toMain) \in 1..Len(ms) /\ i = Len(toMain) + (i - Len(toMain)) BY <1>8, <1>9, <1>10
  <2>2. toMain'[i] = Detail(h, q[i - Len(toMain)], NoResults) BY <1>6, <1>9, <2>1
  <2>3. q[i - Len(toMain)] \in gone /\ q[i - Len(toMain)] \in DetailJobs BY <1>1, <1>2, <1>4, <2>1
  <2>4. q[i - Len(toMain)].day \in Day BY <2>3 DEF DetailJobs
  <2> QED BY <2>2, <2>3, <2>4, NoResultsTyped DEF Detail, ResultMessage
<1> QED BY <1>8, <1>9, <1>10, <1>11 DEF Stamped, Extends, Sends

(* A fork the host has not seen yet: its day streams again from the cut, and *)
(* a lasting one lets the later days start over.                             *)
CutTo(p, d) ==
  IF d = p.day THEN IF host.slot[d].to < p.at THEN host.slot[d].to ELSE p.at
  ELSE IF p.lasting /\ d > p.day THEN 0 ELSE host.slot[d].to
CutRun(p, d) ==
  IF d = p.day
  THEN IF host.slot[d].run # None /\ host.slot[d].run.now <= CutTo(p, d)
       THEN Rebind(host.slot[d].run, host.patches \cup {p}, host.tracked) ELSE None
  ELSE IF p.lasting /\ d > p.day THEN None ELSE host.slot[d].run

LEMMA ForkDoes ==
  ASSUME ChannelsTyped, HostWell(host), NEW m, InboxMessage(m), Fork(m), m.patch.rev > host.rev
  PROVE  /\ HostWell(host')
         /\ host'.run = host.run /\ host'.rev = m.patch.rev
         /\ host'.patches = host.patches \cup {m.patch}
         /\ host'.tracked = host.tracked /\ host'.failed = host.failed
         /\ host'.focus = <<m.patch.day, m.patch.at>>
         /\ host'.traces = CutTraces(host.traces, m.patch)
         /\ \A d \in Day : /\ host'.slot[d].to = CutTo(m.patch, d)
                           /\ host'.slot[d].run = CutRun(m.patch, d)
         /\ Stamped /\ Sends({"detail"})
         /\ host'.details = {j \in host.details : ~Outdates(m.patch, j)}
         /\ \A i \in (Len(toMain) + 1)..Len(toMain') :
              \E j \in host.details : Outdates(m.patch, j) /\ toMain'[i].tag = j.tag
<1> DEFINE p       == m.patch
           patches == host.patches \cup {p}
           details == {j \in host.details : ~Outdates(p, j)}
           traces  == CutTraces(host.traces, p)
           h       == [host EXCEPT !.rev = p.rev, !.patches = patches, !.cache = None,
                                   !.details = details, !.traces = traces]
           slot    == [d \in Day |->
                        IF d = p.day THEN CutSlot(h, h.slot[d], p.at)
                        ELSE IF p.lasting /\ d > p.day THEN NewSlot ELSE h.slot[d]]
           cut     == [h EXCEPT !.slot = slot]
           gone    == {j \in host.details : Outdates(p, j)}
<1>1. /\ host \in HostRuns /\ p \in Patch /\ IsFiniteSet(host.details)
      /\ \A d \in Day : SlotBounded(host.slot[d])
  BY DEF HostWell, Fork, InboxMessage
<1>2. host' \in Refocused(cut, <<p.day, p.at>>)
      /\ \E q \in InTurn(gone) : Send([i \in DOMAIN q |-> Detail(h, q[i], NoResults)])
  BY DEF Fork
<1>3. patches \in SUBSET Patch /\ details \in SUBSET DetailJobs /\ IsFiniteSet(details)
      /\ IsFiniteSet(gone) /\ gone \in SUBSET DetailJobs
  BY <1>1, FS_Subset DEF HostRuns
<1>4. traces \in SUBSET TraceJobs BY <1>1, CutTracesTyped DEF HostRuns
<1>5. p.rev \in Revision /\ p.day \in Day /\ p.at \in Bucket /\ Buckets \in Nat
      /\ <<p.day, p.at>> \in Day \X Bucket
  BY <1>1, ProtocolAssumption DEF Patch, Revision
<1> HIDE DEF p, patches, details, traces
<1>6. /\ h.run = host.run /\ h.rev = p.rev /\ h.patches = patches /\ h.tracked = host.tracked
      /\ h.details = details /\ h.traces = traces /\ h.failed = host.failed /\ h.slot = host.slot
      /\ h \in HostRuns
  BY <1>1, <1>3, <1>4, <1>5 DEF HostRuns
<1> HIDE DEF h
<1>7. ASSUME NEW d \in Day
      PROVE  /\ slot[d] \in Slots /\ SlotBounded(slot[d])
             /\ slot[d].to = CutTo(p, d) /\ slot[d].run = CutRun(p, d)
  <2>1. host.slot[d] \in Slots /\ SlotBounded(host.slot[d]) BY <1>1 DEF HostRuns
  <2>2. CASE d = p.day
    <3>1. slot[d] = CutSlot(h, host.slot[d], p.at) BY <1>6, <2>2
    <3>2. h.patches \in SUBSET Patch /\ h.tracked \in Analyst BY <1>6 DEF HostRuns
    <3> HIDE DEF slot
    <3>3. /\ slot[d] \in Slots /\ SlotBounded(slot[d])
          /\ slot[d].to = CutTo(p, d)
          /\ slot[d].run = IF host.slot[d].run # None /\ host.slot[d].run.now <= slot[d].to
                           THEN Rebind(host.slot[d].run, h.patches, h.tracked) ELSE None
      BY <1>5, <2>1, <2>2, <3>1, <3>2, CutSlotTyped DEF CutTo
    <3> QED BY <1>6, <2>2, <3>3 DEF CutRun, patches
  <2>3. CASE d # p.day /\ p.lasting /\ d > p.day
    <3>1. slot[d] = NewSlot BY <2>3
    <3>2. NewSlot \in Slots /\ SlotBounded(NewSlot) /\ NewSlot.to = 0 /\ NewSlot.run = None
      BY ProtocolAssumption DEF NewSlot, Slots, SlotBounded
    <3> QED BY <2>3, <3>1, <3>2 DEF CutTo, CutRun
  <2>4. CASE d # p.day /\ ~(p.lasting /\ d > p.day)
    <3>1. slot[d] = host.slot[d] BY <1>6, <2>4
    <3> QED BY <2>1, <2>4, <3>1 DEF CutTo, CutRun
  <2> QED BY <2>2, <2>3, <2>4
<1>8. slot \in [Day -> Slots] BY <1>7
<1> HIDE DEF slot, gone
<1>9. /\ cut \in HostRuns /\ cut.slot = slot /\ cut.run = host.run /\ cut.rev = p.rev
      /\ cut.patches = patches /\ cut.tracked = host.tracked /\ cut.failed = host.failed
      /\ cut.traces = traces /\ cut.details = details
  BY <1>6, <1>8 DEF HostRuns
<1> HIDE DEF cut
<1>10. /\ host' \in HostRuns /\ host'.run = host.run /\ host'.rev = p.rev /\ host'.patches = patches
       /\ host'.tracked = host.tracked /\ host'.failed = host.failed /\ host'.focus = <<p.day, p.at>>
       /\ host'.traces = traces /\ host'.details = details
       /\ \A d \in Day : /\ host'.slot[d].to = slot[d].to /\ host'.slot[d].run = slot[d].run
                         /\ host'.slot[d].complete = slot[d].complete
  BY <1>2, <1>5, <1>9, RefocusTyped
<1>11. HostWell(host') BY <1>3, <1>7, <1>10 DEF HostWell, SlotBounded
<1>12. PICK q \in InTurn(gone) : Send([i \in DOMAIN q |-> Detail(h, q[i], NoResults)]) BY <1>2
<1>13. h.run \in Nat /\ h.rev \in Revision /\ h.run = host'.run /\ h.rev = host'.rev
  BY <1>6, <1>10 DEF HostRuns
<1>14. /\ Stamped /\ Sends({"detail"})
       /\ \A i \in (Len(toMain) + 1)..Len(toMain') :
            \E j \in gone : toMain'[i] = Detail(h, j, NoResults)
  BY <1>3, <1>12, <1>13, AnswersSent
<1>15. ASSUME NEW i \in (Len(toMain) + 1)..Len(toMain')
       PROVE  \E j \in host.details : Outdates(p, j) /\ toMain'[i].tag = j.tag
  <2>1. PICK j \in gone : toMain'[i] = Detail(h, j, NoResults) BY <1>14
  <2> QED BY <2>1 DEF gone, Detail
<1> QED BY <1>7, <1>10, <1>11, <1>14, <1>15 DEF p, patches, traces, details

-----------------------------------------------------------------------------
(* What the main thread does.                                                *)

LEMMA PostTyped ==
  ASSUME ChannelsTyped, NEW m, InboxMessage(m), Post(m), UNCHANGED toMain
  PROVE  /\ ChannelsTyped' /\ Len(toWorker') = Len(toWorker) + 1
         /\ \A i \in 1..Len(toWorker) : toWorker'[i] = toWorker[i]
         /\ toWorker'[Len(toWorker) + 1] = m
<1>1. IsSeq(toWorker) /\ Len(toWorker) \in Nat BY IsSeqLen DEF ChannelsTyped
<1>2. toWorker' = Append(toWorker, m) BY DEF Post
<1>3. /\ IsSeq(toWorker') /\ Len(toWorker') = Len(toWorker) + 1
      /\ \A i \in 1..Len(toWorker) : toWorker'[i] = toWorker[i]
      /\ toWorker'[Len(toWorker) + 1] = m
  <2>1. IsSeq(toWorker) BY <1>1
  <2>2. /\ IsSeq(Append(toWorker, m)) /\ Len(Append(toWorker, m)) = Len(toWorker) + 1
        /\ \A i \in 1..Len(toWorker) : Append(toWorker, m)[i] = toWorker[i]
        /\ Append(toWorker, m)[Len(toWorker) + 1] = m
    BY <2>1, Appended
  <2> QED BY <1>2, <2>2
<1>4. \A i \in 1..Len(toWorker') : InboxMessage(toWorker'[i])
  BY <1>1, <1>3 DEF ChannelsTyped
<1>5. IsSeq(toMain') /\ \A i \in 1..Len(toMain') : ResultMessage(toMain'[i])
  <2>1. toMain' = toMain OBVIOUS
  <2> QED BY <2>1 DEF ChannelsTyped, IsSeq, ResultMessage
<1> QED BY <1>3, <1>4, <1>5 DEF ChannelsTyped, IsSeq, InboxMessage, Starts

LEMMA UsesTyped ==
  ASSUME UsedTyped, NEW what \in {"forks", "resets", "seeks", "tracks", "details"}, NEW limit,
         Uses(what, limit)
  PROVE  UsedTyped' /\ used'["details"] = used["details"] + IF what = "details" THEN 1 ELSE 0
<1> QED BY DEF UsedTyped, Uses

(* What the cuts keep of some results is some results. *)
LEMMA KeptResults ==
  ASSUME NEW P, NEW d, NEW f \in ResultSets
  PROVE  /\ Kept(P, d, f) \in ResultSets
         /\ DOMAIN Kept(P, d, f) = {b \in DOMAIN f : ~Gone(P, d, b)}
         /\ \A b \in DOMAIN Kept(P, d, f) : Kept(P, d, f)[b] = f[b]
<1>1. PICK A \in SUBSET Bucket : f \in [A -> Revs] BY DEF ResultSets
<1>2. {b \in DOMAIN f : ~Gone(P, d, b)} \in SUBSET Bucket BY <1>1
<1>3. Kept(P, d, f) \in [{b \in DOMAIN f : ~Gone(P, d, b)} -> Revs] BY <1>1 DEF Kept
<1> QED BY <1>2, <1>3 DEF Kept, ResultSets

LEMMA CutResultsTyped ==
  ASSUME NEW r, StoreWell(r), NEW P
  PROVE  /\ StoreWell(CutResults(r, P))
         /\ \A d \in Day, b \in Bucket :
              CutResults(r, P).main[<<d, b>>] = IF Gone(P, d, b) THEN None ELSE r.main[<<d, b>>]
<1> DEFINE keep(x, d) == IF x = None \/ Kept(P, d, x.results) = <<>> THEN None
                         ELSE [x EXCEPT !.results = Kept(P, d, @)]
           main  == [a \in Day \X Bucket |-> IF Gone(P, a[1], a[2]) THEN None ELSE r.main[a]]
           trace == [d \in Day |-> keep(r.trace[d], d)]
           rollup == [d \in Day |-> IF Gone(P, d, Buckets - 1) THEN None ELSE r.rollup[d]]
           details == {keep(e, e.day) : e \in r.details} \ {None}
           c     == CutResults(r, P)
<1>1. c = [main |-> main, trace |-> trace, rollup |-> rollup, details |-> details]
  BY DEF CutResults
<1>2. DOMAIN c = {"main", "trace", "rollup", "details"} BY <1>1
<1>3. main \in [Day \X Bucket -> Shown \cup {None}] BY DEF StoreWell
<1>4. ASSUME NEW d \in Day, trace[d] # None
      PROVE  trace[d] = [analyst |-> trace[d].analyst, results |-> trace[d].results]
  <2> DEFINE x == r.trace[d]
             k == Kept(P, d, x.results)
  <2>1. x # None /\ x = [analyst |-> x.analyst, results |-> x.results]
        /\ trace[d] = [x EXCEPT !.results = k]
    BY <1>4 DEF StoreWell
  <2> HIDE DEF x, k, trace
  <2>2. trace[d] = [analyst |-> x.analyst, results |-> k] BY <2>1
  <2> QED BY <2>2
<1>5. c.trace = trace /\ c.main = main /\ c.rollup = rollup /\ c.details = details BY <1>1
<1>6. trace = [d \in Day |-> trace[d]] OBVIOUS
<1>7. rollup \in [Day -> Revs \cup {None}] BY DEF StoreWell
<1>10. details \in SUBSET ShownDetails
  <2> SUFFICES ASSUME NEW e \in r.details PROVE keep(e, e.day) \in ShownDetails \cup {None}
    OBVIOUS
  <2>1. e \in ShownDetails /\ e = [day |-> e.day, results |-> e.results] /\ e.day \in Day
        /\ e.results \in ResultSets
    BY DEF StoreWell, ShownDetails
  <2>2. Kept(P, e.day, e.results) \in ResultSets BY <2>1, KeptResults
  <2>3. [e EXCEPT !.results = Kept(P, e.day, @)] \in ShownDetails BY <2>1, <2>2 DEF ShownDetails
  <2> QED BY <2>3
<1>8. \A d \in Day, b \in Bucket : main[<<d, b>>] = IF Gone(P, d, b) THEN None ELSE r.main[<<d, b>>]
  OBVIOUS
<1> HIDE DEF main, trace, rollup, details, c
<1>9. StoreWell(c) BY <1>2, <1>3, <1>4, <1>5, <1>6, <1>7, <1>10 DEF StoreWell
<1> QED BY <1>5, <1>8, <1>9 DEF c

LEMMA NoDataTyped == StoreWell(NoData)
<1> QED BY DEF NoData, StoreWell

LEMMA AddChunkTyped ==
  ASSUME NEW r, StoreWell(r), NEW m, ResultMessage(m), m.type = "chunk"
  PROVE  /\ StoreWell(AddChunk(r, m))
         /\ \A d \in Day, b \in Bucket : AddChunk(r, m).main[<<d, b>>] =
              IF d = m.day /\ b \in m.from..(m.to - 1)
              THEN [deps |-> m.results[b], analyst |-> m.analyst] ELSE r.main[<<d, b>>]
         /\ AddChunk(r, m).trace = r.trace /\ AddChunk(r, m).rollup = r.rollup
<1> DEFINE main == [a \in Day \X Bucket |->
              IF a[1] = m.day /\ a[2] \in m.from..(m.to - 1)
              THEN [deps |-> m.results[a[2]], analyst |-> m.analyst] ELSE r.main[a]]
<1>1. m.analyst \in Analyst /\ m.results \in [m.from..(m.to - 1) -> Revs] BY DEF ResultMessage
<1>2. AddChunk(r, m) = [r EXCEPT !.main = main] BY DEF AddChunk
<1>3. ASSUME NEW a \in Day \X Bucket PROVE main[a] \in Shown \cup {None}
  <2>1. CASE a[1] = m.day /\ a[2] \in m.from..(m.to - 1)
    <3>1. m.results[a[2]] \in Revs BY <1>1, <2>1
    <3> QED BY <1>1, <2>1, <3>1 DEF Shown, Revs
  <2>2. CASE ~(a[1] = m.day /\ a[2] \in m.from..(m.to - 1))
    BY <2>2 DEF StoreWell
  <2> QED BY <2>1, <2>2
<1>4. \A d \in Day, b \in Bucket : main[<<d, b>>] =
        IF d = m.day /\ b \in m.from..(m.to - 1)
        THEN [deps |-> m.results[b], analyst |-> m.analyst] ELSE r.main[<<d, b>>]
  OBVIOUS
<1>5. main \in [Day \X Bucket -> Shown \cup {None}] BY <1>3
<1> HIDE DEF main
<1>6. AddChunk(r, m).main = main /\ StoreWell(AddChunk(r, m))
      /\ AddChunk(r, m).trace = r.trace /\ AddChunk(r, m).rollup = r.rollup
  BY <1>2, <1>5 DEF StoreWell
<1> QED BY <1>4, <1>6

LEMMA AddTraceTyped ==
  ASSUME NEW r, StoreWell(r), NEW m, ResultMessage(m), m.type = "trace"
  PROVE  /\ StoreWell(AddTrace(r, m)) /\ AddTrace(r, m).main = r.main
         /\ AddTrace(r, m).rollup = r.rollup /\ AddTrace(r, m).details = r.details
         /\ \A d \in Day : AddTrace(r, m).trace[d] =
              IF d = m.day THEN [analyst |-> m.analyst, results |-> m.results] ELSE r.trace[d]
<1> DEFINE x == [analyst |-> m.analyst, results |-> m.results]
           trace == [r.trace EXCEPT ![m.day] = x]
<1>1. m.day \in Day BY DEF ResultMessage
<1>2. AddTrace(r, m) = [r EXCEPT !.trace = trace] BY DEF AddTrace
<1>3. x = [analyst |-> x.analyst, results |-> x.results] OBVIOUS
<1> HIDE DEF x
<1>4. /\ trace = [d \in Day |-> trace[d]]
      /\ \A d \in Day : trace[d] = IF d = m.day THEN x ELSE r.trace[d]
  BY <1>1 DEF StoreWell
<1>5. \A d \in Day : trace[d] # None =>
        trace[d] = [analyst |-> trace[d].analyst, results |-> trace[d].results]
  BY <1>3, <1>4 DEF StoreWell
<1> HIDE DEF trace
<1>6. /\ AddTrace(r, m).trace = trace /\ AddTrace(r, m).main = r.main
      /\ AddTrace(r, m).rollup = r.rollup /\ AddTrace(r, m).details = r.details
      /\ DOMAIN AddTrace(r, m) = {"main", "trace", "rollup", "details"}
  BY <1>2 DEF StoreWell
<1>7. StoreWell(AddTrace(r, m)) BY <1>4, <1>5, <1>6 DEF StoreWell
<1> QED BY <1>4, <1>6, <1>7 DEF x

LEMMA AddDetailTyped ==
  ASSUME NEW r, StoreWell(r), NEW m, ResultMessage(m), m.type = "detail"
  PROVE  /\ StoreWell(AddDetail(r, m)) /\ AddDetail(r, m).main = r.main
         /\ AddDetail(r, m).trace = r.trace /\ AddDetail(r, m).rollup = r.rollup
         /\ AddDetail(r, m).details = IF m.results = <<>> THEN r.details
              ELSE r.details \cup {[day |-> m.day, results |-> m.results]}
<1>1. [day |-> m.day, results |-> m.results] \in ShownDetails BY DEF ResultMessage, ShownDetails
<1> QED BY <1>1 DEF AddDetail, StoreWell

LEMMA AcceptTyped ==
  ASSUME ResultsTyped, NEW m, NEW from, NEW to, NEW added, StoreWell(added),
         Accept(m, from, to, added)
  PROVE  ResultsTyped'
<1>1. StoreWell(CutResults(added, Recuts(m, to))) BY CutResultsTyped
<1> QED BY <1>1 DEF Accept, ResultsTyped, StoreWell

(* What a step of the main thread's own accord leaves as it is. *)
LEMMA ForkByUser ==
  ASSUME PlaybackTyped, NEW d \in Day, NEW at \in Bucket, NEW lasting \in BOOLEAN,
         UserFork(d, at, lasting)
  PROVE  LET p == [rev |-> client.rev + 1, day |-> d, at |-> at, lasting |-> lasting]
             m == [type |-> "fork", run |-> client.run, patch |-> p]
         IN  /\ p \in Patch /\ InboxMessage(m) /\ Post(m) /\ UNCHANGED toMain
             /\ ClientTyped' /\ UsedTyped' /\ ResultsTyped'
             /\ client'.run = client.run /\ client'.rev = client.rev + 1
             /\ client'.cuts = client.cuts \cup {p}
             /\ client'.computed = [e \in Day |-> CutComputed(p, e)]
             /\ client'.tracked = client.tracked /\ client'.userTracked = client.userTracked
             /\ client'.focusDay = d
             /\ client'.received = {w \in client.received : ~((w[1] = d /\ WindowEnd(w) > at)
                                                            \/ (lasting /\ w[1] > d))}
             /\ client'.pending = {} /\ used'["details"] = used["details"]
             /\ results' = CutResults(results, {p})
<1> DEFINE p == [rev |-> client.rev + 1, day |-> d, at |-> at, lasting |-> lasting]
           m == [type |-> "fork", run |-> client.run, patch |-> p]
           computed == [e \in Day |-> CutComputed(p, e)]
           received == {w \in client.received : ~((w[1] = d /\ WindowEnd(w) > at) \/ (lasting /\ w[1] > d))}
<1>1. client.rev + 1 <= MaxForks /\ client.rev \in 0..MaxForks /\ client.run \in Nat /\ MaxForks \in Nat
  BY ProtocolAssumption DEF UserFork, PlaybackTyped, ClientTyped, Revision
<1>2. p \in Patch /\ p.rev = client.rev + 1 /\ p.day = d /\ p.at = at BY <1>1 DEF Patch
<1>3. client' = [client EXCEPT !.rev = p.rev, !.cuts = @ \cup {p}, !.computed = computed,
                   !.received = received, !.pending = {}, !.focusDay = d, !.prefetchDay = None]
  BY DEF UserFork, FocusAfterFork
<1>4. /\ Post(m) /\ UNCHANGED toMain /\ Uses("forks", MaxForks)
      /\ results' = CutResults(results, {p})
  BY DEF UserFork
<1>5. computed \in [Day -> 0..Buckets]
  BY <1>2, ProtocolAssumption DEF CutComputed, PlaybackTyped, ClientTyped, Bucket
<1>6. received \in SUBSET Window BY DEF PlaybackTyped, ClientTyped
<1>7. InboxMessage(m) BY <1>1, <1>2 DEF InboxMessage, Starts
<1> HIDE DEF computed, received, p, m
<1>8. p.rev \in Revision BY <1>1, <1>2 DEF Revision
<1>9. client' \in [run : Nat, rev : Revision, cuts : SUBSET Patch, computed : [Day -> 0..Buckets],
              tracked : Analyst \cup {None}, userTracked : BOOLEAN, focusDay : Day,
              prefetchDay : Day \cup {None}, received : SUBSET Window,
              pending : SUBSET (Nat \X Window)]
  BY <1>2, <1>3, <1>5, <1>6, <1>8 DEF PlaybackTyped, ClientTyped
<1>10. /\ client'.run = client.run /\ client'.rev = p.rev /\ client'.cuts = client.cuts \cup {p}
       /\ client'.computed = computed /\ client'.tracked = client.tracked
       /\ client'.userTracked = client.userTracked /\ client'.focusDay = d
       /\ client'.received = received /\ client'.pending = {}
  BY <1>3 DEF PlaybackTyped, ClientTyped
<1>11. UsedTyped' /\ used'["details"] = used["details"]
  BY <1>4, UsesTyped DEF PlaybackTyped, UsedTyped
<1>12. StoreWell(CutResults(results, {p})) BY CutResultsTyped DEF PlaybackTyped, ResultsTyped
<1>13. ResultsTyped' BY <1>4, <1>12 DEF ResultsTyped, StoreWell
<1>14. ClientTyped' BY <1>9 DEF ClientTyped
<1> QED BY <1>2, <1>4, <1>7, <1>10, <1>11, <1>13, <1>14 DEF p, m, computed, received

LEMMA ResetByUser ==
  ASSUME PlaybackTyped, NEW at \in Day \X Bucket, ResetRun(at)
  PROVE  LET m == [type |-> "reset", run |-> client.run + 1, at |-> at]
         IN  /\ InboxMessage(m) /\ Post(m) /\ UNCHANGED toMain
             /\ ClientTyped' /\ UsedTyped' /\ ResultsTyped' /\ used'["details"] = used["details"]
             /\ client' = NewClient(client.run + 1, at) /\ results' = NoData
<1> DEFINE m == [type |-> "reset", run |-> client.run + 1, at |-> at]
<1>1. client.run \in Nat BY DEF PlaybackTyped, ClientTyped
<1>2. /\ Post(m) /\ UNCHANGED toMain /\ Uses("resets", MaxResets)
      /\ client' = NewClient(client.run + 1, at) /\ results' = NoData
  BY DEF ResetRun, StartRun
<1>3. InboxMessage(m) BY <1>1 DEF InboxMessage, Starts
<1>4. NewClient(client.run + 1, at) \in
        [run : Nat, rev : Revision, cuts : SUBSET Patch, computed : [Day -> 0..Buckets],
         tracked : Analyst \cup {None}, userTracked : BOOLEAN, focusDay : Day,
         prefetchDay : Day \cup {None}, received : SUBSET Window, pending : SUBSET (Nat \X Window)]
  BY <1>1, ProtocolAssumption DEF NewClient, Revision
<1>5. ClientTyped' BY <1>2, <1>4 DEF ClientTyped
<1>6. UsedTyped' /\ used'["details"] = used["details"]
  BY <1>2, UsesTyped DEF PlaybackTyped, UsedTyped
<1>7. ResultsTyped' BY <1>2, NoDataTyped DEF ResultsTyped, StoreWell
<1> QED BY <1>2, <1>3, <1>5, <1>6, <1>7

(* A seek, a prefetch, another tracked analyst, a question for details: no   *)
(* results change, and at most one message is posted.                        *)
SameResults == UNCHANGED results /\ UNCHANGED toMain
SameClock ==
  /\ client'.run = client.run /\ client'.rev = client.rev /\ client'.cuts = client.cuts
  /\ client'.computed = client.computed
SameWindows ==
  /\ client'.received = client.received /\ client'.pending = client.pending
  /\ used'["details"] = used["details"]

LEMMA SeekByUser ==
  ASSUME PlaybackTyped, NEW at \in Day \X Bucket, UserSeek(at)
  PROVE  LET m == [type |-> "focus", run |-> client.run, at |-> at, prefetch |-> FALSE]
         IN  /\ InboxMessage(m) /\ Post(m) /\ SameResults /\ SameClock
             /\ ClientTyped' /\ UsedTyped'
             /\ client'.tracked = client.tracked /\ client'.userTracked = client.userTracked
             /\ client'.focusDay = at[1] /\ SameWindows
<1> DEFINE m == [type |-> "focus", run |-> client.run, at |-> at, prefetch |-> FALSE]
<1>1. /\ Post(m) /\ SameResults /\ Uses("seeks", MaxSeeks)
      /\ client' = [client EXCEPT !.focusDay = at[1], !.prefetchDay = None]
  BY DEF UserSeek, SameResults
<1>2. InboxMessage(m) BY DEF InboxMessage, Starts, PlaybackTyped, ClientTyped
<1>3. ClientTyped' BY <1>1 DEF PlaybackTyped, ClientTyped
<1>4. UsedTyped' /\ used'["details"] = used["details"]
  BY <1>1, UsesTyped DEF PlaybackTyped, UsedTyped
<1>5. SameClock /\ client'.tracked = client.tracked /\ client'.userTracked = client.userTracked
      /\ client'.focusDay = at[1] /\ SameWindows
  BY <1>1, <1>4 DEF PlaybackTyped, ClientTyped, SameClock, SameWindows
<1> QED BY <1>1, <1>2, <1>3, <1>4, <1>5

LEMMA PrefetchByUser ==
  ASSUME PlaybackTyped, NEW d \in Day, Prefetch(d)
  PROVE  LET m == [type |-> "focus", run |-> client.run, at |-> <<d, client.computed[d]>>,
                   prefetch |-> TRUE]
         IN  /\ InboxMessage(m) /\ Post(m) /\ SameResults /\ SameClock
             /\ ClientTyped' /\ UsedTyped'
             /\ client'.tracked = client.tracked /\ client'.userTracked = client.userTracked
             /\ client'.focusDay = client.focusDay /\ SameWindows
<1> DEFINE m == [type |-> "focus", run |-> client.run, at |-> <<d, client.computed[d]>>,
                 prefetch |-> TRUE]
<1>1. /\ Post(m) /\ SameResults /\ UNCHANGED used
      /\ client' = [client EXCEPT !.prefetchDay = d] /\ client.computed[d] < Buckets
  BY DEF Prefetch, SameResults
<1>2. client.computed[d] \in Bucket
  BY <1>1, ProtocolAssumption DEF PlaybackTyped, ClientTyped, Bucket
<1>3. InboxMessage(m) BY <1>2 DEF InboxMessage, Starts, PlaybackTyped, ClientTyped
<1>4. ClientTyped' /\ UsedTyped' BY <1>1 DEF PlaybackTyped, ClientTyped, UsedTyped
<1>5. SameClock /\ client'.tracked = client.tracked /\ client'.userTracked = client.userTracked
      /\ client'.focusDay = client.focusDay /\ SameWindows
  BY <1>1 DEF PlaybackTyped, ClientTyped, SameClock, SameWindows
<1> QED BY <1>1, <1>3, <1>4, <1>5

LEMMA TrackByUser ==
  ASSUME PlaybackTyped, NEW a \in Analyst, UserTrack(a)
  PROVE  LET m == [type |-> "track", run |-> client.run, analyst |-> a]
         IN  /\ InboxMessage(m) /\ SameResults /\ SameClock
             /\ IF a = client.tracked THEN UNCHANGED toWorker ELSE Post(m)
             /\ ClientTyped' /\ UsedTyped'
             /\ client'.tracked = a /\ client'.userTracked /\ client'.focusDay = client.focusDay
             /\ SameWindows
<1> DEFINE m == [type |-> "track", run |-> client.run, analyst |-> a]
<1>1. /\ SameResults /\ Uses("tracks", MaxTracks)
      /\ IF a = client.tracked THEN UNCHANGED toWorker ELSE Post(m)
      /\ client' = [client EXCEPT !.userTracked = TRUE, !.tracked = a]
  BY DEF UserTrack, SameResults
<1>2. InboxMessage(m) BY DEF InboxMessage, Starts, PlaybackTyped, ClientTyped
<1>3. ClientTyped' BY <1>1 DEF PlaybackTyped, ClientTyped
<1>4. UsedTyped' /\ used'["details"] = used["details"]
  BY <1>1, UsesTyped DEF PlaybackTyped, UsedTyped
<1>5. SameClock /\ client'.tracked = a /\ client'.userTracked /\ client'.focusDay = client.focusDay
      /\ SameWindows
  BY <1>1, <1>4 DEF PlaybackTyped, ClientTyped, SameClock, SameWindows
<1> QED BY <1>1, <1>2, <1>3, <1>4, <1>5

LEMMA AskByUser ==
  ASSUME PlaybackTyped, NEW w \in Window, AskDetail(w)
  PROVE  LET m == [type |-> "requestDetail", run |-> client.run, tag |-> used["details"], window |-> w]
         IN  /\ InboxMessage(m) /\ Post(m) /\ SameResults /\ SameClock
             /\ ClientTyped' /\ UsedTyped'
             /\ client'.tracked = client.tracked /\ client'.userTracked = client.userTracked
             /\ client'.focusDay = client.focusDay /\ client'.received = client.received
             /\ client'.pending = client.pending \cup {<<m.tag, w>>}
             /\ used'["details"] = used["details"] + 1
<1> DEFINE m == [type |-> "requestDetail", run |-> client.run, tag |-> used["details"], window |-> w]
           pending == client.pending \cup {<<used["details"], w>>}
<1>1. /\ Post(m) /\ SameResults /\ Uses("details", MaxDetails)
      /\ client' = [client EXCEPT !.pending = pending]
  BY DEF AskDetail, SameResults
<1>2. used["details"] \in Nat BY DEF PlaybackTyped, UsedTyped
<1>3. InboxMessage(m) BY <1>2 DEF InboxMessage, Starts, PlaybackTyped, ClientTyped
<1>4. pending \in SUBSET (Nat \X Window) BY <1>2 DEF PlaybackTyped, ClientTyped
<1>m. m.tag = used["details"] OBVIOUS
<1> HIDE DEF m
<1>p. pending = client.pending \cup {<<m.tag, w>>} BY <1>m
<1> HIDE DEF pending
<1>5. ClientTyped' BY <1>1, <1>4 DEF PlaybackTyped, ClientTyped
<1>6. UsedTyped' /\ used'["details"] = used["details"] + 1
  BY <1>1, UsesTyped DEF PlaybackTyped, UsedTyped
<1>7. SameClock /\ client'.tracked = client.tracked /\ client'.userTracked = client.userTracked
      /\ client'.focusDay = client.focusDay /\ client'.received = client.received
      /\ client'.pending = pending
  BY <1>1 DEF PlaybackTyped, ClientTyped, SameClock
<1> QED BY <1>1, <1>3, <1>5, <1>6, <1>7, <1>p DEF m

(* What a message from the worker changes. *)
Handled(m) ==
  \/ OnReady(m) \/ OnProgress(m) \/ OnChunk(m)
  \/ OnTrace(m) \/ OnDetail(m) \/ OnDayComplete(m) \/ OnError(m)

LEMMA Received ==
  ASSUME PlaybackTyped, Receive
  PROVE  LET m == toMain[1]
         IN  /\ ResultMessage(m) /\ ChannelsTyped' /\ UNCHANGED toWorker
             /\ Len(toMain) \in Nat /\ Len(toMain) >= 1 /\ Len(toMain') = Len(toMain) - 1
             /\ \A i \in 1..Len(toMain') : toMain'[i] = toMain[i + 1]
             /\ IF m.run # client.run THEN UNCHANGED <<client, results>> ELSE Handled(m)
<1>1. toMain # <<>> /\ toMain' = Tail(toMain) /\ UNCHANGED <<used, toWorker>>
      /\ LET m == Head(toMain)
         IN  IF m.run # client.run THEN UNCHANGED <<client, results>> ELSE Handled(m)
  BY DEF Receive, Handled
<1>2. IsSeq(toMain) /\ Len(toMain) \in Nat /\ \A i \in 1..Len(toMain) : ResultMessage(toMain[i])
  BY IsSeqLen DEF PlaybackTyped, ChannelsTyped
<1>3. /\ IsSeq(toMain') /\ Len(toMain') = Len(toMain) - 1 /\ Len(toMain) >= 1
      /\ Head(toMain) = toMain[1]
      /\ \A i \in 1..(Len(toMain) - 1) : toMain'[i] = toMain[i + 1]
  <2>1. IsSeq(toMain) /\ toMain # <<>> BY <1>1, <1>2
  <2>2. /\ IsSeq(Tail(toMain)) /\ Len(Tail(toMain)) = Len(toMain) - 1 /\ Len(toMain) >= 1
        /\ Head(toMain) = toMain[1]
        /\ \A i \in 1..(Len(toMain) - 1) : Tail(toMain)[i] = toMain[i + 1]
    BY <2>1, Taken
  <2> QED BY <1>1, <2>2
<1>4. \A i \in 1..Len(toMain') : toMain'[i] = toMain[i + 1] /\ ResultMessage(toMain'[i])
  BY <1>2, <1>3
<1>5. IsSeq(toWorker') /\ \A i \in 1..Len(toWorker') : InboxMessage(toWorker'[i])
  <2>1. toWorker' = toWorker BY <1>1
  <2> QED BY <2>1 DEF PlaybackTyped, ChannelsTyped, IsSeq, InboxMessage, Starts
<1>6. ChannelsTyped' BY <1>3, <1>4, <1>5 DEF ChannelsTyped, IsSeq, ResultMessage
<1> QED BY <1>1, <1>2, <1>3, <1>4, <1>6

LEMMA HandledTyped ==
  ASSUME PlaybackTyped, NEW m, ResultMessage(m), Handled(m)
  PROVE  /\ ClientTyped' /\ ResultsTyped'
         /\ client'.run = client.run /\ client'.rev = client.rev /\ client'.cuts = client.cuts
         /\ client'.userTracked = client.userTracked /\ client'.focusDay = client.focusDay
         /\ client'.tracked = IF m.type = "ready" /\ ~client.userTracked THEN Initial ELSE client.tracked
         /\ client'.computed = IF m.type = "progress" /\ m.rev = client.rev
                               THEN m.computed ELSE client.computed
<1> USE DEF PlaybackTyped
<1>0. ResultsTyped /\ StoreWell(results) BY DEF ResultsTyped
<1>1. CASE OnReady(m)
  <2>1. m.type = "ready" /\ m.analyst = Initial /\ Initial \in Analyst
    BY <1>1, ProtocolAssumption DEF OnReady, ResultMessage
  <2>2. ResultsTyped' BY <1>1 DEF OnReady, ResultsTyped, StoreWell
  <2> QED BY <1>1, <2>1, <2>2 DEF OnReady, ClientTyped
<1>2. CASE OnProgress(m)
  <2>1. m.type = "progress" /\ m.computed \in [Day -> 0..Buckets]
    BY <1>2 DEF OnProgress, ResultMessage
  <2>2. ResultsTyped' BY <1>2 DEF OnProgress, ResultsTyped, StoreWell
  <2> QED BY <1>2, <2>1, <2>2 DEF OnProgress, IsOlderProgress, ClientTyped
<1>3. CASE OnChunk(m)
  <2>1. m.type = "chunk" /\ UNCHANGED client BY <1>3 DEF OnChunk
  <2>2. StoreWell(AddChunk(results, m)) BY <1>0, <2>1, AddChunkTyped
  <2>3. ResultsTyped' BY <1>0, <1>3, <2>2, AcceptTyped DEF OnChunk
  <2> QED BY <2>1, <2>3 DEF ClientTyped
<1>4. CASE OnTrace(m)
  <2>1. m.type = "trace" /\ UNCHANGED client BY <1>4 DEF OnTrace
  <2>2. StoreWell(AddTrace(results, m)) BY <1>0, <2>1, AddTraceTyped
  <2>3. ResultsTyped'
    <3>1. CASE m.analyst # client.tracked BY <1>4, <3>1 DEF OnTrace, ResultsTyped, StoreWell
    <3>2. CASE m.analyst = client.tracked BY <1>0, <1>4, <2>2, <3>2, AcceptTyped DEF OnTrace
    <3> QED BY <3>1, <3>2
  <2> QED BY <2>1, <2>3 DEF ClientTyped
<1>5. CASE OnDetail(m)
  <2> DEFINE received == client.received \cup {q[2] : q \in {x \in client.pending :
                              x[1] = m.tag /\ m.rev = client.rev /\ ~Drops(m, m.from)}}
             pending == {q \in client.pending : q[1] # m.tag}
  <2>1. m.type = "detail" /\ client' = [client EXCEPT !.received = received, !.pending = pending]
    BY <1>5 DEF OnDetail
  <2>2. received \in SUBSET Window /\ pending \in SUBSET (Nat \X Window) BY DEF ClientTyped
  <2>3. StoreWell(AddDetail(results, m)) BY <1>0, <2>1, AddDetailTyped
  <2>4. ResultsTyped' BY <1>0, <1>5, <2>3, AcceptTyped DEF OnDetail
  <2> HIDE DEF received, pending
  <2> QED BY <2>1, <2>2, <2>4 DEF ClientTyped
<1>6. CASE OnDayComplete(m)
  <2>1. m.type = "dayComplete" /\ UNCHANGED client /\ m.day \in Day /\ m.results \in Revs
    BY <1>6 DEF OnDayComplete, ResultMessage
  <2> DEFINE r == [results EXCEPT !.rollup[m.day] = m.results]
             rollup == [results.rollup EXCEPT ![m.day] = m.results]
  <2>2. r = [results EXCEPT !.rollup = rollup] /\ rollup \in [Day -> Revs \cup {None}]
    BY <1>0, <2>1 DEF StoreWell
  <2> HIDE DEF rollup, r
  <2>3. StoreWell(r) BY <1>0, <2>2 DEF StoreWell
  <2>4. results' = results \/ results' = r BY <1>6 DEF OnDayComplete, r
  <2>5. ResultsTyped' BY <1>0, <2>3, <2>4 DEF ResultsTyped, StoreWell
  <2> QED BY <2>1, <2>5 DEF ClientTyped
<1>7. CASE OnError(m) BY <1>7 DEF OnError, ResultsTyped, StoreWell, ClientTyped
<1> QED BY <1>1, <1>2, <1>3, <1>4, <1>5, <1>6, <1>7 DEF Handled

-----------------------------------------------------------------------------
(* The worker's steps.                                                       *)

(* What the next message from the main thread does to the host. *)
ForwardOf(m) == Focus(m) \/ Fork(m) \/ RequestDetail(m) \/ Track(m)

LEMMA HandleDoes ==
  ASSUME PlaybackTyped, HostHandle
  PROVE  LET m == toWorker[1]
         IN  /\ InboxMessage(m)
             /\ Len(toWorker) \in Nat /\ Len(toWorker) >= 1 /\ Len(toWorker') = Len(toWorker) - 1
             /\ IsSeq(toWorker')
             /\ \A i \in 1..Len(toWorker') : toWorker'[i] = toWorker[i + 1]
             /\ \A i \in 1..Len(toWorker') : InboxMessage(toWorker'[i])
             /\ \/ Start(m)
                \/ ~Starts(m) /\ Active /\ m.run = host.run /\ ForwardOf(m)
                \/ ~Starts(m) /\ ~(Active /\ m.run = host.run) /\ UNCHANGED <<host, toMain>>
<1>1. /\ toWorker # <<>> /\ toWorker' = Tail(toWorker)
      /\ LET m == Head(toWorker)
         IN  \/ Start(m)
             \/ ~Starts(m) /\ Active /\ m.run = host.run /\ ForwardOf(m)
             \/ ~Starts(m) /\ ~(Active /\ m.run = host.run) /\ UNCHANGED <<host, toMain>>
  BY DEF HostHandle, ForwardOf, Starts
<1>2. IsSeq(toWorker) /\ Len(toWorker) \in Nat /\ \A i \in 1..Len(toWorker) : InboxMessage(toWorker[i])
  BY IsSeqLen DEF PlaybackTyped, ChannelsTyped
<1>3. /\ IsSeq(toWorker') /\ Len(toWorker') = Len(toWorker) - 1 /\ Len(toWorker) >= 1
      /\ Head(toWorker) = toWorker[1]
      /\ \A i \in 1..(Len(toWorker) - 1) : toWorker'[i] = toWorker[i + 1]
  <2>1. IsSeq(toWorker) /\ toWorker # <<>> BY <1>1, <1>2
  <2>2. /\ IsSeq(Tail(toWorker)) /\ Len(Tail(toWorker)) = Len(toWorker) - 1 /\ Len(toWorker) >= 1
        /\ Head(toWorker) = toWorker[1]
        /\ \A i \in 1..(Len(toWorker) - 1) : Tail(toWorker)[i] = toWorker[i + 1]
    BY <2>1, Taken
  <2> QED BY <1>1, <2>2
<1>4. \A i \in 1..Len(toWorker') : toWorker'[i] = toWorker[i + 1] /\ InboxMessage(toWorker'[i])
  BY <1>2, <1>3
<1> QED BY <1>1, <1>2, <1>3, <1>4

LEMMA StampedTyped ==
  ASSUME PlaybackTyped, Stamped, IsSeq(toWorker'),
         \A i \in 1..Len(toWorker') : InboxMessage(toWorker'[i])
  PROVE  ChannelsTyped'
<1>1. IsSeq(toMain') /\ Len(toMain') \in Nat /\ Len(toMain) \in Nat
  BY IsSeqLen DEF Stamped, Extends, PlaybackTyped, ChannelsTyped
<1>2. ASSUME NEW i \in 1..Len(toMain') PROVE ResultMessage(toMain'[i])
  <2>1. CASE i <= Len(toMain)
    <3>1. i \in 1..Len(toMain) BY <1>1, <2>1
    <3> QED BY <3>1 DEF Stamped, Extends, PlaybackTyped, ChannelsTyped
  <2>2. CASE i > Len(toMain)
    <3>1. i \in (Len(toMain) + 1)..Len(toMain') BY <1>1, <2>2
    <3> QED BY <3>1 DEF Stamped
  <2> QED BY <1>1, <2>1, <2>2
<1> QED BY <1>1, <1>2 DEF ChannelsTyped, IsSeq, InboxMessage, Starts, ResultMessage

LEMMA HostTypedNext ==
  ASSUME PlaybackTyped, HostWell(host')
  PROVE  HostTyped'
<1> QED BY DEF HostTyped, HostWell, SlotBounded

LEMMA ForwardTyped ==
  ASSUME PlaybackTyped, NEW m, InboxMessage(m), Active, ForwardOf(m)
  PROVE  HostWell(host') /\ Stamped
<1>1. ChannelsTyped /\ HostWell(host) BY DEF PlaybackTyped, HostTyped, Active
<1>2. CASE Focus(m) BY <1>1, <1>2, FocusDoes, NoneSent
<1>3. CASE RequestDetail(m) BY <1>1, <1>3, RequestDoes, NoneSent
<1>4. CASE Track(m) BY <1>1, <1>4, TrackDoes, NoneSent
<1>5. CASE Fork(m)
  <2>1. CASE m.patch.rev > host.rev BY <1>1, <1>5, <2>1, ForkDoes
  <2>2. CASE ~(m.patch.rev > host.rev)
    <3>1. UNCHANGED <<host, toMain>> BY <1>5, <2>2 DEF Fork
    <3>2. Stamped BY <1>1, <3>1, NoneSent
    <3> QED BY <1>1, <3>1, <3>2
  <2> QED BY <2>1, <2>2
<1> QED BY <1>2, <1>3, <1>4, <1>5 DEF ForwardOf

LEMMA WorkTyped ==
  ASSUME PlaybackTyped, Active, Work
  PROVE  HostWell(host') /\ Stamped
<1>1. ChannelsTyped /\ HostWell(host) BY DEF PlaybackTyped, HostTyped, Active
<1>2. CASE \E job \in host.details : StepDetail(job) BY <1>1, <1>2, DetailDoes
<1>3. CASE \E d \in Day : ~host.slot[d].complete /\ StepDay(d)
  <2>1. PICK d \in Day : ~host.slot[d].complete /\ StepDay(d) BY <1>3
  <2> QED BY <1>1, <2>1, DayDoes
<1>4. CASE \E t \in host.traces : StepTrace(t)
  <2>1. PICK t \in host.traces : StepTrace(t) BY <1>4
  <2> QED BY <1>1, <2>1, TraceDoes
<1>5. CASE \E d \in Day : StepDensify(d) BY <1>1, <1>5, DensifyDoes
<1> QED BY <1>1, <1>2, <1>3, <1>4, <1>5, WorkCases

(* Everything the two sides keep or send has its type, and no day's stream   *)
(* runs ahead of what it has sent (worker/days.ts, worker/jobs.ts).          *)
THEOREM PlaybackIsTyped == Spec => []PlaybackTyped
<1>1. Init => PlaybackTyped
  <2> SUFFICES ASSUME Init PROVE PlaybackTyped OBVIOUS
  <2> DEFINE m == [type |-> "init", run |-> 1, at |-> Entry]
  <2>1. toWorker = <<m>> /\ toMain = <<>> BY DEF Init
  <2>2. InboxMessage(m) BY EntryAssumption DEF InboxMessage, Starts
  <2> HIDE DEF m
  <2>3. ChannelsTyped
    <3>1. IsSeq(<<m>>) /\ Len(<<m>>) = 1 /\ <<m>>[1] = m BY ShortSeqs
    <3>2. IsSeq(<<>>) /\ Len(<<>>) = 0 BY ShortSeqs
    <3>3. IsSeq(toWorker) /\ Len(toWorker) = 1 /\ toWorker[1] = m BY <2>1, <3>1
    <3>4. IsSeq(toMain) /\ Len(toMain) = 0 BY <2>1, <3>2
    <3>5. \A i \in 1..Len(toWorker) : InboxMessage(toWorker[i])
      <4> SUFFICES ASSUME NEW i \in 1..1 PROVE InboxMessage(toWorker[i]) BY <3>3
      <4>1. i = 1 OBVIOUS
      <4> QED BY <2>2, <3>3, <4>1
    <3> QED BY <3>3, <3>4, <3>5 DEF ChannelsTyped
  <2>4. ClientTyped BY EntryAssumption, ProtocolAssumption DEF Init, ClientTyped, NewClient, Revision
  <2>5. UsedTyped BY DEF Init, UsedTyped
  <2>6. ResultsTyped BY NoDataTyped DEF Init, ResultsTyped
  <2>7. HostTyped BY DEF Init, HostTyped
  <2> QED BY <2>3, <2>4, <2>5, <2>6, <2>7 DEF PlaybackTyped
<1>2. PlaybackTyped /\ [Next]_vars => PlaybackTyped'
  <2> SUFFICES ASSUME PlaybackTyped, [Next]_vars PROVE PlaybackTyped' OBVIOUS
  <2> DEFINE Good == ChannelsTyped' /\ ClientTyped' /\ UsedTyped' /\ ResultsTyped'
  <2>1. ASSUME UNCHANGED host PROVE HostTyped'
    BY <2>1 DEF PlaybackTyped, HostTyped, HostWell, SlotBounded
  <2>2. ASSUME UNCHANGED results PROVE ResultsTyped'
    BY <2>2 DEF PlaybackTyped, ResultsTyped, StoreWell
  <2>3. ASSUME UNCHANGED channels PROVE ChannelsTyped'
    <3>1. toWorker' = toWorker /\ toMain' = toMain BY <2>3 DEF channels
    <3> QED BY <3>1 DEF PlaybackTyped, ChannelsTyped, IsSeq, InboxMessage, Starts, ResultMessage
  <2>4. CASE User /\ UNCHANGED host
    <3>1. CASE \E d \in Day, at \in Bucket, lasting \in BOOLEAN : UserFork(d, at, lasting)
      <4>1. PICK d \in Day, at \in Bucket, lasting \in BOOLEAN : UserFork(d, at, lasting) BY <3>1
      <4>2. Good BY <4>1, ForkByUser, PostTyped DEF PlaybackTyped
      <4> QED BY <2>1, <2>4, <4>2 DEF PlaybackTyped
    <3>2. CASE \E at \in Day \X Bucket : UserSeek(at)
      <4>1. PICK at \in Day \X Bucket : UserSeek(at) BY <3>2
      <4>2. Good BY <2>2, <4>1, SeekByUser, PostTyped DEF PlaybackTyped, SameResults
      <4> QED BY <2>1, <2>4, <4>2 DEF PlaybackTyped
    <3>3. CASE \E at \in Day \X Bucket : ResetRun(at)
      <4>1. PICK at \in Day \X Bucket : ResetRun(at) BY <3>3
      <4>2. Good BY <4>1, ResetByUser, PostTyped DEF PlaybackTyped
      <4> QED BY <2>1, <2>4, <4>2 DEF PlaybackTyped
    <3>4. CASE \E d \in Day : Prefetch(d)
      <4>1. PICK d \in Day : Prefetch(d) BY <3>4
      <4>2. Good BY <2>2, <4>1, PrefetchByUser, PostTyped DEF PlaybackTyped, SameResults
      <4> QED BY <2>1, <2>4, <4>2 DEF PlaybackTyped
    <3>5. CASE \E a \in Analyst : UserTrack(a)
      <4>1. PICK a \in Analyst : UserTrack(a) BY <3>5
      <4>2. ClientTyped' /\ UsedTyped' /\ ResultsTyped' BY <2>2, <4>1, TrackByUser DEF SameResults
      <4>3. ChannelsTyped'
        <5>1. CASE a = client.tracked
          BY <2>3, <4>1, <5>1, TrackByUser DEF SameResults, channels
        <5>2. CASE a # client.tracked
          BY <4>1, <5>2, TrackByUser, PostTyped DEF PlaybackTyped, SameResults
        <5> QED BY <5>1, <5>2
      <4> QED BY <2>1, <2>4, <4>2, <4>3 DEF PlaybackTyped
    <3>6. CASE \E w \in Window : AskDetail(w)
      <4>1. PICK w \in Window : AskDetail(w) BY <3>6
      <4>2. Good BY <2>2, <4>1, AskByUser, PostTyped DEF PlaybackTyped, SameResults
      <4> QED BY <2>1, <2>4, <4>2 DEF PlaybackTyped
    <3> QED BY <2>4, <3>1, <3>2, <3>3, <3>4, <3>5, <3>6 DEF User
  <2>5. CASE Receive /\ UNCHANGED host
    <3>1. ResultMessage(toMain[1]) /\ ChannelsTyped' BY <2>5, Received
    <3>2. UsedTyped' BY <2>5 DEF Receive, PlaybackTyped, UsedTyped
    <3>3. CASE toMain[1].run # client.run
      <4>1. UNCHANGED <<client, results>> BY <2>5, <3>3, Received
      <4>2. ClientTyped' /\ ResultsTyped' BY <2>2, <4>1 DEF PlaybackTyped, ClientTyped
      <4> QED BY <2>1, <2>5, <3>1, <3>2, <4>2 DEF PlaybackTyped
    <3>4. CASE toMain[1].run = client.run
      <4>1. Handled(toMain[1]) BY <2>5, <3>4, Received
      <4>2. ClientTyped' /\ ResultsTyped' BY <3>1, <4>1, HandledTyped
      <4> QED BY <2>1, <2>5, <3>1, <3>2, <4>2 DEF PlaybackTyped
    <3> QED BY <3>3, <3>4
  <2>6. CASE HostStep
    <3>1. UNCHANGED <<client, results, used>> BY <2>6 DEF HostStep
    <3>2. ClientTyped' /\ UsedTyped' /\ ResultsTyped'
      BY <2>2, <3>1 DEF PlaybackTyped, ClientTyped, UsedTyped
    <3>3. CASE HostHandle
      <4> DEFINE m == toWorker[1]
      <4>1. InboxMessage(m) BY <3>3, HandleDoes
      <4>2. IsSeq(toWorker') /\ \A i \in 1..Len(toWorker') : InboxMessage(toWorker'[i])
        BY <3>3, HandleDoes
      <4>3. HostTyped' /\ Stamped
        <5>1. CASE Start(m) BY <4>1, <5>1, StartDoes, HostTypedNext DEF PlaybackTyped
        <5>2. CASE Active /\ ForwardOf(m) BY <4>1, <5>2, ForwardTyped, HostTypedNext
        <5>3. CASE UNCHANGED <<host, toMain>>
          BY <2>1, <5>3, NoneSent DEF PlaybackTyped
        <5> QED BY <3>3, <5>1, <5>2, <5>3, HandleDoes
      <4>4. ChannelsTyped' BY <4>2, <4>3, StampedTyped
      <4> QED BY <3>2, <4>3, <4>4 DEF PlaybackTyped
    <3>4. CASE HostWork
      <4>1. HostWell(host') /\ Stamped BY <3>4, WorkTyped DEF HostWork
      <4>2. IsSeq(toWorker') /\ \A i \in 1..Len(toWorker') : InboxMessage(toWorker'[i])
        <5>1. toWorker' = toWorker BY <3>4 DEF HostWork
        <5> QED BY <5>1 DEF PlaybackTyped, ChannelsTyped
      <4>3. ChannelsTyped' BY <4>1, <4>2, StampedTyped
      <4>4. HostTyped' BY <4>1, HostTypedNext
      <4> QED BY <3>2, <4>3, <4>4 DEF PlaybackTyped
    <3> QED BY <2>6, <3>3, <3>4 DEF HostStep
  <2>7. CASE UNCHANGED vars
    BY <2>1, <2>2, <2>3, <2>7 DEF vars, channels, PlaybackTyped, ClientTyped, UsedTyped
  <2> QED BY <2>4, <2>5, <2>6, <2>7 DEF Next
<1> QED BY <1>1, <1>2, PTL DEF Spec

-----------------------------------------------------------------------------
(* The kinds of steps, as far as messages and the main thread's own state go. *)

Posts(m) ==
  /\ InboxMessage(m) /\ toMain' = toMain /\ host' = host
  /\ Len(toWorker') = Len(toWorker) + 1
  /\ \A i \in 1..Len(toWorker) : toWorker'[i] = toWorker[i]
  /\ toWorker'[Len(toWorker) + 1] = m

ForkStep(p, m) ==
  /\ Posts(m) /\ m.type = "fork" /\ m.run = client.run /\ m.patch = p
  /\ p \in Patch /\ p.rev = client.rev + 1
  /\ client'.run = client.run /\ client'.rev = client.rev + 1 /\ client'.cuts = client.cuts \cup {p}
  /\ client'.computed = [e \in Day |-> CutComputed(p, e)]
  /\ client'.tracked = client.tracked /\ client'.userTracked = client.userTracked
  /\ client'.focusDay = p.day
  /\ client'.received = {w \in client.received : ~((w[1] = p.day /\ WindowEnd(w) > p.at)
                                                 \/ (p.lasting /\ w[1] > p.day))}
  /\ client'.pending = {} /\ used'["details"] = used["details"]
  /\ results' = CutResults(results, {p})

ResetStep(m) ==
  /\ Posts(m) /\ m.type = "reset" /\ m.run = client.run + 1
  /\ client' = NewClient(client.run + 1, m.at) /\ results' = NoData
  /\ used'["details"] = used["details"]

SetsFocus(m) == Starts(m) \/ (m.type = "focus" /\ ~m.prefetch) \/ m.type = "fork"
FocusOf(m) == IF m.type = "fork" THEN m.patch.day ELSE m.at[1]

OtherStep(m) ==
  /\ Posts(m) /\ m.type \in {"focus", "track", "requestDetail"} /\ m.run = client.run
  /\ SameClock /\ SameResults
  /\ client'.focusDay = IF SetsFocus(m) THEN FocusOf(m) ELSE client.focusDay
  /\ client'.tracked = IF m.type = "track" THEN m.analyst ELSE client.tracked
  /\ client'.userTracked = IF m.type = "track" THEN TRUE ELSE client.userTracked
  /\ m.type # "requestDetail" => SameWindows
  /\ m.type = "requestDetail" =>
       /\ m.tag = used["details"] /\ used'["details"] = used["details"] + 1
       /\ client'.pending = client.pending \cup {<<m.tag, m.window>>}
       /\ client'.received = client.received

(* The user tracks who is tracked already. *)
QuietStep ==
  /\ toWorker' = toWorker /\ host' = host /\ SameClock /\ SameResults
  /\ client'.focusDay = client.focusDay /\ client'.tracked = client.tracked
  /\ client.tracked # None /\ client'.userTracked /\ SameWindows

LEMMA UserSteps ==
  ASSUME PlaybackTyped, User, UNCHANGED host
  PROVE  \/ \E p, m : ForkStep(p, m)
         \/ \E m : ResetStep(m)
         \/ \E m : OtherStep(m)
         \/ QuietStep
<1>0. ChannelsTyped BY DEF PlaybackTyped
<1>1. CASE \E d \in Day, at \in Bucket, lasting \in BOOLEAN : UserFork(d, at, lasting)
  <2>1. PICK d \in Day, at \in Bucket, lasting \in BOOLEAN : UserFork(d, at, lasting) BY <1>1
  <2> DEFINE p == [rev |-> client.rev + 1, day |-> d, at |-> at, lasting |-> lasting]
             m == [type |-> "fork", run |-> client.run, patch |-> p]
  <2>2. /\ p \in Patch /\ InboxMessage(m) /\ Post(m) /\ UNCHANGED toMain
        /\ client'.run = client.run /\ client'.rev = client.rev + 1
        /\ client'.cuts = client.cuts \cup {p}
        /\ client'.computed = [e \in Day |-> CutComputed(p, e)]
        /\ client'.tracked = client.tracked /\ client'.userTracked = client.userTracked
        /\ client'.focusDay = d
        /\ client'.received = {w \in client.received : ~((w[1] = d /\ WindowEnd(w) > at)
                                                       \/ (lasting /\ w[1] > d))}
        /\ client'.pending = {} /\ used'["details"] = used["details"]
        /\ results' = CutResults(results, {p})
    BY <2>1, ForkByUser
  <2>3. p.rev = client.rev + 1 /\ p.day = d /\ p.at = at /\ p.lasting = lasting OBVIOUS
  <2>4. m.type = "fork" /\ m.run = client.run /\ m.patch = p OBVIOUS
  <2> HIDE DEF p, m
  <2>5. ForkStep(p, m) BY <1>0, <2>2, <2>3, <2>4, PostTyped DEF ForkStep, Posts
  <2> QED BY <2>5
<1>2. CASE \E at \in Day \X Bucket : ResetRun(at)
  <2>1. PICK at \in Day \X Bucket : ResetRun(at) BY <1>2
  <2> DEFINE m == [type |-> "reset", run |-> client.run + 1, at |-> at]
  <2>2. /\ InboxMessage(m) /\ Post(m) /\ UNCHANGED toMain
        /\ client' = NewClient(client.run + 1, at) /\ results' = NoData
        /\ used'["details"] = used["details"]
    BY <2>1, ResetByUser
  <2>3. m.type = "reset" /\ m.run = client.run + 1 /\ m.at = at OBVIOUS
  <2> HIDE DEF m
  <2>4. ResetStep(m) BY <1>0, <2>2, <2>3, PostTyped DEF ResetStep, Posts
  <2> QED BY <2>4
<1>3. CASE \E at \in Day \X Bucket : UserSeek(at)
  <2>1. PICK at \in Day \X Bucket : UserSeek(at) BY <1>3
  <2> DEFINE m == [type |-> "focus", run |-> client.run, at |-> at, prefetch |-> FALSE]
  <2>2. /\ InboxMessage(m) /\ Post(m) /\ SameResults /\ SameClock
        /\ client'.tracked = client.tracked /\ client'.userTracked = client.userTracked
        /\ client'.focusDay = at[1] /\ SameWindows
    BY <2>1, SeekByUser
  <2>3. m.type = "focus" /\ m.run = client.run /\ SetsFocus(m) /\ FocusOf(m) = at[1]
    BY DEF SetsFocus, FocusOf
  <2> HIDE DEF m
  <2>4. OtherStep(m) BY <1>0, <2>2, <2>3, PostTyped DEF OtherStep, Posts, SameResults
  <2> QED BY <2>4
<1>4. CASE \E d \in Day : Prefetch(d)
  <2>1. PICK d \in Day : Prefetch(d) BY <1>4
  <2> DEFINE m == [type |-> "focus", run |-> client.run, at |-> <<d, client.computed[d]>>,
                   prefetch |-> TRUE]
  <2>2. /\ InboxMessage(m) /\ Post(m) /\ SameResults /\ SameClock
        /\ client'.tracked = client.tracked /\ client'.userTracked = client.userTracked
        /\ client'.focusDay = client.focusDay /\ SameWindows
    BY <2>1, PrefetchByUser
  <2>3. m.type = "focus" /\ m.run = client.run /\ ~SetsFocus(m) BY DEF SetsFocus, Starts
  <2> HIDE DEF m
  <2>4. OtherStep(m) BY <1>0, <2>2, <2>3, PostTyped DEF OtherStep, Posts, SameResults
  <2> QED BY <2>4
<1>5. CASE \E a \in Analyst : UserTrack(a)
  <2>1. PICK a \in Analyst : UserTrack(a) BY <1>5
  <2> DEFINE m == [type |-> "track", run |-> client.run, analyst |-> a]
  <2>2. /\ InboxMessage(m) /\ SameResults /\ SameClock
        /\ IF a = client.tracked THEN UNCHANGED toWorker ELSE Post(m)
        /\ client'.tracked = a /\ client'.userTracked /\ client'.focusDay = client.focusDay
        /\ ClientTyped' /\ SameWindows
    BY <2>1, TrackByUser
  <2>3. m.type = "track" /\ m.run = client.run /\ m.analyst = a /\ ~SetsFocus(m)
    BY DEF SetsFocus, Starts
  <2>4. a # None BY ProtocolAssumption
  <2>5. client'.userTracked = TRUE BY <2>2 DEF ClientTyped
  <2> HIDE DEF m
  <2>6. CASE a = client.tracked BY <2>2, <2>4, <2>6 DEF QuietStep
  <2>7. CASE a # client.tracked
    <3>1. OtherStep(m) BY <1>0, <2>2, <2>3, <2>5, <2>7, PostTyped DEF OtherStep, Posts, SameResults
    <3> QED BY <3>1
  <2> QED BY <2>6, <2>7
<1>6. CASE \E w \in Window : AskDetail(w)
  <2>1. PICK w \in Window : AskDetail(w) BY <1>6
  <2> DEFINE m == [type |-> "requestDetail", run |-> client.run, tag |-> used["details"], window |-> w]
  <2>2. /\ InboxMessage(m) /\ Post(m) /\ SameResults /\ SameClock
        /\ client'.tracked = client.tracked /\ client'.userTracked = client.userTracked
        /\ client'.focusDay = client.focusDay /\ client'.received = client.received
        /\ client'.pending = client.pending \cup {<<m.tag, w>>}
        /\ used'["details"] = used["details"] + 1
    BY <2>1, AskByUser
  <2>3. m.type = "requestDetail" /\ m.run = client.run /\ ~SetsFocus(m)
        /\ m.tag = used["details"] /\ m.window = w
    BY DEF SetsFocus, Starts
  <2> HIDE DEF m
  <2>4. OtherStep(m) BY <1>0, <2>2, <2>3, PostTyped DEF OtherStep, Posts, SameResults
  <2> QED BY <2>4
<1> QED BY <1>1, <1>2, <1>3, <1>4, <1>5, <1>6 DEF User

(* A message from the worker arrives. *)
ReceiveStep(m) ==
  /\ ResultMessage(m) /\ m = toMain[1] /\ toWorker' = toWorker /\ host' = host
  /\ Len(toMain) \in Nat /\ Len(toMain) >= 1 /\ Len(toMain') = Len(toMain) - 1
  /\ \A i \in 1..Len(toMain') : toMain'[i] = toMain[i + 1]
  /\ client'.run = client.run /\ client'.rev = client.rev /\ client'.cuts = client.cuts
  /\ client'.userTracked = client.userTracked /\ client'.focusDay = client.focusDay
  /\ client'.tracked = IF m.run = client.run /\ m.type = "ready" /\ ~client.userTracked
                       THEN Initial ELSE client.tracked
  /\ client'.computed = IF m.run = client.run /\ m.type = "progress" /\ m.rev = client.rev
                        THEN m.computed ELSE client.computed
  /\ IF m.run = client.run THEN Handled(m) ELSE results' = results /\ client' = client
  /\ used' = used

LEMMA ReceiveSteps ==
  ASSUME PlaybackTyped, Receive, UNCHANGED host
  PROVE  ReceiveStep(toMain[1])
<1> DEFINE m == toMain[1]
<1>1. /\ ResultMessage(m) /\ UNCHANGED toWorker
      /\ Len(toMain) \in Nat /\ Len(toMain) >= 1 /\ Len(toMain') = Len(toMain) - 1
      /\ \A i \in 1..Len(toMain') : toMain'[i] = toMain[i + 1]
      /\ IF m.run # client.run THEN UNCHANGED <<client, results>> ELSE Handled(m)
      /\ used' = used
  BY Received DEF Receive
<1> HIDE DEF m
<1>2. CASE m.run # client.run BY <1>1, <1>2 DEF ReceiveStep, m
<1>3. CASE m.run = client.run BY <1>1, <1>3, HandledTyped DEF ReceiveStep, m
<1> QED BY <1>2, <1>3 DEF m

(* The worker takes a message. *)
Takes(m) ==
  /\ InboxMessage(m) /\ m = toWorker[1] /\ client' = client /\ results' = results /\ used' = used
  /\ Len(toWorker) \in Nat /\ Len(toWorker) >= 1 /\ Len(toWorker') = Len(toWorker) - 1
  /\ \A i \in 1..Len(toWorker') : toWorker'[i] = toWorker[i + 1]
  /\ Stamped

StartStep(m) ==
  /\ Takes(m) /\ Starts(m) /\ Start(m) /\ HostWell(host') /\ host' # None
  /\ host'.run = m.run /\ host'.rev = 0 /\ host'.patches = {}
  /\ host'.tracked = Initial /\ host'.focus = m.at /\ ~host'.failed /\ host'.traces = {}
  /\ \A d \in Day : host'.slot[d].to = 0 /\ host'.slot[d].run = None
  /\ Len(toMain') = Len(toMain) + 1 /\ toMain'[Len(toMain) + 1].type = "ready"

HostForkStep(m) ==
  /\ Takes(m) /\ m.type = "fork" /\ Fork(m) /\ Active /\ m.run = host.run /\ m.patch.rev > host.rev
  /\ m.patch \in Patch /\ HostWell(host') /\ host' # None
  /\ host'.run = host.run /\ host'.rev = m.patch.rev
  /\ host'.patches = host.patches \cup {m.patch}
  /\ host'.tracked = host.tracked /\ host'.failed = host.failed
  /\ host'.focus = <<m.patch.day, m.patch.at>>
  /\ host'.traces = CutTraces(host.traces, m.patch)
  /\ \A d \in Day : /\ host'.slot[d].to = CutTo(m.patch, d)
                    /\ host'.slot[d].run = CutRun(m.patch, d)
  /\ Sends({"detail"})

HostOtherStep(m) ==
  /\ Takes(m) /\ m.type \in {"focus", "track", "requestDetail"} /\ Active /\ m.run = host.run
  /\ Focus(m) \/ RequestDetail(m) \/ Track(m)
  /\ HostWell(host') /\ host' # None /\ toMain' = toMain
  /\ host'.run = host.run /\ host'.rev = host.rev /\ host'.patches = host.patches
  /\ host'.tracked = IF m.type = "track" THEN m.analyst ELSE host.tracked
  /\ host'.focus = IF SetsFocus(m) THEN m.at ELSE host.focus
  /\ host'.failed = host.failed
  /\ host'.traces = host.traces \/ \A t \in host'.traces : t.run = None
  /\ \A d \in Day : /\ host'.slot[d].to = host.slot[d].to
                    /\ host'.slot[d].run \in {host.slot[d].run,
                                              Rebind(host.slot[d].run, host.patches, host'.tracked)}

(* A message for another run or for one that failed, or a fork seen already. *)
DropStep(m) ==
  /\ Takes(m) /\ ~Starts(m) /\ host' = host /\ toMain' = toMain
  /\ (Active /\ m.run = host.run) => m.type = "fork" /\ ~(m.patch.rev > host.rev)

LEMMA WellHost ==
  ASSUME NEW h, HostWell(h)
  PROVE  h # None /\ h.run \in Nat /\ h.rev \in Revision /\ h.patches \in SUBSET Patch
         /\ h.failed \in BOOLEAN
<1> QED BY HostAssumption DEF HostWell, HostRuns

LEMMA HandleSteps ==
  ASSUME PlaybackTyped, HostHandle, UNCHANGED <<client, results, used>>
  PROVE  LET m == toWorker[1]
         IN  StartStep(m) \/ HostForkStep(m) \/ HostOtherStep(m) \/ DropStep(m)
<1> DEFINE m == toWorker[1]
<1>0. ChannelsTyped BY DEF PlaybackTyped
<1>1. /\ InboxMessage(m)
      /\ Len(toWorker) \in Nat /\ Len(toWorker) >= 1 /\ Len(toWorker') = Len(toWorker) - 1
      /\ \A i \in 1..Len(toWorker') : toWorker'[i] = toWorker[i + 1]
      /\ \/ Start(m)
         \/ ~Starts(m) /\ Active /\ m.run = host.run /\ ForwardOf(m)
         \/ ~Starts(m) /\ ~(Active /\ m.run = host.run) /\ UNCHANGED <<host, toMain>>
  BY HandleDoes
<1>2. Stamped => Takes(m) BY <1>1 DEF Takes
<1> HIDE DEF m
<1>3. CASE Start(m)
  <2>1. Starts(m) BY <1>3 DEF Start, Starts
  <2>2. StartStep(m) BY <1>0, <1>1, <1>2, <1>3, <2>1, StartDoes, WellHost DEF StartStep
  <2> QED BY <2>2 DEF m
<1>4. CASE ~Starts(m) /\ Active /\ m.run = host.run /\ ForwardOf(m)
  <2>1. HostWell(host) BY <1>4 DEF PlaybackTyped, HostTyped, Active
  <2>2. HostWell(host') /\ host' # None /\ Stamped /\ Takes(m)
    BY <1>1, <1>2, <1>4, ForwardTyped, WellHost
  <2>3. CASE Fork(m) /\ m.patch.rev > host.rev
    <3>1. m.type = "fork" /\ m.patch \in Patch BY <1>1, <2>3 DEF Fork, InboxMessage
    <3>2. HostForkStep(m) BY <1>0, <1>1, <1>4, <2>1, <2>2, <2>3, <3>1, ForkDoes DEF HostForkStep
    <3> QED BY <3>2 DEF m
  <2>4. CASE Fork(m) /\ ~(m.patch.rev > host.rev)
    <3>1. DropStep(m) BY <1>4, <2>2, <2>4 DEF DropStep, Fork
    <3> QED BY <3>1 DEF m
  <2>5. CASE Focus(m)
    <3>1. m.type = "focus" /\ m.prefetch \in BOOLEAN BY <1>1, <2>5 DEF Focus, InboxMessage
    <3>2. HostOtherStep(m)
      BY <1>0, <1>1, <1>4, <2>1, <2>2, <2>5, <3>1, FocusDoes
      DEF HostOtherStep, SetsFocus, SameStreams
    <3> QED BY <3>2 DEF m
  <2>6. CASE RequestDetail(m)
    <3>1. m.type = "requestDetail" BY <2>6 DEF RequestDetail
    <3>2. HostOtherStep(m)
      BY <1>0, <1>1, <1>4, <2>1, <2>2, <2>6, <3>1, RequestDoes
      DEF HostOtherStep, SetsFocus, Starts, SameStreams, SameRun
    <3> QED BY <3>2 DEF m
  <2>7. CASE Track(m)
    <3>1. m.type = "track" BY <2>7 DEF Track
    <3>2. HostOtherStep(m)
      BY <1>0, <1>1, <1>4, <2>1, <2>2, <2>7, <3>1, TrackDoes
      DEF HostOtherStep, SetsFocus, Starts
    <3> QED BY <3>2 DEF m
  <2> QED BY <1>4, <2>3, <2>4, <2>5, <2>6, <2>7 DEF ForwardOf
<1>5. CASE ~Starts(m) /\ ~(Active /\ m.run = host.run) /\ UNCHANGED <<host, toMain>>
  <2>1. Stamped BY <1>0, <1>5, NoneSent
  <2>2. DropStep(m) BY <1>2, <1>5, <2>1 DEF DropStep
  <2> QED BY <2>2 DEF m
<1> QED BY <1>1, <1>3, <1>4, <1>5

(* The worker does a unit of work. *)
WorkStep ==
  /\ Active /\ toWorker' = toWorker /\ client' = client /\ results' = results /\ used' = used
  /\ HostWell(host') /\ host' # None /\ SameRun /\ Stamped /\ Work

LEMMA WorkSteps ==
  ASSUME PlaybackTyped, HostWork, UNCHANGED <<client, results, used>>
  PROVE  WorkStep
<1>1. Active /\ Work /\ toWorker' = toWorker BY DEF HostWork
<1>2. HostWell(host') /\ Stamped BY <1>1, WorkTyped
<1>3. ChannelsTyped /\ HostWell(host) BY <1>1 DEF PlaybackTyped, HostTyped, Active
<1>4. SameRun
  <2>1. CASE \E job \in host.details : StepDetail(job) BY <1>3, <2>1, DetailDoes
  <2>2. CASE \E d \in Day : ~host.slot[d].complete /\ StepDay(d)
    <3>1. PICK d \in Day : ~host.slot[d].complete /\ StepDay(d) BY <2>2
    <3> QED BY <1>3, <3>1, DayDoes
  <2>3. CASE \E t \in host.traces : StepTrace(t)
    <3>1. PICK t \in host.traces : StepTrace(t) BY <2>3
    <3> QED BY <1>3, <3>1, TraceDoes
  <2>4. CASE \E d \in Day : StepDensify(d) BY <1>3, <2>4, DensifyDoes
  <2> QED BY <1>1, <1>3, <2>1, <2>2, <2>3, <2>4, WorkCases
<1> QED BY <1>1, <1>2, <1>4, WellHost DEF WorkStep

(* Every step is one of these. *)
AStep ==
  \/ \E p, m : ForkStep(p, m)
  \/ \E m : ResetStep(m)
  \/ \E m : OtherStep(m)
  \/ QuietStep
  \/ \E m : ReceiveStep(m)
  \/ \E m : StartStep(m)
  \/ \E m : HostForkStep(m)
  \/ \E m : HostOtherStep(m)
  \/ \E m : DropStep(m)
  \/ WorkStep
  \/ vars' = vars

LEMMA Steps ==
  ASSUME PlaybackTyped, [Next]_vars
  PROVE  AStep
<1>1. CASE User /\ UNCHANGED host BY <1>1, UserSteps DEF AStep
<1>2. CASE Receive /\ UNCHANGED host BY <1>2, ReceiveSteps DEF AStep
<1>3. CASE HostStep
  <2>1. CASE HostHandle BY <1>3, <2>1, HandleSteps DEF AStep, HostStep
  <2>2. CASE HostWork BY <1>3, <2>2, WorkSteps DEF AStep, HostStep
  <2> QED BY <1>3, <2>1, <2>2 DEF HostStep
<1>4. CASE UNCHANGED vars BY <1>4 DEF AStep
<1> QED BY <1>1, <1>2, <1>3, <1>4 DEF Next

-----------------------------------------------------------------------------
(* The order of runs, forks and results.                                     *)

Ours == host # None /\ host.run = client.run
Live == Ours /\ ~host.failed

Mine(i) == i \in 1..Len(toWorker) /\ toWorker[i].run = client.run
MineBack(i) == i \in 1..Len(toMain) /\ toMain[i].run = client.run
Forked(i) == Mine(i) /\ toWorker[i].type = "fork"

(* The cuts of the main thread are numbered 1 to its revision. *)
CutsNumbered ==
  /\ \A r \in 1..client.rev : \E p \in client.cuts : p.rev = r
  /\ \A p \in client.cuts : p.rev <= client.rev
  /\ \A p, q \in client.cuts : p.rev = q.rev => p = q

(* Until the worker has started the run of the main thread, the message that *)
(* starts it is on its way, with everything else for that run behind it.     *)
StartsAt(k) ==
  /\ Starts(toWorker[k]) /\ toWorker[k].run = client.run
  /\ \A i \in 1..(k - 1) : toWorker[i].run # client.run
  /\ \A i \in (k + 1)..Len(toWorker) : toWorker[i].run = client.run /\ ~Starts(toWorker[i])
RunsInOrder ==
  /\ \A i \in 1..Len(toWorker) : toWorker[i].run <= client.run
  /\ host # None => host.run <= client.run
  /\ Ours => \A i \in 1..Len(toWorker) : toWorker[i].run = client.run /\ ~Starts(toWorker[i])
  /\ ~Ours => \E k \in 1..Len(toWorker) : StartsAt(k)

(* The worker has the cuts up to its revision; the others are on their way   *)
(* in order, or were lost with a run that failed.                            *)
ForksInOrder ==
  /\ \A i \in 1..Len(toWorker) : Forked(i) => toWorker[i].patch \in client.cuts
  /\ \A i, j \in 1..Len(toWorker) : Forked(i) /\ Forked(j) /\ i < j =>
       toWorker[i].patch.rev < toWorker[j].patch.rev
  /\ \A p \in client.cuts :
       \/ \E i \in 1..Len(toWorker) : Forked(i) /\ toWorker[i].patch = p
       \/ Ours /\ (host.failed \/ p.rev <= host.rev)
  /\ Ours => /\ host.rev <= client.rev
             /\ host.patches = {p \in client.cuts : p.rev <= host.rev}
             /\ \A i \in 1..Len(toWorker) : Forked(i) => toWorker[i].patch.rev > host.rev

(* The revisions of the results on their way grow, up to the host's. *)
ResultsInOrder ==
  /\ \A i \in 1..Len(toMain) : toMain[i].run <= client.run
  /\ \A i \in 1..Len(toMain) : MineBack(i) => Ours /\ toMain[i].rev <= host.rev
  /\ \A i, j \in 1..Len(toMain) : MineBack(i) /\ MineBack(j) /\ i < j => toMain[i].rev <= toMain[j].rev

Ordered == CutsNumbered /\ RunsInOrder /\ ForksInOrder /\ ResultsInOrder

(* What typing says about numbers. *)
LEMMA Numbers ==
  ASSUME PlaybackTyped
  PROVE  /\ Len(toWorker) \in Nat /\ Len(toMain) \in Nat
         /\ client.run \in Nat /\ client.rev \in Nat /\ client.cuts \in SUBSET Patch
         /\ \A p \in Patch : p.rev \in Nat /\ p.rev >= 1 /\ p.day \in Day /\ p.at \in Nat
         /\ \A i \in 1..Len(toWorker) :
              toWorker[i].run \in Nat /\ (toWorker[i].type = "fork" => toWorker[i].patch \in Patch)
         /\ \A i \in 1..Len(toMain) : toMain[i].run \in Nat /\ toMain[i].rev \in Nat
         /\ host # None => /\ host.run \in Nat /\ host.rev \in Nat /\ host.patches \in SUBSET Patch
                           /\ host.failed \in BOOLEAN
<1>1. Len(toWorker) \in Nat /\ Len(toMain) \in Nat
  BY IsSeqLen DEF PlaybackTyped, ChannelsTyped
<1>2. client.run \in Nat /\ client.rev \in Nat /\ client.cuts \in SUBSET Patch
  BY ProtocolAssumption DEF PlaybackTyped, ClientTyped, Revision
<1>3. \A p \in Patch : p.rev \in Nat /\ p.rev >= 1 /\ p.day \in Day /\ p.at \in Nat
  BY ProtocolAssumption DEF Patch, Bucket
<1>4. \A i \in 1..Len(toWorker) :
        toWorker[i].run \in Nat /\ (toWorker[i].type = "fork" => toWorker[i].patch \in Patch)
  BY DEF PlaybackTyped, ChannelsTyped, InboxMessage
<1>5. ASSUME NEW i \in 1..Len(toMain) PROVE toMain[i].run \in Nat /\ toMain[i].rev \in Nat
  <2>1. ResultMessage(toMain[i]) BY DEF PlaybackTyped, ChannelsTyped
  <2>2. toMain[i].run \in Nat /\ toMain[i].rev \in Revision BY <2>1 DEF ResultMessage
  <2> QED BY <2>2, ProtocolAssumption DEF Revision
<1>6. host # None => /\ host.run \in Nat /\ host.rev \in Nat /\ host.patches \in SUBSET Patch
                     /\ host.failed \in BOOLEAN
  BY WellHost, ProtocolAssumption DEF PlaybackTyped, HostTyped, Revision
<1> QED BY <1>1, <1>2, <1>3, <1>4, <1>5, <1>6

(* Where the messages of a shorter or a longer channel come from. *)
LEMMA TakenFrom ==
  ASSUME NEW m, Takes(m)
  PROVE  LET n == Len(toWorker)
         IN  /\ n \in Nat /\ n >= 1 /\ Len(toWorker') = n - 1 /\ m = toWorker[1] /\ client' = client
             /\ \A i \in 1..(n - 1) : i + 1 \in 1..n /\ toWorker'[i] = toWorker[i + 1]
             /\ \A j \in 2..n : j \in 1..n /\ j - 1 \in 1..(n - 1) /\ toWorker'[j - 1] = toWorker[j]
<1> DEFINE n == Len(toWorker)
<1>1. /\ n \in Nat /\ n >= 1 /\ Len(toWorker') = n - 1 /\ m = toWorker[1] /\ client' = client
      /\ \A i \in 1..(n - 1) : toWorker'[i] = toWorker[i + 1]
  BY DEF Takes
<1> HIDE DEF n
<1>2. \A i \in 1..(n - 1) : i + 1 \in 1..n BY <1>1
<1>3. ASSUME NEW j \in 2..n PROVE j \in 1..n /\ j - 1 \in 1..(n - 1) /\ toWorker'[j - 1] = toWorker[j]
  <2>1. j \in 1..n /\ j - 1 \in 1..(n - 1) /\ (j - 1) + 1 = j BY <1>1
  <2>2. toWorker'[j - 1] = toWorker[(j - 1) + 1] BY <1>1, <2>1
  <2> QED BY <2>1, <2>2
<1> QED BY <1>1, <1>2, <1>3 DEF n

LEMMA PostedFrom ==
  ASSUME PlaybackTyped, NEW m, Posts(m)
  PROVE  LET n == Len(toWorker)
         IN  /\ n \in Nat /\ Len(toWorker') = n + 1 /\ toWorker'[n + 1] = m
             /\ n + 1 \in 1..(n + 1) /\ n + 1 \notin 1..n
             /\ \A i \in 1..n : i \in 1..(n + 1) /\ toWorker'[i] = toWorker[i]
             /\ \A i \in 1..(n + 1) : i \in 1..n \/ i = n + 1
<1> DEFINE n == Len(toWorker)
<1>1. /\ n \in Nat /\ Len(toWorker') = n + 1 /\ toWorker'[n + 1] = m
      /\ \A i \in 1..n : toWorker'[i] = toWorker[i]
  BY Numbers DEF Posts
<1> HIDE DEF n
<1> QED BY <1>1 DEF n

LEMMA ReceivedFrom ==
  ASSUME NEW m, ReceiveStep(m)
  PROVE  LET n == Len(toMain)
         IN  /\ n \in Nat /\ n >= 1 /\ Len(toMain') = n - 1 /\ m = toMain[1]
             /\ \A i \in 1..(n - 1) : i + 1 \in 1..n /\ toMain'[i] = toMain[i + 1]
<1> DEFINE n == Len(toMain)
<1>1. /\ n \in Nat /\ n >= 1 /\ Len(toMain') = n - 1 /\ m = toMain[1]
      /\ \A i \in 1..(n - 1) : toMain'[i] = toMain[i + 1]
  BY DEF ReceiveStep
<1> HIDE DEF n
<1> QED BY <1>1 DEF n

LEMMA SentFrom ==
  ASSUME PlaybackTyped, Stamped
  PROVE  LET n == Len(toMain)
             k == Len(toMain')
         IN  /\ n \in Nat /\ k \in Nat /\ n <= k
             /\ \A i \in 1..n : i \in 1..k /\ toMain'[i] = toMain[i]
             /\ \A i \in 1..k : i \in 1..n \/ i \in (n + 1)..k
             /\ \A i \in (n + 1)..k : i \in 1..k /\ ResultMessage(toMain'[i])
                                     /\ toMain'[i].run = host'.run /\ toMain'[i].rev = host'.rev
<1> DEFINE n == Len(toMain)
           k == Len(toMain')
<1>1. n \in Nat BY Numbers
<1>2. k \in Nat BY IsSeqLen DEF Stamped, Extends
<1>3. n <= k /\ \A i \in 1..n : toMain'[i] = toMain[i] BY DEF Stamped, Extends
<1>4. \A i \in (n + 1)..k : ResultMessage(toMain'[i])
                              /\ toMain'[i].run = host'.run /\ toMain'[i].rev = host'.rev
  BY DEF Stamped
<1> HIDE DEF n, k
<1> QED BY <1>1, <1>2, <1>3, <1>4 DEF n, k

LEMMA CutsNext ==
  ASSUME PlaybackTyped, CutsNumbered, AStep
  PROVE  CutsNumbered'
<1>1. client.rev \in Nat /\ \A p \in client.cuts : p.rev \in Nat BY Numbers
<1>2. ASSUME NEW p, NEW m, ForkStep(p, m) PROVE CutsNumbered'
  BY <1>1, <1>2 DEF ForkStep, CutsNumbered
<1>3. ASSUME NEW m, ResetStep(m) PROVE CutsNumbered'
  BY <1>3 DEF ResetStep, NewClient, CutsNumbered
<1>4. CASE client'.rev = client.rev /\ client'.cuts = client.cuts BY <1>4 DEF CutsNumbered
<1> QED BY <1>2, <1>3, <1>4
    DEF AStep, OtherStep, QuietStep, SameClock, ReceiveStep, StartStep, HostForkStep, HostOtherStep,
        DropStep, Takes, WorkStep, vars

LEMMA RunsNext ==
  ASSUME PlaybackTyped, RunsInOrder, AStep
  PROVE  RunsInOrder'
<1> DEFINE n == Len(toWorker)
<1>0. /\ n \in Nat /\ client.run \in Nat /\ \A i \in 1..n : toWorker[i].run \in Nat
      /\ host # None => host.run \in Nat
  BY Numbers
<1>1. ASSUME NEW m, Posts(m), m.run = client.run, ~Starts(m), client'.run = client.run
      PROVE  RunsInOrder'
  <2>0. /\ Len(toWorker') = n + 1 /\ toWorker'[n + 1] = m /\ host' = host
        /\ \A i \in 1..n : i \in 1..(n + 1) /\ toWorker'[i] = toWorker[i]
        /\ \A i \in 1..(n + 1) : i \in 1..n \/ i = n + 1
    BY <1>1, PostedFrom DEF Posts
  <2> HIDE DEF n
  <2>1. \A i \in 1..(n + 1) : toWorker'[i].run <= client.run
    BY <1>0, <1>1, <2>0 DEF RunsInOrder, n
  <2>2. Ours' <=> Ours BY <1>1, <2>0 DEF Ours
  <2>3. Ours => \A i \in 1..(n + 1) : toWorker'[i].run = client.run /\ ~Starts(toWorker'[i])
    BY <1>1, <2>0 DEF RunsInOrder, n
  <2>4. ASSUME ~Ours PROVE \E k \in 1..(n + 1) : StartsAt(k)'
    <3>1. PICK k \in 1..n : StartsAt(k) BY <2>4 DEF RunsInOrder, n
    <3>2. \A i \in 1..(k - 1) : i \in 1..n BY <1>0
    <3>3. ASSUME NEW i \in (k + 1)..(n + 1)
          PROVE  toWorker'[i].run = client.run /\ ~Starts(toWorker'[i])
      <4>1. i \in (k + 1)..n \/ i = n + 1 BY <1>0
      <4>2. i \in (k + 1)..n => i \in 1..n BY <1>0
      <4> QED BY <1>1, <2>0, <3>1, <4>1, <4>2 DEF StartsAt, n
    <3>4. \A i \in 1..(k - 1) : toWorker'[i].run # client.run BY <2>0, <3>1, <3>2 DEF StartsAt
    <3>5. k \in 1..(n + 1) /\ Starts(toWorker'[k]) /\ toWorker'[k].run = client.run
      BY <2>0, <3>1 DEF StartsAt
    <3> QED BY <1>1, <2>0, <3>3, <3>4, <3>5 DEF StartsAt, Starts
  <2>5. host' # None => host'.run <= client.run BY <2>0 DEF RunsInOrder
  <2> QED BY <1>1, <2>0, <2>1, <2>2, <2>3, <2>4, <2>5 DEF RunsInOrder, Starts
<1>2. ASSUME NEW m, ResetStep(m) PROVE RunsInOrder'
  <2>0. /\ Len(toWorker') = n + 1 /\ toWorker'[n + 1] = m /\ host' = host
        /\ n + 1 \in 1..(n + 1)
        /\ \A i \in 1..n : i \in 1..(n + 1) /\ toWorker'[i] = toWorker[i]
        /\ \A i \in 1..(n + 1) : i \in 1..n \/ i = n + 1
    BY <1>2, PostedFrom DEF Posts, ResetStep
  <2> HIDE DEF n
  <2>1. client'.run = client.run + 1 BY <1>2 DEF ResetStep, NewClient
  <2>2. ~Ours' /\ (host' # None => host'.run <= client'.run)
    BY <1>0, <2>0, <2>1 DEF Ours, RunsInOrder
  <2>3. \A i \in 1..n : toWorker'[i].run < client'.run
    BY <1>0, <2>0, <2>1 DEF RunsInOrder, n
  <2>4. Starts(m) /\ m.run = client'.run BY <1>2, <2>1 DEF ResetStep, Starts
  <2>5. PICK k : k = n + 1 OBVIOUS
  <2>7. StartsAt(k)'
    <3>1. k - 1 = n /\ (k + 1)..k = {} /\ k \in Nat BY <1>0, <2>5
    <3>2. \A i \in 1..n : toWorker'[i].run # client'.run
      <4> SUFFICES ASSUME NEW i \in 1..n PROVE toWorker'[i].run # client'.run OBVIOUS
      <4>1. toWorker'[i].run < client'.run /\ toWorker'[i].run \in Nat BY <1>0, <2>0, <2>3
      <4> QED BY <1>0, <2>1, <4>1
    <3> QED BY <2>0, <2>4, <2>5, <3>1, <3>2 DEF StartsAt, Starts
  <2>6. \A i \in 1..(n + 1) : toWorker'[i].run <= client'.run
    <3> SUFFICES ASSUME NEW i \in 1..(n + 1) PROVE toWorker'[i].run <= client'.run OBVIOUS
    <3>1. CASE i \in 1..n BY <1>0, <2>0, <2>1, <2>3, <3>1
    <3>2. CASE i = n + 1 BY <1>0, <2>0, <2>1, <2>4, <3>2
    <3> QED BY <2>0, <3>1, <3>2
  <2> QED BY <2>0, <2>2, <2>5, <2>6, <2>7 DEF RunsInOrder
<1>3. ASSUME toWorker' = toWorker, client'.run = client.run,
             host' # None => host # None /\ host'.run = host.run, host # None => host' # None
      PROVE  RunsInOrder'
  BY <1>3 DEF RunsInOrder, Ours, StartsAt, Starts
<1>4. ASSUME NEW m, Takes(m), NEW k \in 1..n, StartsAt(k), k # 1
      PROVE  \E j \in 1..(n - 1) : StartsAt(j)'
  <2>0. /\ Len(toWorker') = n - 1 /\ client' = client
        /\ \A i \in 1..(n - 1) : i + 1 \in 1..n /\ toWorker'[i] = toWorker[i + 1]
        /\ \A j \in 2..n : j - 1 \in 1..(n - 1) /\ toWorker'[j - 1] = toWorker[j]
    BY <1>4, TakenFrom
  <2> HIDE DEF n
  <2>1. k \in 2..n BY <1>0, <1>4
  <2>2. k - 1 \in 1..(n - 1) /\ toWorker'[k - 1] = toWorker[k] BY <2>0, <2>1
  <2>3. ASSUME NEW i \in 1..((k - 1) - 1) PROVE toWorker'[i].run # client.run
    <3>1. i \in 1..(n - 1) /\ i + 1 \in 1..(k - 1) BY <1>0, <2>1
    <3> QED BY <1>4, <2>0, <3>1 DEF StartsAt
  <2>4. ASSUME NEW i \in ((k - 1) + 1)..(n - 1)
        PROVE  toWorker'[i].run = client.run /\ ~Starts(toWorker'[i])
    <3>1. i \in 1..(n - 1) /\ i + 1 \in (k + 1)..n BY <1>0, <2>1
    <3> QED BY <1>4, <2>0, <3>1 DEF StartsAt, n
  <2>5. Starts(toWorker'[k - 1]) /\ toWorker'[k - 1].run = client.run BY <1>4, <2>2 DEF StartsAt
  <2>6. StartsAt(k - 1)' BY <2>0, <2>3, <2>4, <2>5 DEF StartsAt, Starts
  <2> QED BY <2>2, <2>6
<1>5. ASSUME NEW m, StartStep(m) \/ (Takes(m) /\ ~Starts(m)),
             StartStep(m) \/ (host' # None <=> host # None),
             StartStep(m) \/ (host' # None => host'.run = host.run)
      PROVE  RunsInOrder'
  <2>0. /\ n \in Nat /\ n >= 1 /\ Len(toWorker') = n - 1 /\ m = toWorker[1] /\ client' = client
        /\ 1 \in 1..n
        /\ \A i \in 1..(n - 1) : i + 1 \in 1..n /\ toWorker'[i] = toWorker[i + 1]
    <3>1. Takes(m) BY <1>5 DEF StartStep
    <3> QED BY <3>1, TakenFrom
  <2> HIDE DEF n
  <2>1. \A i \in 1..(n - 1) : toWorker'[i].run <= client'.run
    BY <2>0 DEF RunsInOrder, n
  <2>2. CASE StartStep(m)
    <3>1. Starts(m) /\ host' # None /\ host'.run = m.run BY <2>2 DEF StartStep
    <3>2. ~Ours BY <2>0, <3>1 DEF RunsInOrder, n
    <3>3. PICK k \in 1..n : StartsAt(k) BY <3>2 DEF RunsInOrder, n
    <3>4. host'.run <= client'.run BY <2>0, <3>1 DEF RunsInOrder, n
    <3>5. CASE k = 1
      <4>1. Ours' BY <2>0, <3>1, <3>3, <3>5 DEF StartsAt, Ours
      <4>2. ASSUME NEW i \in 1..(n - 1)
            PROVE  toWorker'[i].run = client'.run /\ ~Starts(toWorker'[i])
        <5>1. i + 1 \in (k + 1)..n BY <2>0, <3>5
        <5> QED BY <2>0, <3>3, <5>1 DEF StartsAt, n
      <4> QED BY <2>0, <2>1, <3>4, <4>1, <4>2 DEF RunsInOrder, Starts
    <3>6. CASE k # 1
      <4>1. 1 \in 1..(k - 1) BY <2>0, <3>6
      <4>2. m.run # client.run BY <2>0, <3>3, <4>1 DEF StartsAt
      <4>3. ~Ours' BY <2>0, <3>1, <4>2 DEF Ours
      <4>4. \E j \in 1..(n - 1) : StartsAt(j)' BY <2>2, <3>3, <3>6, <1>4 DEF StartStep
      <4> QED BY <2>0, <2>1, <3>4, <4>3, <4>4 DEF RunsInOrder
    <3> QED BY <3>5, <3>6
  <2>3. CASE ~StartStep(m)
    <3>1. Takes(m) /\ ~Starts(m) BY <1>5, <2>3
    <3>2. Ours' <=> Ours BY <1>5, <2>0, <2>3 DEF Ours
    <3>3. host' # None => host'.run <= client'.run BY <1>5, <2>0, <2>3 DEF RunsInOrder
    <3>4. Ours => \A i \in 1..(n - 1) : toWorker'[i].run = client'.run /\ ~Starts(toWorker'[i])
      BY <2>0 DEF RunsInOrder, n
    <3>5. ASSUME ~Ours PROVE \E j \in 1..(n - 1) : StartsAt(j)'
      <4>1. PICK k \in 1..n : StartsAt(k) BY <3>5 DEF RunsInOrder, n
      <4>2. k # 1 BY <2>0, <3>1, <4>1 DEF StartsAt
      <4> QED BY <3>1, <4>1, <4>2, <1>4
    <3> QED BY <2>0, <2>1, <3>2, <3>3, <3>4, <3>5 DEF RunsInOrder, Starts
  <2> QED BY <2>2, <2>3
<1>6. CASE \E p, m : ForkStep(p, m) BY <1>1, <1>6 DEF ForkStep, Starts
<1>7. CASE \E m : OtherStep(m) BY <1>1, <1>7 DEF OtherStep, Starts, SameClock
<1>8. CASE QuietStep \/ (\E m : ReceiveStep(m)) \/ vars' = vars
  BY <1>3, <1>8 DEF QuietStep, SameClock, ReceiveStep, vars
<1>9. CASE WorkStep BY <1>3, <1>9 DEF WorkStep, SameRun, Active
<1>10. CASE (\E m : StartStep(m)) \/ \E m : HostForkStep(m) \/ HostOtherStep(m) \/ DropStep(m)
  BY <1>5, <1>10 DEF HostForkStep, HostOtherStep, DropStep, Starts, Active
<1> QED BY <1>2, <1>6, <1>7, <1>8, <1>9, <1>10 DEF AStep

LEMMA ForksNext ==
  ASSUME PlaybackTyped, CutsNumbered, RunsInOrder, ForksInOrder, AStep
  PROVE  ForksInOrder'
<1>n. PICK n : n = Len(toWorker) OBVIOUS
<1>0. /\ n \in Nat /\ client.run \in Nat /\ client.rev \in Nat
      /\ \A p \in client.cuts : p \in Patch /\ p.rev \in Nat /\ p.rev >= 1 /\ p.rev <= client.rev
      /\ \A i \in 1..n : toWorker[i].run \in Nat /\ toWorker[i].run <= client.run
      /\ host # None => host.rev \in Nat /\ host.run <= client.run
  BY <1>n, Numbers DEF CutsNumbered, RunsInOrder
<1>1. ASSUME toWorker' = toWorker, client'.run = client.run, client'.rev = client.rev,
             client'.cuts = client.cuts,
             host' = host \/ (Active /\ host' # None /\ SameRun)
      PROVE  ForksInOrder'
  <2>1. host # None <=> host' # None BY <1>1 DEF Active
  <2>2. Ours' <=> Ours BY <1>1, <2>1 DEF Ours, SameRun
  <2>3. Ours => host'.rev = host.rev /\ host'.patches = host.patches BY <1>1 DEF SameRun
  <2>4. Ours /\ host.failed => host'.failed BY <1>1 DEF Active
  <2>5. \A i : Forked(i)' <=> Forked(i) BY <1>1 DEF Forked, Mine
  <2> QED BY <1>1, <2>2, <2>3, <2>4, <2>5 DEF ForksInOrder
<1>2. ASSUME NEW m, Posts(m), m.run = client.run, m.type # "fork",
             client'.run = client.run, client'.rev = client.rev, client'.cuts = client.cuts
      PROVE  ForksInOrder'
  <2>0. /\ Len(toWorker') = n + 1 /\ toWorker'[n + 1] = m /\ host' = host
        /\ \A i \in 1..n : i \in 1..(n + 1) /\ toWorker'[i] = toWorker[i]
        /\ \A i \in 1..(n + 1) : i \in 1..n \/ i = n + 1
    BY <1>n, <1>2, PostedFrom DEF Posts
  <2>1. \A i \in 1..(n + 1) : Forked(i)' <=> (i \in 1..n /\ Forked(i))
    BY <1>n, <1>2, <2>0 DEF Forked, Mine
  <2>2. Ours' <=> Ours BY <1>2, <2>0 DEF Ours
  <2>3. \A p \in client.cuts :
          \/ \E i \in 1..(n + 1) : Forked(i)' /\ toWorker'[i].patch = p
          \/ Ours /\ (host.failed \/ p.rev <= host.rev)
    BY <1>n, <2>0, <2>1 DEF ForksInOrder
  <2> QED BY <1>n, <1>2, <2>0, <2>1, <2>2, <2>3 DEF ForksInOrder
<1>3. ASSUME NEW q, NEW m, ForkStep(q, m) PROVE ForksInOrder'
  <2>0. /\ Len(toWorker') = n + 1 /\ toWorker'[n + 1] = m /\ host' = host
        /\ n + 1 \in 1..(n + 1)
        /\ \A i \in 1..n : i \in 1..(n + 1) /\ toWorker'[i] = toWorker[i]
        /\ \A i \in 1..(n + 1) : i \in 1..n \/ i = n + 1
    BY <1>n, <1>3, PostedFrom DEF Posts, ForkStep
  <2>1. /\ client'.run = client.run /\ client'.rev = client.rev + 1
        /\ client'.cuts = client.cuts \cup {q} /\ q.rev = client.rev + 1
        /\ m.type = "fork" /\ m.run = client.run /\ m.patch = q
    BY <1>3 DEF ForkStep
  <2>2. \A i \in 1..n : Forked(i)' <=> Forked(i) BY <1>n, <2>0, <2>1 DEF Forked, Mine
  <2>3. \A i \in 1..n : Forked(i) =>
          toWorker[i].patch \in client.cuts /\ toWorker[i].patch.rev < q.rev
    BY <1>n, <1>0, <2>1 DEF ForksInOrder
  <2>4. \A i \in 1..(n + 1) : Forked(i)' => toWorker'[i].patch \in client'.cuts
    BY <2>0, <2>1, <2>2, <2>3
  <2>5. ASSUME NEW i \in 1..(n + 1), NEW j \in 1..(n + 1), Forked(i)', Forked(j)', i < j
        PROVE  toWorker'[i].patch.rev < toWorker'[j].patch.rev
    <3>1. i \in 1..n BY <1>0, <2>5
    <3>2. CASE j \in 1..n BY <1>n, <2>0, <2>2, <2>5, <3>1, <3>2 DEF ForksInOrder
    <3>3. CASE j = n + 1 BY <2>0, <2>1, <2>2, <2>3, <2>5, <3>1, <3>3
    <3> QED BY <2>0, <3>2, <3>3
  <2>6. Forked(n + 1)' /\ toWorker'[n + 1].patch = q BY <2>0, <2>1 DEF Forked, Mine
  <2>7. Ours' <=> Ours BY <2>0, <2>1 DEF Ours
  <2>8. \A p \in client'.cuts :
          \/ \E i \in 1..(n + 1) : Forked(i)' /\ toWorker'[i].patch = p
          \/ Ours /\ (host.failed \/ p.rev <= host.rev)
    <3> SUFFICES ASSUME NEW p \in client'.cuts
                 PROVE  \/ \E i \in 1..(n + 1) : Forked(i)' /\ toWorker'[i].patch = p
                        \/ Ours /\ (host.failed \/ p.rev <= host.rev)
      OBVIOUS
    <3>1. CASE p = q BY <2>0, <2>6, <3>1
    <3>2. CASE p \in client.cuts BY <1>n, <2>0, <2>2, <3>2 DEF ForksInOrder
    <3> QED BY <2>1, <3>1, <3>2
  <2>9. ASSUME Ours
        PROVE  /\ host.rev <= client'.rev
               /\ host.patches = {p \in client'.cuts : p.rev <= host.rev}
               /\ \A i \in 1..(n + 1) : Forked(i)' => toWorker'[i].patch.rev > host.rev
    <3>1. host.rev <= client.rev /\ host.rev \in Nat /\ host.patches = {p \in client.cuts : p.rev <= host.rev}
      BY <1>0, <2>9 DEF ForksInOrder, Ours
    <3>2. q.rev > host.rev /\ host.rev <= client'.rev BY <1>0, <2>1, <3>1
    <3>3. ~(q.rev <= host.rev) BY <1>0, <2>1, <3>1
    <3>4. \A i \in 1..(n + 1) : Forked(i)' => toWorker'[i].patch.rev > host.rev
      BY <1>n, <2>0, <2>2, <2>6, <2>9, <3>2 DEF ForksInOrder
    <3> QED BY <2>1, <3>1, <3>2, <3>3, <3>4
  <2> QED BY <2>0, <2>4, <2>5, <2>7, <2>8, <2>9 DEF ForksInOrder
<1>4. ASSUME NEW m, ResetStep(m) PROVE ForksInOrder'
  <2>0. /\ Len(toWorker') = n + 1 /\ toWorker'[n + 1] = m /\ host' = host
        /\ \A i \in 1..n : i \in 1..(n + 1) /\ toWorker'[i] = toWorker[i]
        /\ \A i \in 1..(n + 1) : i \in 1..n \/ i = n + 1
    BY <1>n, <1>4, PostedFrom DEF Posts, ResetStep
  <2>1. client'.run = client.run + 1 /\ client'.cuts = {} /\ m.type = "reset"
    BY <1>4 DEF ResetStep, NewClient
  <2>2. ~Ours' BY <1>0, <2>0, <2>1 DEF Ours
  <2>3. \A i \in 1..(n + 1) : ~Forked(i)'
    <3> SUFFICES ASSUME NEW i \in 1..(n + 1) PROVE ~Forked(i)' OBVIOUS
    <3>1. CASE i \in 1..n
      <4>1. toWorker'[i].run <= client.run /\ toWorker'[i].run \in Nat BY <1>0, <2>0, <3>1
      <4> QED BY <1>0, <2>1, <4>1 DEF Forked, Mine
    <3>2. CASE i = n + 1 BY <2>0, <2>1, <3>2 DEF Forked, Mine
    <3> QED BY <2>0, <3>1, <3>2
  <2> QED BY <2>0, <2>1, <2>2, <2>3 DEF ForksInOrder
(* A message is taken that is no fork the host has not seen. *)
<1>5. ASSUME NEW m, Takes(m)
      PROVE  /\ Len(toWorker') = n - 1 /\ client' = client /\ m = toWorker[1] /\ n >= 1 /\ 1 \in 1..n
             /\ \A i \in 1..(n - 1) : /\ i + 1 \in 1..n /\ toWorker'[i] = toWorker[i + 1]
                                      /\ Forked(i)' <=> Forked(i + 1)
             /\ \A i \in 1..(n - 1) : Forked(i)' => toWorker'[i].patch \in client.cuts
             /\ \A i, j \in 1..(n - 1) : Forked(i)' /\ Forked(j)' /\ i < j =>
                  toWorker'[i].patch.rev < toWorker'[j].patch.rev
             /\ \A p \in client.cuts :
                  \/ \E i \in 1..(n - 1) : Forked(i)' /\ toWorker'[i].patch = p
                  \/ Forked(1) /\ m.patch = p
                  \/ Ours /\ (host.failed \/ p.rev <= host.rev)
  <2>0. /\ Len(toWorker') = n - 1 /\ client' = client /\ m = toWorker[1] /\ n >= 1
        /\ \A i \in 1..(n - 1) : i + 1 \in 1..n /\ toWorker'[i] = toWorker[i + 1]
        /\ \A j \in 2..n : j \in 1..n /\ j - 1 \in 1..(n - 1) /\ toWorker'[j - 1] = toWorker[j]
    BY <1>n, <1>5, TakenFrom
  <2>1. \A i \in 1..(n - 1) : Forked(i)' <=> Forked(i + 1)
    BY <1>n, <2>0 DEF Forked, Mine
  <2>2. \A i \in 1..(n - 1) : Forked(i)' => toWorker'[i].patch \in client.cuts
    BY <1>n, <2>0, <2>1 DEF ForksInOrder
  <2>3. ASSUME NEW i \in 1..(n - 1), NEW j \in 1..(n - 1), Forked(i)', Forked(j)', i < j
        PROVE  toWorker'[i].patch.rev < toWorker'[j].patch.rev
    <3>1. i + 1 \in 1..n /\ j + 1 \in 1..n /\ i + 1 < j + 1 BY <2>0, <2>3
    <3> QED BY <1>n, <2>0, <2>1, <2>3, <3>1 DEF ForksInOrder
  <2>4. ASSUME NEW p \in client.cuts
        PROVE  \/ \E i \in 1..(n - 1) : Forked(i)' /\ toWorker'[i].patch = p
               \/ Forked(1) /\ m.patch = p
               \/ Ours /\ (host.failed \/ p.rev <= host.rev)
    <3>1. CASE Ours /\ (host.failed \/ p.rev <= host.rev) BY <3>1
    <3>2. CASE \E i \in 1..n : Forked(i) /\ toWorker[i].patch = p
      <4>1. PICK i \in 1..n : Forked(i) /\ toWorker[i].patch = p BY <3>2
      <4>2. CASE i = 1 BY <2>0, <4>1, <4>2
      <4>3. CASE i # 1
        <5>1. i \in 2..n /\ i - 1 \in 1..(n - 1) /\ (i - 1) + 1 = i BY <1>0, <4>3
        <5>2. Forked(i - 1)' /\ toWorker'[i - 1].patch = p BY <2>0, <2>1, <4>1, <5>1
        <5> QED BY <5>1, <5>2
      <4> QED BY <4>2, <4>3
    <3> QED BY <1>n, <3>1, <3>2 DEF ForksInOrder
  <2>5. 1 \in 1..n BY <1>0, <2>0
  <2> QED BY <2>0, <2>1, <2>2, <2>3, <2>4, <2>5
<1>6. ASSUME NEW m, StartStep(m) PROVE ForksInOrder'
  <2>0. Takes(m) /\ Starts(m) /\ host' # None /\ host'.run = m.run /\ host'.rev = 0 /\ host'.patches = {}
    BY <1>6 DEF StartStep
  <2>1. ~Ours /\ ~Forked(1) BY <1>n, <1>5, <2>0 DEF RunsInOrder, Forked, Starts
  <2>2. \A p \in client.cuts : \E i \in 1..(n - 1) : Forked(i)' /\ toWorker'[i].patch = p
    BY <1>5, <2>0, <2>1
  <2>3. \A i \in 1..(n - 1) : Forked(i)' => toWorker'[i].patch.rev > 0 BY <1>0, <1>5, <2>0
  <2>4. {p \in client.cuts : p.rev <= 0} = {} BY <1>0
  <2> QED BY <1>0, <1>5, <2>0, <2>2, <2>3, <2>4 DEF ForksInOrder
<1>7. ASSUME NEW m, HostForkStep(m) PROVE ForksInOrder'
  <2>0. /\ Takes(m) /\ m.type = "fork" /\ Active /\ m.run = host.run /\ host' # None
        /\ host'.run = host.run /\ host'.rev = m.patch.rev /\ host'.patches = host.patches \cup {m.patch}
    BY <1>7 DEF HostForkStep
  <2>1. Ours' <=> Ours BY <1>5, <2>0 DEF Ours, Active
  <2>2. Forked(1) <=> Ours BY <1>n, <1>5, <2>0 DEF Forked, Mine, Ours, Active
  <2>3. CASE ~Ours BY <1>5, <2>0, <2>1, <2>2, <2>3 DEF ForksInOrder
  <2>4. CASE Ours
    <3>1. m.patch \in client.cuts /\ host.patches = {p \in client.cuts : p.rev <= host.rev}
          /\ m.patch.rev > host.rev /\ host.rev \in Nat /\ m.patch.rev \in Nat
      BY <1>n, <1>0, <1>5, <2>0, <2>2, <2>4 DEF ForksInOrder, Active
    <3>2. \A i \in 1..(n - 1) : Forked(i)' => toWorker'[i].patch.rev > m.patch.rev
      <4> SUFFICES ASSUME NEW i \in 1..(n - 1), Forked(i)'
                   PROVE  toWorker'[i].patch.rev > m.patch.rev
        OBVIOUS
      <4>1. i + 1 \in 1..n /\ 1 < i + 1 /\ Forked(i + 1) /\ toWorker'[i] = toWorker[i + 1]
        BY <1>5, <2>0
      <4>2. m.patch.rev < toWorker[i + 1].patch.rev
        BY <1>n, <1>5, <2>0, <2>2, <2>4, <4>1 DEF ForksInOrder
      <4>3. toWorker[i + 1].patch.rev \in Nat BY <1>n, <1>0, <4>1 DEF ForksInOrder
      <4> QED BY <3>1, <4>1, <4>2, <4>3
    <3>3. \A p \in client.cuts :
            \/ \E i \in 1..(n - 1) : Forked(i)' /\ toWorker'[i].patch = p
            \/ p = m.patch
            \/ p.rev <= host.rev
      BY <1>5, <2>0 DEF Active
    <3>4. host'.patches = {p \in client.cuts : p.rev <= m.patch.rev}
      <4>1. ASSUME NEW p \in client.cuts
            PROVE  p \in host'.patches <=> p.rev <= m.patch.rev
        <5>1. p \in host'.patches <=> p.rev <= host.rev \/ p = m.patch BY <2>0, <3>1
        <5>2. CASE \E i \in 1..(n - 1) : Forked(i)' /\ toWorker'[i].patch = p
          <6>1. p.rev > m.patch.rev /\ p.rev \in Nat BY <1>0, <3>2, <5>2
          <6> QED BY <3>1, <5>1, <6>1
        <5>3. CASE p = m.patch \/ p.rev <= host.rev BY <1>0, <3>1, <5>1, <5>3
        <5> QED BY <3>3, <5>2, <5>3
      <4>2. host'.patches \subseteq client.cuts BY <2>0, <3>1
      <4> QED BY <4>1, <4>2
    <3>5. \A p \in client.cuts :
            \/ \E i \in 1..(n - 1) : Forked(i)' /\ toWorker'[i].patch = p
            \/ p.rev <= m.patch.rev
      BY <1>0, <3>1, <3>3
    <3>6. m.patch.rev <= client.rev BY <1>0, <3>1
    <3> QED BY <1>5, <2>0, <2>1, <2>4, <3>2, <3>4, <3>5, <3>6 DEF ForksInOrder
  <2> QED BY <2>3, <2>4
<1>8. ASSUME NEW m, HostOtherStep(m) \/ DropStep(m) PROVE ForksInOrder'
  <2>0. /\ Takes(m)
        /\ host # None <=> host' # None
        /\ host # None => /\ host'.run = host.run /\ host'.rev = host.rev /\ host'.patches = host.patches
                          /\ host'.failed = host.failed
    BY <1>8 DEF HostOtherStep, DropStep, Active
  <2>1. Ours' <=> Ours BY <1>5, <2>0 DEF Ours
  <2>2. ASSUME Forked(1) PROVE Ours => host.failed
    <3>1. m.type = "fork" /\ m.run = client.run BY <1>5, <2>0, <2>2 DEF Forked, Mine
    <3>2. DropStep(m) BY <1>8, <3>1 DEF HostOtherStep
    <3>3. Ours => m.patch.rev > host.rev BY <1>n, <1>5, <2>0, <2>2 DEF ForksInOrder
    <3> QED BY <3>1, <3>2, <3>3 DEF DropStep, Ours, Active
  <2>3. ASSUME NEW i \in 1..(n - 1), Forked(i)', Ours PROVE toWorker'[i].patch.rev > host.rev
    BY <1>n, <1>5, <2>0, <2>3 DEF ForksInOrder
  <2>4. \A p \in client.cuts :
          \/ \E i \in 1..(n - 1) : Forked(i)' /\ toWorker'[i].patch = p
          \/ Ours /\ (host.failed \/ p.rev <= host.rev)
    <3>1. CASE Ours BY <1>5, <2>0, <2>2, <3>1
    <3>2. CASE ~Ours
      <4>1. ~Forked(1)
        <5>1. ASSUME Forked(1) PROVE FALSE
          <6>1. PICK k \in 1..n : StartsAt(k) BY <1>n, <3>2 DEF RunsInOrder
          <6>2. k # 1 BY <5>1, <6>1 DEF StartsAt, Forked, Starts
          <6>3. 1 \in 1..(k - 1) BY <1>0, <6>1, <6>2
          <6> QED BY <5>1, <6>1, <6>3 DEF StartsAt, Forked, Mine
        <5> QED BY <5>1
      <4> QED BY <1>5, <2>0, <3>2, <4>1
    <3> QED BY <3>1, <3>2
  <2>5. Ours => /\ host.rev <= client.rev
                /\ host.patches = {p \in client.cuts : p.rev <= host.rev}
    BY DEF ForksInOrder
  <2>6. Ours => host # None BY DEF Ours
  <2> QED BY <1>5, <2>0, <2>1, <2>3, <2>4, <2>5, <2>6 DEF ForksInOrder
<1>9. CASE \E m : OtherStep(m) BY <1>2, <1>9 DEF OtherStep, SameClock
<1>10. CASE QuietStep \/ (\E m : ReceiveStep(m)) \/ vars' = vars \/ WorkStep
  BY <1>1, <1>10 DEF QuietStep, SameClock, ReceiveStep, vars, WorkStep
<1> QED BY <1>3, <1>4, <1>6, <1>7, <1>8, <1>9, <1>10 DEF AStep

LEMMA ResultsNext ==
  ASSUME PlaybackTyped, RunsInOrder, RunsInOrder', ResultsInOrder, AStep
  PROVE  ResultsInOrder'
<1>n. PICK n : n = Len(toMain) OBVIOUS
<1>0. /\ n \in Nat /\ client.run \in Nat
      /\ \A i \in 1..n : toMain[i].run \in Nat /\ toMain[i].run <= client.run /\ toMain[i].rev \in Nat
      /\ host # None => host.run \in Nat /\ host.rev \in Nat
  BY <1>n, Numbers DEF ResultsInOrder
<1>1. ASSUME toMain' = toMain, client'.run = client.run, Ours => Ours' /\ host'.rev = host.rev
      PROVE  ResultsInOrder'
  <2>1. \A i : MineBack(i)' <=> MineBack(i) BY <1>1 DEF MineBack
  <2> QED BY <1>1, <2>1 DEF ResultsInOrder
<1>2. ASSUME NEW m, ReceiveStep(m) PROVE ResultsInOrder'
  <2>0. /\ Len(toMain') = n - 1 /\ host' = host /\ client'.run = client.run
        /\ \A i \in 1..(n - 1) : i + 1 \in 1..n /\ toMain'[i] = toMain[i + 1]
    BY <1>n, <1>2, ReceivedFrom DEF ReceiveStep
  <2>1. \A i \in 1..(n - 1) : MineBack(i)' <=> MineBack(i + 1)
    BY <1>n, <2>0 DEF MineBack
  <2>2. Ours' <=> Ours BY <2>0 DEF Ours
  <2>3. ASSUME NEW i \in 1..(n - 1), NEW j \in 1..(n - 1), MineBack(i)', MineBack(j)', i < j
        PROVE  toMain'[i].rev <= toMain'[j].rev
    <3>1. i + 1 \in 1..n /\ j + 1 \in 1..n /\ i + 1 < j + 1 BY <2>0, <2>3
    <3> QED BY <1>n, <2>0, <2>1, <2>3, <3>1 DEF ResultsInOrder
  <2>4. \A i \in 1..(n - 1) : toMain'[i].run <= client.run BY <1>0, <2>0
  <2>5. \A i \in 1..(n - 1) : MineBack(i)' => Ours' /\ toMain'[i].rev <= host'.rev
    BY <1>n, <2>0, <2>1, <2>2 DEF ResultsInOrder
  <2> QED BY <2>0, <2>3, <2>4, <2>5 DEF ResultsInOrder
<1>3. ASSUME NEW m, ResetStep(m) PROVE ResultsInOrder'
  <2>0. toMain' = toMain /\ client'.run = client.run + 1
    BY <1>3 DEF ResetStep, Posts, NewClient
  <2>1. \A i \in 1..n : toMain'[i].run <= client'.run /\ toMain'[i].run # client'.run
    <3> SUFFICES ASSUME NEW i \in 1..n
                 PROVE  toMain'[i].run <= client'.run /\ toMain'[i].run # client'.run
      OBVIOUS
    <3>1. toMain[i].run \in Nat /\ toMain[i].run <= client.run BY <1>0
    <3> QED BY <1>0, <2>0, <3>1
  <2> QED BY <1>n, <2>0, <2>1 DEF ResultsInOrder, MineBack
(* Results are sent, by a host that has taken no step back. *)
<1>4. ASSUME Stamped, client' = client, host' # None, host'.run <= client.run,
             HostWell(host'),
             \A i \in 1..n : MineBack(i) => host'.run = client.run /\ toMain[i].rev <= host'.rev
      PROVE  ResultsInOrder'
  <2>k. PICK k : k = Len(toMain') OBVIOUS
  <2>0. /\ k \in Nat /\ n <= k
        /\ \A i \in 1..n : i \in 1..k /\ toMain'[i] = toMain[i]
        /\ \A i \in 1..k : i \in 1..n \/ i \in (n + 1)..k
        /\ \A i \in (n + 1)..k : toMain'[i].run = host'.run /\ toMain'[i].rev = host'.rev
    BY <1>n, <1>4, <2>k, SentFrom
  <2>1. host'.rev \in Nat /\ host'.run \in Nat
    BY <1>4, WellHost, ProtocolAssumption DEF Revision
  <2>2. \A i \in 1..n : MineBack(i)' <=> MineBack(i)
    BY <1>n, <1>4, <2>k, <2>0 DEF MineBack
  <2>3. ASSUME NEW i \in 1..k
        PROVE  toMain'[i].run <= client.run
    <3>1. CASE i \in 1..n BY <1>0, <2>0, <3>1
    <3>2. CASE i \in (n + 1)..k BY <1>4, <2>0, <3>2
    <3> QED BY <2>0, <3>1, <3>2
  <2>4. ASSUME NEW i \in 1..k, MineBack(i)'
        PROVE  Ours' /\ toMain'[i].rev <= host'.rev
    <3>1. CASE i \in 1..n BY <1>4, <2>0, <2>2, <2>4, <3>1 DEF Ours
    <3>2. CASE i \in (n + 1)..k BY <1>4, <2>0, <2>1, <2>4, <3>2 DEF MineBack, Ours
    <3> QED BY <2>0, <3>1, <3>2
  <2>5. ASSUME NEW i \in 1..k, NEW j \in 1..k, MineBack(i)', MineBack(j)', i < j
        PROVE  toMain'[i].rev <= toMain'[j].rev
    <3>1. CASE j \in 1..n
      <4>1. i \in 1..n BY <1>0, <2>0, <2>5, <3>1
      <4> QED BY <1>n, <2>0, <2>2, <2>5, <3>1, <4>1 DEF ResultsInOrder
    <3>2. CASE j \in (n + 1)..k BY <2>0, <2>4, <2>5, <3>2
    <3> QED BY <2>0, <3>1, <3>2
  <2> QED BY <1>4, <2>k, <2>3, <2>4, <2>5 DEF ResultsInOrder
<1>5. ASSUME NEW m, StartStep(m) PROVE ResultsInOrder'
  <2>1. /\ Stamped /\ client' = client /\ host' # None /\ HostWell(host') /\ m = toWorker[1]
        /\ Starts(m) /\ 1 \in 1..Len(toWorker)
    BY <1>5, TakenFrom DEF StartStep, Takes
  <2>2. host'.run <= client.run BY <2>1 DEF RunsInOrder
  <2>3. ~Ours BY <2>1 DEF RunsInOrder
  <2>4. \A i \in 1..n : ~MineBack(i) BY <1>n, <2>3 DEF ResultsInOrder
  <2> QED BY <1>4, <2>1, <2>2, <2>4
<1>6. ASSUME NEW m, HostForkStep(m) PROVE ResultsInOrder'
  <2>1. /\ Stamped /\ client' = client /\ host' # None /\ HostWell(host') /\ host # None
        /\ host'.run = host.run /\ host'.rev > host.rev
    BY <1>6 DEF HostForkStep, Takes, Active
  <2>2. host'.run <= client.run BY <2>1 DEF RunsInOrder
  <2>3. host'.rev \in Nat BY <2>1, WellHost, ProtocolAssumption DEF Revision
  <2>4. ASSUME NEW i \in 1..n, MineBack(i) PROVE host'.run = client.run /\ toMain[i].rev <= host'.rev
    <3>1. Ours /\ toMain[i].rev <= host.rev BY <1>n, <2>4 DEF ResultsInOrder
    <3> QED BY <1>0, <2>1, <2>3, <3>1 DEF Ours
  <2> QED BY <1>4, <2>1, <2>2, <2>4
<1>7. CASE WorkStep
  <2>1. /\ Stamped /\ client' = client /\ host' # None /\ HostWell(host') /\ host # None
        /\ host'.run = host.run /\ host'.rev = host.rev
    BY <1>7 DEF WorkStep, SameRun, Active
  <2>2. host'.run <= client.run BY <2>1 DEF RunsInOrder
  <2>3. \A i \in 1..n : MineBack(i) => host'.run = client.run /\ toMain[i].rev <= host'.rev
    BY <1>n, <2>1 DEF ResultsInOrder, Ours
  <2> QED BY <1>4, <2>1, <2>2, <2>3
<1>8. CASE \E m : HostOtherStep(m) \/ DropStep(m)
  BY <1>1, <1>8 DEF HostOtherStep, DropStep, Takes, Ours, Active
<1>9. CASE (\E p, m : ForkStep(p, m)) \/ (\E m : OtherStep(m)) \/ QuietStep \/ vars' = vars
  BY <1>1, <1>9 DEF ForkStep, OtherStep, Posts, QuietStep, SameClock, SameResults, vars, Ours
<1> QED BY <1>2, <1>3, <1>5, <1>6, <1>7, <1>8, <1>9 DEF AStep

(* The run, the cuts and the results of the two sides keep their order.      *)
THEOREM ChannelsAreOrdered == Spec => []Ordered
<1>1. Init => Ordered
  <2> SUFFICES ASSUME Init PROVE Ordered OBVIOUS
  <2> DEFINE m == [type |-> "init", run |-> 1, at |-> Entry]
  <2>1. toWorker = <<m>> /\ toMain = <<>> /\ host = None /\ client = NewClient(1, Entry) BY DEF Init
  <2>2. client.run = 1 /\ client.rev = 0 /\ client.cuts = {} BY <2>1 DEF NewClient
  <2>3. m.run = 1 /\ m.type = "init" OBVIOUS
  <2> HIDE DEF m
  <2>4. Len(toWorker) = 1 /\ toWorker[1] = m BY <2>1, ShortSeqs
  <2>5. Len(toMain) = 0 BY <2>1, ShortSeqs
  <2>6. \A i \in 1..1 : i = 1 OBVIOUS
  <2>7. ~Ours BY <2>1 DEF Ours
  <2>8. CutsNumbered BY <2>2 DEF CutsNumbered
  <2>9. StartsAt(1) BY <2>2, <2>3, <2>4 DEF StartsAt, Starts
  <2>10. RunsInOrder BY <2>1, <2>2, <2>3, <2>4, <2>6, <2>7, <2>9 DEF RunsInOrder
  <2>11. \A i \in 1..1 : ~Forked(i) BY <2>3, <2>4, <2>6 DEF Forked
  <2>12. ForksInOrder BY <2>2, <2>4, <2>7, <2>11 DEF ForksInOrder
  <2>13. ResultsInOrder BY <2>5 DEF ResultsInOrder
  <2> QED BY <2>8, <2>10, <2>12, <2>13 DEF Ordered
<1>2. PlaybackTyped /\ Ordered /\ [Next]_vars => Ordered'
  BY Steps, CutsNext, RunsNext, ForksNext, ResultsNext DEF Ordered
<1>3. Spec => []PlaybackTyped BY PlaybackIsTyped
<1> QED BY <1>1, <1>2, <1>3, PTL DEF Spec

-----------------------------------------------------------------------------
(* The two sides come to agree.                                              *)

(* The last message that moves the focus moves it to where the main thread   *)
(* has it; with none on the way, the worker's focus is there.                *)
FocusAgreed ==
  /\ \A i \in 1..Len(toWorker) :
       Mine(i) /\ SetsFocus(toWorker[i])
         /\ (\A j \in (i + 1)..Len(toWorker) : ~SetsFocus(toWorker[j])) =>
       FocusOf(toWorker[i]) = client.focusDay
  /\ Live /\ (\A i \in 1..Len(toWorker) : ~SetsFocus(toWorker[i])) => host.focus[1] = client.focusDay

(* The same of the tracked analyst.  Until the user chooses one, the main    *)
(* thread learns the scenario's from the worker's first answer.              *)
Tracks(i) == Mine(i) /\ toWorker[i].type = "track"
ReadyComes == \E j \in 1..Len(toMain) : MineBack(j) /\ toMain[j].type = "ready"
TrackAgreed ==
  /\ \A i \in 1..Len(toWorker) :
       Tracks(i) /\ (\A j \in (i + 1)..Len(toWorker) : ~Tracks(j)) => toWorker[i].analyst = client.tracked
  /\ \A i \in 1..Len(toWorker) : Tracks(i) => client.userTracked
  /\ client.userTracked => client.tracked # None
  /\ Ours /\ ~client.userTracked =>
       host.tracked = Initial /\ (client.tracked = Initial \/ (client.tracked = None /\ ReadyComes))
  /\ ~Ours /\ ~client.userTracked => client.tracked = None
  /\ ~Ours /\ client.userTracked => \E i \in 1..Len(toWorker) : Tracks(i)
  /\ Live /\ client.userTracked /\ (\A i \in 1..Len(toWorker) : ~Tracks(i)) => host.tracked = client.tracked

(* A live run of the main thread drops nothing. *)
LEMMA NoDrop ==
  ASSUME PlaybackTyped, Ordered, Live, NEW m, DropStep(m)
  PROVE  FALSE
<1>1. m = toWorker[1] /\ 1 \in 1..Len(toWorker) /\ Takes(m) BY TakenFrom DEF DropStep
<1>2. m.run = client.run BY <1>1 DEF Ordered, RunsInOrder, Live
<1>3. m.type = "fork" /\ ~(m.patch.rev > host.rev) BY <1>2 DEF DropStep, Live, Ours, Active
<1>4. Forked(1) BY <1>1, <1>2, <1>3 DEF Forked, Mine
<1> QED BY <1>1, <1>3, <1>4 DEF Ordered, ForksInOrder, Live

LEMMA FocusNext ==
  ASSUME PlaybackTyped, Ordered, FocusAgreed, AStep
  PROVE  FocusAgreed'
<1>n. PICK n : n = Len(toWorker) OBVIOUS
<1>0. /\ n \in Nat /\ client.run \in Nat
      /\ \A i \in 1..n : toWorker[i].run \in Nat /\ toWorker[i].run <= client.run
  BY <1>n, Numbers DEF Ordered, RunsInOrder
<1>1. ASSUME toWorker' = toWorker, client'.run = client.run, client'.focusDay = client.focusDay,
             Live' => Live /\ host'.focus = host.focus
      PROVE  FocusAgreed'
  BY <1>1 DEF FocusAgreed, Mine, SetsFocus, Starts, FocusOf
<1>2. ASSUME NEW m, Posts(m), SetsFocus(m), FocusOf(m) = client'.focusDay
      PROVE  FocusAgreed'
  <2>0. /\ Len(toWorker') = n + 1 /\ toWorker'[n + 1] = m /\ n + 1 \in 1..(n + 1)
        /\ \A i \in 1..(n + 1) : i \in 1..n \/ i = n + 1
    BY <1>n, <1>2, PostedFrom
  <2>1. \A i \in 1..n : n + 1 \in (i + 1)..(n + 1) BY <1>0
  <2>2. SetsFocus(toWorker'[n + 1]) /\ FocusOf(toWorker'[n + 1]) = client'.focusDay BY <1>2, <2>0
  <2>3. ASSUME NEW i \in 1..(n + 1), \A j \in (i + 1)..(n + 1) : ~SetsFocus(toWorker'[j])
        PROVE  FocusOf(toWorker'[i]) = client'.focusDay
    <3>1. i = n + 1 BY <2>0, <2>1, <2>2, <2>3
    <3> QED BY <2>2, <3>1
  <2> QED BY <2>0, <2>2, <2>3 DEF FocusAgreed, SetsFocus, Starts, FocusOf
<1>3. ASSUME NEW m, OtherStep(m), ~SetsFocus(m) PROVE FocusAgreed'
  <2>0. /\ Len(toWorker') = n + 1 /\ toWorker'[n + 1] = m /\ host' = host
        /\ \A i \in 1..n : i \in 1..(n + 1) /\ toWorker'[i] = toWorker[i]
        /\ \A i \in 1..(n + 1) : i \in 1..n \/ i = n + 1
        /\ client'.run = client.run /\ client'.focusDay = client.focusDay
    BY <1>n, <1>3, PostedFrom DEF Posts, OtherStep, SameClock
  <2>1. \A i \in 1..n : Mine(i)' <=> Mine(i) BY <1>n, <2>0 DEF Mine
  <2>2. ASSUME NEW i \in 1..(n + 1), Mine(i)', SetsFocus(toWorker'[i]),
               \A j \in (i + 1)..(n + 1) : ~SetsFocus(toWorker'[j])
        PROVE  FocusOf(toWorker'[i]) = client'.focusDay
    <3>1. i \in 1..n BY <1>3, <2>0, <2>2
    <3>2. \A j \in (i + 1)..n : j \in (i + 1)..(n + 1) /\ j \in 1..n BY <1>0, <3>1
    <3>3. \A j \in (i + 1)..n : ~SetsFocus(toWorker[j]) BY <2>0, <2>2, <3>2
    <3> QED BY <1>n, <2>0, <2>1, <2>2, <3>1, <3>3 DEF FocusAgreed
  <2>3. ASSUME Live', \A i \in 1..(n + 1) : ~SetsFocus(toWorker'[i])
        PROVE  host'.focus[1] = client'.focusDay
    <3>1. \A i \in 1..n : ~SetsFocus(toWorker[i]) BY <2>0, <2>3
    <3>2. Live BY <2>0, <2>3 DEF Live, Ours
    <3> QED BY <1>n, <2>0, <3>1, <3>2 DEF FocusAgreed
  <2> QED BY <2>0, <2>2, <2>3 DEF FocusAgreed, SetsFocus, Starts, FocusOf
(* A message is taken. *)
<1>4. ASSUME NEW m, Takes(m),
             Live' /\ (\A i \in 2..n : ~SetsFocus(toWorker[i])) =>
               \/ Mine(1) /\ SetsFocus(m) /\ host'.focus[1] = FocusOf(m)
               \/ Live /\ ~SetsFocus(m) /\ host'.focus = host.focus
      PROVE  FocusAgreed'
  <2>0. /\ n >= 1 /\ Len(toWorker') = n - 1 /\ m = toWorker[1] /\ client' = client
        /\ \A i \in 1..(n - 1) : i + 1 \in 1..n /\ toWorker'[i] = toWorker[i + 1]
        /\ \A j \in 2..n : j \in 1..n /\ j - 1 \in 1..(n - 1) /\ toWorker'[j - 1] = toWorker[j]
    BY <1>n, <1>4, TakenFrom
  <2>1. \A i \in 1..(n - 1) : Mine(i)' <=> Mine(i + 1) BY <1>n, <2>0 DEF Mine
  <2>2. ASSUME NEW i \in 1..(n - 1), Mine(i)', SetsFocus(toWorker'[i]),
               \A j \in (i + 1)..(n - 1) : ~SetsFocus(toWorker'[j])
        PROVE  FocusOf(toWorker'[i]) = client'.focusDay
    <3>1. ASSUME NEW j \in ((i + 1) + 1)..n PROVE ~SetsFocus(toWorker[j])
      <4>1. j \in 2..n /\ j - 1 \in (i + 1)..(n - 1) BY <1>0
      <4> QED BY <2>0, <2>2, <4>1
    <3> QED BY <1>n, <2>0, <2>1, <2>2, <3>1 DEF FocusAgreed
  <2>3. ASSUME Live', \A i \in 1..(n - 1) : ~SetsFocus(toWorker'[i])
        PROVE  host'.focus[1] = client'.focusDay
    <3>1. \A j \in 2..n : ~SetsFocus(toWorker[j]) BY <2>0, <2>3
    <3>2. CASE Mine(1) /\ SetsFocus(m) /\ host'.focus[1] = FocusOf(m)
      <4>1. 1 \in 1..n /\ (1 + 1)..n = 2..n BY <1>0, <2>0
      <4>2. FocusOf(m) = client.focusDay BY <1>n, <2>0, <3>1, <3>2, <4>1 DEF FocusAgreed
      <4> QED BY <2>0, <3>2, <4>2
    <3>3. CASE Live /\ ~SetsFocus(m) /\ host'.focus = host.focus
      <4>1. \A j \in 1..n : j = 1 \/ j \in 2..n BY <1>0
      <4>2. \A j \in 1..n : ~SetsFocus(toWorker[j]) BY <2>0, <3>1, <3>3, <4>1
      <4> QED BY <1>n, <2>0, <3>3, <4>2 DEF FocusAgreed
    <3> QED BY <1>4, <2>3, <3>1, <3>2, <3>3
  <2> QED BY <2>0, <2>2, <2>3 DEF FocusAgreed, SetsFocus, Starts, FocusOf
<1>5. ASSUME NEW m, StartStep(m) PROVE FocusAgreed'
  <2>1. /\ Takes(m) /\ Starts(m) /\ host'.run = m.run /\ host'.focus = m.at /\ client' = client
        /\ m = toWorker[1] /\ 1 \in 1..n
    BY <1>n, <1>5, TakenFrom DEF StartStep
  <2>2. Live' => Mine(1) BY <1>n, <2>1 DEF Live, Ours, Mine
  <2>3. SetsFocus(m) /\ FocusOf(m) = m.at[1] BY <2>1 DEF SetsFocus, FocusOf, Starts
  <2> QED BY <2>1, <2>2, <2>3, <1>4
<1>6. ASSUME NEW m, HostForkStep(m) \/ HostOtherStep(m) PROVE FocusAgreed'
  <2>1. /\ Takes(m) /\ client' = client /\ m.run = host.run /\ host # None
        /\ host'.run = host.run /\ host'.failed = host.failed
        /\ m = toWorker[1] /\ 1 \in 1..n
    BY <1>n, <1>6, TakenFrom DEF HostForkStep, HostOtherStep, Active
  <2>2. Live' => Live /\ Mine(1) BY <1>n, <2>1 DEF Live, Ours, Mine
  <2>3. \/ SetsFocus(m) /\ host'.focus[1] = FocusOf(m)
        \/ ~SetsFocus(m) /\ host'.focus = host.focus
    <3>1. CASE HostForkStep(m)
      <4>1. m.type = "fork" /\ host'.focus = <<m.patch.day, m.patch.at>> BY <3>1 DEF HostForkStep
      <4> QED BY <4>1 DEF SetsFocus, FocusOf
    <3>2. CASE HostOtherStep(m)
      <4>1. m.type # "fork" /\ host'.focus = IF SetsFocus(m) THEN m.at ELSE host.focus
        BY <3>2 DEF HostOtherStep
      <4> QED BY <4>1 DEF FocusOf
    <3> QED BY <1>6, <3>1, <3>2
  <2> QED BY <2>1, <2>2, <2>3, <1>4
<1>7. ASSUME NEW m, DropStep(m) PROVE FocusAgreed'
  <2>1. Takes(m) /\ host' = host /\ client' = client BY <1>7, TakenFrom DEF DropStep
  <2>2. ~Live' BY <1>7, <2>1, NoDrop DEF Live, Ours
  <2> QED BY <2>1, <2>2, <1>4
<1>8. CASE \E p, m : ForkStep(p, m)
  <2>1. PICK p, m : ForkStep(p, m) BY <1>8
  <2>2. Posts(m) /\ SetsFocus(m) /\ FocusOf(m) = client'.focusDay
    BY <2>1 DEF ForkStep, SetsFocus, FocusOf
  <2> QED BY <1>2, <2>2
<1>9. CASE \E m : ResetStep(m)
  <2>1. PICK m : ResetStep(m) BY <1>9
  <2>2. Posts(m) /\ SetsFocus(m) /\ FocusOf(m) = client'.focusDay
    BY <2>1 DEF ResetStep, SetsFocus, FocusOf, Starts, NewClient
  <2> QED BY <1>2, <2>2
<1>10. CASE \E m : OtherStep(m)
  <2>1. PICK m : OtherStep(m) BY <1>10
  <2>2. SetsFocus(m) => Posts(m) /\ FocusOf(m) = client'.focusDay BY <2>1 DEF OtherStep
  <2> QED BY <1>2, <1>3, <2>1, <2>2
<1>11. CASE QuietStep \/ (\E m : ReceiveStep(m)) \/ vars' = vars
  BY <1>1, <1>11 DEF QuietStep, SameClock, ReceiveStep, vars, Live, Ours
<1>12. CASE WorkStep BY <1>1, <1>12 DEF WorkStep, SameRun, Live, Ours, Active
<1> QED BY <1>5, <1>6, <1>7, <1>8, <1>9, <1>10, <1>11, <1>12 DEF AStep

LEMMA TrackNext ==
  ASSUME PlaybackTyped, PlaybackTyped', Ordered, TrackAgreed, AStep
  PROVE  TrackAgreed'
<1>n. PICK n : n = Len(toWorker) OBVIOUS
<1>0. /\ n \in Nat /\ client.run \in Nat
      /\ \A i \in 1..n : toWorker[i].run \in Nat /\ toWorker[i].run <= client.run
      /\ host # None => host.run <= client.run
      /\ client.userTracked \in BOOLEAN /\ None \notin Analyst /\ Initial \in Analyst
  BY <1>n, Numbers, ProtocolAssumption DEF Ordered, RunsInOrder, PlaybackTyped, ClientTyped
<1>1. CASE vars' = vars
  <2>1. \A i : Tracks(i)' <=> Tracks(i) BY <1>1 DEF Tracks, Mine, vars
  <2>2. ReadyComes' <=> ReadyComes BY <1>1 DEF ReadyComes, MineBack, vars
  <2>3. (Ours' <=> Ours) /\ (Live' <=> Live) BY <1>1 DEF Ours, Live, vars
  <2> QED BY <1>1, <2>1, <2>2, <2>3 DEF TrackAgreed, vars
<1>2. CASE WorkStep
  <2>0. /\ toWorker' = toWorker /\ client' = client /\ Stamped /\ host # None /\ host' # None
        /\ ~host.failed /\ host'.run = host.run /\ host'.tracked = host.tracked
    BY <1>2 DEF WorkStep, SameRun, Active
  <2>1. \A i : Tracks(i)' <=> Tracks(i) BY <2>0 DEF Tracks, Mine
  <2>2. ReadyComes => ReadyComes' BY <2>0, SentFrom DEF ReadyComes, MineBack
  <2>3. (Ours' <=> Ours) /\ (Live' => Live) BY <2>0 DEF Ours, Live
  <2> QED BY <2>0, <2>1, <2>2, <2>3 DEF TrackAgreed
<1>3. ASSUME NEW m, ReceiveStep(m) PROVE TrackAgreed'
  <2>k. PICK k : k = Len(toMain) OBVIOUS
  <2>0. /\ toWorker' = toWorker /\ host' = host /\ client'.run = client.run
        /\ client'.userTracked = client.userTracked
        /\ client'.tracked = IF m.run = client.run /\ m.type = "ready" /\ ~client.userTracked
                             THEN Initial ELSE client.tracked
        /\ k \in Nat /\ k >= 1 /\ Len(toMain') = k - 1 /\ m = toMain[1] /\ 1 \in 1..k
        /\ \A i \in 1..(k - 1) : i + 1 \in 1..k /\ toMain'[i] = toMain[i + 1]
    BY <1>3, <2>k, ReceivedFrom DEF ReceiveStep
  <2>1. \A i : Tracks(i)' <=> Tracks(i) BY <2>0 DEF Tracks, Mine
  <2>2. (Ours' <=> Ours) /\ (Live' <=> Live) BY <2>0 DEF Ours, Live
  <2>3. m.run = client.run => Ours
    BY <2>k, <2>0 DEF Ordered, ResultsInOrder, MineBack
  <2>4. ASSUME Ours, ~client.userTracked
        PROVE  host.tracked = Initial
               /\ (client'.tracked = Initial \/ (client'.tracked = None /\ ReadyComes'))
    <3>1. host.tracked = Initial /\ (client.tracked = Initial \/ (client.tracked = None /\ ReadyComes))
      BY <2>4 DEF TrackAgreed
    <3>2. CASE client.tracked = Initial BY <2>0, <3>1, <3>2
    <3>3. CASE m.run = client.run /\ m.type = "ready" BY <2>0, <2>4, <3>1, <3>3
    <3>4. CASE client.tracked = None /\ ReadyComes /\ ~(m.run = client.run /\ m.type = "ready")
      <4>1. PICK j \in 1..k : MineBack(j) /\ toMain[j].type = "ready" BY <2>k, <3>4 DEF ReadyComes
      <4>2. j # 1 BY <2>0, <3>4, <4>1 DEF MineBack
      <4>3. j - 1 \in 1..(k - 1) /\ (j - 1) + 1 = j BY <2>0, <4>2
      <4>4. toMain'[j - 1] = toMain[j] BY <2>0, <4>3
      <4>5. ReadyComes' BY <2>k, <2>0, <4>1, <4>3, <4>4 DEF ReadyComes, MineBack
      <4> QED BY <2>0, <3>1, <3>4, <4>5
    <3> QED BY <3>1, <3>2, <3>3, <3>4
  <2>5. client.userTracked => client'.tracked = client.tracked BY <2>0
  <2>6. \A i \in 1..n : Tracks(i) => client.userTracked BY <1>n DEF TrackAgreed
  <2> QED BY <1>n, <2>0, <2>1, <2>2, <2>3, <2>4, <2>5, <2>6 DEF TrackAgreed
<1>4. CASE QuietStep
  <2>0. /\ toWorker' = toWorker /\ host' = host /\ toMain' = toMain /\ client'.run = client.run
        /\ client'.tracked = client.tracked /\ client.tracked # None /\ client'.userTracked
    BY <1>4 DEF QuietStep, SameClock, SameResults
  <2>1. \A i : Tracks(i)' <=> Tracks(i) BY <2>0 DEF Tracks, Mine
  <2>2. (Ours' <=> Ours) /\ (Live' <=> Live) BY <2>0 DEF Ours, Live
  <2>3. ~Ours => client.userTracked BY <2>0 DEF TrackAgreed
  <2>4. Live /\ (\A i \in 1..n : ~Tracks(i)) => host.tracked = client.tracked
    BY <1>n, <2>0 DEF TrackAgreed, Live
  <2> QED BY <1>n, <2>0, <2>1, <2>2, <2>3, <2>4 DEF TrackAgreed
(* A message is posted for the run that goes on. *)
<1>5. ASSUME NEW m, Posts(m), m.run = client.run, client'.run = client.run,
             client'.tracked = IF m.type = "track" THEN m.analyst ELSE client.tracked,
             client'.userTracked = IF m.type = "track" THEN TRUE ELSE client.userTracked
      PROVE  TrackAgreed'
  <2>0. /\ Len(toWorker') = n + 1 /\ toWorker'[n + 1] = m /\ n + 1 \in 1..(n + 1)
        /\ host' = host /\ toMain' = toMain
        /\ \A i \in 1..n : i \in 1..(n + 1) /\ toWorker'[i] = toWorker[i]
        /\ \A i \in 1..(n + 1) : i \in 1..n \/ i = n + 1
    BY <1>n, <1>5, PostedFrom DEF Posts
  <2>1. \A i \in 1..n : Tracks(i)' <=> Tracks(i) BY <1>n, <1>5, <2>0 DEF Tracks, Mine
  <2>2. Tracks(n + 1)' <=> m.type = "track" BY <1>5, <2>0 DEF Tracks, Mine
  <2>3. (Ours' <=> Ours) /\ (Live' <=> Live) /\ (ReadyComes' <=> ReadyComes)
    BY <1>5, <2>0 DEF Ours, Live, ReadyComes, MineBack
  <2>4. CASE m.type = "track"
    <3>1. m.analyst # None BY <1>0, <1>5, <2>4 DEF Posts, InboxMessage
    <3>2. \A i \in 1..n : n + 1 \in (i + 1)..(n + 1) BY <1>0
    <3>3. ASSUME NEW i \in 1..(n + 1), \A j \in (i + 1)..(n + 1) : ~Tracks(j)'
          PROVE  toWorker'[i].analyst = client'.tracked
      <4>1. i = n + 1 BY <2>0, <2>2, <2>4, <3>2, <3>3
      <4> QED BY <1>5, <2>0, <2>4, <4>1
    <3> QED BY <1>5, <2>0, <2>2, <2>4, <3>1, <3>3 DEF TrackAgreed
  <2>5. CASE m.type # "track"
    <3>1. ASSUME NEW i \in 1..(n + 1), Tracks(i)', \A j \in (i + 1)..(n + 1) : ~Tracks(j)'
          PROVE  toWorker'[i].analyst = client'.tracked
      <4>1. i \in 1..n BY <2>0, <2>2, <2>5, <3>1
      <4>2. \A j \in (i + 1)..n : j \in (i + 1)..(n + 1) /\ j \in 1..n BY <1>0, <4>1
      <4>3. \A j \in (i + 1)..n : ~Tracks(j) BY <2>1, <3>1, <4>2
      <4> QED BY <1>n, <1>5, <2>0, <2>1, <2>5, <3>1, <4>1, <4>3 DEF TrackAgreed
    <3>2. \A i \in 1..(n + 1) : Tracks(i)' <=> (i \in 1..n /\ Tracks(i)) BY <1>0, <2>0, <2>1, <2>2, <2>5
    <3>3. \A i \in 1..(n + 1) : Tracks(i)' => client'.userTracked
      BY <1>n, <1>5, <2>5, <3>2 DEF TrackAgreed
    <3>4. ~Ours /\ client.userTracked => \E i \in 1..(n + 1) : Tracks(i)'
      BY <1>n, <2>0, <2>1 DEF TrackAgreed
    <3>5. Live /\ client.userTracked /\ (\A i \in 1..(n + 1) : ~Tracks(i)') => host.tracked = client.tracked
      BY <1>n, <2>0, <2>1 DEF TrackAgreed
    <3> QED BY <1>5, <2>0, <2>3, <2>5, <3>1, <3>3, <3>4, <3>5 DEF TrackAgreed
  <2> QED BY <2>4, <2>5
<1>6. ASSUME NEW m, ResetStep(m) PROVE TrackAgreed'
  <2>0. /\ Len(toWorker') = n + 1 /\ toWorker'[n + 1] = m /\ host' = host
        /\ \A i \in 1..n : i \in 1..(n + 1) /\ toWorker'[i] = toWorker[i]
        /\ \A i \in 1..(n + 1) : i \in 1..n \/ i = n + 1
    BY <1>n, <1>6, PostedFrom DEF Posts, ResetStep
  <2>1. client'.run = client.run + 1 /\ client'.tracked = None /\ client'.userTracked = FALSE
        /\ m.type = "reset"
    BY <1>6 DEF ResetStep, NewClient
  <2>2. \A i \in 1..(n + 1) : ~Tracks(i)'
    <3> SUFFICES ASSUME NEW i \in 1..(n + 1) PROVE ~Tracks(i)' OBVIOUS
    <3>1. CASE i \in 1..n
      <4>1. toWorker'[i].run <= client.run /\ toWorker'[i].run \in Nat BY <1>0, <2>0, <3>1
      <4> QED BY <1>0, <2>1, <4>1 DEF Tracks, Mine
    <3>2. CASE i = n + 1 BY <2>0, <2>1, <3>2 DEF Tracks
    <3> QED BY <2>0, <3>1, <3>2
  <2>3. ~Ours'
    <3>1. host # None => host.run \in Nat BY Numbers
    <3> QED BY <1>0, <2>0, <2>1, <3>1 DEF Ours
  <2> QED BY <2>0, <2>1, <2>2, <2>3 DEF TrackAgreed
(* A message is taken. *)
<1>7. ASSUME NEW m, Takes(m)
      PROVE  /\ n >= 1 /\ Len(toWorker') = n - 1 /\ m = toWorker[1] /\ client' = client /\ 1 \in 1..n
             /\ \A i \in 1..(n - 1) : Tracks(i)' => client.userTracked
             /\ \A i \in 1..(n - 1) : Tracks(i)' /\ (\A j \in (i + 1)..(n - 1) : ~Tracks(j)') =>
                  toWorker'[i].analyst = client.tracked
             /\ (\E i \in 1..n : Tracks(i)) => Tracks(1) \/ \E i \in 1..(n - 1) : Tracks(i)'
             /\ (\E i \in 1..(n - 1) : Tracks(i)') => \E i \in 2..n : Tracks(i)
             /\ (\A i \in 1..(n - 1) : ~Tracks(i)') => \A i \in 2..n : ~Tracks(i)
             /\ Stamped /\ (host'.run = host.run => (ReadyComes => ReadyComes'))
  <2>0. /\ n >= 1 /\ Len(toWorker') = n - 1 /\ m = toWorker[1] /\ client' = client
        /\ \A i \in 1..(n - 1) : i + 1 \in 1..n /\ toWorker'[i] = toWorker[i + 1]
        /\ \A j \in 2..n : j \in 1..n /\ j - 1 \in 1..(n - 1) /\ toWorker'[j - 1] = toWorker[j]
    BY <1>n, <1>7, TakenFrom
  <2>1. \A i \in 1..(n - 1) : Tracks(i)' <=> Tracks(i + 1) BY <1>n, <2>0 DEF Tracks, Mine
  <2>2. ASSUME NEW i \in 1..(n - 1), Tracks(i)', \A j \in (i + 1)..(n - 1) : ~Tracks(j)'
        PROVE  toWorker'[i].analyst = client.tracked
    <3>1. ASSUME NEW j \in ((i + 1) + 1)..n PROVE ~Tracks(j)
      <4>1. j \in 2..n /\ j - 1 \in (i + 1)..(n - 1) /\ j - 1 \in 1..(n - 1) /\ (j - 1) + 1 = j BY <1>0
      <4> QED BY <2>1, <2>2, <4>1
    <3> QED BY <1>n, <2>0, <2>1, <2>2, <3>1 DEF TrackAgreed
  <2>3. \A i \in 1..(n - 1) : Tracks(i)' => client.userTracked
    BY <1>n, <2>0, <2>1 DEF TrackAgreed
  <2>4. ASSUME NEW j \in 2..n PROVE j - 1 \in 1..(n - 1) /\ (Tracks(j - 1)' <=> Tracks(j))
    <3>1. j - 1 \in 1..(n - 1) /\ (j - 1) + 1 = j BY <1>0
    <3> QED BY <2>1, <3>1
  <2>5. \A i \in 1..n : i = 1 \/ i \in 2..n BY <1>0
  <2>6. \A i \in 1..(n - 1) : i + 1 \in 2..n BY <1>0
  <2>7. Stamped BY <1>7 DEF Takes
  <2>8. ReadyComes => ReadyComes' BY <2>0, <2>7, SentFrom DEF ReadyComes, MineBack
  <2>9. 1 \in 1..n BY <1>0, <2>0
  <2> QED BY <2>0, <2>1, <2>2, <2>3, <2>4, <2>5, <2>6, <2>7, <2>8, <2>9
<1>8. ASSUME NEW m, StartStep(m) PROVE TrackAgreed'
  <2>1. /\ Takes(m) /\ Starts(m) /\ host'.run = m.run /\ host'.tracked = Initial /\ host' # None
        /\ Len(toMain') = Len(toMain) + 1 /\ toMain'[Len(toMain) + 1].type = "ready"
    BY <1>8 DEF StartStep
  <2>2. ~Ours /\ ~Tracks(1)
    BY <1>n, <1>7, <2>1 DEF Ordered, RunsInOrder, Tracks, Starts
  <2>3. Ours' => ReadyComes'
    <3>1. Len(toMain) + 1 \in (Len(toMain) + 1)..Len(toMain') /\ Len(toMain) + 1 \in 1..Len(toMain')
      BY <2>1, Numbers
    <3>2. toMain'[Len(toMain) + 1].run = host'.run BY <1>7, <2>1, <3>1, SentFrom
    <3> QED BY <2>1, <3>1, <3>2 DEF Ours, ReadyComes, MineBack
  <2>4. client.userTracked => \E i \in 1..(n - 1) : Tracks(i)'
    BY <1>n, <1>7, <2>1, <2>2 DEF TrackAgreed
  <2>5. ~client.userTracked => client.tracked = None BY <2>2 DEF TrackAgreed
  <2>6. client.userTracked => client.tracked # None BY DEF TrackAgreed
  <2> QED BY <1>7, <2>1, <2>3, <2>4, <2>5, <2>6 DEF TrackAgreed
<1>9. ASSUME NEW m, HostForkStep(m) \/ HostOtherStep(m) PROVE TrackAgreed'
  <2>1. /\ Takes(m) /\ m.run = host.run /\ host # None /\ ~host.failed /\ ~Starts(m) /\ host' # None
        /\ host'.run = host.run /\ host'.failed = host.failed
        /\ host'.tracked = IF m.type = "track" THEN m.analyst ELSE host.tracked
    BY <1>9 DEF HostForkStep, HostOtherStep, Active, Starts
  <2>2. (Ours' <=> Ours) /\ (Live' <=> Ours) BY <1>7, <2>1 DEF Ours, Live
  <2>3. Tracks(1) <=> Ours /\ m.type = "track" BY <1>n, <1>7, <2>1 DEF Tracks, Mine, Ours
  <2>4. ASSUME Ours, ~client.userTracked
        PROVE  host'.tracked = Initial
               /\ (client.tracked = Initial \/ (client.tracked = None /\ ReadyComes'))
    <3>1. ~Tracks(1) BY <1>n, <1>7, <2>1, <2>4 DEF TrackAgreed
    <3> QED BY <1>7, <2>1, <2>3, <2>4, <3>1 DEF TrackAgreed
  <2>5. ASSUME Ours, client.userTracked, \A i \in 1..(n - 1) : ~Tracks(i)'
        PROVE  host'.tracked = client.tracked
    <3>1. \A i \in 2..n : ~Tracks(i) BY <1>7, <2>1, <2>5
    <3>2. CASE m.type = "track"
      <4>1. (1 + 1)..n = 2..n /\ 1 \in 1..n BY <1>7, <2>1
      <4>2. toWorker[1].analyst = client.tracked
        BY <1>n, <2>3, <2>5, <3>1, <3>2, <4>1 DEF TrackAgreed
      <4> QED BY <1>7, <2>1, <3>2, <4>2
    <3>3. CASE m.type # "track"
      <4>1. \A i \in 1..n : i = 1 \/ i \in 2..n BY <1>0
      <4>2. \A i \in 1..n : ~Tracks(i) BY <2>3, <3>1, <3>3, <4>1
      <4>3. Live BY <2>1, <2>5 DEF Live
      <4> QED BY <1>n, <2>1, <2>5, <3>3, <4>2, <4>3 DEF TrackAgreed
    <3> QED BY <3>2, <3>3
  <2>6. ~Ours /\ client.userTracked => \E i \in 1..(n - 1) : Tracks(i)'
    BY <1>n, <1>7, <2>1, <2>3 DEF TrackAgreed
  <2>7. /\ client.userTracked => client.tracked # None
        /\ ~Ours /\ ~client.userTracked => client.tracked = None
    BY DEF TrackAgreed
  <2> QED BY <1>7, <2>1, <2>2, <2>4, <2>5, <2>6, <2>7 DEF TrackAgreed
<1>10. ASSUME NEW m, DropStep(m) PROVE TrackAgreed'
  <2>1. Takes(m) /\ ~Starts(m) /\ host' = host BY <1>10 DEF DropStep
  <2>2. (Ours' <=> Ours) /\ ~Live' BY <1>7, <1>10, <2>1, NoDrop DEF Ours, Live
  <2>3. ~Ours => ~Tracks(1)
    <3>1. ASSUME ~Ours, Tracks(1) PROVE FALSE
      <4>1. PICK k \in 1..n : StartsAt(k) BY <1>n, <3>1 DEF Ordered, RunsInOrder
      <4>2. k # 1 BY <1>7, <2>1, <4>1 DEF StartsAt
      <4>3. 1 \in 1..(k - 1) BY <1>0, <4>1, <4>2
      <4> QED BY <3>1, <4>1, <4>3 DEF StartsAt, Tracks, Mine
    <3> QED BY <3>1
  <2>4. ~Ours /\ client.userTracked => \E i \in 1..(n - 1) : Tracks(i)'
    BY <1>n, <1>7, <2>1, <2>3 DEF TrackAgreed
  <2>5. /\ client.userTracked => client.tracked # None
        /\ ~Ours /\ ~client.userTracked => client.tracked = None
        /\ Ours /\ ~client.userTracked =>
             host.tracked = Initial /\ (client.tracked = Initial \/ (client.tracked = None /\ ReadyComes))
    BY DEF TrackAgreed
  <2>6. ReadyComes => ReadyComes' BY <1>7, <2>1
  <2> QED BY <1>7, <2>1, <2>2, <2>4, <2>5, <2>6 DEF TrackAgreed
<1>11. CASE \E p, m : ForkStep(p, m) BY <1>5, <1>11 DEF ForkStep
<1>12. CASE \E m : OtherStep(m) BY <1>5, <1>12 DEF OtherStep, SameClock
<1> QED BY <1>1, <1>2, <1>3, <1>4, <1>6, <1>8, <1>9, <1>10, <1>11, <1>12 DEF AStep

(* Once no message is on its way, the main thread and the worker have the    *)
(* same run, revision and cuts, the same day in focus and the same tracked   *)
(* analyst (playback/store.ts, worker/host.ts).                              *)
THEOREM TheTwoSidesAgree == Spec => []Agreed
<1> DEFINE Both == FocusAgreed /\ TrackAgreed
<1>1. Init => Both
  <2> SUFFICES ASSUME Init PROVE Both OBVIOUS
  <2> DEFINE m == [type |-> "init", run |-> 1, at |-> Entry]
  <2>1. toWorker = <<m>> /\ host = None /\ client = NewClient(1, Entry) BY DEF Init
  <2>2. client.focusDay = Entry[1] /\ client.userTracked = FALSE /\ client.tracked = None
    BY <2>1 DEF NewClient
  <2>3. m.type = "init" /\ m.at = Entry OBVIOUS
  <2> HIDE DEF m
  <2>4. Len(toWorker) = 1 /\ toWorker[1] = m /\ ~Ours BY <2>1, ShortSeqs DEF Ours
  <2>5. \A i \in 1..1 : i = 1 OBVIOUS
  <2>6. FocusAgreed BY <2>2, <2>3, <2>4, <2>5 DEF FocusAgreed, FocusOf, Live
  <2>7. TrackAgreed BY <2>2, <2>3, <2>4, <2>5 DEF TrackAgreed, Tracks, Live
  <2> QED BY <2>6, <2>7
<1>2. PlaybackTyped /\ PlaybackTyped' /\ Ordered /\ Both /\ [Next]_vars => Both'
  BY Steps, FocusNext, TrackNext
<1>3. PlaybackTyped /\ Ordered /\ Both => Agreed
  <2> SUFFICES ASSUME PlaybackTyped, Ordered, Both, Active, toWorker = <<>>, toMain = <<>>
               PROVE  /\ host.run = client.run /\ host.rev = client.rev /\ host.patches = client.cuts
                      /\ host.tracked = client.tracked /\ host.focus[1] = client.focusDay
    BY DEF Agreed
  <2>1. Len(toWorker) = 0 /\ Len(toMain) = 0 BY ShortSeqs
  <2>2. 1..0 = {} OBVIOUS
  <2>3. Ours BY <2>1, <2>2 DEF Ordered, RunsInOrder
  <2>4. Live BY <2>3 DEF Live, Active
  <2>5. \A p \in client.cuts : p.rev <= host.rev BY <2>1, <2>2, <2>4 DEF Ordered, ForksInOrder, Live
  <2>6. host.rev = client.rev
    <3>1. host.rev <= client.rev /\ host.rev \in Nat /\ client.rev \in Nat
      BY <2>3, Numbers DEF Ordered, ForksInOrder, Ours
    <3>2. CASE client.rev = 0 BY <3>1, <3>2
    <3>3. CASE client.rev # 0
      <4>1. client.rev \in 1..client.rev BY <3>1, <3>3
      <4>2. PICK p \in client.cuts : p.rev = client.rev BY <4>1 DEF Ordered, CutsNumbered
      <4> QED BY <2>5, <3>1, <4>2
    <3> QED BY <3>2, <3>3
  <2>7. host.patches = client.cuts BY <2>3, <2>5 DEF Ordered, ForksInOrder
  <2>8. host.focus[1] = client.focusDay BY <2>1, <2>2, <2>4 DEF FocusAgreed
  <2>9. ~ReadyComes BY <2>1, <2>2 DEF ReadyComes
  <2>10. host.tracked = client.tracked BY <2>1, <2>2, <2>3, <2>4, <2>9 DEF TrackAgreed
  <2> QED BY <2>3, <2>6, <2>7, <2>8, <2>10 DEF Ours
<1>4. Spec => []PlaybackTyped BY PlaybackIsTyped
<1>5. Spec => []Ordered BY ChannelsAreOrdered
<1> HIDE DEF Both
<1> QED BY <1>1, <1>2, <1>3, <1>4, <1>5, PTL DEF Spec
=============================================================================
