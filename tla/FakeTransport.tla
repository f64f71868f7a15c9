---------------------------- MODULE FakeTransport ----------------------------
(***************************************************************************)
(* The fixture-backed engine (playback/fake-transport.ts) behind the same  *)
(* store: no worker, but macrotasks in one queue, so that a message it     *)
(* received, one it delivers and its next step wait for each other.  It    *)
(* answers details and traces at once and keeps no checkpoints, and must   *)
(* obey the same protocol: run ids, revisions and the fork cut rule.       *)
(*                                                                         *)
(* Its data is synthetic; what a bucket was made under is kept all the     *)
(* same, as if it depended on every patch.                                 *)
(***************************************************************************)
EXTENDS PlaybackStore, SequencesExt, TLC

CONSTANT Entry \* where the scenario starts

VARIABLES
  fake,  \* the run in progress, or None before init
  tasks  \* what was scheduled: "handle", "deliver" and "step", in order

vars == <<toWorker, toMain, client, results, used, fake, tasks>>

Times(n, task) == [i \in 1..n |-> task]
\* kick(): one step is scheduled at a time, after what was delivered.
Wakes == fake'.scheduled /\ (fake = None \/ ~fake.scheduled \/ Head(tasks) = "step")
Deliver(messages) ==
  /\ toMain' = toMain \o messages
  /\ tasks' = Tail(tasks) \o Times(Len(messages), "deliver")
                \o Times(IF Wakes THEN 1 ELSE 0, "step")

Tagged(r, type) == [type |-> type, run |-> r.run, rev |-> r.rev]
Kicked(r) == [r EXCEPT !.scheduled = @ \/ r.order # <<>>]

Made(r, d, from, to) == [b \in from..(to - 1) |-> Deps(r.patches, d, b)]

\* A day that is complete stays off the list.
Prioritized(r, d) ==
  IF r.progress[d] >= Buckets THEN r
  ELSE [r EXCEPT !.order = <<d>> \o SelectSeq(@, LAMBDA e : e # d)]

StartFake(m) ==
  LET days == [i \in 1..(LastDay + 1) |-> i - 1]
      f    == m.at[1]
      order == SelectSeq(days, LAMBDA d : d >= f) \o SelectSeq(days, LAMBDA d : d < f)
  IN /\ m.type \in {"init", "reset"}
     /\ fake' = Kicked([run |-> m.run, rev |-> 0, patches |-> {}, tracked |-> Initial,
                        progress |-> [d \in Day |-> 0], order |-> order, pieces |-> [d \in Day |-> <<>>],
                        scheduled |-> fake # None /\ fake.scheduled])
     /\ Deliver(<<Tagged(fake', "ready") @@ [analyst |-> Initial]>>)

FocusFake(m) ==
  /\ m.type = "focus" /\ m.run = fake.run
  /\ fake' = Kicked(Prioritized(fake, m.at[1]))
  /\ Deliver(<<>>)

\* The streams of the days it changes start again, the fork's day first.
ReopenedNever(order, days) == order  \* mutation: complete days stay off the list
Reopened(order, days) == FoldLeft(LAMBDA o, d : IF d \in ToSet(o) THEN o ELSE Append(o, d), order, days)
CutFake(r, p) ==
  LET later == IF p.lasting THEN [i \in 1..(LastDay - p.day) |-> p.day + i] ELSE <<>>
      short == IF p.at < r.progress[p.day] THEN p.at ELSE r.progress[p.day]
  IN [r EXCEPT !.rev = p.rev, !.patches = @ \cup {p},
               !.progress = [d \in Day |-> IF d = p.day THEN short ELSE IF d \in ToSet(later) THEN 0 ELSE @[d]],
               !.pieces = [d \in Day |-> IF d \in ToSet(later) THEN <<>>
                                         ELSE IF d = p.day THEN Restrict(@[d], {b \in DOMAIN @[d] : b < p.at})
                                         ELSE @[d]],
               !.order = Reopened(Reopened(@, later), <<p.day>>)]
ForkFake(m) ==
  /\ m.type = "fork" /\ m.run = fake.run
  /\ fake' = IF m.patch.rev <= fake.rev THEN fake
             ELSE Kicked(Prioritized(CutFake(fake, m.patch), m.patch.day))
  /\ Deliver(<<>>)

DetailFake(m) ==
  LET day == m.window[1]
      to  == WindowEnd(m.window)
  IN /\ m.type = "requestDetail" /\ m.run = fake.run
     /\ UNCHANGED fake
     /\ Deliver(<<Tagged(fake, "detail") @@ [tag |-> m.tag, day |-> day, from |-> m.window[2], to |-> to,
                                             results |-> Made(fake, day, m.window[2], to)]>>)

TrackFake(m) ==
  LET days == SelectSeq([i \in 1..(LastDay + 1) |-> i - 1], LAMBDA d : fake.progress[d] > 0)
  IN /\ m.type = "track" /\ m.run = fake.run
     /\ fake' = [fake EXCEPT !.tracked = m.analyst]
     /\ Deliver([i \in DOMAIN days |->
                   Tagged(fake, "trace") @@ [day |-> days[i], analyst |-> m.analyst, to |-> fake.progress[days[i]],
                                             results |-> fake.pieces[days[i]]]])

IgnoreFake(m) ==
  /\ m.type \notin {"init", "reset"} /\ m.run # fake.run
  /\ UNCHANGED fake /\ Deliver(<<>>)

HandleFake ==
  /\ tasks # <<>> /\ Head(tasks) = "handle"
  /\ LET m == Head(toWorker)
     IN StartFake(m) \/ FocusFake(m) \/ ForkFake(m) \/ DetailFake(m) \/ TrackFake(m) \/ IgnoreFake(m)
  /\ toWorker' = Tail(toWorker)
  /\ UNCHANGED <<client, results, used>>

\* computeOne: the first day's next chunk; its rollup with the last.
StepFake ==
  LET d    == Head(fake.order)
      from == fake.progress[d]
      to   == GridEnd(from)
      made == Made(fake, d, from, to)
      next == [fake EXCEPT !.progress[d] = to, !.pieces[d] = made @@ @, !.scheduled = FALSE,
                           !.order = IF to = Buckets THEN Tail(@) ELSE @]
  IN /\ tasks # <<>> /\ Head(tasks) = "step"
     /\ fake' = Kicked(next)
     /\ Deliver(<<Tagged(fake, "chunk") @@ [day |-> d, from |-> from, to |-> to, analyst |-> fake.tracked, results |-> made],
                  Tagged(fake, "progress") @@ [computed |-> next.progress]>>
                \o IF to < Buckets THEN <<>>
                   ELSE <<Tagged(fake, "dayComplete") @@ [day |-> d, results |-> Deps(fake.patches, d, Buckets - 1)]>>)
     /\ UNCHANGED <<client, results, used, toWorker>>

DeliverFake ==
  /\ tasks # <<>> /\ Head(tasks) = "deliver"
  /\ Receive
  /\ tasks' = Tail(tasks) /\ UNCHANGED fake

UserFake ==
  /\ User
  /\ tasks' = tasks \o Times(Len(toWorker') - Len(toWorker), "handle")
  /\ UNCHANGED fake

Init ==
  /\ client = NewClient(1, Entry) /\ results = NoData
  /\ used = [w \in {"forks", "resets", "seeks", "tracks", "details"} |-> 0]
  /\ fake = None
  /\ toWorker = <<[type |-> "init", run |-> 1, at |-> Entry]>> /\ toMain = <<>>
  /\ tasks = <<"handle">>

Next == UserFake \/ HandleFake \/ StepFake \/ DeliverFake
Spec == Init /\ [][Next]_vars

(* The store cannot tell the fake from the worker: what it shows is current  *)
(* and held, a step is scheduled whenever something is left to compute, and  *)
(* when nothing is scheduled any more everything was delivered.              *)
FakeHonest ==
  /\ ResultsCurrent /\ DetailsCurrent /\ ComputedHeld
  /\ fake # None => ("step" \in ToSet(tasks)) = fake.scheduled
  /\ tasks = <<>> => StoreComplete
=============================================================================
