------------------------------- MODULE DayOrder -------------------------------
(***************************************************************************)
(* What a day run promises to its modules (engine/core): bucket boundaries, *)
(* patches and events happen one at a time, always the earliest of those   *)
(* pending, and at one instant the boundary first, then the patches in     *)
(* their order, then the events by priority and scheduling.  How the day   *)
(* is cut into advances, checkpointed and restored is not part of it.      *)
(*                                                                         *)
(* Of the modules there is what their handlers schedule: the router's      *)
(* refresh that comes every `period` (signalRefreshMs) and that a parameter *)
(* change moves, and an injected request, sent, dispatched and the replica *)
(* kicked at one instant, each by an event of another priority.  A bucket  *)
(* hook may schedule too, as the one in core/runner.test.ts does.  The log *)
(* shows what ran, and when.                                               *)
(***************************************************************************)
EXTENDS Integers, SequencesExt

CONSTANTS
  DayEnd,        \* the end of the day; it starts at 0
  BucketMs,
  FirstPeriod,   \* the parameter's value in the config
  Patch,         \* patches [at, set]: set is a new period, or None to inject
  MaxPatches,    \* bound on the patches of a list
  HookSchedules, \* whether the bucket hook schedules an event
  None

ASSUME DayAssumption ==
  /\ {DayEnd, BucketMs, FirstPeriod} \subseteq Nat \ {0}
  /\ DayEnd % BucketMs = 0
  /\ HookSchedules \in BOOLEAN /\ MaxPatches \in Nat
  /\ \A p \in Patch : p.at \in Int /\ (p.set = None \/ p.set \in Nat)

VARIABLES
  day, \* the run's state: its queue, parameter, patches, buckets and log
  kept \* the state of a checkpoint, or None

PatchList == SeqOf(Patch, MaxPatches)

\* `sort` is stable: a patch goes behind those of its time.
Inserted(list, p) == InsertAt(list, Cardinality({i \in DOMAIN list : list[i].at <= p.at}) + 1, p)

\* The patches of the list that are in S, in the order of time and then of the list.
Sorted(list, S) ==
  LET sorted[n \in 0..Len(list)] ==
        IF n = 0 THEN <<>>
        ELSE IF list[n] \in S THEN Inserted(sorted[n - 1], list[n]) ELSE sorted[n - 1]
  IN  sorted[Len(list)]

(* The patches of the day; and those before it, which only set parameters.   *)
InDay(list) == Sorted(list, {p \in Patch : p.at \in 0..(DayEnd - 1)})
PreDay(list) == Sorted(list, {p \in Patch : p.at < 0 /\ p.set # None})
Partitions == {[preDay |-> PreDay(list), inDay |-> InDay(list)] : list \in PatchList}

Order(kind) == CASE kind = "dispatch" -> 40 [] kind = "refresh" -> 41
                 [] kind = "extra" -> 51 [] kind = "kick" -> 90

Schedule(d, at, kind) ==
  IF at >= DayEnd THEN d
  ELSE [d EXCEPT !.pending = @ \cup {[at |-> at, ord |-> <<Order(kind), d.nextSeq>>, kind |-> kind]},
                 !.nextSeq = @ + 1]

Logged(d, what, at, value) == [d EXCEPT !.log = Append(@, [what |-> what, at |-> at, value |-> value])]

(* The handlers. *)
OnEvent(d, e) ==
  LET taken == Logged([d EXCEPT !.pending = @ \ {e}], e.kind, e.at, None) IN
  CASE e.kind = "refresh"  -> Schedule(taken, e.at + d.period, "refresh")
    [] e.kind = "extra"    -> Schedule(taken, e.at, "dispatch")
    [] e.kind = "dispatch" -> Schedule(taken, e.at, "kick")
    [] e.kind = "kick"     -> taken

OnParams(d, at, period) ==
  Schedule([d EXCEPT !.period = period, !.pending = {e \in @ : e.kind # "refresh"}],
           at + period, "refresh")

OnInjected(d, at) == Schedule(d, at, "extra")

OnBucketEnd(d, b) == IF HookSchedules THEN Schedule(d, b, "kick") ELSE d

Morning(patches) ==
  LET pre    == patches.preDay
      period == IF pre = <<>> THEN FirstPeriod ELSE Last(pre).set
  IN  Schedule([pending |-> {}, nextSeq |-> 0, period |-> period, preDay |-> pre,
                inDay |-> patches.inDay, next |-> 1, closedTo |-> 0, log |-> <<>>], period, "refresh")

-----------------------------------------------------------------------------
(* The core's effects. *)
ApplyPatch(d) ==
  LET p == d.inDay[d.next]
      logged == Logged([d EXCEPT !.next = @ + 1], "patch", p.at, p.set)
  IN  IF p.set # None THEN OnParams(logged, p.at, p.set) ELSE OnInjected(logged, p.at)

CloseBucket(d) ==
  LET b == d.closedTo + BucketMs IN OnBucketEnd(Logged([d EXCEPT !.closedTo = b], "bucket", b, None), b)

Precedes(e, f) ==
  \/ e.at < f.at
  \/ e.at = f.at /\ (e.ord[1] < f.ord[1] \/ (e.ord[1] = f.ord[1] /\ e.ord[2] < f.ord[2]))

Earliest(e) == e \in day.pending /\ \A f \in day.pending \ {e} : Precedes(e, f)

PatchPending == day.next <= Len(day.inDay)

-----------------------------------------------------------------------------
NoEventBefore(t) == \A e \in day.pending : t <= e.at
NoPatchBefore(t) == \A i \in day.next..Len(day.inDay) : t <= day.inDay[i].at

Boundary ==
  LET b == day.closedTo + BucketMs IN
  /\ b <= DayEnd /\ NoEventBefore(b) /\ NoPatchBefore(b)
  /\ day' = CloseBucket(day)

PatchApplies ==
  /\ PatchPending
  /\ LET t == day.inDay[day.next].at IN NoEventBefore(t) /\ t < day.closedTo + BucketMs
  /\ day' = ApplyPatch(day)

EventRuns(e) ==
  /\ Earliest(e)
  /\ NoPatchBefore(e.at + 1) /\ e.at < day.closedTo + BucketMs
  /\ day' = OnEvent(day, e)

Keep == kept' = day /\ UNCHANGED day

(* A restored run is in the state of the checkpoint, with patches of its own: *)
(* it has applied the first of them, and what is left comes no earlier than   *)
(* anything the run has done.                                                 *)
Resume(patches) ==
  LET new == patches.inDay IN
  /\ kept # None
  /\ kept.preDay = patches.preDay
  /\ kept.next <= Len(new) + 1
  /\ \A i \in 1..(kept.next - 1) : new[i] = kept.inDay[i]
  /\ \A i \in kept.next..Len(new), j \in DOMAIN kept.log : kept.log[j].at <= new[i].at
  /\ day' = [kept EXCEPT !.inDay = new]
  /\ UNCHANGED kept

Init == kept = None /\ \E patches \in Partitions : day = Morning(patches)

Next ==
  \/ (Boundary \/ PatchApplies \/ \E e \in day.pending : EventRuns(e)) /\ UNCHANGED kept
  \/ Keep
  \/ \E patches \in Partitions : Resume(patches)

Spec == Init /\ [][Next]_<<day, kept>>
=============================================================================
