------------------------------- MODULE DayRun -------------------------------
(***************************************************************************)
(* A day run (engine/core/run.ts and runner.ts): the caller advances it in *)
(* steps of any length, checkpoints it between them, and restores a        *)
(* checkpoint with a list of patches that agrees with what it has applied. *)
(* An advance is a loop that picks the next patch or event, closes the     *)
(* bucket boundaries before it, and runs it.                               *)
(*                                                                         *)
(* A handler or hook may throw; the run then refuses every call, and what  *)
(* is left of its state is never read.  Left out: the chunk an advance     *)
(* returns.                                                                *)
(***************************************************************************)
EXTENDS DayOrder

VARIABLES
  now,   \* simulated time reached
  phase, \* "idle", where the advance is ("pick", "close" or "end"), or "failed"
  goal,  \* the end of the advance
  limit, \* the boundaries up to here are being closed
  atMs   \* the time of the checkpoint in `kept`

vars == <<day, kept, now, phase, goal, limit, atMs>>

NextEventAt == IF day.pending = {} THEN DayEnd ELSE (CHOOSE e \in day.pending : Earliest(e)).at
NextPatchAt == IF PatchPending THEN day.inDay[day.next].at ELSE DayEnd
NextAt == IF NextPatchAt <= NextEventAt THEN NextPatchAt ELSE NextEventAt
NextBoundary == day.closedTo + BucketMs

-----------------------------------------------------------------------------
Advance(untilMs) ==
  /\ phase = "idle" /\ untilMs >= now
  /\ phase' = "pick"
  /\ goal' = IF untilMs < DayEnd THEN untilMs ELSE DayEnd
  /\ UNCHANGED <<day, kept, now, limit, atMs>>

(* The loop closes the boundaries before the next item, or at the end all    *)
(* that the advance has passed.                                              *)
PassedLate == NextAt > goal  \* mutation: what is due at the end runs too
Passed == NextAt >= goal

Crosses == NextAt >= NextBoundary

StartClosing ==
  /\ phase = "pick"
  /\ \/ Passed /\ phase' = "end" /\ limit' = goal
     \/ ~Passed /\ Crosses /\ phase' = "close" /\ limit' = NextAt
  /\ UNCHANGED <<day, kept, now, goal, atMs>>

CloseNext ==
  /\ phase \in {"close", "end"} /\ NextBoundary <= limit
  /\ day' = CloseBucket(day)
  /\ now' = NextBoundary
  /\ UNCHANGED <<kept, phase, goal, limit, atMs>>

Closed ==
  /\ phase \in {"close", "end"} /\ NextBoundary > limit
  /\ IF phase = "end" THEN phase' = "idle" /\ now' = goal
                      ELSE phase' = "pick" /\ UNCHANGED now
  /\ UNCHANGED <<day, kept, goal, limit, atMs>>

PatchFirst == NextPatchAt <= NextEventAt

Dispatch ==
  /\ phase = "pick" /\ ~Passed /\ ~Crosses
  /\ now' = NextAt
  /\ day' = IF PatchFirst THEN ApplyPatch(day)
            ELSE OnEvent(day, CHOOSE e \in day.pending : Earliest(e))
  /\ UNCHANGED <<kept, phase, goal, limit, atMs>>

(* A handler, or a bucket hook, throws: the run is unusable. *)
Throw ==
  /\ \/ phase = "pick" /\ ~Passed /\ ~Crosses /\ now' = NextAt
     \/ phase \in {"close", "end"} /\ NextBoundary <= limit /\ now' = NextBoundary
  /\ phase' = "failed"
  /\ UNCHANGED <<day, kept, goal, limit, atMs>>

-----------------------------------------------------------------------------
Checkpoint ==
  /\ phase = "idle"
  /\ kept' = day /\ atMs' = now
  /\ UNCHANGED <<day, now, phase, goal, limit>>

(* The patches dated before the checkpoint, the first of the list as it is   *)
(* sorted, must be those it applied.                                         *)
Before(list) == {i \in DOMAIN list : list[i].at < atMs}
BakedCounted(patches) ==  \* mutation: only their number is compared
  Before(patches.inDay) = 1..(kept.next - 1)
Baked(patches) ==
  /\ Before(patches.inDay) = 1..(kept.next - 1)
  /\ \A i \in Before(patches.inDay) : patches.inDay[i] = kept.inDay[i]

Restore(patches) ==
  /\ phase \in {"idle", "failed"} /\ kept # None
  /\ patches.preDay = kept.preDay /\ Baked(patches)
  /\ day' = [kept EXCEPT !.inDay = patches.inDay]
  /\ now' = atMs /\ phase' = "idle"
  /\ UNCHANGED <<kept, goal, limit, atMs>>

DayRunInit ==
  /\ Init
  /\ now = 0 /\ phase = "idle" /\ goal = 0 /\ limit = 0 /\ atMs = 0

DayRunNext ==
  \/ \E untilMs \in 0..DayEnd : Advance(untilMs)
  \/ StartClosing \/ CloseNext \/ Closed \/ Dispatch \/ Throw
  \/ Checkpoint
  \/ \E patches \in Partitions : Restore(patches)

DayRunSpec == DayRunInit /\ [][DayRunNext]_vars

-----------------------------------------------------------------------------
(* Properties.                                                               *)

(* assertCore, which is checked between any two events and on demand: the     *)
(* buckets are closed up to now, nothing pending is in the past or after the  *)
(* day, and the patches are sorted and applied in time.                       *)
AssertCore ==
  /\ now \in 0..DayEnd
  /\ day.closedTo % BucketMs = 0 /\ day.closedTo <= now /\ now < NextBoundary
  /\ \A e \in day.pending : now <= e.at /\ e.at < DayEnd
  /\ day.next \in 1..(Len(day.inDay) + 1)
  /\ \A i, j \in DOMAIN day.inDay : i < j => day.inDay[i].at <= day.inDay[j].at
  /\ \A i \in DOMAIN day.inDay : IF i < day.next THEN day.inDay[i].at <= now ELSE now <= day.inDay[i].at

(* The checkpoint invariant of core/README.md: after advance(T) every event  *)
(* and patch before T has run, and none at or after T has, so the run can be *)
(* cut and restored there; and the core's own checks pass at all times.      *)
CheckpointExact ==
  /\ phase # "failed" => AssertCore
  /\ phase = "idle" =>
       /\ \A i \in DOMAIN day.inDay : i < day.next <=> day.inDay[i].at < now
       /\ \A i \in DOMAIN day.log :
            day.log[i].at < now \/ (day.log[i].what = "bucket" /\ day.log[i].at = now)

(* However the day is cut into advances, and from whatever checkpoint a run  *)
(* is restored, boundaries, patches and events come in the order of the day. *)
Whole == Spec
=============================================================================
