------------------------------ MODULE DayStream ------------------------------
(***************************************************************************)
(* How the engine worker streams its days (worker/days.ts, grid.ts,        *)
(* checkpoints.ts): where chunks end and checkpoints fall, which of them a *)
(* day keeps as the focus moves and forks cut, and the byte budget of the  *)
(* days that are not in focus.  EngineHost says what the worker answers;   *)
(* here are the grid and the checkpoints that it leaves open.              *)
(*                                                                         *)
(* Times are of day, and a live run or a checkpoint is the time it is at:  *)
(* what they compute is EngineHost's.  Checkpoints are of one size.  The   *)
(* replays of details and traces are one job at a time, up to a time that  *)
(* was streamed.                                                           *)
(***************************************************************************)
EXTENDS Integers, FiniteSets, FiniteSetsExt

CONSTANTS
  Day,           \* 0..(WEEK_DAYS - 1)
  DayEnd, Hb,    \* DAY_MS, histBucketMs
  ShiftStart, ShiftEnd,
  ChunkMs, FirstChunkMs, FocusCheckpointMs, OtherCheckpointMs,  \* GridOptions; the last may be None
  Budget,        \* checkpoints outside the focus day
  At,            \* the times of day that focus and forks name
  MaxMoves,      \* focus messages, forks and replays
  None, Off

VARIABLES
  slots,         \* DaySlot of each day; densify: Off, None (no run yet), or its run
  focus,         \* [day, at, prefetch]
  job,           \* None or [day, from, to, run]
  moves

vars == <<slots, focus, job, moves>>

-----------------------------------------------------------------------------
(* The grid. *)
Lower(a, b) == IF a < b THEN a ELSE b
Higher(a, b) == IF a > b THEN a ELSE b
Floor(t, step) == (t \div step) * step
RoundUp(t, step) == Higher(step, Floor(t + step - 1, step))

Chunk == RoundUp(ChunkMs, Hb)
FirstChunk == Lower(Chunk, RoundUp(FirstChunkMs, Hb))
ActiveStart == Floor(Lower(DayEnd, Higher(0, ShiftStart)), Hb)
ActiveEnd == Higher(ActiveStart, Lower(DayEnd, Floor(Lower(DayEnd, Higher(0, ShiftEnd)) + Hb - 1, Hb)))
FocusEvery == RoundUp(FocusCheckpointMs, Hb)
OtherEvery == IF OtherCheckpointMs = None THEN None ELSE RoundUp(OtherCheckpointMs, Hb)

NextChunkEnd(from, first, target) ==
  LET grid == Lower(Floor(from, Chunk) + Chunk, ActiveEnd)
      end == IF first THEN Lower(grid, from + FirstChunk) ELSE grid
  IN  CASE from < ActiveStart -> ActiveStart
        [] from >= ActiveEnd -> DayEnd
        [] OTHER -> IF target # None /\ target \in from..(end - 1)
                    THEN Lower(end, Floor(target, FirstChunk) + FirstChunk) ELSE end
NextSilentEnd(from, limit) == Lower(limit, NextChunkEnd(from, FALSE, None))

Interval(d, f) == IF d = f THEN FocusEvery ELSE OtherEvery
CheckpointDue(from, to, interval) ==
  /\ interval # None
  /\ to \in (ActiveStart + 1)..ActiveEnd
  /\ to \div interval > from \div interval

-----------------------------------------------------------------------------
(* A day's checkpoints. *)
LatestAtOrBefore(C, t) == LET earlier == {c \in C : c <= t} IN IF earlier = {} THEN 0 ELSE Max(earlier)
InsertCheckpoint(C, t) == C \cup {t}
Covers(C, mark) == \E c \in C : c \in mark..(mark + Chunk - 1)
Thin(C) ==
  {c \in C : /\ OtherEvery # None
             /\ c % OtherEvery < Chunk
             /\ ~\E e \in C : e < c /\ e \div OtherEvery = c \div OtherEvery}

NewDaySlot ==
  [to |-> 0, run |-> None, complete |-> FALSE, checkpoints |-> {}, first |-> FALSE, target |-> None,
   densify |-> Off]

(* The budget: of the days outside the focus the farthest loses first, later  *)
(* ones on ties, and of its checkpoints the one with the shortest gap around. *)
Distance(d, f) == IF d > f THEN d - f ELSE f - d
Victim(days, f) ==
  CHOOSE d \in days : \A e \in days :
    Distance(e, f) < Distance(d, f) \/ (Distance(e, f) = Distance(d, f) /\ e <= d)
Gap(C, c) ==
  LET later == {e \in C : e > c} IN
  (IF later = {} THEN ActiveEnd ELSE Min(later)) - Higher(ActiveStart, LatestAtOrBefore(C, c - 1))
Stored(S, f) == MapThenSumSet(LAMBDA d : Cardinality(S[d].checkpoints), Day \ {f})
Evicted(S, f) ==
  LET d == Victim({e \in Day \ {f} : S[e].checkpoints # {}}, f)
      C == S[d].checkpoints
      least == {c \in C : \A e \in C : Gap(C, c) <= Gap(C, e)}
  IN  [S EXCEPT ![d].checkpoints = @ \ {Max(least)}]
EnforceBudget(S, f) ==
  LET after[n \in Nat] == IF n = 0 THEN S ELSE Evicted(after[n - 1], f)
  IN  after[Higher(0, Stored(S, f) - Budget)]

(* Taking a checkpoint that would be the first to go is wasted. *)
FirstVictim(S, d, f) ==
  /\ Stored(S, f) + Lower(1, Stored(S, f)) > Budget
  /\ Victim({e \in Day \ {f} : S[e].checkpoints # {} \/ e = d}, f) = d

(* What the slots become when a step of day d went from one time to another. *)
MaybeCheckpoint(S, d, from, to, f) ==
  LET taken == [S EXCEPT ![d].checkpoints = InsertCheckpoint(@, to)] IN
  CASE ~CheckpointDue(from, to, Interval(d, f)) \/ to \in S[d].checkpoints -> S
    [] OTHER -> IF d = f THEN taken ELSE IF FirstVictim(S, d, f) THEN S ELSE EnforceBudget(taken, f)

OpenRunAt(d, t) == LatestAtOrBefore(slots[d].checkpoints, t)

-----------------------------------------------------------------------------
(* Units of work. *)

(* One silent step of a day's replay, or one chunk. *)
StepDay(S, d) ==
  LET s == S[d]
      from == IF s.run # None THEN s.run ELSE OpenRunAt(d, s.to)
      silent == NextSilentEnd(from, s.to)
      end == NextChunkEnd(from, s.first, s.target)
  IN  IF from < s.to
      THEN slots' = MaybeCheckpoint([S EXCEPT ![d].run = silent], d, from, silent, focus.day)
      ELSE slots' = MaybeCheckpoint(
             [S EXCEPT ![d] = [@ EXCEPT !.first = FALSE, !.to = end, !.complete = (end = DayEnd),
                                        !.run = IF end = DayEnd THEN None ELSE end,
                                        !.target = IF @ # None /\ end > @ THEN None ELSE @]],
             d, from, end, focus.day)

(* One step of a detail's replay: toward its window, then through it. *)
StepJob ==
  LET from == IF job.run # None THEN job.run ELSE OpenRunAt(job.day, job.from)
      next == NextSilentEnd(from, IF from < job.from THEN job.from ELSE job.to)
  IN  /\ job # None
      /\ slots' = MaybeCheckpoint(slots, job.day, from, next, focus.day)
      /\ job' = IF next = job.to THEN None ELSE [job EXCEPT !.run = next]

(* Densify: the focus day's missing checkpoints, from the focus time on. *)
Limit(s) == Lower(s.to, ActiveEnd)
Marks(from, limit) == {m \in (Higher(ActiveStart, from) + 1)..limit : m % FocusEvery = 0}
NeedsDensify ==
  LET s == slots[focus.day] IN
  /\ s.densify # Off
  /\ \E m \in Marks(IF s.densify = None THEN focus.at ELSE s.densify, Limit(s)) : ~Covers(s.checkpoints, m)
StepDensify ==
  LET f == focus.day
      limit == Limit(slots[f])
      from == IF slots[f].densify # None THEN slots[f].densify ELSE OpenRunAt(f, Lower(focus.at, limit))
      next == NextSilentEnd(from, limit)
      Rest(t) == IF t >= limit THEN Off ELSE t
  IN  slots' = IF from >= limit THEN [slots EXCEPT ![f].densify = Off]
               ELSE MaybeCheckpoint([slots EXCEPT ![f].densify = Rest(next)], f, from, next, f)

(* pick: the most urgent unit. *)
Open == {d \in Day : ~slots[d].complete}
FirstInOrder(days) ==
  LET later == {d \in days : d >= focus.day} IN IF later # {} THEN Min(later) ELSE Min(days)
Rested == [slots EXCEPT ![focus.day].densify = Off]
Pick ==
  CASE focus.day \in Open -> StepDay(slots, focus.day)
    [] focus.day \notin Open /\ focus.prefetch \in Open -> StepDay(slots, focus.prefetch)
    [] OTHER -> \/ NeedsDensify /\ StepDensify
                \/ ~NeedsDensify /\ Open # {} /\ StepDay(Rested, FirstInOrder(Open))
                \/ ~NeedsDensify /\ Open = {} /\ Rested # slots /\ slots' = Rested
Work ==
  \/ StepJob /\ UNCHANGED <<focus, moves>>
  \/ job = None /\ Pick /\ UNCHANGED <<focus, job, moves>>

-----------------------------------------------------------------------------
(* Messages. *)

(* Mutant: only a change of day rebuilds the marks. *)
RefocusedLazily(S, d, t) ==
  LET f == focus.day
      left == [S EXCEPT ![f] = [@ EXCEPT !.checkpoints = Thin(@), !.densify = Off, !.target = None]]
      T == IF d = f THEN S ELSE EnforceBudget(left, d)
  IN  [T EXCEPT ![d] = [@ EXCEPT !.target = IF T[d].to <= t /\ ~T[d].complete THEN t ELSE @,
                                 !.densify = IF d # f /\ T[d].to > 0 THEN None ELSE @]]

(* What the slots become when the focus moves to day d. *)
Refocused(S, d, t) ==
  LET f == focus.day
      left == [S EXCEPT ![f] = [@ EXCEPT !.checkpoints = Thin(@), !.densify = Off, !.target = None]]
      T == IF d = f THEN S ELSE EnforceBudget(left, d)
  IN  [T EXCEPT ![d] = [@ EXCEPT !.target = IF T[d].to <= t /\ ~T[d].complete THEN t ELSE @,
                                 !.densify = IF T[d].to > 0 THEN None ELSE Off]]
Focus(d, t) ==
  /\ slots' = Refocused(slots, d, t)
  /\ focus' = [day |-> d, at |-> t, prefetch |-> None]
  /\ UNCHANGED job
Prefetch(d) ==
  /\ focus' = [focus EXCEPT !.prefetch = IF d = focus.day THEN None ELSE d]
  /\ UNCHANGED <<slots, job>>

(* The fork cut rule: the day streams again from the cut, a lasting fork's    *)
(* later days from their mornings.                                            *)
CutSlot(s, cut) ==
  LET to == Lower(s.to, cut) IN
  [s EXCEPT !.checkpoints = {c \in @ : c <= cut}, !.to = to, !.complete = FALSE,
            !.run = IF @ # None /\ @ <= to THEN @ ELSE None,
            !.densify = IF @ = Off THEN Off ELSE None,
            !.first = @ \/ cut < s.to]
ResetSlot(d) == [NewDaySlot EXCEPT !.target = IF d = focus.day THEN focus.at ELSE None]
Fork(d, t, lasting) ==
  LET cut == Floor(t, Hb)
      cutSlots == [e \in Day |-> CASE e = d -> CutSlot(slots[d], cut)
                                   [] e > d /\ lasting -> ResetSlot(e)
                                   [] OTHER -> slots[e]]
  IN  /\ slots' = Refocused(cutSlots, d, t)
      /\ focus' = [day |-> d, at |-> t, prefetch |-> None]
      /\ job' = IF job # None /\ ((job.day = d /\ job.to > cut) \/ (lasting /\ job.day > d)) THEN None ELSE job

(* A window of what was streamed, to be computed again. *)
RequestDetail(d, from, to) ==
  /\ job = None /\ from < to /\ to <= slots[d].to
  /\ job' = [day |-> d, from |-> from, to |-> to, run |-> None]
  /\ UNCHANGED <<slots, focus>>

Handle ==
  /\ moves < MaxMoves /\ moves' = moves + 1
  /\ \E d \in Day :
       \/ \E t \in At : Focus(d, t) \/ Fork(d, t, TRUE) \/ Fork(d, t, FALSE)
       \/ \E t \in At, u \in At : RequestDetail(d, t, u)
       \/ Prefetch(d)

-----------------------------------------------------------------------------
Init ==
  /\ \E d \in Day, t \in At :
       /\ focus = [day |-> d, at |-> t, prefetch |-> None]
       /\ slots = [e \in Day |-> [NewDaySlot EXCEPT !.target = IF e = d THEN t ELSE None]]
  /\ job = None /\ moves = 0

Next == Work \/ Handle
Spec == Init /\ [][Next]_vars

-----------------------------------------------------------------------------
TypeOK ==
  /\ slots \in [Day -> [to : 0..DayEnd, run : (0..DayEnd) \cup {None}, complete : BOOLEAN,
                        checkpoints : SUBSET (0..DayEnd), first : BOOLEAN, target : At \cup {None},
                        densify : (0..DayEnd) \cup {None, Off}]]
  /\ focus \in [day : Day, at : At, prefetch : Day \cup {None}]
  /\ job \in {None} \cup [day : Day, from : At, to : At, run : (0..DayEnd) \cup {None}]
  /\ moves \in 0..MaxMoves

(* A day is complete when it has streamed to its end; its live run is not     *)
(* ahead of what it sent; a cut chunk waits on an incomplete day only, and    *)
(* only the focus day waits for a time, which it has not passed.              *)
SlotsHold ==
  \A d \in Day : LET s == slots[d] IN
    /\ s.complete <=> s.to = DayEnd
    /\ s.run # None => s.run <= s.to /\ ~s.complete
    /\ s.first => ~s.complete
    /\ s.target # None => d = focus.day /\ s.to <= s.target
    /\ s.densify # Off => d = focus.day /\ s.to > 0
    /\ s.to % Hb = 0

(* No checkpoint is of a time a fork has cut or outside the active window:    *)
(* one at a time has applied the patches before it only.                      *)
CheckpointsValid ==
  \A d \in Day : \A c \in slots[d].checkpoints :
    c \in (ActiveStart + 1)..Lower(ActiveEnd, slots[d].to)

(* On the focus day, once nothing is left to rebuild, every mark from the     *)
(* focus time on is served, so that a fork or a detail replays at most from   *)
(* one mark to the next.                                                      *)
MarksServed ==
  LET s == slots[focus.day] IN
  s.densify = Off =>
    /\ \A m \in Marks(focus.at, Limit(s)) : Covers(s.checkpoints, m)
    /\ \A t \in (Higher(focus.at, ActiveStart) + FocusEvery + Chunk)..Limit(s) :
         t - LatestAtOrBefore(s.checkpoints, t) < FocusEvery + Chunk

(* The other days keep what a day computed out of focus would: checkpoints    *)
(* that serve the longer interval, one a mark, within the budget.             *)
OthersThin ==
  /\ Stored(slots, focus.day) <= Budget
  /\ \A d \in Day \ {focus.day} : slots[d].checkpoints = Thin(slots[d].checkpoints)

CheckpointsExact == TypeOK /\ SlotsHold /\ CheckpointsValid /\ MarksServed /\ OthersThin

(* What is sent of a day: an off-shift stretch at once, and never across the  *)
(* active window's ends; a short first chunk after a cut, and no more than    *)
(* one short chunk past the time that the main thread waits for.              *)
ChunkOf(d) ==
  LET s == slots[d]
      to == slots'[d].to
  IN  s.to < to =>
        /\ \A t \in {ActiveStart, ActiveEnd} : ~(s.to < t /\ t < to)
        /\ s.to \in ActiveStart..(ActiveEnd - 1) =>
             /\ to - s.to <= (IF s.first THEN FirstChunk ELSE Chunk)
             /\ s.target # None => to <= s.target + FirstChunk
             /\ ~s.first /\ s.target = None => to = ActiveEnd \/ to % Chunk = 0
ChunksOnGrid == \A d \in Day : ChunkOf(d)

(* The days next to the focus keep their checkpoints longest: when the budget *)
(* takes one from a day, the days that are farther have none left.            *)
FarthestLoseFirst ==
  UNCHANGED <<focus, moves>> =>
    \A d \in Day \ {focus.day} : slots[d].checkpoints \subseteq slots'[d].checkpoints \/
      \A e \in Day \ {focus.day} :
        Distance(e, focus.day) > Distance(d, focus.day) => slots'[e].checkpoints = {}

=============================================================================
