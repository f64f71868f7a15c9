---------------------------- MODULE WeekTimeline ----------------------------
(***************************************************************************)
(* Seeking on the week timeline (ui/timeline): a pointer that drags, keys  *)
(* that step in playable time, and markers.  Handlers use the shift of the *)
(* rendered view, which lags the store, and the playhead of the store,     *)
(* which does not.                                                         *)
(*                                                                         *)
(* A scenario is its shift.  Times are integers, as are pointer positions: *)
(* the bar is linear in time.                                              *)
(***************************************************************************)
EXTENDS Integers, Sequences, FiniteSets

CONSTANTS
  DayLen, LastDay,
  Scenarios,     \* the shifts a loaded scenario may have
  Minute, Hour,  \* the steps of the arrow keys
  Pointers, Markers, None

VARIABLES
  scenario,  \* the store's scenario
  playhead,  \* the store's playhead
  shift,     \* the rendered view's shift, None until a scenario is shown
  drag,      \* the pointer that drags
  last       \* the last seek: who asked, from where, for what, and where it went

vars == <<scenario, playhead, shift, drag, last>>

WeekLen == (LastDay + 1) * DayLen
Clamp(x, lo, hi) == IF x < lo THEN lo ELSE IF x > hi THEN hi ELSE x

WeekBounds(sh) == [start |-> sh.start, end |-> LastDay * DayLen + sh.end]

\* Mutant: always the start of the next shift.
SnapForward(t, sh) ==
  LET tod == t % DayLen
      next == (t \div DayLen + IF tod >= sh.end THEN 1 ELSE 0) * DayLen + sh.start
  IN IF t <= WeekBounds(sh).start THEN WeekBounds(sh).start
     ELSE IF t >= WeekBounds(sh).end THEN WeekBounds(sh).end
     ELSE IF tod >= sh.start /\ tod < sh.end THEN t ELSE next

\* The nearer of the previous shift's end and the next one's start.
SnapToShift(t, sh) ==
  LET tod  == t % DayLen
      prev == (t \div DayLen - IF tod >= sh.end THEN 0 ELSE 1) * DayLen + sh.end
      next == prev - sh.end + DayLen + sh.start
  IN IF t <= WeekBounds(sh).start THEN WeekBounds(sh).start
     ELSE IF t >= WeekBounds(sh).end THEN WeekBounds(sh).end
     ELSE IF tod >= sh.start /\ tod < sh.end THEN t
     ELSE IF t - prev <= next - t THEN prev ELSE next

ShiftLength(sh) == sh.end - sh.start

\* Shift time elapsed before t, and its inverse.
PlayableOffset(t, sh) ==
  IF t >= WeekLen THEN (LastDay + 1) * ShiftLength(sh)
  ELSE (t \div DayLen) * ShiftLength(sh) + Clamp((t % DayLen) - sh.start, 0, ShiftLength(sh))
TimeAtPlayableOffset(offset, sh) ==
  LET len == ShiftLength(sh)
      o   == Clamp(offset, 0, (LastDay + 1) * len)
  IN IF o = (LastDay + 1) * len THEN WeekBounds(sh).end
     ELSE (o \div len) * DayLen + sh.start + (o % len)
StepPlayable(t, delta, sh) == TimeAtPlayableOffset(PlayableOffset(t, sh) + delta, sh)

Keys == {"right", "left", "shiftRight", "shiftLeft", "pageUp", "pageDown", "home", "end"}
Delta(key, sh) ==
  CASE key = "right" -> Minute      [] key = "left" -> -Minute
    [] key = "shiftRight" -> Hour   [] key = "shiftLeft" -> -Hour
    [] key = "pageUp" -> ShiftLength(sh) [] key = "pageDown" -> -ShiftLength(sh)
    [] key = "home" -> -WeekLen     [] key = "end" -> WeekLen
KeyTarget(key, t, sh) ==
  CASE key = "home" -> WeekBounds(sh).start
    [] key = "end" -> WeekBounds(sh).end
    [] OTHER -> StepPlayable(t, Delta(key, sh), sh)

----------------------------------------------------------------------------
(* The store and the handlers.                                             *)

NoSeek == [by |-> "none", from |-> 0, at |-> 0, to |-> 0, delta |-> 0, shift |-> None]

\* store.seek: moveTo keeps the playhead inside the week.
Seek(by, at, target, delta) ==
  /\ scenario # None
  /\ playhead' = Clamp(target, 0, WeekLen - 1)
  /\ last' = [by |-> by, from |-> playhead, at |-> at, to |-> target, delta |-> delta, shift |-> shift]
  /\ UNCHANGED <<scenario, shift>>

SeekAt(x) == Seek("pointer", x, SnapToShift(x, shift), 0)

InShift(t, sh) == t % DayLen >= sh.start /\ t % DayLen < sh.end

Init ==
  /\ scenario = None /\ playhead = 0 /\ shift = None /\ drag = None /\ last = NoSeek

\* A tab is selected: its run starts at an entry in its shift.
Load ==
  /\ scenario' \in Scenarios
  /\ playhead' \in {t \in 0..(WeekLen - 1) : InShift(t, scenario')}
  /\ last' = NoSeek
  /\ UNCHANGED <<shift, drag>>

\* Playback moves the playhead from shift to shift.
Play ==
  /\ scenario # None
  /\ playhead' \in {t \in (playhead + 1)..(playhead + DayLen) :
                      t < WeekLen /\ (InShift(t, scenario) \/ t = WeekBounds(scenario).end)}
  /\ last' = NoSeek
  /\ UNCHANGED <<scenario, shift, drag>>

Render == shift # scenario /\ shift' = scenario /\ last' = NoSeek /\ UNCHANGED <<scenario, playhead, drag>>

PointerDown(p, x) == shift # None /\ drag' = p /\ SeekAt(x)
PointerMove(p, x) == shift # None /\ drag = p /\ SeekAt(x) /\ UNCHANGED drag
PointerEnd(p) == drag = p /\ drag' = None /\ last' = NoSeek /\ UNCHANGED <<scenario, playhead, shift>>

KeyDown(key) ==
  /\ shift # None
  /\ Seek("key", playhead, KeyTarget(key, playhead, shift), Delta(key, shift))
  /\ UNCHANGED drag

Marker(at) == shift # None /\ Seek("marker", at, at, 0) /\ UNCHANGED drag

Next ==
  \/ Load \/ Play \/ Render
  \/ \E p \in Pointers : PointerEnd(p) \/ \E x \in 0..WeekLen : PointerDown(p, x) \/ PointerMove(p, x)
  \/ \E key \in Keys : KeyDown(key)
  \/ \E at \in Markers : Marker(at)
Spec == Init /\ [][Next]_vars

----------------------------------------------------------------------------
(* Properties.                                                             *)

\* Where the playhead may be put, and the shift time before t, counted.
Playable(sh) == {t \in 0..WeekLen : InShift(t, sh)} \cup {d * DayLen + sh.end : d \in 0..LastDay}
Elapsed(t, sh) == Cardinality({u \in 0..(t - 1) : u < WeekLen /\ InShift(u, sh)})
Distance(t, u) == IF t < u THEN u - t ELSE t - u

(* A seek never lands in the night of the shift it was made under: a pointer *)
(* goes to the nearest playable time, and a key moves by exactly its step of *)
(* shift time, over nights and however far off the shift the playhead was,   *)
(* until the ends of the week (geometry.ts:1-6).                             *)
SeeksPlayable ==
  LET sh == last.shift
  IN /\ last.by = "pointer" =>
          /\ last.to \in Playable(sh)
          /\ \A t \in Playable(sh) : Distance(last.at, last.to) <= Distance(last.at, t)
     /\ last.by = "key" =>
          /\ last.to \in Playable(sh)
          /\ Elapsed(last.to, sh) = Clamp(Elapsed(last.from, sh) + last.delta, 0, Elapsed(WeekLen, sh))
=============================================================================
