----------------------------- MODULE ChartWindow -----------------------------
(***************************************************************************)
(* The charts' shared time window and its zoom (charts/time-window.ts and  *)
(* ChartStack.tsx).  The component renders snapshots of the store, and a   *)
(* native wheel handler reads what the last effect left in a ref, so a     *)
(* zoom may be computed from an older playhead, or an older run, than the  *)
(* one on the screen.                                                      *)
(*                                                                         *)
(* Times are integers, so an anchor is rounded to one; playheads are       *)
(* multiples of Grain, which keeps the roundings small.                    *)
(***************************************************************************)
EXTENDS Integers, Sequences, FiniteSets, SequencesExt

CONSTANTS
  DayLen, LastDay, ShiftStart, ShiftEnd,
  Spans,        \* the zoom steps below the shift day, widest first
  TickSteps,    \* the tick steps, narrowest first, up to the day
  MaxTicks,     \* how many ticks the plot has room for
  DefaultSpan,  \* the scenario's chartWindowMs
  LessonAt,
  Grain,        \* playheads are multiples of it
  MaxRun,       \* bound: runs
  None

VARIABLES
  snap,    \* the rendered snapshot: run and playhead
  latest,  \* the wheel handler's ref: the snapshot of the last effect
  zoom,    \* zoomState: the run it belongs to and its view, if the user zoomed
  kept     \* the time the last zoom was to keep in place, or None

vars == <<snap, latest, zoom, kept>>

Unset == [span |-> -1, anchor |-> 0]    \* no zoom yet: the default view
ShiftDay == [span |-> 0, anchor |-> 0]  \* the null view

Clamp(v, lo, hi) == IF v < lo THEN lo ELSE IF v > hi THEN hi ELSE v

ShiftWindow(at) ==
  LET day == Clamp(at \div DayLen, 0, LastDay)
  IN [from |-> day * DayLen + ShiftStart, to |-> day * DayLen + ShiftEnd]

ShiftLen == ShiftEnd - ShiftStart
ZoomSpans == <<ShiftLen>> \o SelectSeq(Spans, LAMBDA s : s < ShiftLen)

DefaultView ==
  IF DefaultSpan = None \/ LessonAt = None \/ DefaultSpan >= ShiftLen THEN ShiftDay
  ELSE [span |-> DefaultSpan, anchor |-> LessonAt - DefaultSpan \div 2]

\* Mutant: the page the playhead is nearest to.
ResolveNearest(view, playhead) ==
  LET day  == ShiftWindow(playhead)
      page == (playhead - view.anchor + view.span \div 2) \div view.span
      from == Clamp(view.anchor + page * view.span, day.from, day.to - view.span)
  IN IF view = ShiftDay THEN day ELSE [from |-> from, to |-> from + view.span]

\* The page that contains the playhead, clamped inside its shift.
ResolveWindow(view, playhead) ==
  LET day  == ShiftWindow(playhead)
      page == (playhead - view.anchor) \div view.span
      from == Clamp(view.anchor + page * view.span, day.from, day.to - view.span)
  IN IF view = ShiftDay THEN day ELSE [from |-> from, to |-> from + view.span]

SpanOf(w) == w.to - w.from

\* Mutant: the focus goes to the middle.
ViewCentred(span, w, focus) ==
  IF span >= ShiftLen THEN ShiftDay ELSE [span |-> span, anchor |-> focus - span \div 2]

\* The view of this span that keeps focus where it is in w.
ViewAround(span, w, focus) ==
  LET f == Clamp(focus, w.from, w.to)
  IN IF span >= ShiftLen THEN ShiftDay
     ELSE [span |-> span, anchor |-> f - ((f - w.from) * span) \div SpanOf(w)]

ZoomIn(view, w, focus) ==
  LET narrower == SelectSeq(ZoomSpans, LAMBDA s : s < SpanOf(w))
  IN IF narrower = <<>> THEN view ELSE ViewAround(Head(narrower), w, focus)

ZoomOut(view, w, focus) ==
  LET wider == SelectSeq(ZoomSpans, LAMBDA s : s > SpanOf(w))
  IN IF view = ShiftDay \/ wider = <<>> THEN ShiftDay ELSE ViewAround(Last(wider), w, focus)

Zoomed(in, view, w, focus) == IF in THEN ZoomIn(view, w, focus) ELSE ZoomOut(view, w, focus)

TickStep(w) ==
  LET fits == SelectSeq(TickSteps, LAMBDA s : SpanOf(w) \div s + 1 <= MaxTicks)
  IN IF fits = <<>> THEN DayLen ELSE Head(fits)
TimeTicks(w) == {t \in w.from..w.to : t % TickStep(w) = 0}

----------------------------------------------------------------------------
(* The component.                                                          *)

ViewOf(z, run) == IF z.run = run /\ z.view # Unset THEN z.view ELSE DefaultView
View == ViewOf(zoom, snap.run)
Win == ResolveWindow(View, snap.playhead)

\* Playback stays in the shifts or at their ends.
Playheads == {t \in 0..((LastDay + 1) * DayLen) :
                /\ t % Grain = 0
                /\ \E d \in 0..LastDay : t - d * DayLen \in ShiftStart..ShiftEnd}

Init ==
  /\ \E p \in Playheads : snap = [run |-> 1, playhead |-> p]
  /\ latest = snap
  /\ zoom = [run |-> 1, view |-> Unset] /\ kept = None

\* A snapshot is rendered: playback, a seek or a new run moved the store.
\* React runs what effects are left before it renders again.
Render ==
  /\ latest = snap
  /\ \E p \in Playheads, r \in snap.run..MaxRun :
       /\ r <= snap.run + 1
       /\ snap' = [run |-> r, playhead |-> p]
  /\ kept' = None
  /\ UNCHANGED <<latest, zoom>>

Effect == latest # snap /\ latest' = snap /\ kept' = None /\ UNCHANGED <<snap, zoom>>

\* The buttons and the keys + and -: discrete events, so the effects have run.
Press ==
  /\ latest = snap
  /\ \E in \in BOOLEAN :
       LET v == ViewOf(zoom, snap.run)
           w == ResolveWindow(v, snap.playhead)
           f == IF snap.playhead \in w.from..w.to THEN snap.playhead ELSE (w.from + w.to) \div 2
       IN zoom' = [run |-> snap.run, view |-> Zoomed(in, v, w, f)] /\ kept' = f
  /\ UNCHANGED <<snap, latest>>

\* Ctrl + wheel, with the pointer at a quarter of the plot or at an edge.
Wheel ==
  /\ \E in \in BOOLEAN, rel \in {0, 2, 4} :
       LET v == ViewOf(zoom, latest.run)
           w == ResolveWindow(v, latest.playhead)
           f == w.from + (rel * SpanOf(w)) \div 4
       IN zoom' = [run |-> latest.run, view |-> Zoomed(in, v, w, f)] /\ kept' = f
  /\ UNCHANGED <<snap, latest>>

ResetZoom ==
  /\ latest = snap
  /\ zoom' = [run |-> snap.run, view |-> ShiftDay] /\ kept' = None
  /\ UNCHANGED <<snap, latest>>

Next == Render \/ Effect \/ Press \/ Wheel \/ ResetZoom
Spec == Init /\ [][Next]_vars

----------------------------------------------------------------------------
(* Properties.                                                             *)

(* Whatever was zoomed, from however old a playhead, the charts show a part  *)
(* of the playhead's shift, as wide as the zoom, with the playhead in it     *)
(* (time-window.ts:1-2), and at most MaxTicks ticks that skip no step.       *)
WindowTrue ==
  LET day == ShiftWindow(snap.playhead)
  IN /\ day.from <= Win.from /\ Win.to <= day.to
     /\ SpanOf(Win) = IF View = ShiftDay THEN ShiftLen ELSE View.span
     /\ snap.playhead \in Win.from..Win.to
     /\ Cardinality(TimeTicks(Win)) <= MaxTicks
     /\ \A t \in TimeTicks(Win) : t + TickStep(Win) <= Win.to => t + TickStep(Win) \in TimeTicks(Win)

\* To within the integer rounding of the anchor.
SamePixel(f, v, w) ==
  (f - v.from) * SpanOf(w) - (f - w.from) * SpanOf(v) \in (1 - SpanOf(v))..(SpanOf(v) - 1)

(* A zoom on what is on the screen keeps the focus time at its pixel, unless *)
(* the playhead would fall outside, or the shift's edge stops it; zooming    *)
(* out never hides what was shown.  Within a day, a playhead that stays on   *)
(* its page leaves the window alone; and a late wheel event never takes the  *)
(* zoom of the new run away.                                                 *)
ZoomKeeps ==
  /\ (kept' # None /\ zoom' # zoom /\ latest = snap) =>
       \/ SamePixel(kept', Win, Win')
       \/ ViewOf(zoom', snap.run) # ShiftDay
            /\ LET v == ViewOf(zoom', snap.run)
               IN \/ snap.playhead < v.anchor \/ snap.playhead >= v.anchor + v.span
                  \/ v.anchor < ShiftWindow(snap.playhead).from
                  \/ v.anchor + v.span > ShiftWindow(snap.playhead).to
       \/ ViewOf(zoom', snap.run) = ShiftDay
  /\ (snap' = snap /\ SpanOf(Win') > SpanOf(Win) /\ latest = snap) => Win'.from <= Win.from /\ Win.to <= Win'.to
  /\ (zoom.run = snap.run /\ snap' = snap) => zoom'.run = snap.run
  /\ (/\ View' = View /\ snap'.playhead \in snap.playhead..(Win.to - 1)
      /\ (Win.from - View.anchor) % (IF View = ShiftDay THEN 1 ELSE View.span) = 0) => Win' = Win
ZoomFaithful == [][ZoomKeeps]_vars
=============================================================================
