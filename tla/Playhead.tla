------------------------------ MODULE Playhead ------------------------------
(***************************************************************************)
(* The playhead of the playback store (src/playback/store.ts, shift.ts,    *)
(* detail.ts, throttle.ts): the frame loop that moves it, the user's       *)
(* actions on it, what it asks of the worker (focus, prefetch, detail      *)
(* windows), and who is told of a change (the canvas, once per frame, and  *)
(* React, at most once per interval).                                      *)
(*                                                                         *)
(* Instants of the week are 0 .. WeekEnd - 1; each day has one shift, and  *)
(* only shift time is played.  The worker is the environment: it computes  *)
(* a prefix of every day, the days it was asked for in particular.         *)
(***************************************************************************)
EXTENDS Integers, FiniteSetsExt

CONSTANTS
  WeekDays, DayLen,
  ShiftStart, ShiftEnd,   \* the shift within a day
  HistLen, WindowLen,     \* histogram bucket and detail window
  Speeds, DotsMax,        \* instants per unit of wall time; the fastest with dots
  MaxWall,                \* the longest frame, in units of wall time
  LookWall, LookMin,      \* lookahead of the prefetch
  Interval,               \* least wall time between two updates of React
  SeekPoints, Entry,      \* where the user may seek; where the scenario enters
  ChunkLen,               \* the worker computes a day in chunks
  Budgets                 \* bounds: how often the user does each kind of thing

ASSUME PlayheadAssumption ==
  /\ {WeekDays, DayLen, ShiftStart, ShiftEnd, HistLen, WindowLen, ChunkLen} \subseteq Nat \ {0}
  /\ {MaxWall, LookWall, LookMin, Interval} \subseteq Nat
  /\ ShiftStart < ShiftEnd /\ ShiftEnd <= DayLen
  /\ WindowLen % HistLen = 0 /\ DayLen % WindowLen = 0 /\ DayLen % ChunkLen = 0
  /\ Speeds \subseteq Nat \ {0} /\ Speeds # {}
  /\ SeekPoints \cup {Entry} \subseteq 0 .. WeekDays * DayLen - 1
  /\ Budgets \subseteq [{"mount", "play", "set", "seek", "fork", "reset"} -> Nat]

None == -1
Days == 0 .. WeekDays - 1
WeekLen == WeekDays * DayLen
Week == 0 .. WeekLen - 1

VARIABLES
  view,      \* the playback state
  client,    \* focus and prefetch day, detail slots received and pending
  canvas,    \* the frame loop: listener, frame requested, dirty; a change not drawn
  react,     \* the throttled subscription: timer, wait; a change not told
  wall,      \* wall time since the last frame, at most MaxWall
  left       \* bound: how often the user still does each kind of thing

vars == <<view, client, canvas, react, wall, left>>

----------------------------------------------------------------------------
(* The playable week and the computed time (shift.ts, ranges.ts).          *)

DayOf(t) == t \div DayLen
InShift(t) == t \in Week /\ ShiftStart <= t % DayLen /\ t % DayLen < ShiftEnd
Playable(t) == {x \in Week : x >= t /\ InShift(x)}
Rank == [t \in 0 .. WeekLen |-> Cardinality({x \in Week : x < t /\ InShift(x)})]
WeekEnd == (WeekDays - 1) * DayLen + ShiftEnd
IsComputed(computed, t) == t % DayLen < computed[DayOf(t)]
BufferingAt(t, computed) == InShift(t) /\ ~IsComputed(computed, t)

\* Mutant: the playhead jumps over time that is not computed.
AdvanceOverGaps(from, sim, computed) ==
  LET stops == {x \in Playable(from) : Rank[x] = Rank[from] + sim}
  IN IF stops = {} THEN [playhead |-> Max({from, WeekEnd}), buffering |-> FALSE, ended |-> TRUE]
     ELSE [playhead |-> Min(stops), buffering |-> BufferingAt(Min(stops), computed), ended |-> FALSE]

\* Forward by `sim` instants of playable time, at most to the first that is
\* not computed.
Advance(from, sim, computed) ==
  LET stops == {x \in Playable(from) : \/ ~IsComputed(computed, x)
                                       \/ Rank[x] = Rank[from] + sim}
  IN IF stops = {} THEN [playhead |-> Max({from, WeekEnd}), buffering |-> FALSE, ended |-> TRUE]
     ELSE [playhead |-> Min(stops), buffering |-> BufferingAt(Min(stops), computed), ended |-> FALSE]

----------------------------------------------------------------------------
(* Detail windows (detail.ts, store.ts).  A window is named by its start.  *)

SlotAt(t) == (t \div WindowLen) * WindowLen
SlotEnd(slot) == slot + WindowLen
Held(c, slot) == slot \in c.received \cup c.pending
Wanted(c, v, slot) ==
  /\ InShift(slot) \/ InShift(SlotEnd(slot) - 1)
  /\ ~Held(c, slot)
  /\ \A t \in slot .. SlotEnd(slot) - 1 : IsComputed(v.computed, t)

DotsShown(v) == v.mode = "live" /\ v.speed <= DotsMax

\* The playhead's window and, from its middle on, the next.
WithDetail(c, v) ==
  LET slot == SlotAt(v.playhead)
      next == IF 2 * v.playhead >= slot + SlotEnd(slot) /\ SlotEnd(slot) < WeekLen THEN {SlotEnd(slot)} ELSE {}
  IN IF DotsShown(v) THEN [c EXCEPT !.pending = @ \cup {s \in {slot} \cup next : Wanted(c, v, s)}] ELSE c

(* Focus and prefetch: the client remembers what it posted last.            *)

FocusedOn(c, t) == [c EXCEPT !.focusDay = DayOf(t), !.prefetchDay = None]
Lookahead(v) == Advance(v.playhead, Max({v.speed * LookWall, LookMin}), v.computed)
Prefetched(c, ahead) ==
  IF ahead.buffering /\ DayOf(ahead.playhead) \notin {c.focusDay, c.prefetchDay}
  THEN [c EXCEPT !.prefetchDay = DayOf(ahead.playhead)] ELSE c

WithFocus(c, v) ==
  IF DayOf(v.playhead) # c.focusDay THEN FocusedOn(c, v.playhead)
  ELSE IF v.playing THEN Prefetched(c, Lookahead(v)) ELSE c

----------------------------------------------------------------------------
(* Telling of a change: notify().                                          *)

Dirtied(cv) == IF cv.listening THEN [cv EXCEPT !.dirty = TRUE, !.handle = TRUE, !.undrawn = TRUE] ELSE cv

Fired(r) == [r EXCEPT !.pending = FALSE, !.wait = Interval, !.untold = FALSE]
\* Mutant: a call within the interval is dropped.
CalledDropping(r) == IF r.wait = 0 THEN Fired(r) ELSE [r EXCEPT !.untold = TRUE]

\* The throttled call: at once, or when the interval is over.
Called(r) ==
  IF r.pending THEN r ELSE IF r.wait = 0 THEN Fired(r) ELSE [r EXCEPT !.pending = TRUE, !.untold = TRUE]

Notify ==
  /\ canvas' = Dirtied(canvas)
  /\ react' = IF react.subscribed THEN Called(react) ELSE react

----------------------------------------------------------------------------
(* The frame loop.                                                         *)

Least(a, b) == IF a <= b THEN a ELSE b

\* Mutant: a frame that changed nothing is the last one.
NextFrameOnChange(playing, notified) == notified
NextFrame(playing, notified) == playing \/ notified

\* What a tick makes of the state.
Ticked(r) ==
  IF ~view.playing \/ (r.playhead = view.playhead /\ r.buffering = view.buffering /\ ~r.ended) THEN view
  ELSE [view EXCEPT !.playhead = r.playhead, !.buffering = r.buffering, !.playing = ~r.ended]

\* onFrame with tick: advance, ask, draw, and the next frame while playing.
Drawn(cv, playing) == cv.listening /\ (cv.dirty \/ playing)
AfterFrame(cv, playing, changed) ==
  [cv EXCEPT !.handle = NextFrame(playing, changed /\ canvas.listening),
             !.dirty = @ /\ ~Drawn(cv, playing), !.undrawn = @ /\ ~Drawn(cv, playing)]
Frame ==
  /\ canvas.handle
  /\ \E r \in {Advance(view.playhead, wall * view.speed, view.computed)} : view' = Ticked(r)
  /\ \E c \in {IF view.playing THEN WithFocus(client, view') ELSE client} :
       client' = IF view.playing THEN WithDetail(c, view') ELSE c
  /\ LET changed == view' # view
     IN /\ canvas' = AfterFrame(IF changed THEN Dirtied(canvas) ELSE canvas, view'.playing, changed)
        /\ react' = IF changed /\ react.subscribed THEN Called(react) ELSE react
  /\ wall' = IF view.playing THEN 0 ELSE wall
  /\ UNCHANGED left

Elapse ==
  /\ wall < MaxWall \/ react.wait > 0
  /\ wall' = Least(wall + 1, MaxWall)
  /\ react' = [react EXCEPT !.wait = Max({@ - 1, 0})]
  /\ UNCHANGED <<view, client, canvas, left>>

TimerFires ==
  /\ react.pending /\ react.wait = 0
  /\ react' = Fired(react)
  /\ UNCHANGED <<view, client, canvas, wall, left>>

\* The canvas or React mounts and unmounts.
Listen ==
  /\ ~view.disposed
  /\ canvas' = IF canvas.listening THEN [canvas EXCEPT !.listening = FALSE, !.undrawn = FALSE]
               ELSE [canvas EXCEPT !.listening = TRUE, !.dirty = TRUE, !.handle = TRUE, !.undrawn = TRUE]
  /\ UNCHANGED <<view, client, react, wall>>

Subscribe ==
  /\ ~view.disposed
  /\ react' = [react EXCEPT !.subscribed = ~@, !.pending = FALSE, !.untold = FALSE]
  /\ UNCHANGED <<view, client, canvas, wall>>

----------------------------------------------------------------------------
(* The user.                                                               *)

Play ==
  /\ ~view.playing /\ ~view.disposed /\ Playable(view.playhead) # {}
  /\ view' = [view EXCEPT !.playing = TRUE]
  /\ canvas' = [Dirtied(canvas) EXCEPT !.handle = TRUE]
  /\ react' = IF react.subscribed THEN Called(react) ELSE react
  /\ wall' = 0
  /\ UNCHANGED client

Pause ==
  /\ view.playing
  /\ view' = [view EXCEPT !.playing = FALSE]
  /\ Notify /\ UNCHANGED <<client, wall>>

SetSpeed(s) ==
  /\ ~view.disposed /\ s # view.speed
  /\ view' = [view EXCEPT !.speed = s]
  /\ client' = WithDetail(client, view')
  /\ Notify /\ UNCHANGED wall

SetMode(m) ==
  /\ ~view.disposed /\ m # view.mode
  /\ view' = [view EXCEPT !.mode = m]
  /\ client' = WithDetail(client, view')
  /\ Notify /\ UNCHANGED wall

MoveTo(t, v) ==
  /\ ~view.disposed
  /\ view' = [v EXCEPT !.playhead = t, !.buffering = BufferingAt(t, view.computed)]
  /\ client' = WithDetail(FocusedOn(client, t), view')
  /\ Notify /\ UNCHANGED wall

Seek(t) == MoveTo(t, view)
JumpToEntry == MoveTo(Entry, [view EXCEPT !.playing = FALSE, !.speed = Min(Speeds)])

\* Mutant: a hold ends with the next frame, not with the results.
WithComputedHolding(v, computed) ==
  [v EXCEPT !.computed = computed, !.buffering = @ \/ BufferingAt(v.playhead, computed)]

WithComputed(v, computed) ==
  [v EXCEPT !.computed = computed, !.buffering = BufferingAt(v.playhead, computed)]

\* Mutant: the windows that were asked for stay pending.
ForkedDetailPending(c, day, cut, lasting) ==
  [c EXCEPT !.received = {s \in @ : ~(DayOf(s) = day /\ SlotEnd(s) > cut) /\ ~(lasting /\ DayOf(s) > day)},
            !.focusDay = day, !.prefetchDay = None]

\* The tracker forgets what the fork invalidates and all that is pending.
ForkedDetail(c, day, cut, lasting) ==
  [c EXCEPT !.received = {s \in @ : ~(DayOf(s) = day /\ SlotEnd(s) > cut) /\ ~(lasting /\ DayOf(s) > day)},
            !.pending = {}, !.focusDay = day, !.prefetchDay = None]

Fork(lasting) ==
  LET t == view.playhead
      day == DayOf(t)
      cut == (t \div HistLen) * HistLen
      computed == [d \in Days |-> IF d = day THEN Least(view.computed[d], cut % DayLen)
                                  ELSE IF lasting /\ d > day THEN 0 ELSE view.computed[d]]
  IN /\ ~view.disposed /\ t < WeekLen
     /\ view' = WithComputed(view, computed)
     /\ client' = ForkedDetail(client, day, cut, lasting)
     /\ Notify /\ UNCHANGED wall

Started == [playhead |-> Entry, playing |-> FALSE, speed |-> Min(Speeds), mode |-> "live",
            buffering |-> BufferingAt(Entry, [d \in Days |-> 0]), computed |-> [d \in Days |-> 0],
            disposed |-> FALSE]
NewClient == [focusDay |-> DayOf(Entry), prefetchDay |-> None, received |-> {}, pending |-> {}]

Reset ==
  /\ ~view.disposed
  /\ view' = Started /\ client' = NewClient
  /\ Notify /\ UNCHANGED wall

Dispose ==
  /\ ~view.disposed
  /\ view' = [view EXCEPT !.disposed = TRUE, !.playing = FALSE]
  /\ canvas' = [canvas EXCEPT !.listening = FALSE, !.handle = FALSE, !.undrawn = FALSE]
  /\ react' = [react EXCEPT !.subscribed = FALSE, !.untold = FALSE]
  /\ UNCHANGED <<client, wall>>

----------------------------------------------------------------------------
(* The worker.                                                             *)

\* It reports progress of a day; new computed time may make a window due.
Progress(d) ==
  /\ ~view.disposed /\ view.computed[d] < DayLen
  /\ LET computed == [view.computed EXCEPT ![d] = (@ \div ChunkLen + 1) * ChunkLen]
     IN view' = WithComputed(view, computed)
  /\ client' = WithDetail(client, view')
  /\ Notify /\ UNCHANGED <<wall, left>>

\* It answers a window: those pending were asked for at this revision.
Detail(slot) ==
  /\ ~view.disposed /\ slot \in client.pending
  /\ client' = [client EXCEPT !.pending = @ \ {slot}, !.received = @ \cup {slot}]
  /\ Notify /\ UNCHANGED <<view, wall, left>>

----------------------------------------------------------------------------
Count(kind) == left[kind] > 0 /\ left' = [left EXCEPT ![kind] = @ - 1]

UserSteps ==
  \/ Count("mount") /\ (Listen \/ Subscribe)
  \/ Count("play") /\ (Play \/ Pause)
  \/ Count("set") /\ \/ \E s \in Speeds : SetSpeed(s)
                     \/ \E m \in {"live", "graph"} : SetMode(m)
  \/ Count("seek") /\ (JumpToEntry \/ \E t \in SeekPoints : Seek(t))
  \/ Count("fork") /\ \E lasting \in BOOLEAN : Fork(lasting)
  \/ Count("reset") /\ (Reset \/ Dispose)

\* What the worker was last asked to compute.
Asked == {client.focusDay, client.prefetchDay} \cap Days

Init ==
  /\ view = Started /\ client = NewClient
  /\ canvas = [listening |-> FALSE, handle |-> FALSE, dirty |-> FALSE, undrawn |-> FALSE]
  /\ react = [subscribed |-> FALSE, pending |-> FALSE, wait |-> 0, untold |-> FALSE]
  /\ wall = 0 /\ left \in Budgets

Next ==
  \/ Frame \/ Elapse \/ TimerFires
  \/ UserSteps
  \/ \E d \in Days : Progress(d)
  \/ \E slot \in client.pending : Detail(slot)

Spec == Init /\ [][Next]_vars

\* Frames come and time passes; the worker computes the days it is asked for.
AskedProgress == \E d \in Asked : Progress(d)
Fairness == WF_vars(Frame) /\ WF_vars(Elapse) /\ WF_vars(AskedProgress)

----------------------------------------------------------------------------
(* Properties                                                              *)

\* The playhead plays only computed time: a frame passes no shift time that
\* the worker has not computed, and no more than the wall time allows at the
\* speed; only a seek, a jump or a reset puts it anywhere else.
PlaysComputed ==
  [][\A t \in view.playhead .. view'.playhead - 1 :
       left' = left /\ InShift(t) =>
         /\ IsComputed(view.computed, t)
         /\ Rank[t] - Rank[view.playhead] < wall * view.speed]_vars

\* The store says it is buffering exactly when the playhead holds at shift
\* time without results, whatever forks, seeks and progress came in between.
BufferingTrue == view.buffering = BufferingAt(view.playhead, view.computed)

\* A change is never lost: while the canvas has not drawn it a frame is on
\* its way, while React has not heard of it its timer runs, and a playing
\* store always has its next frame.
ChangeNotLost ==
  /\ view.playing \/ canvas.undrawn => canvas.handle
  /\ react.untold => react.pending

\* Wherever the canvas shows dots the window of the playhead is there or asked
\* for as soon as it is computed, also after a fork has forgotten what was
\* asked and answered.
DetailAsked ==
  /\ \A slot \in client.pending \cup client.received : \A t \in slot .. SlotEnd(slot) - 1 :
       IsComputed(view.computed, t)
  /\ ~view.disposed /\ DotsShown(view) /\ view.playhead < WeekLen
       => ~Wanted(client, view, SlotAt(view.playhead))

\* What the frame loop, the actions and the worker's news leave behind is right
\* at any time: the flag, the pending frame and timer, the windows asked for.
NothingMissed == BufferingTrue /\ ChangeNotLost /\ DetailAsked

\* Once the user lets it play, the playhead gets to the end of the week, with
\* a worker that computes only the days it was asked for.
PlaysToEnd == view.playing ~> ~view.playing
=============================================================================
