------------------------------ MODULE MCViewer ------------------------------
(***************************************************************************)
(* What the viewer shows, and what it takes from the user: the index of    *)
(* the results, the canvas, the week's timeline, and the parameter drawer. *)
(* `machine` says which one moves; the others rest as they start.          *)
(***************************************************************************)
EXTENDS ResultsIndex

CONSTANTS NoValue, p1, p2

VARIABLES
  machine,
  view, size, scene, layout, picture, summary,   \* SimView
  scenario, playhead, shift, drag, last,         \* WeekTimeline
  store, tab, applied, shown, draft, held        \* Controls

canvasVars == <<view, size, scene, layout, picture, summary>>
timelineVars == <<scenario, playhead, shift, drag, last>>
drawerVars == <<store, tab, applied, shown, draft, held>>

----------------------------------------------------------------------------
(* The index: two days of six instants, two requests of two analysts.  The   *)
(* first day has two stories for each request, which part at instant 2 or 4; *)
(* the second one story.                                                     *)
Step(at, st, rep) == [at |-> at, st |-> st, rep |-> rep]

Quick == <<Step(0, "atRouter", 0), Step(0, "waiting", 1), Step(1, "prefill", 1),
           Step(2, "decode", 1), Step(3, "finished", 1)>>
Preempted == <<Step(0, "atRouter", 0), Step(0, "waiting", 1), Step(1, "prefill", 1),
               Step(2, "decode", 1), Step(3, "preempted", 1), Step(4, "prefill", 1), Step(5, "finished", 1)>>
Slow == <<Step(1, "atRouter", 0), Step(3, "waiting", 2), Step(4, "prefill", 2)>>
Lost == <<Step(1, "atRouter", 0), Step(3, "waiting", 2), Step(4, "failed", 2)>>

TwoAnalysts == <<1, 2>>
TwoDays ==
  [d \in 0 .. 1 |->
     IF d = 1 THEN {<< <<>>, <<Step(2, "atRouter", 0), Step(2, "rejected", 0)>> >>}
     ELSE {<<a, b>> : a \in {Quick, Preempted}, b \in {Slow, Lost}} \ {<<Quick, Lost>>}]
TwoWindows == {<<2, 4>>, <<4, 6>>}
UserBounds == {[forks |-> 1, details |-> 1, tracks |-> 0], [forks |-> 1, details |-> 0, tracks |-> 1],
             [forks |-> 0, details |-> 2, tracks |-> 1], [forks |-> 2, details |-> 0, tracks |-> 0]}
TwoForks == {<<0, 3>>, <<0, 4>>}
SixCharts == {<<0, 12, 1>>, <<0, 12, 3>>, <<2, 9, 2>>, <<5, 8, 2>>, <<1, 6, 3>>, <<6, 12, 3>>}

----------------------------------------------------------------------------
(* The canvas: before the first results, and three instants of a fleet of    *)
(* two: a burst on both, one replica down and a turn that moved, and a long  *)
(* queue that a narrow lane cannot show.                                     *)
Row(q, a, code, r) == [request |-> q, analyst |-> a, code |-> code, replica |-> r]
MovedTurn(n, r, moved) == [turn |-> n, replica |-> r, moved |-> moved]
Level(run, wait, kv) == [running |-> run, waiting |-> wait, kv |-> kv]
NoLevels == <<Level(0, 0, 0), Level(0, 0, 0)>>
Line(from, n, code, r) == [i \in 1 .. n |-> Row(from + i, IF i % 2 = 0 THEN "ann" ELSE "bob", code, r)]
Worlds ==
  <<[replicas |-> 0, rows |-> <<>>, detail |-> FALSE, levels |-> <<>>, turns |-> [ann |-> <<>>, bob |-> <<>>]],
    [replicas |-> 2, detail |-> TRUE, levels |-> <<Level(3, 2, 40), Level(1, 0, 40)>>,
     rows |-> Line(0, 3, "decode", 1) \o <<Row(4, "bob", "waiting", 1), Row(5, "ann", "preempted", 1), Row(6, "ann", "atRouter", NoValue),
                Row(7, "bob", "prefill", 2), Row(8, "ann", "waiting", 1)>>,
     turns |-> [ann |-> <<MovedTurn(1, 1, FALSE)>>, bob |-> <<MovedTurn(1, NoValue, FALSE)>>]],
    [replicas |-> 2, detail |-> TRUE, levels |-> <<Level(2, 1, 90), Level(0, 0, 0)>>,
     rows |-> <<Row(9, "ann", "prefill", 1), Row(10, "bob", "waiting", 2), Row(11, "ann", "atRouter", 2)>>,
     turns |-> [ann |-> <<MovedTurn(1, 1, FALSE), MovedTurn(2, 2, TRUE)>>, bob |-> <<MovedTurn(1, 2, FALSE), MovedTurn(3, 1, TRUE)>>]],
    [replicas |-> 3, detail |-> TRUE, levels |-> NoLevels \o <<Level(1, 0, 10)>>,
     rows |-> Line(20, 21, "waiting", 1) \o Line(50, 14, "decode", 2) \o Line(70, 3, "preempted", 1) \o Line(80, 34, "atRouter", NoValue),
     turns |-> [ann |-> <<MovedTurn(2, 2, TRUE), MovedTurn(1, 1, FALSE), MovedTurn(2, 3, TRUE)>>, bob |-> <<>>]]>>
ReplicaEvents == <<[at |-> 3, replica |-> 2, state |-> "down"], [at |-> 4, replica |-> 2, state |-> "ready"],
              [at |-> 4, replica |-> 3, state |-> "loadingWeights"]>>
Sizes == {<<1008, 271>>, <<300, 80>>, <<0, 0>>}
Reaches == {-60, 0, 75}

Canvas == INSTANCE SimView
          WITH Events <- ReplicaEvents, Analysts <- {"ann", "bob"}, None <- NoValue

(* The timeline: three days, a day shift and a shift of the whole day, two   *)
(* pointers.                                                                 *)
Timeline == INSTANCE WeekTimeline
            WITH DayLen <- 6, LastDay <- 2, Scenarios <- {[start |-> 2, end |-> 5], [start |-> 0, end |-> 6]},
                 Minute <- 1, Hour <- 2, Pointers <- {p1, p2}, Markers <- {10}, None <- NoValue

(* The drawer: two tabs, one with a baseline change of the slider, one with  *)
(* none; a slider and a switch.                                              *)
Base == [slider |-> 0, switch |-> 0]
Tabs == <<[id |-> 1, base |-> Base, baseline |-> <<[at |-> 2, param |-> "slider", value |-> 1]>>],
          [id |-> 2, base |-> Base, baseline |-> <<>>]>>
Drawer == INSTANCE Controls
          WITH Scenarios <- Tabs, Sliders <- {"slider"}, Switches <- {"switch"}, Values <- {0, 1}, Times <- {1, 2, 3},
               MaxForks <- 2, MaxRuns <- 2, None <- NoValue

----------------------------------------------------------------------------
ViewerInit ==
  /\ machine \in {"index", "canvas", "timeline", "drawer"}
  /\ Init /\ (machine # "index" => truth = (CHOOSE t \in Truths : TRUE) /\ scope = "all" /\ left = CHOOSE b \in UserBounds : TRUE)
  /\ Canvas!Init /\ (machine # "canvas" => size = <<0, 0>>)
  /\ Timeline!Init
  /\ Drawer!Init

ViewerNext ==
  \/ machine = "index" /\ Next /\ UNCHANGED <<machine, canvasVars, timelineVars, drawerVars>>
  \/ machine = "canvas" /\ Canvas!Next /\ UNCHANGED <<machine, vars, timelineVars, drawerVars>>
  \/ machine = "timeline" /\ Timeline!Next /\ UNCHANGED <<machine, vars, canvasVars, drawerVars>>
  \/ machine = "drawer" /\ Drawer!Next /\ UNCHANGED <<machine, vars, canvasVars, timelineVars>>

ViewerSpec == ViewerInit /\ [][ViewerNext]_<<machine, vars, canvasVars, timelineVars, drawerVars>>

(* ResultsIndex, SimView, WeekTimeline and Controls state these.             *)
IndexCurrent == machine = "index" => RequestsCurrent
ChartsExact == machine = "index" => SeriesExact
PictureTrue == machine = "canvas" => Canvas!PictureTrue
InputsTrue ==
  /\ machine = "timeline" => Timeline!SeeksPlayable
  /\ machine = "drawer" => Drawer!ParamsShown
DragTakes == [][machine = "drawer" => Drawer!ReleaseForks]_drawerVars
=============================================================================
