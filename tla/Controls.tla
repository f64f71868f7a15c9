------------------------------ MODULE Controls ------------------------------
(***************************************************************************)
(* The controls of a run (ui/chrome): the selected tab, the parameters     *)
(* drawer and the forks they make.  The store keeps only fork labels, so   *)
(* the page keeps its own list of the lasting changes it applied and works *)
(* out the values in effect at the playhead itself; the worker works them  *)
(* out from the patches it was posted.                                     *)
(*                                                                         *)
(* Handlers run on what was rendered last.  A scenario is its starting     *)
(* values and its baseline changes; other patches than 'set' are a fork    *)
(* that changes no value.                                                  *)
(***************************************************************************)
EXTENDS Integers, Sequences, FiniteSets, SequencesExt

CONSTANTS
  Scenarios,  \* the tabs: [id, base, baseline], in order
  Sliders, Switches,  \* the drawer's parameters, by control
  Values,     \* what a slider may be moved to; a switch is off at 0, on at 1
  Times,      \* where the playhead may be
  MaxForks, MaxRuns,  \* bounds
  None

VARIABLES
  store,    \* scenario, runId, revision, playhead, and the patches posted
  tab,      \* the selected scenario
  applied,  \* the 'set' patches of one run's forks
  shown,    \* what was rendered: the values in effect, and where
  draft,    \* the value each slider is dragged to
  held      \* per slider, the release handler on the window: the value it closed over

vars == <<store, tab, applied, shown, draft, held>>

Params == Sliders \cup Switches

\* The patches at or before at, in time order; at one time, as given.
Sets(patches, at) ==
  LET due == SelectSeq(patches, LAMBDA p : p.at <= at)
      byTime == SetToSortSeq({due[i].at : i \in DOMAIN due}, <)
  IN FlattenSeq([i \in DOMAIN byTime |-> SelectSeq(due, LAMBDA p : p.at = byTime[i])])
ParamsAt(base, patches, at) ==
  FoldLeft(LAMBDA out, p : [out EXCEPT ![p.param] = p.value], base, Sets(patches, at))

\* useParamsInEffect.
Selected(s, t, a) ==
  ParamsAt(t.base, t.baseline \o (IF s.run = a.run THEN a.patches ELSE <<>>), s.playhead)

Rendered(s, t, a) == [values |-> Selected(s, t, a), run |-> s.run, rev |-> s.rev, playhead |-> s.playhead]

\* startRun: a fresh run of this scenario, at its entry.
Started(t, run) ==
  [scenario |-> t, run |-> run, rev |-> 0, playhead |-> CHOOSE x \in Times : \A y \in Times : x <= y, patches |-> t.baseline]

NoDrafts == [p \in Sliders |-> None]

Init ==
  /\ tab = Head(Scenarios) /\ store = Started(tab, 1)
  /\ applied = [run |-> 0, patches |-> <<>>]
  /\ shown = Rendered(store, tab, applied)
  /\ draft = NoDrafts /\ held = NoDrafts

\* Mutant: the list is not started again for a new run.
AppliedOn(a, run, p) == [run |-> run, patches |-> Append(a.patches, p)]
\* setApplied: this run's list, or a new one.
Applied(a, run, p) == [run |-> run, patches |-> IF a.run = run THEN Append(a.patches, p) ELSE <<p>>]

\* A change forks the run at the playhead; the page notes lasting ones.
ForkSet(param, value) ==
  LET p == [at |-> store.playhead, param |-> param, value |-> value]
  IN /\ store.rev < MaxForks
     /\ store' = [store EXCEPT !.rev = @ + 1, !.patches = Append(@, p)]
     /\ applied' = Applied(applied, store.run, p)
ForkEvent ==
  /\ store.rev < MaxForks
  /\ store' = [store EXCEPT !.rev = @ + 1]
  /\ UNCHANGED <<tab, applied, shown, draft, held>>

----------------------------------------------------------------------------
(* The store.                                                              *)

\* Playback, a seek or a jump.
Move ==
  /\ \E t \in Times \ {store.playhead} : store' = [store EXCEPT !.playhead = t]
  /\ UNCHANGED <<tab, applied, shown, draft, held>>
Reset ==
  /\ store.run < MaxRuns
  /\ store' = Started(store.scenario, store.run + 1)
  /\ UNCHANGED <<tab, applied, shown, draft, held>>

\* The selection is rendered: a throttled update, or a change of state.
Render ==
  /\ shown' = Rendered(store, tab, applied) /\ shown' # shown
  /\ UNCHANGED <<store, tab, applied, draft, held>>

\* A tab is rendered with a drawer of its own, and its effect loads it.
Select ==
  /\ store.run < MaxRuns
  /\ \E i \in DOMAIN Scenarios :
       /\ Scenarios[i] # tab
       /\ tab' = Scenarios[i]
  /\ store' = Started(tab', store.run + 1)
  /\ shown' = Rendered(store', tab', applied)
  /\ draft' = NoDrafts /\ held' = NoDrafts
  /\ UNCHANGED applied

----------------------------------------------------------------------------
(* The drawer.                                                             *)

Toggle(p) ==
  /\ ForkSet(p, 1 - shown.values[p])
  /\ UNCHANGED <<tab, shown, draft, held>>

\* onPointerDown: the window's handler closes over the value rendered now.
PointerDown(p) ==
  /\ held' = [held EXCEPT ![p] = shown.values[p]]
  /\ UNCHANGED <<store, tab, applied, shown, draft>>

Drag(p, v) ==
  /\ draft' = [draft EXCEPT ![p] = v] /\ draft' # draft
  /\ UNCHANGED <<store, tab, applied, shown, held>>

\* Mutant: a slider put back where it was forks the run.
CommitAlways(p, committed) ==
  /\ draft' = [draft EXCEPT ![p] = None]
  /\ IF draft[p] = None THEN UNCHANGED <<store, applied>> ELSE ForkSet(p, draft[p])
  /\ UNCHANGED <<tab, shown>>
\* commit: a draft is a fork, unless it is the value that was in effect.
Commit(p, committed) ==
  /\ draft' = [draft EXCEPT ![p] = None]
  /\ IF draft[p] = None \/ draft[p] = committed THEN UNCHANGED <<store, applied>> ELSE ForkSet(p, draft[p])
  /\ UNCHANGED <<tab, shown>>

\* A release over the slider, a key up or a blur: the handlers rendered last.
\* A release is then heard on the window too, when nothing is left to commit.
Release(p) ==
  /\ draft[p] # None
  /\ Commit(p, shown.values[p])
  /\ held' = [held EXCEPT ![p] = None]
KeyUp(p) == draft[p] # None /\ Commit(p, shown.values[p]) /\ UNCHANGED held

\* A release elsewhere: the window's handler alone.
ReleaseOutside(p) ==
  /\ held[p] # None
  /\ Commit(p, held[p])
  /\ held' = [held EXCEPT ![p] = None]

Next ==
  \/ Move \/ Reset \/ Render \/ Select \/ ForkEvent
  \/ \E p \in Switches : Toggle(p)
  \/ \E p \in Sliders : PointerDown(p) \/ Release(p) \/ KeyUp(p) \/ ReleaseOutside(p) \/ \E v \in Values : Drag(p, v)
Spec == Init /\ [][Next]_vars

----------------------------------------------------------------------------
(* Properties.                                                             *)

\* What the worker runs with at the playhead.
InEffect(s) == ParamsAt(s.scenario.base, s.patches, s.playhead)
Current == shown = Rendered(store, tab, applied)

(* Once what is shown is current, the drawer shows what the worker runs with *)
(* at the playhead, although they work it out from different lists: forks of *)
(* an older run, forks at a later time and baseline changes included.        *)
ParamsShown == Current => shown.values = InEffect(store)

(* A slider let go of while the page is current, and was when it was         *)
(* pressed, leaves the value it was dragged to in effect, with one fork or   *)
(* none, and none if that was the value already.                             *)
ReleaseForks ==
  \A p \in Sliders :
    (draft[p] # None /\ draft'[p] = None /\ tab' = tab /\ Current /\ held[p] \in {None, shown.values[p]}) =>
       /\ InEffect(store')[p] = draft[p]
       /\ store'.rev = store.rev + IF InEffect(store)[p] = draft[p] THEN 0 ELSE 1
DragTakes == [][ReleaseForks]_vars
=============================================================================
