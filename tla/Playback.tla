------------------------------ MODULE Playback ------------------------------
(***************************************************************************)
(* The main thread and the engine worker together.  Their two channels     *)
(* keep the order of messages, and either side may be arbitrarily slow, so *)
(* a fork, a reset, a seek or a change of the tracked analyst crosses any  *)
(* number of results on their way.                                         *)
(***************************************************************************)
EXTENDS EngineHost, PlaybackStore

CONSTANT Entry \* where the scenario starts
ASSUME EntryAssumption == Entry \in Day \X Bucket

vars == <<toWorker, toMain, host, client, results, used>>

Init ==
  /\ client = NewClient(1, Entry)
  /\ results = NoData
  /\ used = [w \in {"forks", "resets", "seeks", "tracks", "details"} |-> 0]
  /\ host = None
  /\ toWorker = <<[type |-> "init", run |-> 1, at |-> Entry]>>
  /\ toMain = <<>>

HostStep == (HostHandle \/ HostWork) /\ UNCHANGED <<client, results, used>>
Next == ((User \/ Receive) /\ UNCHANGED host) \/ HostStep

Spec == Init /\ [][Next]_vars

\* Both sides go on: the worker works, and the main thread takes what has come.
ClientStep == Receive /\ UNCHANGED host
Fairness == WF_vars(HostStep) /\ WF_vars(ClientStep)

-----------------------------------------------------------------------------
(* Properties.                                                               *)

(* No checkpoint is ever opened that has not applied exactly the patches of  *)
(* the host that date before it: restoreDayRun does not throw.               *)
NeverFails == host # None => ~host.failed

Idle ==
  /\ Active /\ host.run = client.run
  /\ toWorker = <<>> /\ toMain = <<>>
  /\ host.details = {} /\ host.traces = {}
  /\ \A d \in Day : host.slot[d].complete
  /\ ~NeedsDensify(host.focus[1])

(* What the worker sent once is never needed again: when it has nothing left *)
(* to do, the main thread has the whole week, every rollup, every record of  *)
(* the tracked analyst, and an answer to every detail request.               *)
NothingLost == Idle => StoreComplete

(* The detail windows show what a run under the cuts would, and no detail    *)
(* run leaves a checkpoint behind that the day's stream cannot open.         *)
WindowsTrue == DetailsCurrent /\ NeverFails

(* The main thread and the worker agree on what plays and who is tracked     *)
(* once no message is on its way, unless the run has failed.                 *)
Agreed ==
  (Active /\ toWorker = <<>> /\ toMain = <<>>) =>
    /\ host.run = client.run /\ host.rev = client.rev /\ host.patches = client.cuts
    /\ host.tracked = client.tracked /\ host.focus[1] = client.focusDay

(* What the store shows outside the detail windows is current, nothing       *)
(* counts as computed that is not held, and the two sides come to agree.     *)
StoreTrue == ResultsCurrent /\ ComputedHeld /\ Agreed

(* The week is computed whatever the user does in between, once the user     *)
(* stops.                                                                    *)
EventuallyIdle == <>[]Idle
=============================================================================
