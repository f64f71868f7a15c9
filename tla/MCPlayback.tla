----------------------------- MODULE MCPlayback -----------------------------
(***************************************************************************)
(* The store over its two engines, the worker and the fixture-backed fake: *)
(* `machine` says which one it is built with.  Two days of three buckets,  *)
(* or one of four, and a few of the user's actions: forks, a seek, a reset, *)
(* detail windows, tracking.                                               *)
(***************************************************************************)
EXTENDS Playback

CONSTANT Machines  \* the engines to check

VARIABLES machine, fake, tasks

EntryPoint == <<0, 0>>

Fixture == INSTANCE FakeTransport

StoreInit == machine \in Machines /\ Init /\ Fixture!Init

StoreNext ==
  \/ machine = "worker" /\ Next /\ UNCHANGED <<machine, fake, tasks>>
  \/ machine = "fake" /\ Fixture!Next /\ UNCHANGED <<machine, host>>

StoreSpec == StoreInit /\ [][StoreNext]_<<machine, vars, fake, tasks>>

(* FakeTransport states it. *)
FakeHonest == machine = "fake" => Fixture!FakeHonest
=============================================================================
