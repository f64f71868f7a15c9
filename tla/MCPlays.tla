------------------------------ MODULE MCPlays ------------------------------
(***************************************************************************)
(* The week gets computed, and the playhead gets to its end: the worker    *)
(* with its store, and the playhead with a worker that computes what it is *)
(* asked for.  `machine` says which one moves and is treated fairly.       *)
(***************************************************************************)
EXTENDS Playhead

CONSTANTS NoValue, a1

VARIABLES machine, toWorker, toMain, host, store, results, used  \* Playback; store is its client

playbackVars == <<toWorker, toMain, host, store, results, used>>

(* Two days of three buckets, a fork and a seek. *)
Computed == INSTANCE Playback
            WITH client <- store, None <- NoValue, Entry <- <<0, 0>>, LastDay <- 1, Buckets <- 3, ChunkBuckets <- 2,
                 CheckpointEvery <- 2, Analyst <- {a1}, Initial <- a1, MaxForks <- 1, MaxResets <- 0, MaxSeeks <- 1,
                 MaxTracks <- 0, MaxDetails <- 0, MaxActions <- 2, MaxInFlight <- 1

(* How often the user does what, on two days of six instants with windows of two. *)
Budget(mount, play, set, seek, fork, reset) ==
  [mount |-> mount, play |-> play, set |-> set, seek |-> seek, fork |-> fork, reset |-> reset]
SmallBudgets == {Budget(2, 1, 0, 0, 0, 0), Budget(1, 1, 0, 0, 0, 1), Budget(0, 1, 1, 1, 0, 0), Budget(0, 1, 0, 1, 1, 0)}

PlaysInit ==
  /\ machine \in {"playback", "playhead"}
  /\ Computed!Init
  /\ Init /\ (machine # "playhead" => left = CHOOSE b \in SmallBudgets : TRUE)

PlaysNext ==
  \/ machine = "playback" /\ Computed!Next /\ UNCHANGED <<machine, vars>>
  \/ machine = "playhead" /\ Next /\ UNCHANGED <<machine, playbackVars>>

(* The fairness of either module, for the one that moves. *)
Fair ==
  /\ WF_playbackVars(machine = "playback" /\ Computed!HostStep)
  /\ WF_playbackVars(machine = "playback" /\ Computed!ClientStep)
  /\ WF_vars(machine = "playhead" /\ Frame)
  /\ WF_vars(machine = "playhead" /\ Elapse)
  /\ WF_vars(machine = "playhead" /\ AskedProgress)

PlaysSpec == PlaysInit /\ [][PlaysNext]_<<machine, playbackVars, vars>> /\ Fair

(* Playback and Playhead state these: the worker computes the week and comes *)
(* to rest, and the playhead gets to its end.  PlaysComputed and             *)
(* NothingMissed are the playhead's own.                                     *)
ReachesTheEnd ==
  /\ machine = "playback" => Computed!EventuallyIdle
  /\ machine = "playhead" => PlaysToEnd
=============================================================================
