--------------------------- MODULE WorkerProtocol ---------------------------
(***************************************************************************)
(* What the main thread and the engine worker share (worker/protocol.ts):  *)
(* the two ordered message channels, the time grid, and which results a    *)
(* fork's patch changes.                                                   *)
(*                                                                         *)
(* A day is Buckets histogram buckets.  Patches, cuts, chunks, checkpoints *)
(* and detail windows all fall on bucket boundaries; a patch dated inside  *)
(* a bucket changes that bucket and the later ones, which is why the cut   *)
(* is at the bucket's start.  The results of one bucket are abstracted to  *)
(* the revisions of the forks they were computed with, and, for the        *)
(* records of the tracked analyst, to that analyst.                        *)
(***************************************************************************)
EXTENDS Integers, Sequences, FiniteSets

CONSTANTS
  LastDay,      \* days are 0..LastDay
  Buckets,      \* histogram buckets of a day
  ChunkBuckets, \* buckets between chunk ends
  Analyst,      \* analysts the user may track; one of them is the scenario's
  Initial,      \* the scenario's tracked analyst
  MaxForks, MaxResets, MaxSeeks, MaxTracks, MaxDetails, \* bounds on the user's actions
  MaxActions,   \* bound on all of them together
  MaxInFlight,  \* the worker pauses with this many messages undelivered
  None

ASSUME ProtocolAssumption ==
  /\ LastDay \in Nat /\ Buckets \in Nat \ {0} /\ ChunkBuckets \in 1..Buckets
  /\ Initial \in Analyst /\ None \notin Analyst \cup Int
  /\ {MaxForks, MaxResets, MaxSeeks, MaxTracks, MaxDetails, MaxActions} \subseteq Nat
  /\ MaxInFlight \in Nat \ {0}

VARIABLES toWorker, toMain

channels == <<toWorker, toMain>>

Day == 0..LastDay
Bucket == 0..(Buckets - 1)
Revision == 0..MaxForks
RunId == 1..(MaxResets + 1)
Patch == [rev : 1..MaxForks, day : Day, at : Bucket, lasting : BOOLEAN]
Revs == SUBSET (1..MaxForks)
ResultSets == UNION {[B -> Revs] : B \in SUBSET Bucket}

(* A patch changes its day from its own bucket on and, when it is lasting    *)
(* ('set'), every later day.                                                 *)
Affects(p, d, b) == (d = p.day /\ b >= p.at) \/ (p.lasting /\ d > p.day)

(* The forks of P that the results of bucket b of day d depend on. *)
Deps(P, d, b) == {p.rev : p \in {q \in P : Affects(q, d, b)}}

(* The ends of chunks and silent replay steps (worker/grid.ts). *)
GridEndRoundedUp(from) ==  \* mutation: a chunk that starts on the grid ends there
  LET end == ((from + ChunkBuckets - 1) \div ChunkBuckets) * ChunkBuckets
  IN  IF end < Buckets THEN end ELSE Buckets
GridEnd(from) ==
  LET end == (from \div ChunkBuckets + 1) * ChunkBuckets
  IN  IF end < Buckets THEN end ELSE Buckets
SilentEnd(from, limit) == IF limit < GridEnd(from) THEN limit ELSE GridEnd(from)

(* Detail windows are aligned, two chunks wide, and clipped to the day       *)
(* (playback/detail.ts: 10 minutes; worker/grid.ts: 5).                      *)
Window == {w \in Day \X Bucket : w[2] % (2 * ChunkBuckets) = 0}
WindowEnd(w) == LET end == w[2] + 2 * ChunkBuckets IN IF end < Buckets THEN end ELSE Buckets
=============================================================================
