------------------------------- MODULE MCDays -------------------------------
(***************************************************************************)
(* The days the repository runs besides the fleet's: a day run that is     *)
(* advanced, checkpointed and restored; the reference's day; the scale     *)
(* study's day; a day of load beside its plan; and the days of a worker    *)
(* with their checkpoints.  `machine` says which one moves; the others     *)
(* rest in a state they may start in.                                      *)
(***************************************************************************)
EXTENDS DayRun

CONSTANTS NoKey, SystemOwner, sa, sb, Off

VARIABLES
  machine,
  oracle,  \* OracleDay's d
  spike,   \* SpikeDay's d
  input, clock, env, params, spikes, spikeProduct, shifts, nextPatch, cursor, open, extras, log, plan,  \* LoadDay
  slots, focus, job, moves  \* DayStream

loadVars == <<input, clock, env, params, spikes, spikeProduct, shifts, nextPatch, cursor, open, extras, log, plan>>
streamVars == <<slots, focus, job, moves>>

-----------------------------------------------------------------------------
(* A day of three buckets of two instants; the patches meet the refreshes,   *)
(* the boundaries, each other, the morning before the day and its end.       *)
Patches == {[at |-> -1, set |-> 2], [at |-> 2, set |-> 1], [at |-> 3, set |-> 4],
            [at |-> 3, set |-> None], [at |-> 5, set |-> None], [at |-> 6, set |-> 1]}
NoPatches == {}

-----------------------------------------------------------------------------
(* Reference days of three requests and two replicas: a retry that follows   *)
(* the end of a request, timeouts at the instant of a first token and of a   *)
(* dispatch, a scripted cancel, and a crash that is noticed late.            *)
Request(at, after, session, prompt, output, timeout, cancelAt) ==
  [at |-> at, after |-> after, session |-> session, prompt |-> prompt, output |-> output,
   timeout |-> timeout, cancelAt |-> cancelAt]
Specs ==
  {<<Request(1, None, sa, 2, 4, t, None), Request(1, None, sb, 3, 2, None, c), Request(0, f, sa, 4, 2, 2, None)>> :
     t \in {None, 1, 3}, c \in {None, 1, 3}, f \in {1, 2}}
Change(at, r, s) == [at |-> at, replica |-> r, state |-> s]
Changes ==
  {<<>>, <<Change(2, "r1", "crashed"), Change(3, "r1", "down"), Change(6, "r1", "ready")>>,
   <<Change(2, "r1", "down"), Change(2, "r2", "down"), Change(5, "r2", "ready")>>}
OracleInputs ==
  {[specs |-> s, changes |-> c, limit |-> l, refresh |-> f, overhead |-> o, pace |-> ("r1" :> 1 @@ "r2" :> p)] :
     s \in Specs, c \in Changes, l \in {None, 1}, f \in {0, 2}, o \in {0, 1}, p \in {1, 2}}

Oracle == INSTANCE OracleDay
          WITH d <- oracle, Req <- {1, 2, 3}, Replicas <- {"r1", "r2"}, Workloads <- {}, Inputs <- OracleInputs,
               TotalBlocks <- 5, BlockSize <- 2, SystemTokens <- 2,
               MaxBatchedTokens <- 3, MaxSeqs <- 2, MaxModelLen <- 7, DayEnd <- 12

-----------------------------------------------------------------------------
(* Days of the scale study: three sessions on two replicas whose pools hold   *)
(* hardly more than one longest request: preemption, eviction of a session's  *)
(* chain from its end, prompts clipped at the model's length, turns that come *)
(* due while the last one runs, and timeouts of waiting and running requests. *)
Turn(m, o, th) == [msg |-> m, out |-> o, think |-> th]
LongSessions == {<<Turn(2, 3, t), Turn(m, 2, 2), Turn(1, o, 1)>> : t \in {2, 9}, m \in {1, 4}, o \in {2, 4}}
ShortSessions == {<<Turn(m, 5, 1), Turn(2, 2, 1)>> : m \in {1, 5}}
SpikePlans ==
  {[mode |-> k, long |-> g, starts |-> <<0, s, 7>>, turns |-> <<a, b, <<Turn(3, 2, 1)>> >>] :
     k \in {"none", "map", "owner"}, g \in {1, 3}, s \in {0, 2, 5}, a \in LongSessions, b \in ShortSessions}

Spike == INSTANCE SpikeDay
         WITH d <- spike, Plans <- SpikePlans, Replicas <- <<"r1", "r2">>, Pool <- 5, BS <- 2, SystemTokens <- 3,
              MaxLen <- 12, Room <- 2, MaxBatched <- 5, MaxSeqs <- 2, FirstTokenTimeout <- 4, DayEnd <- 60

-----------------------------------------------------------------------------
(* Load of a day of ten units, its shift from 1 to 9, the curve rising and   *)
(* falling; draws of three patterns; up to two patches of every kind;        *)
(* requests that take no time, or two units and may fail.                    *)
Seeds == {[gap |-> <<9, g>>, thin |-> <<t, 1, 3>>, turns |-> <<1, 2>>, length |-> <<1, 2, l>>, think |-> <<1, 2>>] :
            g \in {7, 12}, t \in {0, 2, 5}, l \in {1, 3}}
Set1 == [at |-> 0, kind |-> "set", changes |-> [load |-> 1], mult |-> 1, lasts |-> 1, prompt |-> 2]
LoadPatches(t) ==
  {[Set1 EXCEPT !.at = t, !.changes = [load |-> 2]], [Set1 EXCEPT !.at = t, !.changes = [think |-> 2]],
   [Set1 EXCEPT !.at = t, !.kind = "spike", !.mult = 2, !.lasts = 2],
   [Set1 EXCEPT !.at = t, !.kind = "shift", !.lasts = 3, !.changes = [think |-> 3, turns |-> 3]],
   [Set1 EXCEPT !.at = t, !.kind = "extra"]}
PatchLists == {<<>>} \cup {<<p>> : p \in LoadPatches(2)} \cup {<<p, q>> : p \in LoadPatches(2), q \in LoadPatches(3)}
LoadInputs == {[seed |-> s, patches |-> p, service |-> v, fails |-> v # 0] : s \in Seeds, p \in PatchLists, v \in {0, 2}}

LoadDefaults == [load |-> 1, turns |-> 2, message |-> 1, output |-> 1, think |-> 1, sys |-> 1]
Knots == <<<<0, 0>>, <<2, 2>>, <<6, 2>>, <<10, 0>>>>

Load == INSTANCE LoadDay
        WITH now <- clock, ShiftStart <- 1, ShiftEnd <- 9,
             DayEnd <- 10, MaxSegment <- 2, MaxMultiplier <- 4, ThinUnit <- 6, MaxModelLen <- 8, OutputMax <- 3,
             MaxRetries <- 1, RetryDelay <- 1, Candidates <- 8, Inputs <- LoadInputs,
             Defaults <- LoadDefaults
ASSUME Load!ValidLoadConfig

-----------------------------------------------------------------------------
(* Three days of a worker, the active window from 3 to 15, chunks of two      *)
(* units, checkpoints at every fourth and every eighth unit, two of them      *)
(* outside the focus day; two messages at any time.                           *)
Stream == INSTANCE DayStream
          WITH Day <- 0..2, DayEnd <- 18, Hb <- 1, ShiftStart <- 3, ShiftEnd <- 15, ChunkMs <- 2, FirstChunkMs <- 1,
               FocusCheckpointMs <- 4, OtherCheckpointMs <- 8, Budget <- 2, At <- {2, 6, 13}, MaxMoves <- 2

-----------------------------------------------------------------------------
RestingOracle == Oracle!Opening(CHOOSE in \in OracleInputs : TRUE)
RestingSpike == Spike!Opening(CHOOSE p \in SpikePlans : TRUE)
RestingInput == CHOOSE in \in LoadInputs : in.patches = <<>>
RestingEnv == Load!BuildEnvelope
RestingPlan == Load!SessionPlan(RestingEnv, RestingInput.seed, <<>>)
RestingCursor == Load!AdvanceCursor(RestingEnv, RestingInput.seed, Load!NoCursor)

DaysInit ==
  /\ machine \in {"dayrun", "oracle", "spike", "load", "stream"}
  /\ DayRunInit /\ (machine # "dayrun" => day = Morning([preDay |-> <<>>, inDay |-> <<>>]))
  /\ IF machine = "oracle" THEN Oracle!Init ELSE oracle = RestingOracle
  /\ IF machine = "spike" THEN Spike!Init ELSE spike = RestingSpike
  /\ IF machine = "load" THEN Load!Init
     ELSE /\ input = RestingInput /\ plan = RestingPlan /\ cursor = RestingCursor /\ env = RestingEnv
          /\ clock = 0 /\ params = LoadDefaults /\ spikes = <<>> /\ spikeProduct = 1 /\ shifts = <<>>
          /\ nextPatch = 1 /\ open = {} /\ extras = 0 /\ log = {}
  /\ Stream!Init /\ (machine # "stream" => focus.day = 0 /\ focus.at = 2)

DaysNext ==
  \/ machine = "dayrun" /\ DayRunNext /\ UNCHANGED <<machine, oracle, spike, loadVars, streamVars>>
  \/ machine = "oracle" /\ Oracle!Next /\ UNCHANGED <<machine, vars, spike, loadVars, streamVars>>
  \/ machine = "spike" /\ Spike!Next /\ UNCHANGED <<machine, vars, oracle, loadVars, streamVars>>
  \/ machine = "load" /\ Load!Next /\ UNCHANGED <<machine, vars, oracle, spike, streamVars>>
  \/ machine = "stream" /\ Stream!Next /\ UNCHANGED <<machine, vars, oracle, spike, loadVars>>

DaysSpec == DaysInit /\ [][DaysNext]_<<machine, vars, oracle, spike, loadVars, streamVars>>

(* OracleDay, SpikeDay and LoadDay state these; DayRun's own are             *)
(* CheckpointExact and Whole.                                                *)
DayExact == machine = "oracle" => Oracle!DayExact
SpikeExact == machine = "spike" => Spike!SpikeExact
PlanHolds == machine = "load" => Load!PlanHolds

(* DayStream states it. *)
StreamExact ==
  /\ [](machine = "stream" => Stream!CheckpointsExact)
  /\ [][machine = "stream" => Stream!ChunksOnGrid /\ Stream!FarthestLoseFirst]_streamVars
=============================================================================
