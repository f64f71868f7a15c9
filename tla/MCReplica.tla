----------------------------- MODULE MCReplica -----------------------------
(***************************************************************************)
(* One replica: its scheduler against the reference, the cost of its       *)
(* steps, and the content index of its KV pool.  The three share no state  *)
(* here; `machine` says which one moves, and the others rest in a state    *)
(* they may start in.                                                      *)
(***************************************************************************)
EXTENDS ReplicaScheduler

CONSTANTS sa, sb, None

VARIABLES
  machine,
  stepped,                                   \* history: the replica as its reference would have it
  x, contentKey, answer,                     \* ContentIndex
  cal, chunk, pre, seqs, totals, last, jump  \* CostModel

scheduler == <<vars, stepped>>
content == <<x, contentKey, answer>>
cost == <<cal, chunk, pre, seqs, totals, last, jump>>

Symmetry == Permutations(Req)

(* Two sessions over a pool of five blocks of two tokens: two requests that  *)
(* run together need more than the pool, so they preempt each other; one     *)
(* continues the other's sequence, so it hits its blocks.                    *)
SchedulerWorkloads ==
  {[session |-> sa, prompt |-> 2, output |-> 5], [session |-> sb, prompt |-> 3, output |-> 4],
   [session |-> sa, prompt |-> 5, output |-> 2]}

(* The scheduler implements its reference (oracle/scheduler.ts), which        *)
(* composes and applies one step at a time: spans (replica/span.ts), lazy     *)
(* token counts and registrations at block boundaries only are optimisations. *)
(* The mapping applies the steps of a span that have elapsed; a step that     *)
(* ends inside a span, which fires no event, is a step of the reference.      *)
AsOracle(e, n) ==
  LET s == SyncSpan(e, n)
  IN [phase |-> s.phase, pool |-> s.pool, waiting |-> s.waiting, running |-> s.running,
      mode |-> IF s.mode = "span" THEN "step" ELSE s.mode, chunks |-> s.chunks,
      blocks |-> s.table, registered |-> s.registered, computed |-> s.computed,
      target |-> s.target, generated |-> [r \in Req |-> GeneratedTokens(s, r)],
      outcome |-> s.outcome, thrown |-> s.thrown]

JumpingInit == Init /\ stepped = AsOracle(eng, elapsed)
JumpingNext == Next /\ stepped' = AsOracle(eng', elapsed')

Oracle == INSTANCE OracleScheduler WITH ora <- stepped, seen <- ToSet(arrived)

(* Two owners with four block indices on three pages of two each, in a pool  *)
(* of three blocks: the array of pages grows, and freed pages change owner.  *)
Index == INSTANCE ContentIndex
         WITH TotalBlocks <- 3, Owners <- {0, 1}, Indices <- {0, 1, 2, 4}, PageSize <- 2, InitialPages <- 1

(* Two calibrations: compute hands over to memory, and memory to compute,    *)
(* within a few steps; up to two sequences of up to nine tokens.             *)
Calibration(l, a, k, w, f, s, h) ==
  [linear |-> l, attention |-> a, kv |-> k, weights |-> w, fpm |-> f, bpm |-> 1, overhead |-> 1, perSeq |-> s, perCached |-> h]
Falling == Calibration(10, 1, 2, 3, 1, 0, 0)
Cost == INSTANCE CostModel
        WITH Cals <- {Falling, Calibration(1, 3, 1, 3, 2, 1, 1)}, Chunks <- {1, 2}, Prompts <- {1, 3},
             Cached <- {0, 1, 2}, Budgets <- {0, 12, 45, 70, 100}, MaxBatch <- 2, MaxContext <- 9

ReplicaInit ==
  /\ machine \in {"scheduler", "index", "cost"}
  /\ JumpingInit /\ (machine # "scheduler" => \A r \in Req : req[r].session = sb)
  /\ Index!Init
  /\ Cost!Init /\ (machine # "cost" => cal = Falling /\ chunk = 1)

ReplicaNext ==
  \/ machine = "scheduler" /\ JumpingNext /\ UNCHANGED <<machine, content, cost>>
  \/ machine = "index" /\ Index!Next /\ UNCHANGED <<machine, scheduler, cost>>
  \/ machine = "cost" /\ Cost!Next /\ UNCHANGED <<machine, scheduler, content>>

ReplicaSpec == ReplicaInit /\ [][ReplicaNext]_<<machine, scheduler, content, cost>>

(* ReplicaScheduler states it. *)
SchedulerExact == machine = "scheduler" => ReplicaExact

(* CostModel states it. *)
CostExact == machine = "cost" => Cost!CostExact

(* Every run of the engine is a run of the reference: no admission, finish,  *)
(* preemption, eviction or registration comes earlier or later, and the pool *)
(* holds the same blocks in the same order, whatever arrives, leaves, reads  *)
(* or crashes in the middle of a span (oracle/compare.ts compareRequests and *)
(* comparePools, replica/jumping.test.ts).                                   *)
SchedulerImplementsOracle ==
  Oracle!Init /\ [][machine = "scheduler" /\ Oracle!Next]_<<req, up, stepped, arrived>>

(* ContentIndex states it: the pages implement ContentMap, call by call. *)
IndexImplementsMap ==
  /\ Index!Map!Init /\ [][machine = "index" /\ Index!Map!Next]_<<contentKey, answer>>
  /\ [](machine = "index" => Index!CheckIndex)
=============================================================================
