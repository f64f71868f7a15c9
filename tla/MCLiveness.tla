----------------------------- MODULE MCLiveness -----------------------------
(***************************************************************************)
(* What must happen in the end: on a fleet of one replica that may crash,  *)
(* and on one replica's scheduler.  They share no state here; `machine`    *)
(* says which one moves and is treated fairly.                             *)
(*                                                                         *)
(* The scheduler has the fairness of the event queue: a pending kick or    *)
(* step end fires, and time passes, unless a crash or a cancellation takes *)
(* the event away.  One of the three is possible in every mode but idle,   *)
(* so fairness of Works is: again and again the replica is idle or works.  *)
(* It is stated so with a history variable that moves when the replica     *)
(* works.                                                                  *)
(***************************************************************************)
EXTENDS Fleet

CONSTANTS NoKey, SystemOwner, q1, q2, sa, sb, r1, s1, s2

VARIABLES
  machine,
  req, up, eng, elapsed, arrived,  \* ReplicaScheduler
  worked  \* history: flips when the replica works

engineVars == <<req, up, eng, elapsed, arrived, worked>>

(* Two requests that together need more than the pool: they preempt each other. *)
SmallWorkloads == {[session |-> sa, prompt |-> 2, output |-> 5], [session |-> sb, prompt |-> 3, output |-> 4]}
Server == INSTANCE ReplicaScheduler
          WITH TotalBlocks <- 4, BlockSize <- 2, SystemTokens <- 2, Req <- {q1, q2}, Workloads <- SmallWorkloads,
               MaxBatchedTokens <- 3, MaxSeqs <- 2, MaxModelLen <- 7, Jumping <- TRUE

ServerNext == (Server!Works /\ worked' = ~worked) \/ (Server!Met /\ worked' = worked)
MustWork == eng.mode # "idle" /\ worked' = ~worked

LivenessInit ==
  /\ machine \in {"fleet", "replica"}
  /\ Init /\ (machine # "fleet" => params = CHOOSE p \in Params : TRUE)
  /\ Server!Init /\ worked = FALSE /\ (machine # "replica" => req = CHOOSE f \in [{q1, q2} -> SmallWorkloads] : TRUE)

LivenessNext ==
  \/ machine = "fleet" /\ Next /\ UNCHANGED <<machine, engineVars>>
  \/ machine = "replica" /\ ServerNext /\ UNCHANGED <<machine, vars>>

(* The fairness of either module, for the one that moves. *)
Fair ==
  /\ WF_vars(machine = "fleet" /\ Sends)
  /\ WF_vars(machine = "fleet" /\ Dispatches)
  /\ WF_vars(machine = "fleet" /\ BecomesEligible)
  /\ WF_vars(machine = "fleet" /\ PhaseEnds)
  /\ WF_vars(machine = "fleet" /\ KickDue(r1))
  /\ WF_vars(machine = "fleet" /\ StepEndDue(r1))
  /\ \A s \in {s1, s2} : /\ SF_vars(machine = "fleet" /\ Finishes(s))
                        /\ SF_vars(machine = "fleet" /\ GetsAdmitted(s))
  /\ WF_worked(machine = "replica" /\ MustWork)

LivenessSpec == LivenessInit /\ [][LivenessNext]_<<machine, vars, engineVars>> /\ Fair

(* ReplicaScheduler states it; FleetRecovers is Fleet's own. *)
Served == (machine = "replica") => Server!Served
=============================================================================
