---------------------------- MODULE RoutingPolicy ----------------------------
(***************************************************************************)
(* What the router sees and how it picks a replica: engine/router/hash.ts, *)
(* policies.ts, and the signals, rotation and parameters of module.ts.     *)
(* The load the policies read is a snapshot, renewed by a chain of refresh *)
(* events, or before every choice when the refresh interval is 0.          *)
(*                                                                         *)
(* A policy that can tie leaves a set of candidates, of which a keyed draw *)
(* picks one: any of them.  Hashes and ring positions are a small range,   *)
(* weights and KV fractions are integers, and scores are compared after    *)
(* multiplying by their common denominator.  The life of the request that  *)
(* is routed, and admission control, are in Fleet.                         *)
(***************************************************************************)
EXTENDS Integers, Sequences, FiniteSets

CONSTANTS
  Replicas,       \* their number; they are 0..Replicas - 1
  Ring,           \* virtual nodes [owner, vnode, pos]
  Hash,           \* session hashes and ring positions, 0..HashSpan - 1
  HashSpan,
  Params,         \* parameter settings [policy, scheme, affinity, load, kv, refreshMs]
  KvFull,         \* KV fractions are over KvFull
  Loads           \* the loads <<outstanding, KV used>> a replica may have

Replica == 0..(Replicas - 1)

RoutingAssumption ==
  /\ {Replicas, HashSpan, KvFull} \subseteq Nat \ {0} /\ Loads \subseteq Nat \X (0..KvFull)
  /\ Hash \subseteq 0..(HashSpan - 1)
  /\ Ring \subseteq [owner : Replica, vnode : Nat, pos : 0..(HashSpan - 1)]
  /\ \A r \in Replica : \E p \in Ring : p.owner = r
  /\ Params \subseteq
       [policy : {"roundRobin", "leastOutstanding", "kvUtilization", "sessionAffinity", "weighted"},
        scheme : {"modN", "consistent"}, affinity : Int, load : Int, kv : Int, refreshMs : Nat]

VARIABLES
  params,      \* the tunable parameters in effect
  routable,    \* replicas in rotation
  outstanding, \* requests of each replica, as they are
  kvUsed,
  seenOutstanding, seenKv, \* as they were at the last refresh
  rrLast,      \* replica round robin chose last, or -1
  refreshEv,   \* pending refresh events
  cycle        \* what round robin has chosen since the rotation changed (a history)

routing == <<params, routable, outstanding, kvUsed, seenOutstanding, seenKv, rrLast, refreshEv, cycle>>

-----------------------------------------------------------------------------
(* hash.ts *)

(* Clockwise from the hash; points at one position are in ring order. *)
Distance(p, h) == IF p.pos >= h THEN p.pos - h ELSE p.pos + HashSpan - h
RingBefore(p, q, h) ==
  \/ Distance(p, h) < Distance(q, h)
  \/ Distance(p, h) = Distance(q, h) /\
       (p.owner < q.owner \/ (p.owner = q.owner /\ p.vnode < q.vnode))

(* The (hash mod count)-th of the routable list, which is in id order. *)
ModNLookup(h, set) ==
  CHOOSE r \in set : Cardinality({q \in set : q < r}) = h % Cardinality(set)

RingLookupModN(h, set) == ModNLookup(h, set)  \* mutation: the scheme is ignored
RingLookup(h, set) ==
  LET points == {p \in Ring : p.owner \in set}
  IN  (CHOOSE p \in points : \A q \in points \ {p} : RingBefore(p, q, h)).owner

AffinityTarget(scheme, h, set) ==
  IF scheme = "modN" THEN ModNLookup(h, set) ELSE RingLookup(h, set)

-----------------------------------------------------------------------------
(* policies.ts: the candidates, over the routable replicas. *)
LowestOfAll(value, set) ==  \* mutation: replicas out of rotation are candidates
  {r \in Replica : \A q \in set : value[r] <= value[q]}
Lowest(value, set) == {r \in set : \A q \in set : value[r] <= value[q]}

NextRoundRobinWrapping(last, set) ==  \* mutation: the cycle starts over at its second
  LET later == {r \in set : r > last}
      from  == IF later = {} THEN {r \in set : r > 0 \/ set = {0}} ELSE later
  IN  CHOOSE r \in from : \A q \in from : r <= q
NextRoundRobin(last, set) ==
  LET later == {r \in set : r > last}
      from  == IF later = {} THEN set ELSE later
  IN  CHOOSE r \in from : \A q \in from : r <= q

MaxSeen(set) ==
  IF \A r \in set : seenOutstanding[r] = 0 THEN 1
  ELSE seenOutstanding[CHOOSE r \in set : \A q \in set : seenOutstanding[q] <= seenOutstanding[r]]

(* The weighted score times MaxSeen and KvFull, the lower the better. *)
Penalty(p, target, set) ==
  [r \in Replica |->
     p.load * seenOutstanding[r] * KvFull + p.kv * seenKv[r] * MaxSeen(set)
     - (IF r = target THEN p.affinity * MaxSeen(set) * KvFull ELSE 0)]

Candidates(p, h, set) ==
  CASE p.policy = "roundRobin"       -> {NextRoundRobin(rrLast, set)}
    [] p.policy = "leastOutstanding" -> Lowest(seenOutstanding, set)
    [] p.policy = "kvUtilization"    -> Lowest(seenKv, set)
    [] p.policy = "sessionAffinity"  -> {AffinityTarget(p.scheme, h, set)}
    [] p.policy = "weighted"         -> Lowest(Penalty(p, AffinityTarget(p.scheme, h, set), set), set)

-----------------------------------------------------------------------------
(* module.ts *)
RefreshSignals == seenOutstanding' = outstanding /\ seenKv' = kvUsed

(* The refreshes pending after the next one is moved. *)
ScheduleRefresh(pending, every) ==
  (IF pending > 0 THEN pending - 1 ELSE 0) + (IF every > 0 THEN 1 ELSE 0)

(* choose, for an arrival or for a dispatch whose choice left the rotation.  *)
Choose ==
  /\ IF params.refreshMs = 0 THEN RefreshSignals ELSE UNCHANGED <<seenOutstanding, seenKv>>
  /\ IF params.policy = "roundRobin" /\ routable # {}
     THEN /\ rrLast' = NextRoundRobin(rrLast, routable)
          /\ cycle' = Append(IF Len(cycle) > Cardinality(routable) THEN Tail(cycle) ELSE cycle, rrLast')
     ELSE UNCHANGED <<rrLast, cycle>>
  /\ UNCHANGED <<params, routable, outstanding, kvUsed, refreshEv>>

Refresh ==
  /\ refreshEv > 0
  /\ RefreshSignals
  /\ refreshEv' = ScheduleRefresh(refreshEv - 1, params.refreshMs)
  /\ UNCHANGED <<params, routable, outstanding, kvUsed, rrLast, cycle>>

(* Ready brings a replica back; down and loading take it out; the router does *)
(* not see a crash.                                                          *)
OnReplicaState(r, ready) ==
  /\ routable' = IF ready THEN routable \cup {r} ELSE routable \ {r}
  /\ cycle' = IF routable' = routable THEN cycle ELSE <<>>
  /\ UNCHANGED <<params, outstanding, kvUsed, seenOutstanding, seenKv, rrLast, refreshEv>>

OnParams(p) ==
  /\ params' = p
  /\ refreshEv' = IF p.refreshMs # params.refreshMs THEN ScheduleRefresh(refreshEv, p.refreshMs) ELSE refreshEv
  /\ UNCHANGED <<routable, outstanding, kvUsed, seenOutstanding, seenKv, rrLast, cycle>>

(* What the requests do to the replica's load. *)
Load(r, n, kv) ==
  /\ outstanding' = [outstanding EXCEPT ![r] = n]
  /\ kvUsed' = [kvUsed EXCEPT ![r] = kv]
  /\ UNCHANGED <<params, routable, seenOutstanding, seenKv, rrLast, refreshEv, cycle>>

RouterInit ==
  /\ params \in Params
  /\ routable = Replica
  /\ outstanding = [r \in Replica |-> 0] /\ kvUsed = [r \in Replica |-> 0]
  /\ seenOutstanding = outstanding /\ seenKv = kvUsed
  /\ rrLast = -1 /\ cycle = <<>>
  /\ refreshEv = ScheduleRefresh(0, params.refreshMs)

RouterNext ==
  \/ Choose \/ Refresh
  \/ \E r \in Replica, ready \in BOOLEAN : OnReplicaState(r, ready)
  \/ \E p \in Params : OnParams(p)
  \/ \E r \in Replica, load \in Loads : Load(r, load[1], load[2])

RouterSpec == RouterInit /\ [][RouterNext]_routing

-----------------------------------------------------------------------------
(* Properties.                                                               *)

(* Whatever the parameters, the signals and the rotation, every policy picks *)
(* a replica, and one in rotation: chooseReplica is never left with an id    *)
(* the router may not use.                                                   *)
ChoicesRoutable ==
  routable # {} =>
    \A p \in Params, h \in Hash :
      \E picks \in {Candidates(p, h, routable)} : picks # {} /\ picks \subseteq routable

(* Round robin is fair: between two choices of one replica, with the         *)
(* rotation unchanged, it has chosen every other replica of the rotation,    *)
(* and none twice, even if other policies were used in between.              *)
RoundRobinFair ==
  \A i, j \in DOMAIN cycle : i < j /\ cycle[i] = cycle[j] =>
    j - i >= Cardinality(routable) /\ {cycle[k] : k \in i..(j - 1)} = routable

(* Consistent hashing moves a session only off a replica that left or onto   *)
(* one that joined (hash.ts: "moves only its own sessions").                 *)
MovesOwnOnly ==
  \A h \in Hash : routable # {} /\ routable' \notin {{}, routable} =>
    LET old == RingLookup(h, routable)
        new == RingLookup(h, routable')
    IN  old # new => old \notin routable' \/ new \notin routable
AffinityMoves == [][MovesOwnOnly]_routable

(* Every choice is one the router may make, and round robin's are even.      *)
RoutingSound == ChoicesRoutable /\ RoundRobinFair
=============================================================================
