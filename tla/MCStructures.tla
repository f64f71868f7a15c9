---------------------------- MODULE MCStructures ----------------------------
(***************************************************************************)
(* The engine's data structures, each under calls in any order: the KV     *)
(* pool, the event queue, and the router's view and choices.  They share   *)
(* no state; `machine` says which one moves, and the others rest in a      *)
(* state they may start in.                                                *)
(***************************************************************************)
EXTENDS KvPool, RoutingPolicy

CONSTANTS
  sa, sb, h1, h2,
  Span, MaxEvents, CompactMin  \* EventQueue

VARIABLES
  machine,
  q, handles, answer   \* EventQueue

queue == <<q, handles, answer>>

(* Two times, two priorities and events of the same rank. *)
Queue == INSTANCE EventQueue WITH Ranks <- {<<1, 1>>, <<1, 2>>, <<2, 1>>}

(* Three replicas on a ring, two of whose points share a position, under each *)
(* of the five policies, with sampled and with live signals; a parameter      *)
(* change may switch between them.                                            *)
Point(r, v, p) == [owner |-> r, vnode |-> v, pos |-> p]
ThreeRing == {Point(0, 0, 1), Point(0, 1, 5), Point(1, 0, 3), Point(1, 1, 5), Point(2, 0, 4)}
Setting(policy, scheme, af, load, kv, ms) ==
  [policy |-> policy, scheme |-> scheme, affinity |-> af, load |-> load, kv |-> kv, refreshMs |-> ms]
RoundRobin == Setting("roundRobin", "modN", 0, 0, 0, 1)
Settings == {RoundRobin,
             Setting("leastOutstanding", "modN", 0, 0, 0, 1),
             Setting("kvUtilization", "modN", 0, 0, 0, 0),
             Setting("sessionAffinity", "consistent", 0, 0, 0, 1),
             Setting("weighted", "modN", 1, 2, 1, 0)}
TwoLoads == {<<0, 0>>, <<1, 1>>}
Hashes == 0..5

ASSUME Queue!QueueAssumption /\ RoutingAssumption

StructuresInit ==
  /\ machine \in {"pool", "queue", "router"}
  /\ Init /\ Queue!Init
  /\ RouterInit /\ (machine # "router" => params = RoundRobin)

StructuresNext ==
  \/ machine = "pool" /\ Next /\ UNCHANGED <<machine, queue, routing>>
  \/ machine = "queue" /\ Queue!Next /\ UNCHANGED <<machine, vars, routing>>
  \/ machine = "router" /\ RouterNext /\ UNCHANGED <<machine, vars, queue>>

StructuresSpec == StructuresInit /\ [][StructuresNext]_<<machine, vars, queue, routing>>

(* PoolConsistent is KvPool's own; RoutingSound and AffinityMoves are         *)
(* RoutingPolicy's.  EventQueue states it: the queue implements EventSet,     *)
(* call by call.                                                              *)
QueueImplements ==
  /\ Queue!Promise!Init /\ [][machine = "queue" /\ Queue!Promise!Next]_<<q, answer>>
  /\ [](machine = "queue" => Queue!QueueWellFormed)
=============================================================================
