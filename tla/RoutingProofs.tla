---------------------------- MODULE RoutingProofs ----------------------------
(***************************************************************************)
(* Proofs about the router's choices, for any ring, any parameters and any  *)
(* number of replicas: every policy picks a replica in rotation, round      *)
(* robin is even, and consistent hashing moves only what it has to.  First  *)
(* least elements and ranks, then each policy, then the invariant of the    *)
(* choices round robin has made.                                            *)
(***************************************************************************)
EXTENDS RoutingPolicy, FiniteSetTheorems, WellFoundedInduction, SequenceTheorems, TLAPS

-----------------------------------------------------------------------------
(* Least elements and ranks. *)

(* Every nonempty set of natural numbers has a least one. *)
LEMMA Least ==
  ASSUME NEW T \in SUBSET Nat, T # {}
  PROVE  \E x \in T : \A y \in T : x <= y
<1>1. \E x \in T : \A y \in T : ~(<<y, x>> \in OpToRel(<, Nat))
  BY NatLessThanWellFounded, WFMin, Zenon
<1>2. \A x, y \in Nat : x < y => <<x, y>> \in OpToRel(<, Nat)
  BY DEF OpToRel
<1>3. PICK x \in T : \A y \in T : ~(<<y, x>> \in OpToRel(<, Nat)) BY <1>1
<1>4. \A y \in T : ~(y < x) BY <1>2, <1>3
<1> QED BY <1>4

(* Replicas are finitely many numbers. *)
LEMMA ReplicasFinite ==
  ASSUME RoutingAssumption
  PROVE  /\ Replica \subseteq Nat
         /\ \A S \in SUBSET Replica : IsFiniteSet(S) /\ Cardinality(S) \in Nat
<1>1. Replicas \in Nat \ {0} BY DEF RoutingAssumption
<1>2. Replica \subseteq Nat BY <1>1 DEF Replica
<1>3. IsFiniteSet(Replica) BY <1>1, FS_Interval DEF Replica
<1> QED BY <1>2, <1>3, FS_Subset, FS_CardinalityType

(* The place of a replica in a set of them, from 0. *)
Below(r, S) == {q \in S : q < r}
Rank(r, S) == Cardinality(Below(r, S))

(* Ranks are the numbers below the size of the set, in the order of the ids. *)
LEMMA Ranks ==
  ASSUME RoutingAssumption, NEW S \in SUBSET Replica
  PROVE  /\ \A r \in Replica : Rank(r, S) \in Nat
         /\ \A r \in S : Rank(r, S) < Cardinality(S)
         /\ \A r, s \in S : r < s => Rank(r, S) < Rank(s, S)
<1>1. \A T \in SUBSET Replica : IsFiniteSet(T) /\ Cardinality(T) \in Nat BY ReplicasFinite
<1>2. \A r \in Replica : Below(r, S) \in SUBSET S /\ Below(r, S) \in SUBSET Replica BY DEF Below
<1>3. \A T, U \in SUBSET Replica : T \subseteq U /\ T # U => Cardinality(T) < Cardinality(U)
  <2> SUFFICES ASSUME NEW T \in SUBSET Replica, NEW U \in SUBSET Replica, T \subseteq U, T # U
               PROVE Cardinality(T) < Cardinality(U) OBVIOUS
  <2>1. Cardinality(T) <= Cardinality(U) /\ (Cardinality(U) = Cardinality(T) => U = T) BY <1>1, FS_Subset
  <2> QED BY <1>1, <2>1
<1>4. \A r \in Replica : Rank(r, S) \in Nat BY <1>1, <1>2 DEF Rank
<1>5. ASSUME NEW r \in S PROVE Rank(r, S) < Cardinality(S)
  <2>1. r \in Nat /\ r \notin Below(r, S) BY ReplicasFinite DEF Below
  <2> QED BY <1>2, <1>3, <2>1 DEF Rank
<1>6. ASSUME NEW r \in S, NEW s \in S, r < s PROVE Rank(r, S) < Rank(s, S)
  <2>1. r \in Nat /\ s \in Nat /\ S \subseteq Nat BY ReplicasFinite
  <2>2. \A q \in S : q < r => q < s BY <1>6, <2>1
  <2>4. Below(r, S) \subseteq Below(s, S) BY <2>2 DEF Below
  <2>3. r \in Below(s, S) /\ r \notin Below(r, S) BY <1>6, <2>1 DEF Below
  <2> QED BY <1>2, <1>3, <2>3, <2>4 DEF Rank
<1> QED BY <1>4, <1>5, <1>6

(* Some element of a nonempty set of replicas is least, and one is greatest. *)
LEMMA Ends ==
  ASSUME RoutingAssumption, NEW S \in SUBSET Replica, S # {}
  PROVE  /\ \E r \in S : \A q \in S : r <= q
         /\ \E r \in S : \A q \in S : q <= r
<1>1. \E r \in S : \A q \in S : r <= q BY ReplicasFinite, Least
<1>2. \E r \in S : \A q \in S : q <= r
  <2> DEFINE T == {Replicas - r : r \in S}
  <2>1. Replicas \in Nat BY DEF RoutingAssumption
  <2>0. \A r \in S : Replicas - r \in Nat BY <2>1 DEF Replica
  <2>2. T \in SUBSET Nat /\ T # {} BY <2>0
  <2>3. PICK x \in T : \A y \in T : x <= y BY <2>2, Least
  <2>4. PICK r \in S : x = Replicas - r OBVIOUS
  <2>5. \A q \in S : Replicas - r <= Replicas - q BY <2>3, <2>4
  <2>6. \A q \in S : q \in Int BY <2>1 DEF Replica
  <2> QED BY <2>1, <2>4, <2>5, <2>6
<1> QED BY <1>1, <1>2

(* Every number below the size of the set is the rank of one of its elements. *)
LEMMA RankTaken ==
  ASSUME RoutingAssumption, NEW S \in SUBSET Replica, NEW i \in Nat, i < Cardinality(S)
  PROVE  \E r \in S : Rank(r, S) = i
<1> DEFINE T == {r \in S : Rank(r, S) >= i}
<1>1. S \subseteq Nat /\ IsFiniteSet(S) /\ Cardinality(S) \in Nat BY ReplicasFinite
<1>2. S # {} BY <1>1, FS_EmptySet
<1>3. \A r \in S : Rank(r, S) \in Nat BY Ranks
<1>4. PICK m \in S : \A q \in S : q <= m BY <1>2, Ends
<1>5. Rank(m, S) = Cardinality(S) - 1
  <2>0. \A q \in S : q < m <=> q # m BY <1>1, <1>4
  <2>1. Below(m, S) = S \ {m} BY <2>0 DEF Below
  <2> QED BY <1>1, <2>1, FS_RemoveElement DEF Rank
<1>6. m \in T BY <1>1, <1>5
<1>7. T \in SUBSET Replica OBVIOUS
<1>8. PICK r \in T : \A q \in T : r <= q BY <1>6, <1>7, Ends
<1>9. SUFFICES ASSUME Rank(r, S) > i PROVE FALSE BY <1>3, <1>8
<1>10. Below(r, S) \in SUBSET Replica /\ Below(r, S) # {}
  <2>1. Below(r, S) \in SUBSET Replica BY DEF Below
  <2>2. Rank(r, S) # 0 BY <1>3, <1>9
  <2> QED BY <2>1, <2>2, FS_EmptySet DEF Rank
<1>11. PICK p \in Below(r, S) : \A q \in Below(r, S) : q <= p BY <1>10, Ends
<1>12. p \in S /\ p < r /\ IsFiniteSet(Below(r, S))
  <2>1. p \in S /\ p < r BY DEF Below
  <2> QED BY <1>10, <2>1, ReplicasFinite
<1>13. Below(p, S) = Below(r, S) \ {p}
  <2>1. \A q \in S : q < p <=> q < r /\ q # p
    <3> SUFFICES ASSUME NEW q \in S PROVE q < p <=> q < r /\ q # p OBVIOUS
    <3>1. q < r => q <= p BY <1>11 DEF Below
    <3>2. q \in Nat /\ p \in Nat /\ r \in Nat BY <1>1, <1>12
    <3> QED BY <1>12, <3>1, <3>2
  <2>2. Below(p, S) \subseteq Below(r, S) \ {p} BY <2>1 DEF Below
  <2>3. Below(r, S) \ {p} \subseteq Below(p, S) BY <2>1 DEF Below
  <2> QED BY <2>2, <2>3
<1>14. Rank(p, S) = Rank(r, S) - 1
  <2> DEFINE all == Below(r, S)
  <2>1. IsFiniteSet(all) /\ p \in all BY <1>12
  <2> HIDE DEF all
  <2>2. Cardinality(all \ {p}) = Cardinality(all) - 1 BY <2>1, FS_RemoveElement
  <2> QED BY <1>13, <2>2 DEF Rank, all
<1>15. p \in T BY <1>3, <1>9, <1>12, <1>14
<1> QED BY <1>1, <1>8, <1>12, <1>15

-----------------------------------------------------------------------------
(* What each policy picks. *)

(* Some replica of a nonempty set has the lowest value of the set. *)
LEMMA LowestFound ==
  ASSUME RoutingAssumption, NEW S \in SUBSET Replica, S # {}, NEW v, \A r \in S : v[r] \in Int
  PROVE  Lowest(v, S) # {} /\ Lowest(v, S) \subseteq S
<1> DEFINE under(r) == {q \in S : v[q] < v[r]}
           T == {Cardinality(under(r)) : r \in S}
<1>1. \A r \in S : IsFiniteSet(under(r)) /\ Cardinality(under(r)) \in Nat BY ReplicasFinite
<1>2. T \in SUBSET Nat /\ T # {} BY <1>1
<1>3. PICK x \in T : \A y \in T : x <= y BY <1>2, Least
<1>4. PICK r \in S : x = Cardinality(under(r)) OBVIOUS
<1>5. \A q \in S : Cardinality(under(r)) <= Cardinality(under(q)) BY <1>3, <1>4
<1>6. ASSUME NEW q \in S, v[q] < v[r] PROVE FALSE
  <2>0. \A s \in S : v[s] < v[q] => v[s] < v[r] BY <1>6
  <2>1. under(q) \subseteq under(r) BY <2>0
  <2>2. q \in under(r) /\ q \notin under(q) BY <1>6
  <2>3. Cardinality(under(q)) <= Cardinality(under(r)) /\ (Cardinality(under(r)) = Cardinality(under(q)) => under(r) = under(q))
    <3>1. IsFiniteSet(under(r)) /\ under(q) \in SUBSET under(r) BY <1>1, <2>1
    <3> DEFINE all == under(r)  some == under(q)
    <3>2. IsFiniteSet(all) /\ some \in SUBSET all BY <3>1
    <3> HIDE DEF all, some
    <3>3. Cardinality(some) <= Cardinality(all) /\ (Cardinality(all) = Cardinality(some) => all = some)
      BY <3>2, FS_Subset
    <3> QED BY <3>3 DEF all, some
  <2>4. Cardinality(under(r)) <= Cardinality(under(q)) BY <1>5
  <2>5. Cardinality(under(r)) = Cardinality(under(q))
    <3> DEFINE all == Cardinality(under(r))  some == Cardinality(under(q))
    <3>1. all \in Nat /\ some \in Nat /\ some <= all /\ all <= some BY <1>1, <2>3, <2>4
    <3> HIDE DEF all, some
    <3>2. all = some BY <3>1
    <3> QED BY <3>2 DEF all, some
  <2> QED BY <2>2, <2>3, <2>5
<1>7. r \in Lowest(v, S) BY <1>6 DEF Lowest
<1> QED BY <1>7 DEF Lowest

(* Round robin goes to the next rank, and from the last one to the first. *)
LEMMA NextInTurn ==
  ASSUME RoutingAssumption, NEW S \in SUBSET Replica, S # {}, NEW last \in Replica \cup {-1}
  PROVE  /\ NextRoundRobin(last, S) \in S
         /\ last \in S =>
              Rank(NextRoundRobin(last, S), S) = IF Rank(last, S) + 1 < Cardinality(S) THEN Rank(last, S) + 1 ELSE 0
<1> DEFINE later == {r \in S : r > last}
           from == IF later = {} THEN S ELSE later
           n == NextRoundRobin(last, S)
<1>1. from \in SUBSET Replica /\ from # {} /\ from \subseteq S OBVIOUS
<1>2. \E r \in from : \A q \in from : r <= q BY <1>1, Ends
<1>3. n \in from /\ \A q \in from : n <= q BY <1>2 DEF NextRoundRobin
<1>4. S \subseteq Nat /\ IsFiniteSet(S) /\ Cardinality(S) \in Nat /\ \A r \in S : Rank(r, S) \in Nat BY ReplicasFinite, Ranks
<1> HIDE DEF n
<1>5. ASSUME last \in S, later = {}
      PROVE  Rank(n, S) = 0 /\ Rank(last, S) = Cardinality(S) - 1
  <2>0. \A q \in S : ~(q < n) /\ (q < last <=> q # last) BY <1>3, <1>4, <1>5
  <2>1. Below(n, S) = {} BY <2>0 DEF Below
  <2>2. Below(last, S) = S \ {last} BY <2>0 DEF Below
  <2> QED BY <1>4, <1>5, <2>1, <2>2, FS_EmptySet, FS_RemoveElement DEF Rank
<1>6. ASSUME last \in S, later # {}
      PROVE  Rank(n, S) = Rank(last, S) + 1 /\ Rank(n, S) < Cardinality(S)
  <2>1. n \in S /\ last < n /\ \A q \in S : q > last => n <= q BY <1>3, <1>6
  <2>0. \A q \in S : q < n <=> q < last \/ q = last BY <1>4, <1>6, <2>1
  <2>2. Below(n, S) = Below(last, S) \cup {last} BY <1>6, <2>0 DEF Below
  <2>3. last \notin Below(last, S) /\ IsFiniteSet(Below(last, S)) BY <1>4, <1>6, ReplicasFinite DEF Below
  <2>4. Rank(n, S) = Rank(last, S) + 1 BY <2>2, <2>3, FS_AddElement DEF Rank
  <2> QED BY <2>1, <2>4, Ranks
<1>7. n \in S BY <1>1, <1>3
<1> QED BY <1>4, <1>5, <1>6, <1>7 DEF n

(* Mod-N picks the replica whose rank is the hash modulo the size. *)
LEMMA ModNFound ==
  ASSUME RoutingAssumption, NEW S \in SUBSET Replica, S # {}, NEW h \in Hash
  PROVE  ModNLookup(h, S) \in S
<1>1. IsFiniteSet(S) /\ Cardinality(S) \in Nat /\ Cardinality(S) # 0 BY ReplicasFinite, FS_EmptySet
<1>2. h \in Nat BY DEF RoutingAssumption
<1>3. h % Cardinality(S) \in Nat /\ h % Cardinality(S) < Cardinality(S) BY <1>1, <1>2
<1>4. \E r \in S : Rank(r, S) = h % Cardinality(S) BY <1>3, RankTaken
<1> QED BY <1>4 DEF ModNLookup, Rank, Below

(* The points of a set of replicas have a first one, clockwise from the hash: *)
(* by the distance, then the owner, then the virtual node.                    *)
PointsOf(S) == {p \in Ring : p.owner \in S}
IsFirst(p, S, h) == p \in PointsOf(S) /\ \A q \in PointsOf(S) \ {p} : RingBefore(p, q, h)

LEMMA Points ==
  ASSUME RoutingAssumption, NEW h \in Hash
  PROVE  \A p \in Ring : /\ Distance(p, h) \in Nat /\ p.owner \in Nat /\ p.vnode \in Nat
                         /\ \A q \in Ring : /\ RingBefore(p, q, h) \/ RingBefore(q, p, h) \/ p = q
                                            /\ ~(RingBefore(p, q, h) /\ RingBefore(q, p, h))
<1>1. HashSpan \in Nat \ {0} /\ Replicas \in Nat \ {0} /\ h \in 0..(HashSpan - 1) BY DEF RoutingAssumption
<1>2. SUFFICES ASSUME NEW p \in Ring, NEW q \in Ring
               PROVE  /\ Distance(p, h) \in Nat /\ p.owner \in Nat /\ p.vnode \in Nat
                      /\ RingBefore(p, q, h) \/ RingBefore(q, p, h) \/ p = q
                      /\ ~(RingBefore(p, q, h) /\ RingBefore(q, p, h))
  OBVIOUS
<1>3. /\ p \in [owner : Replica, vnode : Nat, pos : 0..(HashSpan - 1)]
      /\ q \in [owner : Replica, vnode : Nat, pos : 0..(HashSpan - 1)]
  BY DEF RoutingAssumption
<1>4. /\ p.owner \in Nat /\ p.vnode \in Nat /\ p.pos \in 0..(HashSpan - 1)
      /\ q.owner \in Nat /\ q.vnode \in Nat /\ q.pos \in 0..(HashSpan - 1)
  BY <1>1, <1>3 DEF Replica
<1>5. Distance(p, h) \in Nat /\ Distance(q, h) \in Nat BY <1>1, <1>4 DEF Distance
<1>6. Distance(p, h) = Distance(q, h) => p.pos = q.pos BY <1>1, <1>4 DEF Distance
<1>7. p.owner = q.owner /\ p.vnode = q.vnode /\ p.pos = q.pos => p = q BY <1>3
<1> QED BY <1>4, <1>5, <1>6, <1>7 DEF RingBefore

LEMMA FirstFound ==
  ASSUME RoutingAssumption, NEW h \in Hash, NEW S \in SUBSET Replica, S # {}
  PROVE  /\ \E p \in PointsOf(S) : IsFirst(p, S, h) /\ RingLookup(h, S) = p.owner
         /\ RingLookup(h, S) \in S
<1> DEFINE D == {Distance(p, h) : p \in PointsOf(S)}
<1>1. PointsOf(S) # {} /\ PointsOf(S) \subseteq Ring BY DEF PointsOf, RoutingAssumption
<1>2. D \in SUBSET Nat /\ D # {} BY <1>1, Points
<1>3. PICK d \in D : \A e \in D : d <= e BY <1>2, Least
<1> DEFINE Near == {p \in PointsOf(S) : Distance(p, h) = d}
           O == {p.owner : p \in Near}
<1>4. Near # {} /\ Near \subseteq Ring BY <1>1
<1>5. O \in SUBSET Nat /\ O # {} BY <1>4, Points
<1>6. PICK o \in O : \A e \in O : o <= e BY <1>5, Least
<1> DEFINE Own == {p \in Near : p.owner = o}
           V == {p.vnode : p \in Own}
<1>7. Own # {} /\ Own \subseteq Ring BY <1>4
<1>8. V \in SUBSET Nat /\ V # {} BY <1>7, Points
<1>9. PICK v \in V : \A e \in V : v <= e BY <1>8, Least
<1>10. PICK p \in Own : p.vnode = v OBVIOUS
<1>11. p \in PointsOf(S) /\ Distance(p, h) = d /\ p.owner = o OBVIOUS
<1>12. ASSUME NEW q \in PointsOf(S) \ {p} PROVE RingBefore(p, q, h)
  <2>1. q \in Ring /\ p \in Ring BY <1>1, <1>11
  <2>2. ~RingBefore(q, p, h)
    <3>1. d <= Distance(q, h) BY <1>3
    <3>2. Distance(q, h) = d => o <= q.owner BY <1>6
    <3>3. Distance(q, h) = d /\ q.owner = o => v <= q.vnode BY <1>9
    <3>4. /\ Distance(q, h) \in Nat /\ q.owner \in Nat /\ q.vnode \in Nat
          /\ d \in Nat /\ o \in Nat /\ v \in Nat
      BY <1>2, <1>5, <1>8, <2>1, Points
    <3> HIDE DEF D, Near, O, Own, V
    <3> QED BY <1>10, <1>11, <3>1, <3>2, <3>3, <3>4 DEF RingBefore
  <2> QED BY <2>1, <2>2, Points
<1>13. IsFirst(p, S, h) BY <1>11, <1>12 DEF IsFirst
<1> DEFINE first == CHOOSE r \in PointsOf(S) : \A q \in PointsOf(S) \ {r} : RingBefore(r, q, h)
<1>14. first \in PointsOf(S) /\ \A q \in PointsOf(S) \ {first} : RingBefore(first, q, h) BY <1>13 DEF IsFirst
<1>15. RingLookup(h, S) = first.owner BY DEF RingLookup, PointsOf
<1>16. IsFirst(first, S, h) BY <1>14 DEF IsFirst
<1> QED BY <1>14, <1>15, <1>16 DEF PointsOf

-----------------------------------------------------------------------------
(* The router. *)

TypeInv ==
  /\ params \in Params /\ routable \in SUBSET Replica
  /\ outstanding \in [Replica -> Nat] /\ kvUsed \in [Replica -> Nat]
  /\ seenOutstanding \in [Replica -> Nat] /\ seenKv \in [Replica -> Nat]
  /\ rrLast \in Replica \cup {-1}

(* The sampled numbers are numbers, so the weighted scores can be compared. *)
LEMMA PenaltyNumbers ==
  ASSUME RoutingAssumption, TypeInv, NEW p \in Params, NEW target, NEW S \in SUBSET Replica, S # {}
  PROVE  \A r \in S : Penalty(p, target, S)[r] \in Int
<1>1. p.load \in Int /\ p.kv \in Int /\ p.affinity \in Int /\ KvFull \in Int BY DEF RoutingAssumption
<1>2. MaxSeen(S) \in Int
  <2>1. CASE \A r \in S : seenOutstanding[r] = 0 BY <2>1 DEF MaxSeen
  <2>2. CASE ~(\A r \in S : seenOutstanding[r] = 0)
    <3> DEFINE minus == [r \in Replica |-> -seenOutstanding[r]]
    <3>1. \A r \in S : minus[r] \in Int BY DEF TypeInv
    <3>2. \E r \in S : \A q \in S : minus[r] <= minus[q]
      <4>1. Lowest(minus, S) # {} BY <3>1, LowestFound
      <4> HIDE DEF minus
      <4> QED BY <4>1 DEF Lowest
    <3>3. \E r \in S : \A q \in S : seenOutstanding[q] <= seenOutstanding[r]
      <4>1. PICK r \in S : \A q \in S : minus[r] <= minus[q] BY <3>2
      <4>2. \A q \in S : seenOutstanding[q] \in Nat /\ minus[q] = -seenOutstanding[q] BY DEF TypeInv
      <4> HIDE DEF minus
      <4>3. \A q \in S : seenOutstanding[q] <= seenOutstanding[r]
        <5> SUFFICES ASSUME NEW q \in S PROVE seenOutstanding[q] <= seenOutstanding[r] OBVIOUS
        <5>1. -seenOutstanding[r] <= -seenOutstanding[q] BY <4>1, <4>2
        <5>2. seenOutstanding[q] \in Nat /\ seenOutstanding[r] \in Nat BY <4>2
        <5> QED BY <5>1, <5>2
      <4> QED BY <4>3
    <3>4. (CHOOSE r \in S : \A q \in S : seenOutstanding[q] <= seenOutstanding[r]) \in S BY <3>3
    <3> QED BY <2>2, <3>4 DEF MaxSeen, TypeInv
  <2> QED BY <2>1, <2>2
<1> SUFFICES ASSUME NEW r \in S PROVE Penalty(p, target, S)[r] \in Int OBVIOUS
<1>3. seenOutstanding[r] \in Int /\ seenKv[r] \in Int BY DEF TypeInv
<1> DEFINE a == p.load * seenOutstanding[r] * KvFull
           b == p.kv * seenKv[r] * MaxSeen(S)
           c == IF r = target THEN p.affinity * MaxSeen(S) * KvFull ELSE 0
<1>4. a \in Int /\ b \in Int /\ c \in Int BY <1>1, <1>2, <1>3
<1>5. Penalty(p, target, S)[r] = a + b - c BY DEF Penalty
<1> HIDE DEF a, b, c
<1> QED BY <1>4, <1>5

(* Every policy has a candidate, and only candidates in rotation. *)
LEMMA PoliciesPick ==
  ASSUME RoutingAssumption, TypeInv
  PROVE  ChoicesRoutable
<1> SUFFICES ASSUME routable # {}, NEW p \in Params, NEW h \in Hash
             PROVE  Candidates(p, h, routable) # {} /\ Candidates(p, h, routable) \subseteq routable
  BY DEF ChoicesRoutable
<1>1. routable \in SUBSET Replica BY DEF TypeInv
<1>2. AffinityTarget(p.scheme, h, routable) \in routable
  BY <1>1, ModNFound, FirstFound DEF AffinityTarget
<1>3. CASE p.policy = "roundRobin"
  <2>1. NextRoundRobin(rrLast, routable) \in routable BY <1>1, NextInTurn DEF TypeInv
  <2> QED BY <1>3, <2>1 DEF Candidates
<1>4. CASE p.policy = "leastOutstanding"
  <2>1. \A r \in routable : seenOutstanding[r] \in Int BY <1>1 DEF TypeInv
  <2> QED BY <1>1, <1>4, <2>1, LowestFound DEF Candidates
<1>5. CASE p.policy = "kvUtilization"
  <2>1. \A r \in routable : seenKv[r] \in Int BY <1>1 DEF TypeInv
  <2> QED BY <1>1, <1>5, <2>1, LowestFound DEF Candidates
<1>6. CASE p.policy = "sessionAffinity" BY <1>2, <1>6 DEF Candidates
<1>7. CASE p.policy = "weighted"
  <2>1. \A r \in routable : Penalty(p, AffinityTarget(p.scheme, h, routable), routable)[r] \in Int
    BY <1>1, PenaltyNumbers
  <2> QED BY <1>1, <1>7, <2>1, LowestFound DEF Candidates
<1> QED BY <1>3, <1>4, <1>5, <1>6, <1>7 DEF RoutingAssumption

LEMMA TypeInitial == ASSUME RoutingAssumption, RouterInit PROVE TypeInv
<1>1. KvFull \in Nat /\ Replicas \in Nat BY DEF RoutingAssumption
<1> QED BY <1>1 DEF RouterInit, TypeInv

LEMMA TypeStep ==
  ASSUME RoutingAssumption, TypeInv, [RouterNext]_routing
  PROVE  TypeInv'
<1> USE DEF TypeInv
<1>1. CASE Choose
  <2>1. routable # {} => NextRoundRobin(rrLast, routable) \in routable BY NextInTurn
  <2>2. rrLast' \in Replica \cup {-1} BY <1>1, <2>1 DEF Choose
  <2>3. seenOutstanding' \in [Replica -> Nat] /\ seenKv' \in [Replica -> Nat]
    BY <1>1 DEF Choose, RefreshSignals
  <2> QED BY <1>1, <2>2, <2>3 DEF Choose
<1>2. CASE Refresh BY <1>2 DEF Refresh, RefreshSignals
<1>3. CASE \E r \in Replica, ready \in BOOLEAN : OnReplicaState(r, ready) BY <1>3 DEF OnReplicaState
<1>4. CASE \E p \in Params : OnParams(p) BY <1>4 DEF OnParams
<1>5. CASE \E r \in Replica, load \in Loads : Load(r, load[1], load[2])
  <2>1. PICK r \in Replica, load \in Loads : Load(r, load[1], load[2]) BY <1>5
  <2>2. load[1] \in Nat /\ load[2] \in Nat BY DEF RoutingAssumption
  <2> QED BY <2>1, <2>2 DEF Load
<1>6. CASE UNCHANGED routing BY <1>6 DEF routing
<1> QED BY <1>1, <1>2, <1>3, <1>4, <1>5, <1>6 DEF RouterNext

(* The rank of n reached k choices after rank a, for at most a whole round. *)
Ahead(a, k, n) == IF a + k < n THEN a + k ELSE a + k - n

(* What round robin has chosen since the rotation changed: replicas in        *)
(* rotation, the last choice last, no more than one round and one, and any    *)
(* two choices as far apart in rank as in time.                               *)
Round(c, S, last) ==
  /\ c \in Seq(Replica) /\ Len(c) <= Cardinality(S) + 1
  /\ \A i \in 1..Len(c) : c[i] \in S
  /\ Len(c) > 0 => c[Len(c)] = last
  /\ \A i, j \in 1..Len(c) : i <= j => Rank(c[j], S) = Ahead(Rank(c[i], S), j - i, Cardinality(S))
CycleInv == Round(cycle, routable, rrLast)

RouterInv == TypeInv /\ CycleInv

(* A choice of round robin extends the round, or moves it on by one. *)
LEMMA ChooseKeeps ==
  ASSUME RoutingAssumption, TypeInv, CycleInv, Choose
  PROVE  CycleInv'
<1>1. routable' = routable BY DEF Choose
<1>2. CASE ~(params.policy = "roundRobin" /\ routable # {})
  <2>1. rrLast' = rrLast /\ cycle' = cycle BY <1>2 DEF Choose
  <2> QED BY <1>1, <2>1 DEF CycleInv
<1>3. CASE params.policy = "roundRobin" /\ routable # {}
  <2> DEFINE S == routable
             N == Cardinality(S)
             n == NextRoundRobin(rrLast, S)
             t == IF Len(cycle) > N THEN Tail(cycle) ELSE cycle
             L == Len(t)
  <2>1. rrLast' = n /\ cycle' = Append(t, n) BY <1>3 DEF Choose
  <2>2. /\ S \in SUBSET Replica /\ S # {} /\ n \in S /\ n \in Replica
        /\ N \in Nat /\ N # 0
        /\ rrLast \in S => Rank(n, S) = IF Rank(rrLast, S) + 1 < N THEN Rank(rrLast, S) + 1 ELSE 0
    BY <1>3, ReplicasFinite, FS_EmptySet, NextInTurn DEF TypeInv
  <2>3. \A r \in S : Rank(r, S) \in Nat /\ Rank(r, S) < N BY <2>2, Ranks
  <2>0. Round(cycle, S, rrLast) BY DEF CycleInv
  <2> HIDE DEF S, N, n
  <2>4. /\ t \in Seq(Replica) /\ L \in Nat /\ L <= N
        /\ \A i \in 1..L : t[i] \in S
        /\ L > 0 => t[L] = rrLast
        /\ \A i, j \in 1..L : i <= j => Rank(t[j], S) = Ahead(Rank(t[i], S), j - i, N)
    <3>1. CASE Len(cycle) > N
      <4>1. cycle \in Seq(Replica) /\ cycle # <<>> /\ Len(cycle) = N + 1 BY <2>0, <2>2, <3>1 DEF Round, N
      <4>2. t = Tail(cycle) BY <3>1
      <4> HIDE DEF t
      <4>3. t \in Seq(Replica) /\ L = N /\ \A i \in 1..N : t[i] = cycle[i + 1]
        BY <2>2, <4>1, <4>2
      <4>4. \A i \in 1..N : i + 1 \in 1..Len(cycle) BY <2>2, <4>1
      <4>5. \A i, j \in 1..N : i <= j => Rank(cycle[j + 1], S) = Ahead(Rank(cycle[i + 1], S), j - i, N)
        <5> SUFFICES ASSUME NEW i \in 1..N, NEW j \in 1..N, i <= j
                     PROVE Rank(cycle[j + 1], S) = Ahead(Rank(cycle[i + 1], S), j - i, N)
          OBVIOUS
        <5>1. i + 1 <= j + 1 /\ (j + 1) - (i + 1) = j - i BY <2>2
        <5>2. Rank(cycle[j + 1], S) = Ahead(Rank(cycle[i + 1], S), (j + 1) - (i + 1), N)
          BY <2>0, <4>4, <5>1 DEF Round, N
        <5> QED BY <5>1, <5>2
      <4>6. \A i \in 1..N : t[i] \in S BY <2>0, <4>3, <4>4 DEF Round
      <4>7. L > 0 => t[L] = rrLast BY <2>0, <2>2, <4>1, <4>3 DEF Round
      <4> QED BY <2>2, <4>3, <4>5, <4>6, <4>7
    <3>2. CASE ~(Len(cycle) > N)
      <4>1. t = cycle BY <3>2
      <4>2. cycle \in Seq(Replica) /\ Len(cycle) \in Nat /\ Len(cycle) <= N BY <2>0, <2>2, <3>2 DEF Round
      <4> HIDE DEF t
      <4> QED BY <2>0, <4>1, <4>2 DEF Round, N
    <3> QED BY <3>1, <3>2
  <2> HIDE DEF t
  <2>5. /\ Append(t, n) \in Seq(Replica) /\ Len(Append(t, n)) = L + 1
        /\ \A i \in 1..L : Append(t, n)[i] = t[i]
        /\ Append(t, n)[L + 1] = n
    BY <2>2, <2>4, AppendProperties
  <2> HIDE DEF L
  <2>6. \A i \in 1..(L + 1) : i \in 1..L \/ i = L + 1 BY <2>4
  <2>7. \A i \in 1..L : Rank(n, S) = Ahead(Rank(t[i], S), L + 1 - i, N)
    <3> SUFFICES ASSUME NEW i \in 1..L PROVE Rank(n, S) = Ahead(Rank(t[i], S), L + 1 - i, N) OBVIOUS
    <3> DEFINE a == Rank(t[i], S)  z == Rank(t[L], S)
    <3>1. L > 0 /\ L \in 1..L /\ i <= L BY <2>4
    <3>2. z = Ahead(a, L - i, N) /\ t[L] = rrLast /\ t[L] \in S BY <2>4, <3>1
    <3>3. a \in Nat /\ a < N /\ z \in Nat /\ z < N BY <2>3, <2>4, <3>1
    <3>4. Rank(n, S) = IF z + 1 < N THEN z + 1 ELSE 0 BY <2>2, <3>2
    <3> HIDE DEF a, z
    <3>5. z = IF a + (L - i) < N THEN a + (L - i) ELSE a + (L - i) - N BY <3>2 DEF Ahead
    <3>7. Rank(n, S) = Ahead(a, L + 1 - i, N) BY <2>2, <2>4, <3>1, <3>3, <3>4, <3>5 DEF Ahead
    <3> QED BY <3>7 DEF a
  <2>8. Ahead(Rank(n, S), 0, N) = Rank(n, S) BY <2>2, <2>3 DEF Ahead
  <2> DEFINE c == Append(t, n)
  <2> HIDE DEF c
  <2>9. \A i, j \in 1..(L + 1) : i <= j => Rank(c[j], S) = Ahead(Rank(c[i], S), j - i, N)
    <3> SUFFICES ASSUME NEW i \in 1..(L + 1), NEW j \in 1..(L + 1), i <= j
                 PROVE Rank(c[j], S) = Ahead(Rank(c[i], S), j - i, N)
      OBVIOUS
    <3>1. CASE j \in 1..L
      <4>1. i \in 1..L BY <2>4, <3>1
      <4>2. c[i] = t[i] /\ c[j] = t[j] BY <2>5, <3>1, <4>1 DEF c
      <4>3. Rank(t[j], S) = Ahead(Rank(t[i], S), j - i, N) BY <2>4, <3>1, <4>1
      <4> QED BY <4>2, <4>3
    <3>2. CASE j = L + 1 /\ i \in 1..L
      <4>1. c[i] = t[i] /\ c[j] = n BY <2>5, <3>2 DEF c
      <4>2. Rank(n, S) = Ahead(Rank(t[i], S), L + 1 - i, N) BY <2>7, <3>2
      <4>3. j - i = L + 1 - i BY <2>4, <3>2
      <4>4. Rank(c[j], S) = Rank(n, S) BY <4>1, Zenon
      <4>5. Rank(c[i], S) = Rank(t[i], S) BY <4>1, Zenon
      <4> QED BY <4>2, <4>3, <4>4, <4>5, Zenon
    <3>3. CASE j = L + 1 /\ i = L + 1
      <4>1. j - i = 0 /\ c[i] = n /\ c[j] = n BY <2>4, <2>5, <3>3 DEF c
      <4> QED BY <2>8, <4>1
    <3> QED BY <2>6, <3>1, <3>2, <3>3
  <2>10. c \in Seq(Replica) /\ Len(c) = L + 1 /\ c[L + 1] = n BY <2>5 DEF c
  <2>11. \A i \in 1..(L + 1) : c[i] \in S
    <3> SUFFICES ASSUME NEW i \in 1..(L + 1) PROVE c[i] \in S OBVIOUS
    <3>1. CASE i \in 1..L BY <2>4, <2>5, <3>1 DEF c
    <3>2. CASE i = L + 1 BY <2>2, <2>10, <3>2
    <3> QED BY <2>6, <3>1, <3>2
  <2>12. Round(c, S, n) BY <2>2, <2>4, <2>9, <2>10, <2>11 DEF Round, N
  <2> QED BY <1>1, <2>1, <2>12 DEF CycleInv, c, S
<1> QED BY <1>2, <1>3

LEMMA CycleStep ==
  ASSUME RoutingAssumption, TypeInv, CycleInv, [RouterNext]_routing
  PROVE  CycleInv'
<1>1. CASE Choose BY <1>1, ChooseKeeps
<1>2. ASSUME UNCHANGED <<routable, rrLast, cycle>> PROVE CycleInv'
  BY <1>2 DEF CycleInv
<1>3. CASE Refresh BY <1>2, <1>3 DEF Refresh
<1>4. CASE \E r \in Replica, ready \in BOOLEAN : OnReplicaState(r, ready)
  <2>1. rrLast' = rrLast /\ cycle' = IF routable' = routable THEN cycle ELSE <<>> BY <1>4 DEF OnReplicaState
  <2>2. CASE routable' = routable BY <1>2, <2>1, <2>2
  <2>3. CASE routable' # routable
    <3>1. cycle' = <<>> /\ routable' \in SUBSET Replica BY <2>1, <2>3, TypeStep, <1>4 DEF RouterNext, TypeInv
    <3>2. Cardinality(routable') \in Nat BY <3>1, ReplicasFinite
    <3>3. Round(<<>>, routable', rrLast') BY <3>2 DEF Round
    <3> QED BY <3>1, <3>3 DEF CycleInv
  <2> QED BY <2>2, <2>3
<1>5. CASE \E p \in Params : OnParams(p) BY <1>2, <1>5 DEF OnParams
<1>6. CASE \E r \in Replica, load \in Loads : Load(r, load[1], load[2]) BY <1>2, <1>6 DEF Load
<1>7. CASE UNCHANGED routing BY <1>2, <1>7 DEF routing
<1> QED BY <1>1, <1>3, <1>4, <1>5, <1>6, <1>7 DEF RouterNext

(* Two choices of one replica are a whole round apart, and the ranks between  *)
(* them are all the ranks.                                                    *)
LEMMA RoundIsFair ==
  ASSUME RoutingAssumption, TypeInv, CycleInv
  PROVE  RoundRobinFair
<1> DEFINE N == Cardinality(routable)
<1>1. routable \in SUBSET Replica /\ routable \subseteq Nat /\ N \in Nat BY ReplicasFinite DEF TypeInv
<1>2. cycle \in Seq(Replica) /\ DOMAIN cycle = 1..Len(cycle) /\ Len(cycle) \in Nat BY DEF CycleInv, Round
<1> SUFFICES ASSUME NEW i \in 1..Len(cycle), NEW j \in 1..Len(cycle), i < j, cycle[i] = cycle[j]
             PROVE  j - i >= N /\ {cycle[k] : k \in i..(j - 1)} = routable
  BY <1>2 DEF RoundRobinFair
<1> DEFINE a == Rank(cycle[i], routable)
<1>3. \A k \in 1..Len(cycle) : cycle[k] \in routable /\ Rank(cycle[k], routable) \in Nat /\ Rank(cycle[k], routable) < N
  BY <1>1, Ranks DEF CycleInv, Round
<1>4. \A k \in i..Len(cycle) : Rank(cycle[k], routable) = Ahead(a, k - i, N)
  BY <1>2 DEF CycleInv, Round
<1>5. a = Ahead(a, j - i, N) BY <1>2, <1>4
<1>6. a \in Nat /\ a < N /\ Len(cycle) <= N + 1 BY <1>3 DEF CycleInv, Round
<1> HIDE DEF a, N
<1>7. j - i = N
  <2>1. a = IF a + (j - i) < N THEN a + (j - i) ELSE a + (j - i) - N BY <1>5 DEF Ahead
  <2> QED BY <1>1, <1>2, <1>6, <2>1
<1>8. {cycle[k] : k \in i..(j - 1)} \subseteq routable BY <1>2, <1>3
<1>9. ASSUME NEW r \in routable PROVE r \in {cycle[k] : k \in i..(j - 1)}
  <2> DEFINE b == Rank(r, routable)
             k == IF b >= a THEN i + (b - a) ELSE i + (b - a) + N
  <2>1. b \in Nat /\ b < N BY <1>1, <1>9, Ranks DEF N
  <2> HIDE DEF b
  <2>2. k \in i..(j - 1) /\ k \in i..Len(cycle) BY <1>1, <1>2, <1>6, <1>7, <2>1
  <2>3. Ahead(a, k - i, N) = b
    <3>1. Ahead(a, k - i, N) = IF a + (k - i) < N THEN a + (k - i) ELSE a + (k - i) - N BY DEF Ahead
    <3> QED BY <1>1, <1>2, <1>6, <2>1, <3>1
  <2> HIDE DEF k
  <2>4. Rank(cycle[k], routable) = Rank(r, routable)
    <3>1. Rank(cycle[k], routable) = Ahead(a, k - i, N) BY <1>4, <2>2
    <3> QED BY <2>3, <3>1 DEF b
  <2>5. cycle[k] \in routable /\ r \in routable /\ cycle[k] \in Nat /\ r \in Nat
    <3>1. k \in 1..Len(cycle) BY <1>2, <2>2
    <3>2. cycle[k] \in routable BY <1>3, <3>1
    <3> QED BY <1>1, <3>2
  <2>6. ~(cycle[k] < r) /\ ~(r < cycle[k])
    <3>1. \A x, y \in routable : x < y => Rank(x, routable) < Rank(y, routable) BY <1>1, Ranks
    <3>2. Rank(r, routable) \in Nat BY <1>1, <1>9, Ranks
    <3> QED BY <2>4, <2>5, <3>1, <3>2
  <2>7. cycle[k] = r
    <3> DEFINE y == cycle[k]
    <3>1. y \in Nat /\ r \in Nat /\ ~(y < r) /\ ~(r < y) BY <2>5, <2>6
    <3> HIDE DEF y
    <3>2. y = r BY <3>1
    <3> QED BY <3>2 DEF y
  <2> QED BY <2>2, <2>7
<1>10. routable \subseteq {cycle[k] : k \in i..(j - 1)} BY <1>9
<1>11. {cycle[k] : k \in i..(j - 1)} = routable BY <1>8, <1>10, Zenon
<1>12. j - i >= N BY <1>1, <1>7
<1> QED BY <1>11, <1>12 DEF N

(* Whatever happens to the signals, the rotation and the parameters, every    *)
(* policy has a replica to pick and picks only replicas in rotation           *)
(* (policies.ts chooseReplica), and between two choices of one replica round  *)
(* robin has chosen every other one (nextRoundRobin).                         *)
THEOREM RoutingIsSound ==
  ASSUME RoutingAssumption PROVE RouterSpec => []RoutingSound
<1>1. RouterInit => RouterInv
  <2> SUFFICES ASSUME RouterInit PROVE RouterInv OBVIOUS
  <2>1. TypeInv BY TypeInitial
  <2>2. Cardinality(routable) \in Nat /\ cycle = <<>> BY <2>1, ReplicasFinite DEF TypeInv, RouterInit
  <2>3. CycleInv BY <2>2 DEF CycleInv, Round
  <2> QED BY <2>1, <2>3 DEF RouterInv
<1>2. RouterInv /\ [RouterNext]_routing => RouterInv' BY TypeStep, CycleStep DEF RouterInv
<1>3. RouterInv => RoutingSound BY PoliciesPick, RoundIsFair DEF RouterInv, RoutingSound
<1> QED BY <1>1, <1>2, <1>3, PTL DEF RouterSpec

(* When the rotation changes, a session whose ring owner changes had one that *)
(* left, or has one that joined (hash.ts ringLookup).                         *)
THEOREM AffinityMovesOnlyItsOwn ==
  ASSUME RoutingAssumption PROVE RouterSpec => AffinityMoves
<1>1. RouterInit => TypeInv BY TypeInitial
<1>2. TypeInv /\ [RouterNext]_routing => TypeInv' BY TypeStep
<1>3. TypeInv /\ TypeInv' /\ [RouterNext]_routing => [MovesOwnOnly]_routable
  <2> SUFFICES ASSUME TypeInv, TypeInv', NEW h \in Hash, routable # {}, routable' # {},
                      RingLookup(h, routable) \in routable', RingLookup(h, routable') \in routable
               PROVE  RingLookup(h, routable) = RingLookup(h, routable')
    BY DEF MovesOwnOnly
  <2>1. routable \in SUBSET Replica /\ routable' \in SUBSET Replica BY DEF TypeInv
  <2>2. PICK p \in PointsOf(routable) : IsFirst(p, routable, h) /\ RingLookup(h, routable) = p.owner
    BY <2>1, FirstFound
  <2>3. PICK q \in PointsOf(routable') : IsFirst(q, routable', h) /\ RingLookup(h, routable') = q.owner
    BY <2>1, FirstFound
  <2>4. p \in PointsOf(routable') /\ q \in PointsOf(routable) /\ p \in Ring /\ q \in Ring
    BY <2>2, <2>3 DEF PointsOf
  <2>5. p # q => RingBefore(p, q, h) /\ RingBefore(q, p, h) BY <2>2, <2>3, <2>4 DEF IsFirst
  <2>6. p = q BY <2>4, <2>5, Points
  <2> QED BY <2>2, <2>3, <2>6
<1> QED BY <1>1, <1>2, <1>3, PTL DEF RouterSpec, AffinityMoves
=============================================================================
