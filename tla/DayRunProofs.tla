---------------------------- MODULE DayRunProofs ----------------------------
(***************************************************************************)
(* That a day run (DayRun) keeps what DayOrder promises, however it is     *)
(* advanced, checkpointed and restored, and that its checkpoints are       *)
(* exact, for days, buckets and lists of patches of any length.  Both hold *)
(* as long as no bucket hook schedules, and none of the program's does;    *)
(* with one that does, they fail.                                          *)
(***************************************************************************)
EXTENDS DayRun, FiniteSetTheorems, SequenceTheorems, WellFoundedInduction, TLAPS

-----------------------------------------------------------------------------
(* Every nonempty set of natural numbers has a least one. *)
LEMMA Least ==
  ASSUME NEW T \in SUBSET Nat, T # {}
  PROVE  \E x \in T : \A y \in T : x <= y
<1>1. \E x \in T : \A y \in T : ~(<<y, x>> \in OpToRel(<, Nat))
  BY NatLessThanWellFounded, WFMin, Zenon
<1>2. \A x, y \in Nat : x < y => <<x, y>> \in OpToRel(<, Nat)
  BY DEF OpToRel
<1>3. PICK x \in T : \A y \in T : ~(<<y, x>> \in OpToRel(<, Nat)) BY <1>1
<1>4. \A y \in T : ~(y < x) BY <1>2, <1>3
<1> QED BY <1>4

(* Induction over an interval, for a set that is to hold all of it. *)
LEMMA IntervalInduction ==
  ASSUME NEW m \in Int, NEW n \in Int, NEW S, m \in S, \A i \in (m + 1)..n : i - 1 \in S => i \in S
  PROVE  \A i \in m..n : i \in S
<1> DEFINE T == {k \in Nat : m + k <= n /\ m + k \notin S}
<1> SUFFICES ASSUME NEW i \in m..n, i \notin S PROVE FALSE OBVIOUS
<1>1. i - m \in T OBVIOUS
<1>2. PICK x \in T : \A y \in T : x <= y BY <1>1, Least
<1>3. x # 0 BY <1>2
<1>4. x - 1 \in Nat /\ x - 1 \notin T BY <1>2, <1>3
<1>5. m + (x - 1) \in S BY <1>2, <1>4
<1> QED BY <1>2, <1>3, <1>5

(* A function over an interval may be defined by recursion: f[m] = c, and    *)
(* f[i] is what `step` makes of i and f[i - 1].                              *)
Built(m, n, V, c, step) ==
  \E f \in [m..n -> V] : f[m] = c /\ \A i \in m..n : i # m => f[i] = step[<<i, f[i - 1]>>]

(* A function built so exists. *)
LEMMA Recursion ==
  ASSUME NEW m \in Int, NEW n \in Int, m <= n, NEW V, NEW c \in V,
         NEW step \in [(m..n) \X V -> V]
  PROVE  Built(m, n, V, c, step)
<1> DEFINE Upto(k, f) == f[m] = c /\ \A i \in m..k : i # m => f[i] = step[<<i, f[i - 1]>>]
           To(k) == \E f \in [m..k -> V] : Upto(k, f)
           S == {k \in m..n : To(k)}
<1>1. To(m)
  <2> DEFINE f == [i \in m..m |-> c]
  <2>0. \A i \in m..m : i = m OBVIOUS
  <2>1. f \in [m..m -> V] OBVIOUS
  <2>2. m \in m..m /\ f[m] = c OBVIOUS
  <2>3. Upto(m, f) BY <2>0, <2>2
  <2> HIDE DEF f
  <2> WITNESS f \in [m..m -> V]
  <2> QED BY <2>3
<1>2. ASSUME NEW k \in m..n, k # m, To(k - 1) PROVE To(k)
  <2>1. PICK f \in [m..(k - 1) -> V] : Upto(k - 1, f) BY <1>2
  <2> DEFINE g == [i \in m..k |-> IF i = k THEN step[<<k, f[k - 1]>>] ELSE f[i]]
  <2>2. k - 1 \in m..(k - 1) /\ f[k - 1] \in V BY <1>2, <2>1
  <2>3. step[<<k, f[k - 1]>>] \in V BY <1>2, <2>2
  <2>4. \A i \in m..k : i # k => i \in m..(k - 1) OBVIOUS
  <2>5. g \in [m..k -> V] BY <2>1, <2>3, <2>4
  <2>6. m \in m..k /\ m # k /\ m \in m..(k - 1) BY <1>2
  <2>7. g[m] = c BY <2>1, <2>6
  <2>8. ASSUME NEW i \in m..k, i # m PROVE g[i] = step[<<i, g[i - 1]>>]
    <3>1. CASE i = k
      <4>1. g[k] = step[<<k, f[k - 1]>>] /\ g[k - 1] = f[k - 1] BY <1>2, <2>4
      <4> HIDE DEF g
      <4> QED BY <3>1, <4>1
    <3>2. CASE i # k
      <4>1. i \in m..(k - 1) /\ i - 1 \in m..k /\ i - 1 # k BY <2>8, <3>2
      <4>2. g[i] = f[i] /\ g[i - 1] = f[i - 1] BY <3>2, <4>1
      <4>3. f[i] = step[<<i, f[i - 1]>>] BY <2>1, <2>8, <4>1
      <4> HIDE DEF g
      <4> QED BY <4>2, <4>3
    <3> QED BY <3>1, <3>2
  <2> HIDE DEF g
  <2> WITNESS g \in [m..k -> V]
  <2> QED BY <2>7, <2>8
<1> HIDE DEF To
<1>3. m \in S BY <1>1
<1>4. \A i \in (m + 1)..n : i - 1 \in S => i \in S
  <2> SUFFICES ASSUME NEW i \in (m + 1)..n, i - 1 \in S PROVE i \in S OBVIOUS
  <2>1. i \in m..n /\ i # m /\ To(i - 1) OBVIOUS
  <2> QED BY <1>2, <2>1
<1> HIDE DEF S
<1>5. n \in S BY <1>3, <1>4, IntervalInduction
<1>6. To(n) BY <1>5 DEF S
<1> QED BY <1>6 DEF To, Built

(***************************************************************************)
(* The patches of a day.                                                   *)
(***************************************************************************)

InOrderOfTime(s) == \A i, j \in DOMAIN s : i < j => s[i].at <= s[j].at
Lists(S) == {s \in Seq(S) : InOrderOfTime(s)}

(* The patches up to a time are the first ones of a list in order of time. *)
LEMMA Prefix ==
  ASSUME NEW S \in SUBSET Patch, NEW s \in Lists(S), NEW t \in Int
  PROVE  \E n \in 0..Len(s) : {i \in DOMAIN s : s[i].at <= t} = 1..n
<1> DEFINE T == {k \in Nat : k + 1 <= Len(s) => s[k + 1].at > t}
<1>1. /\ s \in Seq(S) /\ Len(s) \in Nat /\ DOMAIN s = 1..Len(s) /\ \A i \in DOMAIN s : s[i].at \in Int
      /\ \A i, j \in DOMAIN s : i < j => s[i].at <= s[j].at
  BY DayAssumption DEF Lists, InOrderOfTime
<1>2. Len(s) \in T BY <1>1
<1>3. PICK n \in T : \A k \in T : n <= k
  <2> HIDE DEF T
  <2>1. T \in SUBSET Nat BY DEF T
  <2> QED BY <1>2, <2>1, Least
<1>4. n \in 0..Len(s) BY <1>1, <1>2, <1>3
<1>5. ASSUME NEW i \in 1..n PROVE i \in DOMAIN s /\ s[i].at <= t
  <2>1. i - 1 \in Nat /\ i - 1 < n BY <1>1, <1>4
  <2>2. i - 1 \notin T
    <3> HIDE DEF T
    <3> QED BY <1>1, <1>3, <1>4, <2>1
  <2>3. i <= Len(s) /\ ~(s[i].at > t) BY <1>1, <2>1, <2>2
  <2> QED BY <1>1, <2>3
<1>6. ASSUME NEW i \in DOMAIN s, s[i].at <= t PROVE i \in 1..n
  <2> SUFFICES ASSUME i > n PROVE FALSE BY <1>1, <1>4
  <2>1. n + 1 \in DOMAIN s /\ s[n + 1].at > t BY <1>1, <1>3, <1>4
  <2>2. n + 1 = i \/ n + 1 < i BY <1>1, <1>4
  <2>3. s[n + 1].at <= s[i].at BY <1>1, <2>1, <2>2
  <2> QED BY <1>1, <1>6, <2>1, <2>3
<1> QED BY <1>4, <1>5, <1>6

(* Where a patch is inserted, the list stays in order. *)
LEMMA InsertedInOrder ==
  ASSUME NEW S \in SUBSET Patch, NEW s \in Lists(S), NEW p \in S
  PROVE  Inserted(s, p) \in Lists(S)
<1>1. /\ s \in Seq(S) /\ Len(s) \in Nat /\ DOMAIN s = 1..Len(s) /\ \A i \in DOMAIN s : s[i].at \in Int
      /\ \A i, j \in DOMAIN s : i < j => s[i].at <= s[j].at
  BY DayAssumption DEF Lists, InOrderOfTime
<1>2. p.at \in Int BY DayAssumption
<1>3. PICK n \in 0..Len(s) : {i \in DOMAIN s : s[i].at <= p.at} = 1..n BY <1>2, Prefix
<1>4. Cardinality({i \in DOMAIN s : s[i].at <= p.at}) = n
  <2>1. Cardinality(1..n) = n BY <1>1, FS_Interval
  <2> QED BY <1>3, <2>1
<1> DEFINE r == Inserted(s, p)
           a == SubSeq(s, 1, n)
           b == SubSeq(s, n + 1, Len(s))
<1>5. r = a \o <<p>> \o b
  <2>1. r = InsertAt(s, n + 1, p) BY <1>4, Zenon DEF Inserted
  <2>2. InsertAt(s, n + 1, p) = SubSeq(s, 1, (n + 1) - 1) \o <<p>> \o SubSeq(s, n + 1, Len(s))
    BY DEF InsertAt
  <2>3. (n + 1) - 1 = n BY <1>1
  <2> QED BY <2>1, <2>2, <2>3
<1>6. a \in Seq(S) /\ Len(a) = n /\ \A i \in 1..n : a[i] = s[i]
  <2>1. \A i \in 1..n : s[i] \in S BY <1>1
  <2>2. n \in Int /\ 1 \in Int BY <1>1
  <2>3. /\ a \in Seq(S) /\ Len(a) = IF 1 <= n THEN n - 1 + 1 ELSE 0
        /\ \A i \in 1..(n - 1 + 1) : a[i] = s[1 + i - 1]
    BY <2>1, <2>2, SubSeqProperties
  <2> HIDE DEF a
  <2> QED BY <1>1, <2>3
<1>7. b \in Seq(S) /\ Len(b) = Len(s) - n /\ \A i \in 1..(Len(s) - n) : b[i] = s[n + i]
  <2>1. \A i \in (n + 1)..Len(s) : s[i] \in S BY <1>1
  <2>2. n + 1 \in Int /\ Len(s) \in Int BY <1>1
  <2>3. /\ b \in Seq(S) /\ Len(b) = IF n + 1 <= Len(s) THEN Len(s) - (n + 1) + 1 ELSE 0
        /\ \A i \in 1..(Len(s) - (n + 1) + 1) : b[i] = s[(n + 1) + i - 1]
    BY <2>1, <2>2, SubSeqProperties
  <2> HIDE DEF b
  <2>4. Len(b) = Len(s) - n
    <3>1. Len(s) \in Nat /\ n \in Nat /\ n <= Len(s) BY <1>1
    <3>2. Len(b) = IF n + 1 <= Len(s) THEN Len(s) - (n + 1) + 1 ELSE 0 BY <2>3
    <3> QED BY <3>1, <3>2
  <2>5. ASSUME NEW i \in 1..(Len(s) - n) PROVE b[i] = s[n + i]
    <3>1. i \in 1..(Len(s) - (n + 1) + 1) /\ (n + 1) + i - 1 = n + i BY <1>1
    <3>2. b[i] = s[(n + 1) + i - 1] BY <2>3, <3>1
    <3> QED BY <3>1, <3>2
  <2> QED BY <2>3, <2>4, <2>5
<1> HIDE DEF a, b, r
<1> DEFINE c == a \o <<p>>
<1>8. c \in Seq(S) /\ Len(c) = n + 1 /\ c[n + 1] = p /\ \A i \in 1..n : c[i] = s[i]
  <2>1. <<p>> \in Seq(S) /\ Len(<<p>>) = 1 /\ <<p>>[1] = p OBVIOUS
  <2>2. /\ c \in Seq(S) /\ Len(c) = n + 1
        /\ \A i \in 1..(n + 1) : c[i] = IF i <= n THEN a[i] ELSE <<p>>[i - n]
    BY <1>6, <2>1, ConcatProperties
  <2> HIDE DEF c
  <2>3. n + 1 \in 1..(n + 1) /\ ~(n + 1 <= n) /\ n + 1 - n = 1 BY <1>1
  <2>4. \A i \in 1..n : i \in 1..(n + 1) /\ i <= n BY <1>1
  <2> QED BY <1>6, <2>1, <2>2, <2>3, <2>4
<1> HIDE DEF c
<1>9. /\ r \in Seq(S) /\ Len(r) = Len(s) + 1
      /\ \A i \in 1..n : r[i] = s[i]
      /\ r[n + 1] = p
      /\ \A i \in (n + 2)..(Len(s) + 1) : r[i] = s[i - 1]
  <2>1. r = c \o b BY <1>5 DEF c
  <2>0. /\ r \in Seq(S) /\ Len(r) = Len(c) + Len(b)
        /\ \A i \in 1..(Len(c) + Len(b)) : r[i] = IF i <= Len(c) THEN c[i] ELSE b[i - Len(c)]
    BY <1>7, <1>8, <2>1, ConcatProperties
  <2>2. /\ r \in Seq(S) /\ Len(r) = n + 1 + (Len(s) - n)
        /\ \A i \in 1..(n + 1 + (Len(s) - n)) : r[i] = IF i <= n + 1 THEN c[i] ELSE b[i - (n + 1)]
    BY <1>7, <1>8, <2>0
  <2>3. Len(r) = Len(s) + 1 BY <1>1, <2>2
  <2>4. \A i \in 1..(n + 1) : r[i] = c[i] BY <1>1, <2>2
  <2>5. ASSUME NEW i \in (n + 2)..(Len(s) + 1) PROVE r[i] = s[i - 1]
    <3>1. i - (n + 1) \in 1..(Len(s) - n) /\ n + (i - (n + 1)) = i - 1 BY <1>1
    <3>2. i \in 1..(n + 1 + (Len(s) - n)) /\ ~(i <= n + 1) BY <1>1
    <3>3. r[i] = b[i - (n + 1)] BY <2>2, <3>2
    <3> QED BY <1>7, <3>1, <3>3
  <2>6. n + 1 \in 1..(n + 1) /\ \A i \in 1..n : i \in 1..(n + 1) BY <1>1
  <2> QED BY <1>8, <2>2, <2>3, <2>4, <2>5, <2>6
<1>10. ASSUME NEW i \in DOMAIN r, NEW j \in DOMAIN r, i < j PROVE r[i].at <= r[j].at
  <2>1. i \in 1..(Len(s) + 1) /\ j \in 1..(Len(s) + 1) BY <1>9
  <2>2. \A k \in 1..n : k \in DOMAIN s /\ s[k].at <= p.at BY <1>3
  <2>3. \A k \in (n + 1)..Len(s) : k \in DOMAIN s /\ ~(s[k].at <= p.at) BY <1>1, <1>3
  <2>4. CASE i <= n /\ j <= n BY <1>1, <1>9, <1>10, <2>1, <2>4
  <2>5. CASE i <= n /\ j = n + 1 BY <1>1, <1>9, <2>1, <2>2, <2>5
  <2>6. CASE i <= n /\ j > n + 1
    <3>1. i \in DOMAIN s /\ j - 1 \in DOMAIN s /\ i < j - 1 BY <1>1, <2>1, <2>6
    <3> QED BY <1>1, <1>9, <2>1, <2>6, <3>1
  <2>7. CASE i = n + 1
    <3>1. j - 1 \in (n + 1)..Len(s) /\ r[j] = s[j - 1] BY <1>1, <1>9, <1>10, <2>1, <2>7
    <3>2. s[j - 1].at \in Int /\ ~(s[j - 1].at <= p.at) BY <1>1, <2>3, <3>1
    <3> QED BY <1>2, <1>9, <2>7, <3>1, <3>2
  <2>8. CASE i > n + 1
    <3>1. i - 1 \in DOMAIN s /\ j - 1 \in DOMAIN s /\ i - 1 < j - 1 BY <1>1, <1>10, <2>1, <2>8
    <3>2. r[i] = s[i - 1] /\ r[j] = s[j - 1] BY <1>1, <1>9, <1>10, <2>1, <2>8
    <3> QED BY <1>1, <3>1, <3>2
  <2> QED BY <1>1, <2>1, <2>4, <2>5, <2>6, <2>7, <2>8
<1> QED BY <1>9, <1>10 DEF Lists, InOrderOfTime, r

(* Sorting gives the patches asked for, in the order of time. *)
LEMMA SortedInOrder ==
  ASSUME NEW S \in SUBSET Patch, NEW list \in Seq(Patch)
  PROVE  Sorted(list, S) \in Lists(S)
<1> DEFINE V == Lists(S)
           N == Len(list)
           Grows(f, n) == IF n = 0 THEN <<>>
                          ELSE IF list[n] \in S THEN Inserted(f[n - 1], list[n]) ELSE f[n - 1]
           Fits(f) == f = [n \in 0..N |-> Grows(f, n)]
           Step(n, s) == IF n # 0 /\ list[n] \in S THEN Inserted(s, list[n]) ELSE s
           step == [x \in (0..N) \X V |-> Step(x[1], x[2])]
<1>1. N \in Nat /\ 0 \in Int /\ 0 <= N OBVIOUS
<1>2. <<>> \in V BY DEF Lists, InOrderOfTime
<1>3. \A n \in 0..N, s \in V : Step(n, s) \in V BY InsertedInOrder
<1>4. step \in [(0..N) \X V -> V]
  <2> HIDE DEF Step, V, N
  <2> QED BY <1>3
<1>5. \A n \in 0..N, s \in V : step[<<n, s>>] = Step(n, s)
  <2> HIDE DEF Step, V, N
  <2> QED OBVIOUS
<1> HIDE DEF step, Step, V, N
<1>6. Built(0, N, V, <<>>, step)
  <2>1. N \in Int BY <1>1
  <2> QED BY <1>1, <1>2, <1>4, <2>1, Recursion
<1>7. PICK f \in [0..N -> V] : f[0] = <<>> /\ \A i \in 0..N : i # 0 => f[i] = step[<<i, f[i - 1]>>]
  BY <1>6 DEF Built
<1>8. ASSUME NEW n \in 0..N PROVE f[n] = Grows(f, n)
  <2>1. CASE n = 0 BY <1>7, <2>1
  <2>2. CASE n # 0
    <3>1. n - 1 \in 0..N BY <1>1, <2>2
    <3>2. f[n] = Step(n, f[n - 1]) BY <1>5, <1>7, <2>2, <3>1
    <3> QED BY <2>2, <3>2 DEF Step
  <2> QED BY <2>1, <2>2
<1>9. Fits(f) BY <1>8
<1> DEFINE g == CHOOSE x : Fits(x)
<1>10. Fits(g) BY <1>9
<1>11. Sorted(list, S) = g[N] BY Zenon DEF Sorted, N
<1> HIDE DEF g
<1>12. g[0] \in V
  <2>1. 0 \in 0..N BY <1>1
  <2> QED BY <1>2, <1>10, <2>1
<1> DEFINE P == {n \in 0..N : g[n] \in V}
<1>13. \A i \in (0 + 1)..N : i - 1 \in P => i \in P
  <2> SUFFICES ASSUME NEW i \in (0 + 1)..N, g[i - 1] \in V PROVE g[i] \in V BY <1>1
  <2>1. i \in 0..N /\ i # 0 BY <1>1
  <2>2. g[i] = IF list[i] \in S THEN Inserted(g[i - 1], list[i]) ELSE g[i - 1] BY <1>10, <2>1
  <2>3. list[i] \in S => Inserted(g[i - 1], list[i]) \in V BY InsertedInOrder DEF V
  <2> QED BY <2>2, <2>3
<1>14. 0 \in P BY <1>1, <1>12
<1> HIDE DEF P
<1>15. N \in P
  <2>1. N \in Int BY <1>1
  <2>2. \A i \in 0..N : i \in P BY <1>1, <1>13, <1>14, <2>1, IntervalInduction
  <2> QED BY <1>1, <2>2
<1> QED BY <1>11, <1>15 DEF P, V

Today == {p \in Patch : p.at \in 0..(DayEnd - 1)}
DayLists == Lists(Today)

(* What a day starts with: its patches in order of time, and a period. *)
LEMMA PartitionFacts ==
  ASSUME NEW x \in Partitions
  PROVE  x.inDay \in DayLists /\ x.preDay \in Seq(Patch) /\ (x.preDay # <<>> => Last(x.preDay).set \in Nat)
<1>1. PICK list \in PatchList : x = [preDay |-> PreDay(list), inDay |-> InDay(list)] BY DEF Partitions
<1>2. list \in Seq(Patch)
  <2>1. PICK m \in 0..MaxPatches : list \in [1..m -> Patch] BY DEF PatchList, SeqOf
  <2>2. m \in Nat BY DayAssumption
  <2> QED BY <2>1, <2>2, IsASeq
<1>3. InDay(list) \in DayLists BY <1>2, SortedInOrder DEF InDay, DayLists, Today
<1> DEFINE S == {p \in Patch : p.at < 0 /\ p.set # None}
<1>4. PreDay(list) \in Seq(S)
  <2>1. S \in SUBSET Patch OBVIOUS
  <2>2. PreDay(list) \in Lists(S) BY <1>2, <2>1, SortedInOrder DEF PreDay
  <2> QED BY <2>2 DEF Lists
<1>5. PreDay(list) # <<>> => PreDay(list)[Len(PreDay(list))] \in S
  <2> HIDE DEF S
  <2> QED BY <1>4
<1>6. \A p \in S : p \in Patch /\ p.set \in Nat BY DayAssumption
<1>7. PreDay(list) \in Seq(Patch)
  <2> HIDE DEF S
  <2> QED BY <1>4, <1>6
<1> QED BY <1>1, <1>3, <1>5, <1>6, <1>7 DEF Last

(***************************************************************************)
(* The state of a day.                                                     *)
(***************************************************************************)

Kinds == {"refresh", "extra", "dispatch", "kick"}
Event == [at : Nat, ord : Nat \X Nat, kind : Kinds]
Entry == [what : Kinds \cup {"patch", "bucket"}, at : Int, value : Nat \cup {None}]
DayState ==
  [pending : SUBSET Event, nextSeq : Nat, period : Nat, preDay : Seq(Patch), inDay : DayLists,
   next : Nat, closedTo : Nat, log : Seq(Entry)]

\* The pending events are in the rest of the day, and differ in their numbers.
Pending(d, t) ==
  /\ \A e \in d.pending : t <= e.at /\ e.at < DayEnd /\ e.ord[2] < d.nextSeq
  /\ \A e, f \in d.pending : e.ord[2] = f.ord[2] => e = f

\* Scheduling leaves the rest alone.
SameRest(x, d) ==
  /\ x.inDay = d.inDay /\ x.next = d.next /\ x.closedTo = d.closedTo /\ x.preDay = d.preDay
  /\ x.log = d.log

(* An event scheduled for now or later is as good as those there are. *)
LEMMA Scheduled ==
  ASSUME NEW d \in DayState, NEW t \in Nat, Pending(d, t), NEW at \in Nat, t <= at, NEW kind \in Kinds
  PROVE  LET x == Schedule(d, at, kind) IN x \in DayState /\ Pending(x, t) /\ SameRest(x, d)
<1>1. DayEnd \in Nat BY DayAssumption
<1>2. CASE at >= DayEnd BY <1>2 DEF Schedule, SameRest
<1>3. CASE ~(at >= DayEnd)
  <2> DEFINE e == [at |-> at, ord |-> <<Order(kind), d.nextSeq>>, kind |-> kind]
             x == [d EXCEPT !.pending = @ \cup {e}, !.nextSeq = @ + 1]
  <2>1. Schedule(d, at, kind) = x BY <1>3 DEF Schedule
  <2>2. d.nextSeq \in Nat /\ d.pending \subseteq Event BY DEF DayState
  <2>3. e \in Event /\ e.at = at /\ e.ord[2] = d.nextSeq BY <2>2 DEF Event, Kinds, Order
  <2>4. \A f \in Event : f.ord[2] \in Nat /\ f.at \in Nat BY DEF Event
  <2> HIDE DEF e
  <2>5. x.pending = d.pending \cup {e} /\ x.nextSeq = d.nextSeq + 1 BY DEF DayState
  <2>6. x \in DayState /\ SameRest(x, d)
    <3>1. d.pending \cup {e} \in SUBSET Event /\ d.nextSeq + 1 \in Nat BY <2>2, <2>3
    <3>2. x \in DayState BY <3>1 DEF DayState
    <3>3. SameRest(x, d) BY DEF DayState, SameRest
    <3> QED BY <3>2, <3>3
  <2> HIDE DEF x
  <2>7. \A f \in x.pending : t <= f.at /\ f.at < DayEnd /\ f.ord[2] < x.nextSeq
    BY <1>1, <1>3, <2>2, <2>3, <2>4, <2>5 DEF Pending
  <2>8. \A f, g \in x.pending : f.ord[2] = g.ord[2] => f = g
    BY <2>2, <2>3, <2>4, <2>5 DEF Pending
  <2> QED BY <2>1, <2>6, <2>7, <2>8 DEF Pending
<1> QED BY <1>2, <1>3

\* One more entry of the log.
LogGrows(x, d, what, at) ==
  \E value \in Nat \cup {None} : x.log = Append(d.log, [what |-> what, at |-> at, value |-> value])

(* An event that runs may schedule others, now or later. *)
LEMMA EventKeeps ==
  ASSUME NEW d \in DayState, NEW e \in d.pending, Pending(d, e.at)
  PROVE  LET x == OnEvent(d, e)
         IN  /\ x \in DayState /\ Pending(x, e.at)
             /\ x.inDay = d.inDay /\ x.next = d.next /\ x.closedTo = d.closedTo /\ x.preDay = d.preDay
             /\ LogGrows(x, d, e.kind, e.at)
<1> DEFINE y == [d EXCEPT !.pending = @ \ {e}]
           z == Logged(y, e.kind, e.at, None)
<1>1. e \in Event /\ e.at \in Nat /\ e.kind \in Kinds /\ d.log \in Seq(Entry)
  <2>1. e \in Event /\ d.log \in Seq(Entry) BY DEF DayState
  <2>2. e.at \in Nat /\ e.kind \in Kinds BY <2>1 DEF Event
  <2> QED BY <2>1, <2>2
<1>2. y \in DayState /\ y.pending = d.pending \ {e} /\ y.nextSeq = d.nextSeq /\ y.log = d.log
  BY DEF DayState
<1>3. [what |-> e.kind, at |-> e.at, value |-> None] \in Entry BY <1>1 DEF Entry
<1>4. /\ z \in DayState /\ z.pending = y.pending /\ z.nextSeq = d.nextSeq
      /\ z.log = Append(d.log, [what |-> e.kind, at |-> e.at, value |-> None])
      /\ z.inDay = d.inDay /\ z.next = d.next /\ z.closedTo = d.closedTo /\ z.preDay = d.preDay
  <2>1. Append(y.log, [what |-> e.kind, at |-> e.at, value |-> None]) \in Seq(Entry) BY <1>1, <1>2, <1>3
  <2> QED BY <1>1, <1>2, <1>3, <2>1 DEF Logged, DayState
<1>5. Pending(z, e.at) BY <1>2, <1>4 DEF Pending
<1>6. d.period \in Nat BY DEF DayState
<1> HIDE DEF y, z
<1> DEFINE x == OnEvent(d, e)
<1>7. x \in {z, Schedule(z, e.at + d.period, "refresh"), Schedule(z, e.at, "dispatch"), Schedule(z, e.at, "kick")}
  <2>1. z.period = d.period BY DEF z, y, Logged, DayState
  <2> QED BY <1>1, <2>1, Zenon DEF OnEvent, Kinds, z, y
<1> HIDE DEF x
<1>8. x \in DayState /\ Pending(x, e.at) /\ SameRest(x, z)
  <2>1. CASE x = z BY <1>4, <1>5, <2>1 DEF SameRest
  <2>2. CASE x = Schedule(z, e.at + d.period, "refresh")
    <3>1. e.at + d.period \in Nat /\ e.at <= e.at + d.period /\ "refresh" \in Kinds BY <1>1, <1>6 DEF Kinds
    <3> QED BY <1>1, <1>4, <1>5, <2>2, <3>1, Scheduled
  <2>3. CASE x = Schedule(z, e.at, "dispatch") \/ x = Schedule(z, e.at, "kick")
    <3>1. e.at <= e.at /\ "dispatch" \in Kinds /\ "kick" \in Kinds BY <1>1 DEF Kinds
    <3> QED BY <1>1, <1>4, <1>5, <2>3, <3>1, Scheduled
  <2> QED BY <1>7, <2>1, <2>2, <2>3
<1> QED BY <1>4, <1>8 DEF SameRest, LogGrows, x

(* A patch that applies moves the refresh or injects a request, not before   *)
(* its time.                                                                 *)
LEMMA PatchKeeps ==
  ASSUME NEW d \in DayState, d.next \in 1..Len(d.inDay), Pending(d, d.inDay[d.next].at)
  PROVE  LET x == ApplyPatch(d)
             at == d.inDay[d.next].at
         IN  /\ x \in DayState /\ Pending(x, at)
             /\ x.inDay = d.inDay /\ x.next = d.next + 1 /\ x.closedTo = d.closedTo /\ x.preDay = d.preDay
             /\ LogGrows(x, d, "patch", at)
<1> DEFINE p == d.inDay[d.next]
           y == [d EXCEPT !.next = @ + 1]
           z == Logged(y, "patch", p.at, p.set)
           w == [z EXCEPT !.period = p.set, !.pending = {e \in @ : e.kind # "refresh"}]
           x == ApplyPatch(d)
<1>1. p \in Patch /\ p.at \in Nat /\ (p.set = None \/ p.set \in Nat)
  <2>1. d.inDay \in Seq(Today) BY DEF DayState, DayLists, Lists
  <2>2. p \in Today BY <2>1
  <2>3. p \in Patch /\ p.at \in Nat BY <2>2 DEF Today
  <2> QED BY <2>3, DayAssumption
<1> HIDE DEF p
<1>2. d.next + 1 \in Nat /\ d.log \in Seq(Entry) BY DEF DayState
<1>3. /\ y \in DayState /\ y.pending = d.pending /\ y.nextSeq = d.nextSeq /\ y.next = d.next + 1
      /\ y.log = d.log /\ y.inDay = d.inDay /\ y.closedTo = d.closedTo /\ y.preDay = d.preDay
  BY <1>2 DEF DayState
<1> HIDE DEF y
<1>4. /\ z \in DayState /\ z.pending = d.pending /\ z.nextSeq = d.nextSeq /\ z.next = d.next + 1
      /\ z.log = Append(d.log, [what |-> "patch", at |-> p.at, value |-> p.set])
      /\ z.inDay = d.inDay /\ z.closedTo = d.closedTo /\ z.preDay = d.preDay
  <2>1. [what |-> "patch", at |-> p.at, value |-> p.set] \in Entry BY <1>1 DEF Entry
  <2>2. Append(y.log, [what |-> "patch", at |-> p.at, value |-> p.set]) \in Seq(Entry) BY <1>2, <1>3, <2>1
  <2> QED BY <1>3, <2>2 DEF Logged, DayState
<1>5. Pending(z, p.at) BY <1>4 DEF Pending, p
<1> HIDE DEF z
<1>6. LogGrows(z, d, "patch", p.at)
  <2>1. p.set \in Nat \cup {None} BY <1>1
  <2> QED BY <1>4, <2>1 DEF LogGrows
<1>7. CASE p.set # None
  <2>1. p.set \in Nat /\ p.at + p.set \in Nat /\ p.at <= p.at + p.set BY <1>1, <1>7
  <2>2. {e \in z.pending : e.kind # "refresh"} \in SUBSET Event BY <1>4 DEF DayState
  <2>3. w \in DayState /\ SameRest(w, z) /\ w.nextSeq = z.nextSeq /\ w.pending \subseteq z.pending
    BY <1>4, <2>1, <2>2 DEF DayState, SameRest
  <2>4. Pending(w, p.at) BY <1>5, <2>3 DEF Pending
  <2>5. x = Schedule(w, p.at + p.set, "refresh") BY <1>7, Zenon DEF ApplyPatch, OnParams, z, y, p
  <2> HIDE DEF w, x
  <2>6. x \in DayState /\ Pending(x, p.at) /\ SameRest(x, w)
    <3>1. "refresh" \in Kinds BY DEF Kinds
    <3> QED BY <1>1, <2>1, <2>3, <2>4, <2>5, <3>1, Scheduled
  <2> QED BY <1>4, <1>6, <2>3, <2>6 DEF SameRest, LogGrows, p, x
<1>8. CASE p.set = None
  <2>1. x = Schedule(z, p.at, "extra") BY <1>8, Zenon DEF ApplyPatch, OnInjected, z, y, p
  <2> HIDE DEF x
  <2>2. x \in DayState /\ Pending(x, p.at) /\ SameRest(x, z)
    <3>1. "extra" \in Kinds /\ p.at <= p.at BY <1>1 DEF Kinds
    <3> QED BY <1>1, <1>4, <1>5, <2>1, <3>1, Scheduled
  <2> QED BY <1>4, <1>6, <2>2 DEF SameRest, LogGrows, p, x
<1> QED BY <1>7, <1>8

(* Closing a bucket touches nothing else, for its hook does not schedule. *)
LEMMA CloseKeeps ==
  ASSUME ~HookSchedules, NEW d \in DayState
  PROVE  LET x == CloseBucket(d)
         IN  /\ x \in DayState /\ x.pending = d.pending /\ x.nextSeq = d.nextSeq
             /\ x.inDay = d.inDay /\ x.next = d.next /\ x.preDay = d.preDay
             /\ x.closedTo = d.closedTo + BucketMs
             /\ LogGrows(x, d, "bucket", d.closedTo + BucketMs)
<1> DEFINE b == d.closedTo + BucketMs
           entry == [what |-> "bucket", at |-> b, value |-> None]
           x == CloseBucket(d)
<1>1. b \in Nat /\ d.log \in Seq(Entry) BY DayAssumption DEF DayState
<1>2. Append(d.log, entry) \in Seq(Entry)
  <2>1. entry \in Entry BY <1>1 DEF Entry
  <2> HIDE DEF entry
  <2> QED BY <1>1, <2>1
<1>3. x = [[d EXCEPT !.closedTo = b] EXCEPT !.log = Append(@, entry)] BY DEF CloseBucket, OnBucketEnd, Logged
<1>4. x = [d EXCEPT !.closedTo = b, !.log = Append(d.log, entry)] BY <1>3 DEF DayState
<1> HIDE DEF x, b, entry
<1>5. /\ x \in DayState /\ x.pending = d.pending /\ x.nextSeq = d.nextSeq
      /\ x.inDay = d.inDay /\ x.next = d.next /\ x.preDay = d.preDay
      /\ x.closedTo = b /\ x.log = Append(d.log, entry)
  BY <1>1, <1>2, <1>4 DEF DayState
<1> QED BY <1>5 DEF LogGrows, x, b, entry

(* What is true of all entries of a log and of one more is true of the log   *)
(* with it.                                                                  *)
LEMMA LogExtended ==
  ASSUME NEW d \in DayState, NEW x \in DayState, NEW what, NEW at, LogGrows(x, d, what, at),
         NEW i \in DOMAIN x.log
  PROVE  \/ i \in DOMAIN d.log /\ x.log[i] = d.log[i]
         \/ x.log[i].at = at /\ x.log[i].what = what
<1>1. PICK value : x.log = Append(d.log, [what |-> what, at |-> at, value |-> value]) BY DEF LogGrows
<1>2. d.log \in Seq(Entry) /\ Len(d.log) \in Nat BY DEF DayState
<1> DEFINE entry == [what |-> what, at |-> at, value |-> value]
<1>3. entry.what = what /\ entry.at = at OBVIOUS
<1> HIDE DEF entry
<1>4. x.log = Append(d.log, entry) BY <1>1 DEF entry
<1> DEFINE S == Entry \cup {entry}
<1>5. d.log \in Seq(S) /\ entry \in S BY <1>2
<1> HIDE DEF S
<1>6. /\ DOMAIN x.log = 1..(Len(d.log) + 1) /\ DOMAIN d.log = 1..Len(d.log)
      /\ x.log[Len(d.log) + 1] = entry /\ \A k \in 1..Len(d.log) : x.log[k] = d.log[k]
  BY <1>4, <1>5
<1>7. CASE i = Len(d.log) + 1
  <2>1. x.log[i] = entry BY <1>6, <1>7
  <2> QED BY <1>3, <2>1
<1>8. CASE i \in 1..Len(d.log) BY <1>6, <1>8
<1>9. i = Len(d.log) + 1 \/ i \in 1..Len(d.log) BY <1>2, <1>6
<1> QED BY <1>7, <1>8, <1>9

(* There is an earliest event, if there is any. *)
LEMMA EarliestExists ==
  ASSUME day \in DayState, NEW t, Pending(day, t), day.pending # {}
  PROVE  LET e == CHOOSE e \in day.pending : Earliest(e)
         IN  e \in day.pending /\ Earliest(e) /\ \A f \in day.pending : e.at <= f.at
<1> DEFINE P == day.pending
<1>1. P \subseteq Event /\ \A f \in P : f.at \in Nat /\ f.ord[1] \in Nat /\ f.ord[2] \in Nat
  BY DEF DayState, Event
<1> DEFINE A == {f.at : f \in P}
<1>2. PICK a \in A : \A b \in A : a <= b
  <2>1. A \in SUBSET Nat /\ A # {} BY <1>1
  <2> HIDE DEF A
  <2> QED BY <2>1, Least
<1> DEFINE B == {f.ord[1] : f \in {g \in P : g.at = a}}
<1>3. PICK b \in B : \A c \in B : b <= c
  <2>1. B \in SUBSET Nat /\ B # {} BY <1>1, <1>2
  <2> HIDE DEF B
  <2> QED BY <2>1, Least
<1> DEFINE C == {f.ord[2] : f \in {g \in P : g.at = a /\ g.ord[1] = b}}
<1>4. PICK c \in C : \A k \in C : c <= k
  <2>1. C \in SUBSET Nat /\ C # {} BY <1>1, <1>3
  <2> HIDE DEF C
  <2> QED BY <2>1, Least
<1>5. PICK e \in P : e.at = a /\ e.ord[1] = b /\ e.ord[2] = c BY <1>4
<1>6. ASSUME NEW f \in P \ {e} PROVE Precedes(e, f)
  <2>1. a <= f.at BY <1>2
  <2>2. f.at = a => b <= f.ord[1] BY <1>3
  <2>3. f.at = a /\ f.ord[1] = b => c <= f.ord[2] BY <1>4
  <2>4. f.ord[2] # c BY <1>5 DEF Pending
  <2> QED BY <1>1, <1>5, <2>1, <2>2, <2>3, <2>4 DEF Precedes
<1>7. Earliest(e) BY <1>6 DEF Earliest
<1> HIDE DEF A, B, C
<1> DEFINE x == CHOOSE x \in P : Earliest(x)
<1>8. x \in P /\ Earliest(x) BY <1>7
<1> HIDE DEF x
<1>9. \A f \in P : x.at <= f.at BY <1>1, <1>8 DEF Earliest, Precedes
<1> QED BY <1>8, <1>9 DEF x

-----------------------------------------------------------------------------
(***************************************************************************)
(* The invariant.                                                          *)
(***************************************************************************)

\* The core's checks of a day that has got to t.
CoreTrue(d, t) ==
  /\ d \in DayState /\ Pending(d, t)
  /\ t \in 0..DayEnd
  /\ d.closedTo % BucketMs = 0 /\ d.closedTo <= t /\ t < d.closedTo + BucketMs
  /\ d.next \in 1..(Len(d.inDay) + 1)
  /\ \A i \in DOMAIN d.inDay : IF i < d.next THEN d.inDay[i].at <= t ELSE t <= d.inDay[i].at
  /\ \A i \in DOMAIN d.log : d.log[i].at <= t

\* What has happened is before g, but for the boundary at g.
Under(d, g) ==
  /\ \A i \in DOMAIN d.inDay : i < d.next => d.inDay[i].at < g
  /\ \A i \in DOMAIN d.log : d.log[i].at < g \/ (d.log[i].what = "bucket" /\ d.log[i].at = g)

\* Nothing is due before l.
Clear(d, l) ==
  /\ \A e \in d.pending : l <= e.at
  /\ \A i \in d.next..Len(d.inDay) : l <= d.inDay[i].at

Rest(d, t) == CoreTrue(d, t) /\ Under(d, t)

(* Between two advances the day has got to `now` and no further; during one  *)
(* it is under the goal, and while boundaries are closed nothing is due up   *)
(* to the last of them.  A checkpoint is a day at rest.                      *)
Inv ==
  /\ phase \in {"idle", "pick", "close", "end", "failed"}
  /\ phase = "idle" => Rest(day, now)
  /\ phase \in {"pick", "close", "end"} => CoreTrue(day, now) /\ Under(day, goal) /\ goal \in now..DayEnd
  /\ phase \in {"close", "end"} => limit \in now..goal /\ Clear(day, limit) /\ (phase = "end" => limit = goal)
  /\ kept # None => Rest(kept, atMs)

(* The invariant is what the run checks, and more. *)
LEMMA InvExact == Inv => CheckpointExact
<1> SUFFICES ASSUME Inv PROVE CheckpointExact OBVIOUS
<1>1. ASSUME CoreTrue(day, now) PROVE AssertCore
  <2>1. day.inDay \in DayLists BY <1>1 DEF CoreTrue, DayState
  <2>2. \A i, j \in DOMAIN day.inDay : i < j => day.inDay[i].at <= day.inDay[j].at
    BY <2>1 DEF DayLists, Lists, InOrderOfTime
  <2>3. \A e \in day.pending : now <= e.at /\ e.at < DayEnd BY <1>1 DEF CoreTrue, Pending
  <2> QED BY <1>1, <2>2, <2>3 DEF CoreTrue, AssertCore, NextBoundary
<1>2. phase # "failed" => AssertCore BY <1>1 DEF Inv, Rest
<1>3. ASSUME phase = "idle" PROVE \A i \in DOMAIN day.inDay : i < day.next <=> day.inDay[i].at < now
  <2>1. Rest(day, now) BY <1>3 DEF Inv
  <2>2. day.inDay \in DayLists /\ now \in Int BY <2>1 DEF Rest, CoreTrue, DayState
  <2>3. \A i \in DOMAIN day.inDay : day.inDay[i].at \in Int
    BY <2>2 DEF DayLists, Lists, Today
  <2> QED BY <2>1, <2>2, <2>3 DEF Rest, CoreTrue, Under
<1>4. ASSUME phase = "idle"
      PROVE \A i \in DOMAIN day.log : day.log[i].at < now \/ (day.log[i].what = "bucket" /\ day.log[i].at = now)
  BY <1>4 DEF Inv, Rest, Under
<1> QED BY <1>2, <1>3, <1>4 DEF CheckpointExact

(* Nothing is due before the next item. *)
LEMMA NextFacts ==
  ASSUME CoreTrue(day, now)
  PROVE  /\ NextAt \in now..DayEnd /\ Clear(day, NextAt)
         /\ NextPatchAt \in now..DayEnd /\ NextEventAt \in now..DayEnd
         /\ \A e \in day.pending : NextEventAt <= e.at
         /\ \A i \in day.next..Len(day.inDay) : NextPatchAt <= day.inDay[i].at
<1>1. /\ day \in DayState /\ Pending(day, now) /\ now \in 0..DayEnd /\ DayEnd \in Nat
      /\ day.next \in 1..(Len(day.inDay) + 1) /\ day.inDay \in DayLists
  BY DayAssumption DEF CoreTrue, DayState
<1>2. \A e \in day.pending : e.at \in Nat /\ now <= e.at /\ e.at < DayEnd
  BY <1>1 DEF DayState, Event, Pending
<1>3. /\ Len(day.inDay) \in Nat /\ DOMAIN day.inDay = 1..Len(day.inDay)
      /\ \A i \in DOMAIN day.inDay : day.inDay[i].at \in 0..(DayEnd - 1)
      /\ \A i, j \in DOMAIN day.inDay : i < j => day.inDay[i].at <= day.inDay[j].at
  BY <1>1 DEF DayLists, Lists, InOrderOfTime, Today
<1>4. NextEventAt \in now..DayEnd /\ \A e \in day.pending : NextEventAt <= e.at
  <2>1. CASE day.pending = {} BY <1>1, <2>1 DEF NextEventAt
  <2>2. CASE day.pending # {}
    <3> DEFINE x == CHOOSE e \in day.pending : Earliest(e)
    <3>1. x \in day.pending /\ \A f \in day.pending : x.at <= f.at BY <1>1, <2>2, EarliestExists
    <3>2. NextEventAt = x.at BY <2>2 DEF NextEventAt
    <3> HIDE DEF x
    <3> QED BY <1>1, <1>2, <3>1, <3>2
  <2> QED BY <2>1, <2>2
<1>5. NextPatchAt \in now..DayEnd /\ \A i \in day.next..Len(day.inDay) : NextPatchAt <= day.inDay[i].at
  <2>1. CASE PatchPending
    <3>1. day.next \in DOMAIN day.inDay /\ NextPatchAt = day.inDay[day.next].at
      BY <1>1, <1>3, <2>1 DEF PatchPending, NextPatchAt
    <3>2. now <= day.inDay[day.next].at BY <1>1, <3>1 DEF CoreTrue
    <3>3. \A i \in day.next..Len(day.inDay) : i = day.next \/ (i \in DOMAIN day.inDay /\ day.next < i)
      BY <1>1, <1>3
    <3> QED BY <1>1, <1>3, <3>1, <3>2, <3>3
  <2>2. CASE ~PatchPending BY <1>1, <1>3, <2>2 DEF PatchPending, NextPatchAt
  <2> QED BY <2>1, <2>2
<1>6. NextAt = (IF NextPatchAt <= NextEventAt THEN NextPatchAt ELSE NextEventAt) BY DEF NextAt
<1>7. NextAt \in now..DayEnd /\ NextAt <= NextPatchAt /\ NextAt <= NextEventAt BY <1>1, <1>4, <1>5, <1>6
<1>8. Clear(day, NextAt)
  <2>1. ASSUME NEW e \in day.pending PROVE NextAt <= e.at BY <1>1, <1>2, <1>4, <1>7
  <2>2. ASSUME NEW i \in day.next..Len(day.inDay) PROVE NextAt <= day.inDay[i].at
    <3>1. i \in DOMAIN day.inDay BY <1>1, <1>3
    <3> QED BY <1>1, <1>3, <1>5, <1>7, <3>1
  <2> QED BY <2>1, <2>2 DEF Clear
<1> QED BY <1>4, <1>5, <1>7, <1>8

(* What the checks say of the parts of a day. *)
LEMMA StateFacts ==
  ASSUME CoreTrue(day, now)
  PROVE  /\ day \in DayState /\ Pending(day, now) /\ now \in 0..DayEnd /\ DayEnd \in Nat
         /\ day.closedTo \in Nat /\ BucketMs \in Nat \ {0} /\ NextBoundary = day.closedTo + BucketMs
         /\ day.next \in 1..(Len(day.inDay) + 1) /\ Len(day.inDay) \in Nat /\ DOMAIN day.inDay = 1..Len(day.inDay)
         /\ \A i \in DOMAIN day.inDay : day.inDay[i].at \in 0..(DayEnd - 1)
         /\ \A i, j \in DOMAIN day.inDay : i < j => day.inDay[i].at <= day.inDay[j].at
         /\ \A e \in day.pending : e.at \in Nat
         /\ \A i \in DOMAIN day.log : day.log[i].at \in Int
<1>1. day \in DayState /\ day.inDay \in DayLists /\ day.pending \subseteq Event /\ day.log \in Seq(Entry) BY DEF CoreTrue, DayState
<1>2. day.inDay \in Seq(Today) BY <1>1 DEF DayLists, Lists
<1>3. /\ Len(day.inDay) \in Nat /\ DOMAIN day.inDay = 1..Len(day.inDay)
      /\ \A i \in DOMAIN day.inDay : day.inDay[i].at \in 0..(DayEnd - 1)
  BY <1>2 DEF Today
<1>4. \A i, j \in DOMAIN day.inDay : i < j => day.inDay[i].at <= day.inDay[j].at
  BY <1>1 DEF DayLists, Lists, InOrderOfTime
<1>5. \A i \in DOMAIN day.log : day.log[i].at \in Int
  <2>1. \A i \in DOMAIN day.log : day.log[i] \in Entry BY <1>1
  <2>2. \A e \in Entry : e.at \in Int BY DEF Entry
  <2> QED BY <2>1, <2>2
<1>6. \A e \in day.pending : e.at \in Nat BY <1>1 DEF Event
<1> QED BY <1>1, <1>3, <1>4, <1>5, <1>6, DayAssumption DEF CoreTrue, DayState, NextBoundary

(* The next boundary is a boundary. *)
LEMMA ModNext ==
  ASSUME NEW c \in Nat, NEW b \in Nat \ {0}, c % b = 0
  PROVE  (c + b) % b = 0
<1> DEFINE q == c \div b
           k == (c + b) \div b
           m == (c + b) % b
<1>1. q \in Nat /\ c = b * q BY Z3
<1>2. k \in Nat /\ m \in 0..(b - 1) /\ c + b = b * k + m BY Z3
<1> HIDE DEF q, k, m
<1>3. b * (q + 1) = b * k + m BY <1>1, <1>2
<1>4. ASSUME k < q + 1 PROVE m = 0
  <2>1. b * (k + 1) <= b * (q + 1) BY <1>1, <1>2, <1>4
  <2> QED BY <1>1, <1>2, <1>3, <2>1
<1>5. ASSUME k > q + 1 PROVE FALSE
  <2>1. b * (q + 2) <= b * k BY <1>1, <1>2, <1>5
  <2> QED BY <1>1, <1>2, <1>3, <2>1
<1> QED BY <1>1, <1>2, <1>3, <1>4, <1>5 DEF m

(* A boundary that is closed when nothing is due before it. *)
LEMMA ClosedTrue ==
  ASSUME ~HookSchedules, CoreTrue(day, now), NEW l \in Nat, l <= goal, goal \in Nat, goal <= DayEnd,
         Clear(day, l), Under(day, goal), NextBoundary <= l
  PROVE  LET x == CloseBucket(day)
         IN CoreTrue(x, NextBoundary) /\ Under(x, goal) /\ Clear(x, l) /\ now <= NextBoundary /\ NextBoundary \in Nat
<1> DEFINE b == NextBoundary
           x == CloseBucket(day)
<1>1. /\ day \in DayState /\ Pending(day, now) /\ now \in 0..DayEnd /\ DayEnd \in Nat
      /\ day.closedTo \in Nat /\ BucketMs \in Nat \ {0} /\ b = day.closedTo + BucketMs
      /\ day.next \in 1..(Len(day.inDay) + 1) /\ Len(day.inDay) \in Nat /\ DOMAIN day.inDay = 1..Len(day.inDay)
      /\ \A i \in DOMAIN day.inDay : day.inDay[i].at \in 0..(DayEnd - 1)
      /\ \A e \in day.pending : e.at \in Nat
      /\ \A i \in DOMAIN day.log : day.log[i].at \in Int
  BY StateFacts
<1>2. b \in Nat /\ now < b /\ b <= DayEnd /\ b <= goal BY <1>1 DEF CoreTrue
<1>3. /\ x \in DayState /\ x.pending = day.pending /\ x.nextSeq = day.nextSeq
      /\ x.inDay = day.inDay /\ x.next = day.next /\ x.closedTo = b
      /\ LogGrows(x, day, "bucket", b)
  BY <1>1, CloseKeeps
<1> HIDE DEF b, x
<1>4. Clear(x, l) BY <1>3 DEF Clear
<1>5. Pending(x, b)
  <2>1. \A e \in day.pending : l <= e.at BY DEF Clear
  <2>2. \A e \in x.pending : b <= e.at BY <1>1, <1>2, <1>3, <2>1 DEF b
  <2> QED BY <1>1, <1>3, <2>2 DEF Pending
<1>6. b % BucketMs = 0 BY <1>1, ModNext DEF CoreTrue
<1>7. ASSUME NEW i \in DOMAIN x.inDay PROVE IF i < x.next THEN x.inDay[i].at <= b ELSE b <= x.inDay[i].at
  <2>1. i \in DOMAIN day.inDay BY <1>3
  <2>2. CASE i < day.next
    <3>1. day.inDay[i].at <= now BY <2>1, <2>2 DEF CoreTrue
    <3>2. day.inDay[i].at <= b BY <1>1, <1>2, <2>1, <3>1
    <3> QED BY <1>3, <2>2, <3>2
  <2>3. CASE ~(i < day.next)
    <3>1. i \in day.next..Len(day.inDay) BY <1>1, <2>1, <2>3
    <3>2. l <= day.inDay[i].at BY <3>1 DEF Clear
    <3>3. b <= day.inDay[i].at BY <1>1, <1>2, <2>1, <3>2 DEF b
    <3> QED BY <1>3, <2>3, <3>3
  <2> QED BY <2>2, <2>3
<1>8. ASSUME NEW i \in DOMAIN x.log
      PROVE  x.log[i].at <= b /\ (x.log[i].at < goal \/ (x.log[i].what = "bucket" /\ x.log[i].at = goal))
  <2>1. CASE i \in DOMAIN day.log /\ x.log[i] = day.log[i]
    BY <1>1, <1>2, <2>1 DEF CoreTrue, Under
  <2>2. CASE x.log[i].at = b /\ x.log[i].what = "bucket" BY <1>2, <2>2
  <2> QED BY <1>1, <1>3, <2>1, <2>2, LogExtended
<1>9. Under(x, goal) BY <1>3, <1>8 DEF Under
<1>10. CoreTrue(x, b) BY <1>1, <1>2, <1>3, <1>5, <1>6, <1>7, <1>8 DEF CoreTrue
<1>11. now <= b BY <1>1, <1>2
<1> QED BY <1>2, <1>4, <1>9, <1>10, <1>11 DEF b, x

(* An item that runs when it is the next, before the next boundary.  That it *)
(* is an event, or a patch, of DayOrder follows on the way.                  *)
LEMMA DispatchTrue ==
  ASSUME CoreTrue(day, now), Under(day, goal), goal \in now..DayEnd, ~Passed, ~Crosses
  PROVE  LET x == IF PatchFirst THEN ApplyPatch(day) ELSE OnEvent(day, CHOOSE e \in day.pending : Earliest(e))
         IN  /\ CoreTrue(x, NextAt) /\ Under(x, goal) /\ goal \in NextAt..DayEnd
             /\ day' = x => PatchApplies \/ \E e \in day.pending : EventRuns(e)
<1> DEFINE x == IF PatchFirst THEN ApplyPatch(day) ELSE OnEvent(day, CHOOSE e \in day.pending : Earliest(e))
           t == NextAt
<1>1. /\ day \in DayState /\ Pending(day, now) /\ now \in 0..DayEnd /\ DayEnd \in Nat
      /\ day.closedTo \in Nat /\ BucketMs \in Nat \ {0} /\ NextBoundary = day.closedTo + BucketMs
      /\ day.next \in 1..(Len(day.inDay) + 1) /\ Len(day.inDay) \in Nat /\ DOMAIN day.inDay = 1..Len(day.inDay)
      /\ \A i \in DOMAIN day.inDay : day.inDay[i].at \in 0..(DayEnd - 1)
      /\ \A i, j \in DOMAIN day.inDay : i < j => day.inDay[i].at <= day.inDay[j].at
      /\ \A e \in day.pending : e.at \in Nat
      /\ \A i \in DOMAIN day.log : day.log[i].at \in Int
  BY StateFacts
<1>2. /\ t \in now..DayEnd /\ Clear(day, t)
      /\ NextPatchAt \in now..DayEnd /\ NextEventAt \in now..DayEnd
      /\ \A e \in day.pending : NextEventAt <= e.at
      /\ \A i \in day.next..Len(day.inDay) : NextPatchAt <= day.inDay[i].at
  BY NextFacts
<1>3. t < goal /\ t < NextBoundary /\ t < DayEnd /\ t \in Nat /\ goal \in t..DayEnd
  BY <1>1, <1>2 DEF Passed, Crosses
<1>4. t = (IF NextPatchAt <= NextEventAt THEN NextPatchAt ELSE NextEventAt) BY DEF NextAt
<1> HIDE DEF t, x
\* What each kind of item leaves to show.
<1>5. ASSUME NEW what, what # "bucket", x \in DayState, Pending(x, t), LogGrows(x, day, what, t),
             x.inDay = day.inDay, x.closedTo = day.closedTo,
             x.next \in {day.next, day.next + 1}, x.next \in 1..(Len(day.inDay) + 1),
             x.next = day.next + 1 => day.inDay[day.next].at = t
      PROVE  CoreTrue(x, t) /\ Under(x, goal)
  <2>1. ASSUME NEW i \in DOMAIN x.inDay
        PROVE  /\ IF i < x.next THEN x.inDay[i].at <= t ELSE t <= x.inDay[i].at
               /\ i < x.next => x.inDay[i].at < goal
    <3>1. i \in DOMAIN day.inDay /\ x.inDay[i] = day.inDay[i] /\ day.inDay[i].at \in Nat BY <1>1, <1>5
    <3>2. CASE i < day.next
      <4>1. i < x.next BY <1>1, <1>5, <3>1, <3>2
      <4>2. day.inDay[i].at <= now /\ day.inDay[i].at < goal BY <3>1, <3>2 DEF CoreTrue, Under
      <4>3. day.inDay[i].at <= t BY <1>1, <1>2, <3>1, <4>2 DEF t
      <4> QED BY <3>1, <4>1, <4>2, <4>3
    <3>3. CASE i = day.next /\ x.next = day.next + 1
      <4>1. day.inDay[i].at = t BY <1>5, <3>3
      <4> QED BY <1>1, <1>3, <3>1, <3>3, <4>1
    <3>4. CASE ~(i < x.next)
      <4>1. i \in day.next..Len(day.inDay) BY <1>1, <1>5, <3>1, <3>4
      <4>2. t <= day.inDay[i].at BY <1>2, <4>1 DEF Clear, t
      <4> QED BY <3>1, <3>4, <4>2
    <3>5. i < day.next \/ (i = day.next /\ x.next = day.next + 1) \/ ~(i < x.next) BY <1>1, <1>5, <3>1
    <3> QED BY <3>2, <3>3, <3>4, <3>5
  <2>2. ASSUME NEW i \in DOMAIN x.log PROVE x.log[i].at <= t /\ (x.log[i].at < goal \/ (x.log[i].what = "bucket" /\ x.log[i].at = goal))
    <3>1. CASE i \in DOMAIN day.log /\ x.log[i] = day.log[i]
      <4>1. day.log[i].at <= now BY <3>1 DEF CoreTrue
      <4>2. day.log[i].at <= t BY <1>1, <1>2, <3>1, <4>1 DEF t
      <4> QED BY <3>1, <4>2 DEF Under
    <3>2. CASE x.log[i].at = t BY <1>3, <3>2
    <3> QED BY <1>1, <1>5, <3>1, <3>2, LogExtended
  <2>3. Under(x, goal) BY <2>1, <2>2 DEF Under
  <2>4. t \in 0..DayEnd /\ x.closedTo <= t /\ t < x.closedTo + BucketMs /\ x.closedTo % BucketMs = 0
    BY <1>1, <1>2, <1>3, <1>5 DEF CoreTrue, t
  <2> QED BY <1>5, <2>1, <2>2, <2>3, <2>4 DEF CoreTrue
<1>6. CASE PatchFirst
  <2>1. NextPatchAt <= NextEventAt /\ NextPatchAt = t BY <1>4, <1>6 DEF PatchFirst
  <2>2. PatchPending /\ day.inDay[day.next].at = t BY <1>3, <2>1 DEF NextPatchAt
  <2>3. day.next \in 1..Len(day.inDay) BY <1>1, <2>2 DEF PatchPending
  <2>4. \A e \in day.pending : t <= e.at BY <1>2 DEF Clear, t
  <2>5. Pending(day, t) BY <1>1, <2>4 DEF Pending
  <2>6. x = ApplyPatch(day) BY <1>6 DEF x
  <2>7. /\ x \in DayState /\ Pending(x, t)
        /\ x.inDay = day.inDay /\ x.next = day.next + 1 /\ x.closedTo = day.closedTo
        /\ LogGrows(x, day, "patch", t)
    BY <1>1, <2>2, <2>3, <2>5, <2>6, PatchKeeps
  <2>8. x.next \in 1..(Len(day.inDay) + 1) BY <1>1, <2>3, <2>7
  <2>9. CoreTrue(x, t) /\ Under(x, goal) BY <1>5, <2>2, <2>7, <2>8
  <2>10. day' = x => PatchApplies
    <3>1. NoEventBefore(t) BY <2>4 DEF NoEventBefore
    <3>2. t < day.closedTo + BucketMs BY <1>1, <1>3
    <3> QED BY <2>2, <2>6, <3>1, <3>2 DEF PatchApplies
  <2> QED BY <1>3, <2>9, <2>10 DEF x, t
<1>7. CASE ~PatchFirst
  <2> DEFINE e == CHOOSE e \in day.pending : Earliest(e)
  <2>1. NextEventAt < NextPatchAt /\ NextEventAt = t BY <1>2, <1>4, <1>7 DEF PatchFirst
  <2>2. day.pending # {} BY <1>3, <2>1 DEF NextEventAt
  <2>3. e.at = t BY <2>1, <2>2 DEF NextEventAt
  <2>4. e \in day.pending /\ Earliest(e) BY <1>1, <2>2, EarliestExists
  <2>5. x = OnEvent(day, e) BY <1>7 DEF x
  <2> HIDE DEF e
  <2>6. Pending(day, t)
    <3>1. \A f \in day.pending : t <= f.at BY <1>2 DEF Clear, t
    <3> QED BY <1>1, <3>1 DEF Pending
  <2>7. /\ x \in DayState /\ Pending(x, t)
        /\ x.inDay = day.inDay /\ x.next = day.next /\ x.closedTo = day.closedTo
        /\ LogGrows(x, day, e.kind, t)
    BY <1>1, <2>3, <2>4, <2>5, <2>6, EventKeeps
  <2>8. e.kind # "bucket"
    <3>1. e \in Event BY <1>1, <2>4 DEF DayState
    <3> QED BY <3>1 DEF Event, Kinds
  <2>9. ~(x.next = day.next + 1) BY <1>1, <2>7
  <2>10. CoreTrue(x, t) /\ Under(x, goal) BY <1>1, <1>5, <2>7, <2>8, <2>9
  <2>11. day' = x => EventRuns(e)
    <3>1. NoPatchBefore(e.at + 1)
      <4> SUFFICES ASSUME NEW i \in day.next..Len(day.inDay) PROVE t + 1 <= day.inDay[i].at
        BY <2>3 DEF NoPatchBefore
      <4>1. i \in DOMAIN day.inDay BY <1>1
      <4>2. NextPatchAt <= day.inDay[i].at BY <1>2
      <4> QED BY <1>1, <1>2, <2>1, <4>1, <4>2
    <3>2. e.at < day.closedTo + BucketMs BY <1>1, <1>3, <2>3
    <3> QED BY <2>4, <2>5, <3>1, <3>2 DEF EventRuns
  <2> QED BY <1>3, <2>4, <2>10, <2>11 DEF x, t
<1> QED BY <1>6, <1>7

(* A day starts at rest. *)
LEMMA InitTrue == DayRunInit => Inv
<1> SUFFICES ASSUME DayRunInit PROVE Inv OBVIOUS
<1>1. PICK patches \in Partitions : day = Morning(patches) BY DEF DayRunInit, Init
<1>2. kept = None /\ now = 0 /\ phase = "idle" BY DEF DayRunInit, Init
<1>3. DayEnd \in Nat \ {0} /\ BucketMs \in Nat \ {0} /\ FirstPeriod \in Nat /\ DayEnd > 0 /\ BucketMs > 0 BY DayAssumption
<1> DEFINE pre == patches.preDay
           period == IF pre = <<>> THEN FirstPeriod ELSE Last(pre).set
           d == [pending |-> {}, nextSeq |-> 0, period |-> period, preDay |-> pre,
                 inDay |-> patches.inDay, next |-> 1, closedTo |-> 0, log |-> <<>>]
<1>4. patches.inDay \in DayLists /\ pre \in Seq(Patch) /\ period \in Nat BY <1>3, PartitionFacts
<1>5. day = Schedule(d, period, "refresh") BY <1>1, Zenon DEF Morning
<1> HIDE DEF pre, period
<1>6. d \in DayState BY <1>4 DEF DayState
<1>7. Pending(d, 0) BY DEF Pending
<1>8. d.inDay = patches.inDay /\ d.next = 1 /\ d.closedTo = 0 /\ d.log = <<>> OBVIOUS
<1> HIDE DEF d
<1>9. day \in DayState /\ Pending(day, 0) /\ SameRest(day, d)
  <2>1. "refresh" \in Kinds /\ 0 \in Nat /\ 0 <= period BY <1>4 DEF Kinds
  <2> QED BY <1>4, <1>5, <1>6, <1>7, <2>1, Scheduled
<1>10. patches.inDay \in Seq(Today) BY <1>4 DEF DayLists, Lists
<1>11. \A i \in DOMAIN day.inDay : i >= 1 /\ 0 <= day.inDay[i].at /\ day.inDay[i].at \in Int
  BY <1>8, <1>9, <1>10 DEF SameRest, Today
<1>12. day.log = <<>> /\ day.next = 1 /\ day.closedTo = 0 /\ Len(day.inDay) \in Nat
  BY <1>8, <1>9, <1>10 DEF SameRest
<1>13. 0 % BucketMs = 0
  <2>1. 0 = BucketMs * (0 \div BucketMs) + (0 % BucketMs) /\ 0 % BucketMs \in 0..(BucketMs - 1) BY <1>3, Z3
  <2> QED BY <1>3, Z3
<1>14. Rest(day, 0)
  <2>1. \A i \in DOMAIN day.inDay : ~(i < day.next) BY <1>10, <1>11, <1>12, <1>8, <1>9 DEF SameRest
  <2>2. 1 \in 1..(Len(day.inDay) + 1) BY <1>12
  <2>3. 0 \in 0..DayEnd BY <1>3
  <2>4. \A i \in DOMAIN day.log : FALSE BY <1>12
  <2> QED BY <1>3, <1>9, <1>11, <1>12, <1>13, <2>1, <2>2, <2>3, <2>4 DEF Rest, CoreTrue, Under
<1> QED BY <1>2, <1>14 DEF Inv

(* A checkpoint restored with a list that agrees with what it has applied is *)
(* a day at rest.                                                            *)
LEMMA RestoreTrue ==
  ASSUME Inv, NEW patches \in Partitions, kept # None, patches.preDay = kept.preDay, Baked(patches)
  PROVE  LET x == [kept EXCEPT !.inDay = patches.inDay]
         IN Rest(x, atMs) /\ (day' = x /\ kept' = kept => Resume(patches))
<1> DEFINE new == patches.inDay
           x == [kept EXCEPT !.inDay = new]
<1>1. Rest(kept, atMs) BY DEF Inv
<1>2. /\ kept \in DayState /\ Pending(kept, atMs) /\ atMs \in 0..DayEnd /\ DayEnd \in Nat
      /\ kept.next \in 1..(Len(kept.inDay) + 1)
      /\ kept.inDay \in DayLists /\ Len(kept.inDay) \in Nat /\ DOMAIN kept.inDay = 1..Len(kept.inDay)
  BY <1>1, DayAssumption DEF Rest, CoreTrue, DayState, DayLists, Lists
<1>3. new \in DayLists BY PartitionFacts
<1> HIDE DEF new
<1>4. /\ Len(new) \in Nat /\ DOMAIN new = 1..Len(new)
      /\ \A i \in DOMAIN new : new[i].at \in 0..(DayEnd - 1)
  <2>1. new \in Seq(Today) BY <1>3 DEF DayLists, Lists
  <2> QED BY <2>1 DEF Today
<1>5. /\ {i \in DOMAIN new : new[i].at < atMs} = 1..(kept.next - 1)
      /\ \A i \in 1..(kept.next - 1) : new[i] = kept.inDay[i]
  BY DEF Baked, Before, new
<1>6. /\ x \in DayState /\ x.inDay = new /\ x.pending = kept.pending /\ x.nextSeq = kept.nextSeq
      /\ x.next = kept.next /\ x.closedTo = kept.closedTo /\ x.log = kept.log
  BY <1>2, <1>3 DEF DayState
<1>7. kept.next \in 1..(Len(new) + 1)
  <2>1. CASE kept.next = 1 BY <1>4, <2>1
  <2>2. CASE kept.next # 1
    <3>1. kept.next - 1 \in 1..(kept.next - 1) BY <1>2, <2>2
    <3>2. kept.next - 1 \in DOMAIN new BY <1>5, <3>1
    <3> QED BY <1>2, <1>4, <3>2
  <2> QED BY <2>1, <2>2
<1>8. \A i \in DOMAIN new : i < kept.next <=> new[i].at < atMs
  <2> SUFFICES ASSUME NEW i \in DOMAIN new PROVE i < kept.next <=> new[i].at < atMs OBVIOUS
  <2>1. i \in 1..(kept.next - 1) <=> new[i].at < atMs BY <1>5
  <2> QED BY <1>2, <1>4, <2>1
<1>9. Rest(x, atMs)
  <2>1. Pending(x, atMs) BY <1>2, <1>6 DEF Pending
  <2>2. \A i \in DOMAIN new : IF i < kept.next THEN new[i].at <= atMs ELSE atMs <= new[i].at
    BY <1>2, <1>4, <1>8
  <2> HIDE DEF x
  <2>3. CoreTrue(x, atMs) BY <1>1, <1>6, <1>7, <2>1, <2>2 DEF Rest, CoreTrue
  <2>4. Under(x, atMs) BY <1>1, <1>6, <1>8 DEF Rest, Under
  <2> QED BY <2>3, <2>4 DEF Rest
<1>10. ASSUME NEW i \in kept.next..Len(new), NEW j \in DOMAIN kept.log PROVE kept.log[j].at <= new[i].at
  <2>1. i \in DOMAIN new /\ ~(i < kept.next) BY <1>2, <1>4
  <2>2. ~(new[i].at < atMs) BY <1>8, <2>1
  <2>3. kept.log[j].at <= atMs BY <1>1 DEF Rest, CoreTrue
  <2>4. kept.log[j].at \in Int
    <3>1. kept.log \in Seq(Entry) BY <1>2 DEF DayState
    <3>2. kept.log[j] \in Entry BY <3>1
    <3> QED BY <3>2 DEF Entry
  <2> QED BY <1>2, <1>4, <2>1, <2>2, <2>3, <2>4
<1>11. kept.next <= Len(new) + 1 BY <1>7
<1>12. day' = x /\ kept' = kept => Resume(patches)
  BY <1>5, <1>10, <1>11 DEF Resume, new
<1> QED BY <1>9, <1>12 DEF new

(* Every step keeps the invariant, and is one of the day's or none. *)
LEMMA StepTrue ==
  ASSUME ~HookSchedules, Inv, [DayRunNext]_vars
  PROVE  Inv' /\ [Next]_<<day, kept>>
<1>1. ASSUME NEW untilMs \in 0..DayEnd, Advance(untilMs) PROVE Inv' /\ [Next]_<<day, kept>>
  <2>1. Rest(day, now) /\ now \in 0..DayEnd /\ DayEnd \in Nat BY <1>1, DayAssumption DEF Advance, Inv, Rest, CoreTrue
  <2>2. goal' \in now..DayEnd /\ goal' = untilMs BY <1>1, <2>1 DEF Advance
  <2>3. Under(day, goal')
    <3>1. \A i \in DOMAIN day.inDay : day.inDay[i].at \in Int
      BY <2>1, StateFacts DEF Rest
    <3>2. \A i \in DOMAIN day.log : day.log[i].at \in Int
      BY <2>1, StateFacts DEF Rest
    <3>3. \A i \in DOMAIN day.inDay : i < day.next => day.inDay[i].at < goal'
      BY <2>1, <2>2, <3>1 DEF Rest, Under
    <3>4. ASSUME NEW i \in DOMAIN day.log
          PROVE day.log[i].at < goal' \/ (day.log[i].what = "bucket" /\ day.log[i].at = goal')
      <4>1. day.log[i].at < now \/ (day.log[i].what = "bucket" /\ day.log[i].at = now) BY <2>1 DEF Rest, Under
      <4> QED BY <2>1, <2>2, <3>2, <4>1
    <3> QED BY <3>3, <3>4 DEF Under
  <2> QED BY <1>1, <2>1, <2>2, <2>3 DEF Advance, Inv, Rest
<1>2. ASSUME StartClosing PROVE Inv' /\ [Next]_<<day, kept>>
  <2>1. CoreTrue(day, now) /\ Under(day, goal) /\ goal \in now..DayEnd /\ now \in 0..DayEnd /\ DayEnd \in Nat
    BY <1>2, DayAssumption DEF StartClosing, Inv, CoreTrue
  <2>2. NextAt \in now..DayEnd /\ Clear(day, NextAt) BY <2>1, NextFacts
  <2>3. ASSUME Passed, limit' = goal PROVE limit' \in now..goal /\ Clear(day, limit')
    <3>1. goal <= NextAt BY <2>1, <2>2, <2>3 DEF Passed
    <3>2. \A e \in day.pending : e.at \in Nat BY <2>1, StateFacts
    <3>3. \A i \in day.next..Len(day.inDay) : day.inDay[i].at \in Int BY <2>1, StateFacts
    <3> QED BY <2>1, <2>2, <2>3, <3>1, <3>2, <3>3 DEF Clear
  <2>4. ASSUME ~Passed, limit' = NextAt PROVE limit' \in now..goal /\ Clear(day, limit')
    BY <2>1, <2>2, <2>4 DEF Passed
  <2> QED BY <1>2, <2>1, <2>3, <2>4 DEF StartClosing, Inv
<1>3. ASSUME CloseNext PROVE Inv' /\ [Next]_<<day, kept>>
  <2>1. /\ CoreTrue(day, now) /\ Under(day, goal) /\ goal \in now..DayEnd /\ now \in 0..DayEnd /\ DayEnd \in Nat
        /\ limit \in now..goal /\ Clear(day, limit) /\ NextBoundary <= limit /\ phase \in {"close", "end"}
        /\ (phase = "end" => limit = goal)
    BY <1>3, DayAssumption DEF CloseNext, Inv, CoreTrue
  <2>2. limit \in Nat /\ goal \in Nat /\ limit <= goal /\ goal <= DayEnd BY <2>1
  <2> DEFINE x == CloseBucket(day)
  <2>3. CoreTrue(x, NextBoundary) /\ Under(x, goal) /\ Clear(x, limit) /\ now <= NextBoundary /\ NextBoundary \in Nat
    BY <2>1, <2>2, ClosedTrue
  <2>4. day' = x /\ now' = NextBoundary /\ kept' = kept /\ phase' = phase /\ goal' = goal /\ limit' = limit /\ atMs' = atMs
    BY <1>3 DEF CloseNext
  <2> HIDE DEF x
  <2>5. limit' \in now'..goal' /\ goal' \in now'..DayEnd BY <2>1, <2>2, <2>3, <2>4
  <2>6. Inv' BY <2>1, <2>3, <2>4, <2>5 DEF Inv
  <2>7. Boundary
    <3>1. day.closedTo + BucketMs = NextBoundary /\ NextBoundary <= DayEnd BY <2>1, <2>2, <2>3 DEF NextBoundary
    <3>2. \A e \in day.pending : e.at \in Nat BY <2>1, StateFacts
    <3>3. \A i \in day.next..Len(day.inDay) : day.inDay[i].at \in Int BY <2>1, StateFacts
    <3>4. NoEventBefore(NextBoundary) BY <2>1, <2>2, <2>3, <3>2 DEF Clear, NoEventBefore
    <3>5. NoPatchBefore(NextBoundary) BY <2>1, <2>2, <2>3, <3>3 DEF Clear, NoPatchBefore
    <3> QED BY <2>4, <3>1, <3>4, <3>5 DEF Boundary, x
  <2> QED BY <2>4, <2>6, <2>7 DEF Next
<1>4. ASSUME Closed PROVE Inv' /\ [Next]_<<day, kept>>
  <2>1. /\ CoreTrue(day, now) /\ Under(day, goal) /\ goal \in now..DayEnd /\ now \in 0..DayEnd /\ DayEnd \in Nat
        /\ limit \in now..goal /\ Clear(day, limit) /\ NextBoundary > limit /\ phase \in {"close", "end"}
        /\ (phase = "end" => limit = goal)
    BY <1>4, DayAssumption DEF Closed, Inv, CoreTrue
  <2>2. ASSUME phase = "end" PROVE Rest(day, goal)
    <3>1. limit = goal BY <2>1, <2>2
    <3>2. /\ day \in DayState /\ Pending(day, now) /\ day.closedTo \in Nat /\ BucketMs \in Nat
          /\ NextBoundary = day.closedTo + BucketMs
          /\ day.next \in 1..(Len(day.inDay) + 1) /\ Len(day.inDay) \in Nat /\ DOMAIN day.inDay = 1..Len(day.inDay)
          /\ \A i \in DOMAIN day.inDay : day.inDay[i].at \in 0..(DayEnd - 1)
          /\ \A i \in DOMAIN day.log : day.log[i].at \in Int
      BY <2>1, StateFacts
    <3>3. Pending(day, goal) BY <2>1, <3>1, <3>2 DEF Pending, Clear
    <3>4. day.closedTo <= goal /\ goal < day.closedTo + BucketMs /\ goal \in 0..DayEnd
      BY <2>1, <3>1, <3>2 DEF CoreTrue
    <3>5. ASSUME NEW i \in DOMAIN day.inDay
          PROVE  IF i < day.next THEN day.inDay[i].at <= goal ELSE goal <= day.inDay[i].at
      <4>1. CASE i < day.next
        <5>1. day.inDay[i].at < goal BY <2>1, <4>1 DEF Under
        <5> QED BY <2>1, <3>2, <4>1, <5>1
      <4>2. CASE ~(i < day.next)
        <5>1. i \in day.next..Len(day.inDay) BY <3>2, <4>2
        <5> QED BY <2>1, <3>1, <4>2, <5>1 DEF Clear
      <4> QED BY <4>1, <4>2
    <3>6. \A i \in DOMAIN day.log : day.log[i].at <= goal
      <4> SUFFICES ASSUME NEW i \in DOMAIN day.log PROVE day.log[i].at <= goal OBVIOUS
      <4>1. day.log[i].at <= now BY <2>1 DEF CoreTrue
      <4> QED BY <2>1, <3>2, <4>1
    <3> QED BY <2>1, <3>2, <3>3, <3>4, <3>5, <3>6 DEF Rest, CoreTrue
  <2> QED BY <1>4, <2>1, <2>2 DEF Closed, Inv
<1>5. ASSUME Dispatch PROVE Inv' /\ [Next]_<<day, kept>>
  <2>1. CoreTrue(day, now) /\ Under(day, goal) /\ goal \in now..DayEnd /\ ~Passed /\ ~Crosses
    BY <1>5 DEF Dispatch, Inv
  <2> DEFINE x == IF PatchFirst THEN ApplyPatch(day) ELSE OnEvent(day, CHOOSE e \in day.pending : Earliest(e))
  <2>2. /\ CoreTrue(x, NextAt) /\ Under(x, goal) /\ goal \in NextAt..DayEnd
        /\ day' = x => PatchApplies \/ \E e \in day.pending : EventRuns(e)
    BY <2>1, DispatchTrue
  <2>3. day' = x /\ now' = NextAt /\ kept' = kept /\ phase' = phase /\ goal' = goal /\ limit' = limit /\ atMs' = atMs
        /\ phase = "pick"
    BY <1>5 DEF Dispatch
  <2> HIDE DEF x
  <2>4. Inv' BY <2>2, <2>3 DEF Inv
  <2> QED BY <2>2, <2>3, <2>4 DEF Next
<1>6. ASSUME Throw PROVE Inv' /\ [Next]_<<day, kept>>
  BY <1>6 DEF Throw, Inv
<1>7. ASSUME Checkpoint PROVE Inv' /\ [Next]_<<day, kept>>
  BY <1>7 DEF Checkpoint, Inv, Next, Keep
<1>8. ASSUME NEW patches \in Partitions, Restore(patches) PROVE Inv' /\ [Next]_<<day, kept>>
  <2> DEFINE x == [kept EXCEPT !.inDay = patches.inDay]
  <2>1. kept # None /\ day' = x /\ now' = atMs /\ phase' = "idle" /\ kept' = kept /\ atMs' = atMs
    BY <1>8 DEF Restore
  <2>2. Rest(x, atMs) /\ (day' = x /\ kept' = kept => Resume(patches))
    BY <1>8, RestoreTrue DEF Restore
  <2> HIDE DEF x
  <2> QED BY <2>1, <2>2 DEF Inv, Next
<1>9. ASSUME UNCHANGED vars PROVE Inv' /\ [Next]_<<day, kept>>
  BY <1>9 DEF vars, Inv
<1> QED BY <1>1, <1>2, <1>3, <1>4, <1>5, <1>6, <1>7, <1>8, <1>9 DEF DayRunNext

-----------------------------------------------------------------------------
(* Between two advances exactly what comes before their time has happened,   *)
(* so a day may be cut, kept and restored there (core/README.md), and the    *)
(* core's own checks (assertCore) never fail.                                *)
THEOREM CheckpointsAreExact ==
  ASSUME ~HookSchedules PROVE DayRunSpec => []CheckpointExact
<1>1. DayRunInit => Inv BY InitTrue
<1>2. Inv /\ [DayRunNext]_vars => Inv' BY StepTrue
<1>3. Inv => CheckpointExact BY InvExact
<1> QED BY <1>1, <1>2, <1>3, PTL DEF DayRunSpec

(* A day run is a day of DayOrder: boundaries, patches and events come in    *)
(* their order, however the day is advanced, checkpointed and restored       *)
(* (core/run.ts, the boundary rule).                                         *)
THEOREM RunsAreDays ==
  ASSUME ~HookSchedules PROVE DayRunSpec => Whole
<1>1. DayRunInit => Inv /\ Init BY InitTrue DEF DayRunInit
<1>2. Inv /\ [DayRunNext]_vars => Inv' /\ [Next]_<<day, kept>> BY StepTrue
<1> QED BY <1>1, <1>2, PTL DEF DayRunSpec, Whole, Spec

=============================================================================
