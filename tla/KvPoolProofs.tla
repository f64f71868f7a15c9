---------------------------- MODULE KvPoolProofs ----------------------------
(***************************************************************************)
(* Proof that the KV pool is consistent, for pools of any size and any      *)
(* number of holders.  First induction and recursion over an interval, from *)
(* the least element of a set of numbers; what the operators on sequences   *)
(* return; what each call does to a pool that is accounted for; and then    *)
(* the invariant of the pool together with the tables.                      *)
(***************************************************************************)
EXTENDS KvPool, FiniteSetTheorems, SequenceTheorems, WellFoundedInduction, TLAPS

-----------------------------------------------------------------------------
(* Induction and sequences. *)

(* Every nonempty set of natural numbers has a least one. *)
LEMMA Least ==
  ASSUME NEW T \in SUBSET Nat, T # {}
  PROVE  \E x \in T : \A y \in T : x <= y
<1>1. \E x \in T : \A y \in T : ~(<<y, x>> \in OpToRel(<, Nat))
  BY NatLessThanWellFounded, WFMin, Zenon
<1>2. \A x, y \in Nat : x < y => <<x, y>> \in OpToRel(<, Nat)
  BY DEF OpToRel
<1>3. PICK x \in T : \A y \in T : ~(<<y, x>> \in OpToRel(<, Nat)) BY <1>1
<1>4. \A y \in T : ~(y < x) BY <1>2, <1>3
<1> QED BY <1>4

(* Induction over an interval, for a set that is to hold all of it. *)
LEMMA IntervalInduction ==
  ASSUME NEW m \in Int, NEW n \in Int, NEW S, m \in S, \A i \in (m + 1)..n : i - 1 \in S => i \in S
  PROVE  \A i \in m..n : i \in S
<1> DEFINE T == {k \in Nat : m + k <= n /\ m + k \notin S}
<1> SUFFICES ASSUME NEW i \in m..n, i \notin S PROVE FALSE OBVIOUS
<1>1. i - m \in T OBVIOUS
<1>2. PICK x \in T : \A y \in T : x <= y BY <1>1, Least
<1>3. x # 0 BY <1>2
<1>4. x - 1 \in Nat /\ x - 1 \notin T BY <1>2, <1>3
<1>5. m + (x - 1) \in S BY <1>2, <1>4
<1> QED BY <1>2, <1>3, <1>5

(* A function over an interval may be defined by recursion: f[m] = c, and    *)
(* f[i] is what `step` makes of i and f[i - 1].                              *)
Built(m, n, V, c, step) ==
  \E f \in [m..n -> V] : f[m] = c /\ \A i \in m..n : i # m => f[i] = step[<<i, f[i - 1]>>]

(* A function built so exists. *)
LEMMA Recursion ==
  ASSUME NEW m \in Int, NEW n \in Int, m <= n, NEW V, NEW c \in V,
         NEW step \in [(m..n) \X V -> V]
  PROVE  Built(m, n, V, c, step)
<1> DEFINE Upto(k, f) == f[m] = c /\ \A i \in m..k : i # m => f[i] = step[<<i, f[i - 1]>>]
           To(k) == \E f \in [m..k -> V] : Upto(k, f)
           S == {k \in m..n : To(k)}
<1>1. To(m)
  <2> DEFINE f == [i \in m..m |-> c]
  <2>0. \A i \in m..m : i = m OBVIOUS
  <2>1. f \in [m..m -> V] OBVIOUS
  <2>2. m \in m..m /\ f[m] = c OBVIOUS
  <2>3. Upto(m, f) BY <2>0, <2>2
  <2> HIDE DEF f
  <2> WITNESS f \in [m..m -> V]
  <2> QED BY <2>3
<1>2. ASSUME NEW k \in m..n, k # m, To(k - 1) PROVE To(k)
  <2>1. PICK f \in [m..(k - 1) -> V] : Upto(k - 1, f) BY <1>2
  <2> DEFINE g == [i \in m..k |-> IF i = k THEN step[<<k, f[k - 1]>>] ELSE f[i]]
  <2>2. k - 1 \in m..(k - 1) /\ f[k - 1] \in V BY <1>2, <2>1
  <2>3. step[<<k, f[k - 1]>>] \in V BY <1>2, <2>2
  <2>4. \A i \in m..k : i # k => i \in m..(k - 1) OBVIOUS
  <2>5. g \in [m..k -> V] BY <2>1, <2>3, <2>4
  <2>6. m \in m..k /\ m # k /\ m \in m..(k - 1) BY <1>2
  <2>7. g[m] = c BY <2>1, <2>6
  <2>8. ASSUME NEW i \in m..k, i # m PROVE g[i] = step[<<i, g[i - 1]>>]
    <3>1. CASE i = k
      <4>1. g[k] = step[<<k, f[k - 1]>>] /\ g[k - 1] = f[k - 1] BY <1>2, <2>4
      <4> HIDE DEF g
      <4> QED BY <3>1, <4>1
    <3>2. CASE i # k
      <4>1. i \in m..(k - 1) /\ i - 1 \in m..k /\ i - 1 # k BY <2>8, <3>2
      <4>2. g[i] = f[i] /\ g[i - 1] = f[i - 1] BY <3>2, <4>1
      <4>3. f[i] = step[<<i, f[i - 1]>>] BY <2>1, <2>8, <4>1
      <4> HIDE DEF g
      <4> QED BY <4>2, <4>3
    <3> QED BY <3>1, <3>2
  <2> HIDE DEF g
  <2> WITNESS g \in [m..k -> V]
  <2> QED BY <2>7, <2>8
<1> HIDE DEF To
<1>3. m \in S BY <1>1
<1>4. \A i \in (m + 1)..n : i - 1 \in S => i \in S
  <2> SUFFICES ASSUME NEW i \in (m + 1)..n, i - 1 \in S PROVE i \in S OBVIOUS
  <2>1. i \in m..n /\ i # m /\ To(i - 1) OBVIOUS
  <2> QED BY <1>2, <2>1
<1> HIDE DEF S
<1>5. n \in S BY <1>3, <1>4, IntervalInduction
<1>6. To(n) BY <1>5 DEF S
<1> QED BY <1>6 DEF To, Built

-----------------------------------------------------------------------------
(* What appending an element does to the members of a sequence. *)
LEMMA AppendSet ==
  ASSUME NEW B, NEW s \in Seq(B), NEW x \in B
  PROVE  /\ Append(s, x) \in Seq(B) /\ ToSet(Append(s, x)) = ToSet(s) \cup {x}
         /\ IsInjective(s) /\ x \notin ToSet(s) => IsInjective(Append(s, x))
<1> DEFINE t == Append(s, x)
<1>1. /\ t \in Seq(B) /\ Len(s) \in Nat /\ Len(t) = Len(s) + 1 /\ t[Len(s) + 1] = x
      /\ \A i \in 1..Len(s) : t[i] = s[i]
  OBVIOUS
<1>2. DOMAIN s = 1..Len(s) /\ DOMAIN t = 1..(Len(s) + 1) BY <1>1
<1> HIDE DEF t
<1>3. \A i \in 1..(Len(s) + 1) : i = Len(s) + 1 \/ i \in 1..Len(s) BY <1>1
<1>4. \A i \in 1..Len(s) : i \in 1..(Len(s) + 1) BY <1>1
<1>5. Len(s) + 1 \in 1..(Len(s) + 1) BY <1>1
<1>6. ToSet(t) = ToSet(s) \cup {x} BY <1>1, <1>2, <1>3, <1>4, <1>5 DEF ToSet
<1>7. ASSUME IsInjective(s), x \notin ToSet(s) PROVE IsInjective(t)
  BY <1>1, <1>2, <1>3, <1>7 DEF ToSet, IsInjective
<1> QED BY <1>1, <1>6, <1>7 DEF t

(* Only keeps the members that are in the set, and no duplicates appear. *)
LEMMA OnlyProperties ==
  ASSUME NEW B, NEW s \in Seq(B), NEW S
  PROVE  /\ Only(s, S) \in Seq(B) /\ ToSet(Only(s, S)) = ToSet(s) \cap S
         /\ IsInjective(s) => IsInjective(Only(s, S))
<1> DEFINE Grows(f, n) == IF n = 0 THEN <<>>
                          ELSE IF s[n] \in S THEN Append(f[n - 1], s[n]) ELSE f[n - 1]
           Fits(f) == f = [n \in 0..Len(s) |-> Grows(f, n)]
           step == [x \in (0..Len(s)) \X Seq(B) |-> IF x[1] # 0 /\ s[x[1]] \in S THEN Append(x[2], s[x[1]]) ELSE x[2]]
<1>1. Len(s) \in Nat /\ \A i \in 1..Len(s) : s[i] \in B OBVIOUS
<1>2. \A i \in 1..Len(s), v \in Seq(B) : step[<<i, v>>] = (IF s[i] \in S THEN Append(v, s[i]) ELSE v)
  OBVIOUS
<1>3. step \in [(0..Len(s)) \X Seq(B) -> Seq(B)]
  <2>1. \A x \in (0..Len(s)) \X Seq(B) : x[2] \in Seq(B) /\ (x[1] # 0 => s[x[1]] \in B) BY <1>1
  <2>2. \A x \in (0..Len(s)) \X Seq(B) : x[1] # 0 => Append(x[2], s[x[1]]) \in Seq(B) BY <2>1
  <2> QED BY <2>1, <2>2
<1>4. <<>> \in Seq(B) /\ 0 \in Int /\ Len(s) \in Int /\ 0 <= Len(s) OBVIOUS
<1> HIDE DEF step
<1>5. \E f \in [0..Len(s) -> Seq(B)] : f[0] = <<>> /\ \A i \in 0..Len(s) : i # 0 => f[i] = step[<<i, f[i - 1]>>]
  <2>1. Built(0, Len(s), Seq(B), <<>>, step) BY <1>3, <1>4, Recursion
  <2> QED BY <2>1 DEF Built
<1>6. PICK f \in [0..Len(s) -> Seq(B)] : f[0] = <<>> /\ \A i \in 0..Len(s) : i # 0 => f[i] = step[<<i, f[i - 1]>>]
  BY <1>5
<1>7. ASSUME NEW n \in 0..Len(s) PROVE f[n] = Grows(f, n)
  <2>1. CASE n = 0 BY <1>6, <2>1
  <2>2. CASE n # 0
    <3>1. n \in 1..Len(s) /\ n - 1 \in 0..Len(s) BY <2>2
    <3>2. f[n - 1] \in Seq(B) BY <3>1
    <3> QED BY <1>2, <1>6, <2>2, <3>1, <3>2
  <2> QED BY <2>1, <2>2
<1>8. Fits(f) BY <1>7
<1> DEFINE g == CHOOSE x : Fits(x)
<1>9. Fits(g) BY <1>8
<1>10. Only(s, S) = g[Len(s)] BY Zenon DEF Only
<1> HIDE DEF g
<1>11. \A n \in 0..Len(s) : g[n] = Grows(g, n) BY <1>9
<1> DEFINE Upto(n) == {s[i] : i \in 1..n}
           Good == {n \in 0..Len(s) : /\ g[n] \in Seq(B) /\ ToSet(g[n]) = Upto(n) \cap S
                                      /\ IsInjective(s) => IsInjective(g[n])}
<1>12. 0 \in Good
  <2>1. g[0] = <<>> BY <1>4, <1>11
  <2>2. ToSet(<<>>) = {} /\ IsInjective(<<>>) BY DEF ToSet, IsInjective
  <2>3. Upto(0) = {} OBVIOUS
  <2> QED BY <1>4, <2>1, <2>2, <2>3
<1>13. ASSUME NEW n \in (0 + 1)..Len(s), n - 1 \in Good PROVE n \in Good
  <2>1. n \in 0..Len(s) /\ n # 0 /\ n \in 1..Len(s) /\ s[n] \in B BY <1>1
  <2>2. g[n] = IF s[n] \in S THEN Append(g[n - 1], s[n]) ELSE g[n - 1] BY <1>11, <2>1
  <2>3. g[n - 1] \in Seq(B) /\ ToSet(g[n - 1]) = Upto(n - 1) \cap S /\ (IsInjective(s) => IsInjective(g[n - 1]))
    BY <1>13
  <2>4. Upto(n) = Upto(n - 1) \cup {s[n]}
    <3>1. \A i : i \in 1..n <=> (i \in 1..(n - 1) \/ i = n) BY <2>1
    <3> QED BY <3>1
  <2> DEFINE before == Upto(n - 1)  all == Upto(n)  h == g[n - 1]
  <2>5. IsInjective(s) => s[n] \notin before
    <3>1. DOMAIN s = 1..Len(s) /\ \A i \in 1..(n - 1) : i \in 1..Len(s) /\ i # n BY <2>1
    <3> QED BY <2>1, <3>1 DEF IsInjective
  <2> HIDE DEF before, all, Good
  <2>6. CASE s[n] \in S
    <3>1. /\ Append(h, s[n]) \in Seq(B) /\ ToSet(Append(h, s[n])) = ToSet(h) \cup {s[n]}
          /\ IsInjective(h) /\ s[n] \notin ToSet(h) => IsInjective(Append(h, s[n]))
      BY <2>1, <2>3, AppendSet
    <3>2. g[n] = Append(h, s[n]) BY <2>2, <2>6
    <3>3. ToSet(h) = before \cap S /\ all = before \cup {s[n]} BY <2>3, <2>4 DEF before, all
    <3>4. ToSet(g[n]) = all \cap S BY <2>6, <3>1, <3>2, <3>3
    <3>5. IsInjective(s) => IsInjective(g[n]) BY <2>3, <2>5, <3>1, <3>2, <3>3
    <3> QED BY <2>1, <3>1, <3>2, <3>4, <3>5 DEF Good, all
  <2>7. CASE s[n] \notin S
    <3>1. g[n] = h BY <2>2, <2>7
    <3>2. ToSet(g[n]) = all \cap S BY <2>3, <2>4, <2>7, <3>1 DEF before, all
    <3> QED BY <2>1, <2>3, <3>1, <3>2 DEF Good, all
  <2> QED BY <2>6, <2>7
<1> HIDE DEF Good
<1>14. \A n \in 0..Len(s) : n \in Good
  <2>1. \A n \in (0 + 1)..Len(s) : n - 1 \in Good => n \in Good BY <1>13
  <2> QED BY ONLY <1>4, <1>12, <2>1, IntervalInduction, Zenon
<1>15. Len(s) \in Good BY <1>1, <1>14
<1>16. Upto(Len(s)) = ToSet(s) BY DEF ToSet
<1> QED BY <1>10, <1>15, <1>16 DEF Good

(* The members of a concatenation, and when none occurs twice. *)
LEMMA ConcatSet ==
  ASSUME NEW B, NEW s \in Seq(B), NEW t \in Seq(B)
  PROVE  /\ s \o t \in Seq(B) /\ ToSet(s \o t) = ToSet(s) \cup ToSet(t)
         /\ Len(s \o t) = Len(s) + Len(t)
         /\ \A i \in 1..Len(s) : (s \o t)[i] = s[i]
         /\ \A i \in (Len(s) + 1)..(Len(s) + Len(t)) : (s \o t)[i] = t[i - Len(s)]
         /\ IsInjective(s) /\ IsInjective(t) /\ ToSet(s) \cap ToSet(t) = {} => IsInjective(s \o t)
<1> DEFINE u == s \o t
<1>1. /\ u \in Seq(B) /\ Len(s) \in Nat /\ Len(t) \in Nat /\ Len(u) = Len(s) + Len(t)
      /\ \A i \in 1..Len(s) : u[i] = s[i]
      /\ \A i \in (Len(s) + 1)..(Len(s) + Len(t)) : u[i] = t[i - Len(s)]
  OBVIOUS
<1>2. DOMAIN s = 1..Len(s) /\ DOMAIN t = 1..Len(t) /\ DOMAIN u = 1..(Len(s) + Len(t)) BY <1>1
<1> HIDE DEF u
<1>3. \A i \in 1..(Len(s) + Len(t)) : i \in 1..Len(s) \/ (i \in (Len(s) + 1)..(Len(s) + Len(t)) /\ i - Len(s) \in 1..Len(t))
  BY <1>1
<1>4. \A i \in 1..Len(s) : i \in 1..(Len(s) + Len(t)) BY <1>1
<1>5. \A i \in 1..Len(t) : /\ i + Len(s) \in 1..(Len(s) + Len(t))
                           /\ i + Len(s) \in (Len(s) + 1)..(Len(s) + Len(t)) /\ i + Len(s) - Len(s) = i
  BY <1>1
<1>6. ToSet(u) = ToSet(s) \cup ToSet(t)
  <2>1. ASSUME NEW i \in 1..Len(t) PROVE u[i + Len(s)] = t[i]
    <3> DEFINE j == i + Len(s)
    <3>1. j \in (Len(s) + 1)..(Len(s) + Len(t)) /\ j - Len(s) = i BY <1>5
    <3> HIDE DEF j
    <3>2. u[j] = t[i] BY <1>1, <3>1
    <3> QED BY <3>2 DEF j
  <2>2. ToSet(t) \subseteq ToSet(u) BY <1>2, <1>5, <2>1 DEF ToSet
  <2>3. ToSet(s) \subseteq ToSet(u) BY <1>1, <1>2, <1>4 DEF ToSet
  <2>4. ToSet(u) \subseteq ToSet(s) \cup ToSet(t) BY <1>1, <1>2, <1>3 DEF ToSet
  <2> QED BY <2>2, <2>3, <2>4
<1>7. ASSUME IsInjective(s), IsInjective(t), ToSet(s) \cap ToSet(t) = {} PROVE IsInjective(u)
  <2> SUFFICES ASSUME NEW i \in DOMAIN u, NEW j \in DOMAIN u, u[i] = u[j] PROVE i = j
    BY DEF IsInjective
  <2>1. CASE i \in 1..Len(s) /\ j \in 1..Len(s) BY <1>1, <1>2, <1>7, <2>1 DEF IsInjective
  <2>2. CASE i \notin 1..Len(s) /\ j \notin 1..Len(s)
    <3>1. i - Len(s) \in 1..Len(t) /\ j - Len(s) \in 1..Len(t) /\ t[i - Len(s)] = t[j - Len(s)]
      BY <1>1, <1>2, <1>3, <2>2
    <3>2. i - Len(s) = j - Len(s) BY <1>2, <1>7, <3>1 DEF IsInjective
    <3> QED BY <1>1, <1>2, <3>2
  <2>3. CASE i \in 1..Len(s) /\ j \notin 1..Len(s)
    <3>1. u[i] \in ToSet(s) /\ u[j] \in ToSet(t) BY <1>1, <1>2, <1>3, <2>3 DEF ToSet
    <3> QED BY <1>7, <3>1
  <2>4. CASE i \notin 1..Len(s) /\ j \in 1..Len(s)
    <3>1. u[j] \in ToSet(s) /\ u[i] \in ToSet(t) BY <1>1, <1>2, <1>3, <2>4 DEF ToSet
    <3> QED BY <1>7, <3>1
  <2> QED BY <2>1, <2>2, <2>3, <2>4
<1> QED BY <1>1, <1>6, <1>7 DEF u

(* A sequence cut in two. *)
LEMMA SubSeqSet ==
  ASSUME NEW B, NEW s \in Seq(B), NEW k \in 0..Len(s)
  PROVE  /\ SubSeq(s, 1, k) \in Seq(B) /\ SubSeq(s, k + 1, Len(s)) \in Seq(B)
         /\ Len(SubSeq(s, 1, k)) = k /\ Len(SubSeq(s, k + 1, Len(s))) = Len(s) - k
         /\ ToSet(s) = ToSet(SubSeq(s, 1, k)) \cup ToSet(SubSeq(s, k + 1, Len(s)))
         /\ IsInjective(s) => /\ IsInjective(SubSeq(s, 1, k)) /\ IsInjective(SubSeq(s, k + 1, Len(s)))
                              /\ ToSet(SubSeq(s, 1, k)) \cap ToSet(SubSeq(s, k + 1, Len(s))) = {}
<1> DEFINE u == SubSeq(s, 1, k)  v == SubSeq(s, k + 1, Len(s))  l == Len(s)
<1>1. /\ l \in Nat /\ DOMAIN s = 1..l /\ k \in 0..l
      /\ u \in Seq(B) /\ Len(u) = k /\ DOMAIN u = 1..k /\ \A i \in 1..k : u[i] = s[i]
      /\ v \in Seq(B) /\ Len(v) = l - k /\ DOMAIN v = 1..(l - k) /\ \A i \in 1..(l - k) : v[i] = s[i + k]
  OBVIOUS
<1> HIDE DEF u, v, l
<1>2. /\ \A i \in 1..k : i \in 1..l
      /\ \A i \in 1..(l - k) : i + k \in 1..l /\ i + k \notin 1..k
      /\ \A i \in 1..l : i \in 1..k \/ (i - k \in 1..(l - k) /\ (i - k) + k = i)
  BY <1>1
<1>3. ToSet(s) = ToSet(u) \cup ToSet(v)
  <2>1. ASSUME NEW i \in 1..l PROVE s[i] \in ToSet(u) \cup ToSet(v)
    <3>1. CASE i \in 1..k BY <1>1, <3>1 DEF ToSet
    <3>2. CASE i \notin 1..k
      <4>1. i - k \in 1..(l - k) /\ (i - k) + k = i BY <1>2, <3>2
      <4>2. v[i - k] = s[(i - k) + k] BY <1>1, <4>1
      <4> QED BY <1>1, <4>1, <4>2 DEF ToSet
    <3> QED BY <3>1, <3>2
  <2>2. \A i \in 1..k : u[i] \in ToSet(s) BY <1>1, <1>2 DEF ToSet
  <2>3. ASSUME NEW i \in 1..(l - k) PROVE v[i] \in ToSet(s)
    <3>1. i + k \in 1..l /\ v[i] = s[i + k] BY <1>1, <1>2
    <3> QED BY <1>1, <3>1 DEF ToSet
  <2>4. ToSet(s) = {s[i] : i \in 1..l} /\ ToSet(u) = {u[i] : i \in 1..k} /\ ToSet(v) = {v[i] : i \in 1..(l - k)}
    BY <1>1 DEF ToSet
  <2> QED BY <2>1, <2>2, <2>3, <2>4
<1>4. ASSUME IsInjective(s) PROVE IsInjective(u) /\ IsInjective(v) /\ ToSet(u) \cap ToSet(v) = {}
  <2>1. IsInjective(u) BY <1>1, <1>2, <1>4 DEF IsInjective
  <2>2. IsInjective(v)
    <3> SUFFICES ASSUME NEW i \in 1..(l - k), NEW j \in 1..(l - k), v[i] = v[j] PROVE i = j
      BY <1>1 DEF IsInjective
    <3>1. i + k \in 1..l /\ j + k \in 1..l /\ s[i + k] = s[j + k] BY <1>1, <1>2
    <3>2. i + k = j + k BY <1>1, <1>4, <3>1 DEF IsInjective
    <3> QED BY <1>1, <3>2
  <2>3. ASSUME NEW i \in 1..k, NEW j \in 1..(l - k), u[i] = v[j] PROVE FALSE
    <3>1. i \in 1..l /\ j + k \in 1..l /\ s[i] = s[j + k] BY <1>1, <1>2, <2>3
    <3>2. i = j + k BY <1>1, <1>4, <3>1 DEF IsInjective
    <3> QED BY <1>2, <3>2
  <2>4. ToSet(u) \cap ToSet(v) = {} BY <1>1, <2>3 DEF ToSet
  <2> QED BY <2>1, <2>2, <2>4
<1> QED BY <1>1, <1>3, <1>4 DEF u, v, l

(* Reversing keeps the members. *)
LEMMA ReverseSet ==
  ASSUME NEW B, NEW s \in Seq(B)
  PROVE  /\ Reverse(s) \in Seq(B) /\ ToSet(Reverse(s)) = ToSet(s) /\ Len(Reverse(s)) = Len(s)
         /\ IsInjective(s) => IsInjective(Reverse(s))
<1> DEFINE l == Len(s)  r == Reverse(s)
<1>1. l \in Nat /\ DOMAIN s = 1..l /\ \A i \in 1..l : s[i] \in B OBVIOUS
<1>2. \A i \in 1..l : (l - i) + 1 \in 1..l /\ (l - ((l - i) + 1)) + 1 = i BY <1>1
<1>3. r = [i \in 1..l |-> s[(l - i) + 1]] BY DEF Reverse
<1>4. r \in Seq(B) /\ Len(r) = l /\ DOMAIN r = 1..l /\ \A i \in 1..l : r[i] = s[(l - i) + 1]
  BY <1>1, <1>2, <1>3
<1> HIDE DEF l, r
<1>5. ToSet(r) = ToSet(s)
  <2>1. ToSet(r) \subseteq ToSet(s) BY <1>1, <1>2, <1>4 DEF ToSet
  <2>2. \A i \in 1..l : s[i] = r[(l - i) + 1] BY <1>2, <1>4
  <2>3. ToSet(s) \subseteq ToSet(r) BY <1>1, <1>2, <1>4, <2>2 DEF ToSet
  <2> QED BY <2>1, <2>3
<1>6. ASSUME IsInjective(s) PROVE IsInjective(r)
  <2>1. \A i, j \in 1..l : (l - i) + 1 = (l - j) + 1 => i = j BY <1>1
  <2> QED BY <1>1, <1>2, <1>4, <1>6, <2>1 DEF IsInjective
<1> QED BY <1>4, <1>5, <1>6 DEF l, r

(* A sequence without duplicates is as long as its members are many. *)
LEMMA InjectiveLen ==
  ASSUME NEW B, NEW s \in Seq(B), IsInjective(s)
  PROVE  IsFiniteSet(ToSet(s)) /\ Cardinality(ToSet(s)) = Len(s)
<1>1. Len(s) \in Nat /\ DOMAIN s = 1..Len(s) /\ s \in [1..Len(s) -> ToSet(s)] BY DEF ToSet
<1>2. s \in Bijection(1..Len(s), ToSet(s))
  BY <1>1 DEF Bijection, Injection, Surjection, IsInjective, ToSet
<1>3. ExistsBijection(1..Len(s), ToSet(s)) BY <1>2 DEF ExistsBijection
<1>4. IsFiniteSet(1..Len(s)) /\ Cardinality(1..Len(s)) = Len(s) BY <1>1, FS_Interval
<1> QED BY <1>3, <1>4, FS_Bijection

(* A finite set as a sequence. *)
LEMMA SetToSeqSet ==
  ASSUME NEW T, IsFiniteSet(T)
  PROVE  SetToSeq(T) \in Seq(T) /\ ToSet(SetToSeq(T)) = T /\ IsInjective(SetToSeq(T))
<1> DEFINE n == Cardinality(T)  r == SetToSeq(T)
<1>1. n \in Nat /\ ExistsBijection(1..n, T) BY FS_CardinalityType
<1>2. \E f \in [1..n -> T] : IsInjective(f)
  BY <1>1 DEF ExistsBijection, Bijection, Injection, IsInjective
<1>3. r \in [1..n -> T] /\ IsInjective(r) BY <1>2 DEF SetToSeq
<1> HIDE DEF r
<1>4. r \in Seq(T) BY <1>1, <1>3
<1>5. IsFiniteSet(1..n) /\ Cardinality(1..n) = n BY <1>1, FS_Interval
<1>6. r \in Injection(1..n, T) BY <1>3 DEF Injection, IsInjective
<1>7. r \in Surjection(1..n, T) BY <1>5, <1>6, FS_Injection
<1>8. ToSet(r) = T BY <1>3, <1>7 DEF Surjection, ToSet
<1> QED BY <1>3, <1>4, <1>8 DEF r

(* Taking from the top of a stack. *)
LEMMA TopOfStack ==
  ASSUME NEW B, NEW s \in Seq(B), NEW k \in 0..Len(s)
  PROVE  LET top == SubSeq(Reverse(s), 1, k)  rest == SubSeq(s, 1, Len(s) - k) IN
         /\ top \in Seq(B) /\ rest \in Seq(B) /\ Len(top) = k
         /\ ToSet(s) = ToSet(top) \cup ToSet(rest)
         /\ IsInjective(s) => IsInjective(top) /\ IsInjective(rest) /\ ToSet(top) \cap ToSet(rest) = {}
<1> DEFINE r == Reverse(s)  l == Len(s)  m == l - k
           top == SubSeq(r, 1, k)  rest == SubSeq(s, 1, m)  tail == SubSeq(s, m + 1, l)
<1>1. l \in Nat /\ m \in 0..l /\ l - m = k OBVIOUS
<1>2. r \in Seq(B) /\ Len(r) = l /\ (IsInjective(s) => IsInjective(r)) BY ReverseSet
<1>3. top \in Seq(B) /\ Len(top) = k /\ (IsInjective(s) => IsInjective(top))
  <2>1. k \in 0..Len(r) BY <1>2
  <2> HIDE DEF r
  <2> QED BY <1>2, <2>1, SubSeqSet
<1>4. /\ rest \in Seq(B) /\ tail \in Seq(B) /\ ToSet(s) = ToSet(rest) \cup ToSet(tail)
      /\ Len(tail) = l - m
      /\ IsInjective(s) => IsInjective(rest) /\ ToSet(rest) \cap ToSet(tail) = {}
  <2> HIDE DEF m
  <2> QED BY <1>1, SubSeqSet
<1>5. ToSet(top) = ToSet(tail)
  <2>1. \A i \in 1..l : r[i] = s[(l - i) + 1] BY DEF Reverse
  <2>2. \A i \in 1..k : top[i] = r[i] /\ i \in 1..l BY <1>1, <1>2
  <2>3. \A i \in 1..k : top[i] = s[(l - i) + 1] BY <2>1, <2>2
  <2>4. \A i \in 1..k : tail[i] = s[m + i]
    <3> SUFFICES ASSUME NEW i \in 1..k PROVE tail[i] = s[m + i] OBVIOUS
    <3>1. tail = [j \in 1..((l + 1) - (m + 1)) |-> s[((m + 1) + j) - 1]] OBVIOUS
    <3>2. i \in 1..((l + 1) - (m + 1)) /\ ((m + 1) + i) - 1 = m + i BY <1>1
    <3> QED BY <3>1, <3>2
  <2>5. ASSUME NEW i \in 1..k PROVE (k - i) + 1 \in 1..k /\ top[i] = tail[(k - i) + 1] /\ tail[i] = top[(k - i) + 1]
    <3> DEFINE j == (k - i) + 1
    <3>1. j \in 1..k /\ m + j = (l - i) + 1 /\ (l - j) + 1 = m + i BY <1>1
    <3> HIDE DEF j, m, l, top, tail
    <3>2. top[i] = s[(l - i) + 1] /\ tail[i] = s[m + i] BY <2>3, <2>4
    <3>3. top[j] = s[(l - j) + 1] /\ tail[j] = s[m + j] BY <2>3, <2>4, <3>1
    <3> QED BY <3>1, <3>2, <3>3 DEF j
  <2>6. DOMAIN top = 1..k /\ DOMAIN tail = 1..k
    <3> HIDE DEF top, tail
    <3> QED BY <1>1, <1>3, <1>4
  <2> HIDE DEF top, tail
  <2> QED BY <2>5, <2>6 DEF ToSet
<1> HIDE DEF r, m, top, rest, tail
<1>6. /\ ToSet(s) = ToSet(top) \cup ToSet(rest)
      /\ IsInjective(s) => IsInjective(top) /\ IsInjective(rest) /\ ToSet(top) \cap ToSet(rest) = {}
  BY <1>3, <1>4, <1>5
<1> QED BY <1>3, <1>4, <1>6 DEF top, rest, r, m, l

-----------------------------------------------------------------------------
(* The pool. *)
Key == (Session \cup {SystemOwner}) \X Nat
PoolRec ==
  [refCount : [Block -> Nat], contentKey : [Block -> Key \cup {NoKey}], lru : Seq(Block), free : Seq(Block),
   referenced : Int, evictable : Int, thrown : BOOLEAN]

Referenced(p) == {x \in Block : p.refCount[x] > 0}
Evictable(p) == {x \in Block : p.refCount[x] = 0 /\ p.contentKey[x] # NoKey}
Free(p) == {x \in Block : p.refCount[x] = 0 /\ p.contentKey[x] = NoKey}

(* There are finitely many blocks. *)
LEMMA BlockFinite == IsFiniteSet(Block) /\ \A S \in SUBSET Block : IsFiniteSet(S) /\ Cardinality(S) \in Nat
<1>1. IsFiniteSet(Block) BY KvAssumption, FS_Interval DEF Block
<1> QED BY <1>1, FS_Subset, FS_CardinalityType

(* Accounted, with the three kinds of blocks named. *)
LEMMA AccountedSets ==
  ASSUME NEW p \in PoolRec
  PROVE  Accounted(p) <=>
           /\ ToSet(p.lru) = Evictable(p) /\ ToSet(p.free) = Free(p)
           /\ IsInjective(p.lru) /\ IsInjective(p.free)
           /\ p.referenced = Cardinality(Referenced(p)) /\ p.evictable = Cardinality(Evictable(p))
           /\ \A x, y \in Block : x # y /\ p.contentKey[x] # NoKey => p.contentKey[x] # p.contentKey[y]
<1>1. Free(p) = Block \ (Referenced(p) \cup Evictable(p))
  BY DEF PoolRec, Free, Referenced, Evictable
<1> QED BY <1>1 DEF Accounted, Referenced, Evictable

(* takeBlocks hands out blocks nobody holds, free or evicted, and keeps the *)
(* accounts.                                                                *)
LEMMA TakeAccounted ==
  ASSUME NEW p \in PoolRec, Accounted(p), NEW n \in Nat, n <= AvailableBlocks(p)
  PROVE  LET q == TakeBlocks(p, n)  t == TakenBlocks(p, n) IN
         /\ q \in PoolRec /\ Accounted(q)
         /\ t \in Seq(Block) /\ Len(t) = n /\ IsInjective(t)
         /\ \A x \in ToSet(t) : p.refCount[x] = 0
         /\ q.refCount = [x \in Block |-> IF x \in ToSet(t) THEN 1 ELSE p.refCount[x]]
         /\ q.contentKey = [x \in Block |-> IF x \in ToSet(t) THEN NoKey ELSE p.contentKey[x]]
         /\ q.thrown = p.thrown
<1> DEFINE f == IF Len(p.free) < n THEN Len(p.free) ELSE n
           k == n - f
           top == SubSeq(Reverse(p.free), 1, f)  rest == SubSeq(p.free, 1, Len(p.free) - f)
           old == SubSeq(p.lru, 1, k)  young == SubSeq(p.lru, k + 1, Len(p.lru))
           t == top \o old
           q == TakeBlocks(p, n)
<1>1. /\ p.refCount \in [Block -> Nat] /\ p.contentKey \in [Block -> Key \cup {NoKey}]
      /\ p.lru \in Seq(Block) /\ p.free \in Seq(Block) /\ p.referenced \in Int /\ p.evictable \in Int
      /\ p.thrown \in BOOLEAN
  BY DEF PoolRec
<1>2. /\ ToSet(p.lru) = Evictable(p) /\ ToSet(p.free) = Free(p) /\ IsInjective(p.lru) /\ IsInjective(p.free)
      /\ p.referenced = Cardinality(Referenced(p)) /\ p.evictable = Cardinality(Evictable(p))
      /\ \A x, y \in Block : x # y /\ p.contentKey[x] # NoKey => p.contentKey[x] # p.contentKey[y]
  BY AccountedSets
<1>3. Len(p.lru) = p.evictable BY <1>1, <1>2, InjectiveLen
<1>4. f \in 0..Len(p.free) /\ k \in 0..Len(p.lru) /\ f + k = n BY <1>1, <1>3 DEF AvailableBlocks
<1> HIDE DEF f, k
<1>5. /\ top \in Seq(Block) /\ rest \in Seq(Block) /\ Len(top) = f
      /\ Free(p) = ToSet(top) \cup ToSet(rest)
      /\ IsInjective(top) /\ IsInjective(rest) /\ ToSet(top) \cap ToSet(rest) = {}
  BY <1>1, <1>2, <1>4, TopOfStack
<1>6. /\ old \in Seq(Block) /\ young \in Seq(Block) /\ Len(old) = k /\ Len(young) = Len(p.lru) - k
      /\ Evictable(p) = ToSet(old) \cup ToSet(young)
      /\ IsInjective(old) /\ IsInjective(young) /\ ToSet(old) \cap ToSet(young) = {}
  BY <1>1, <1>2, <1>4, SubSeqSet
<1>7. TakenBlocks(p, n) = t BY DEF TakenBlocks, f, k
<1> HIDE DEF top, rest, old, young
<1>8. Free(p) \cap Evictable(p) = {} /\ Referenced(p) \cap (Free(p) \cup Evictable(p)) = {}
  BY <1>1 DEF Free, Evictable, Referenced
<1>9. /\ t \in Seq(Block) /\ ToSet(t) = ToSet(top) \cup ToSet(old) /\ Len(t) = n /\ IsInjective(t)
  <2>1. ToSet(top) \cap ToSet(old) = {} BY <1>5, <1>6, <1>8
  <2>2. /\ t \in Seq(Block) /\ ToSet(t) = ToSet(top) \cup ToSet(old) /\ Len(t) = Len(top) + Len(old) /\ IsInjective(t)
    <3> HIDE DEF t
    <3>1. top \in Seq(Block) /\ old \in Seq(Block) BY <1>5, <1>6
    <3>2. /\ top \o old \in Seq(Block) /\ ToSet(top \o old) = ToSet(top) \cup ToSet(old)
          /\ Len(top \o old) = Len(top) + Len(old)
      BY ONLY <3>1, ConcatSet
    <3>3. IsInjective(top \o old) BY <1>5, <1>6, <2>1, ConcatSet, Zenon
    <3> QED BY <3>2, <3>3 DEF t
  <2> HIDE DEF t
  <2> QED BY <1>4, <1>5, <1>6, <2>2
<1> HIDE DEF t
<1>10. q = [p EXCEPT !.refCount = [x \in Block |-> IF x \in ToSet(t) THEN 1 ELSE p.refCount[x]],
                     !.contentKey = [x \in Block |-> IF x \in ToSet(t) THEN NoKey ELSE p.contentKey[x]],
                     !.free = rest, !.lru = young, !.evictable = p.evictable - k, !.referenced = p.referenced + n]
  BY <1>7 DEF TakeBlocks, f, k, rest, young
<1> HIDE DEF q
<1>11. /\ q.refCount = [x \in Block |-> IF x \in ToSet(t) THEN 1 ELSE p.refCount[x]]
       /\ q.contentKey = [x \in Block |-> IF x \in ToSet(t) THEN NoKey ELSE p.contentKey[x]]
       /\ q.free = rest /\ q.lru = young /\ q.evictable = p.evictable - k /\ q.referenced = p.referenced + n
       /\ q.thrown = p.thrown
  BY <1>10 DEF PoolRec
<1>12. q \in PoolRec
  <2>1. [x \in Block |-> IF x \in ToSet(t) THEN 1 ELSE p.refCount[x]] \in [Block -> Nat] BY <1>1
  <2>2. [x \in Block |-> IF x \in ToSet(t) THEN NoKey ELSE p.contentKey[x]] \in [Block -> Key \cup {NoKey}]
    BY <1>1
  <2> DEFINE rc == [x \in Block |-> IF x \in ToSet(t) THEN 1 ELSE p.refCount[x]]
             ck == [x \in Block |-> IF x \in ToSet(t) THEN NoKey ELSE p.contentKey[x]]
  <2>3. p.evictable - k \in Int /\ p.referenced + n \in Int BY <1>1, <1>4
  <2> HIDE DEF rc, ck
  <2> QED BY <1>1, <1>5, <1>6, <1>10, <2>1, <2>2, <2>3 DEF PoolRec, rc, ck
<1>13. Referenced(q) = Referenced(p) \cup ToSet(t) /\ Evictable(q) = ToSet(young) /\ Free(q) = ToSet(rest)
  <2>1. \A x \in Block : q.refCount[x] = (IF x \in ToSet(t) THEN 1 ELSE p.refCount[x])
                         /\ q.contentKey[x] = (IF x \in ToSet(t) THEN NoKey ELSE p.contentKey[x])
    BY <1>11
  <2>2. ToSet(t) \subseteq Block BY <1>5, <1>6, <1>9 DEF Free, Evictable
  <2>3. Referenced(q) = Referenced(p) \cup ToSet(t) BY <2>1, <2>2 DEF Referenced
  <2>4. \A x \in Block : x \in Evictable(q) <=> x \in Evictable(p) /\ x \notin ToSet(t)
    BY <2>1 DEF Evictable
  <2>5. \A x \in Block : x \in Free(q) <=> x \in Free(p) /\ x \notin ToSet(t) BY <2>1 DEF Free
  <2>6. Evictable(q) = Evictable(p) \ ToSet(t) BY <2>4 DEF Evictable
  <2>7. Free(q) = Free(p) \ ToSet(t) BY <2>5 DEF Free
  <2> QED BY <1>5, <1>6, <1>8, <1>9, <2>3, <2>6, <2>7
<1>14. q.evictable = Cardinality(Evictable(q))
  <2>1. Cardinality(ToSet(young)) = Len(young) BY <1>6, InjectiveLen
  <2> QED BY <1>3, <1>6, <1>11, <1>13, <2>1
<1>15. q.referenced = Cardinality(Referenced(q))
  <2>1. Referenced(p) \cap ToSet(t) = {} BY <1>5, <1>6, <1>8, <1>9
  <2>2. IsFiniteSet(ToSet(t)) /\ Cardinality(ToSet(t)) = n BY <1>9, InjectiveLen
  <2>3. IsFiniteSet(Referenced(p)) /\ Cardinality(Referenced(p)) \in Nat
    BY BlockFinite DEF Referenced
  <2>4. Cardinality(Referenced(p) \cup ToSet(t)) = Cardinality(Referenced(p)) + n - Cardinality({})
    BY <2>1, <2>2, <2>3, FS_Union
  <2> QED BY <1>2, <1>11, <1>13, <2>3, <2>4, FS_EmptySet
<1>16. \A x, y \in Block : x # y /\ q.contentKey[x] # NoKey => q.contentKey[x] # q.contentKey[y]
  BY <1>2, <1>11
<1>17. Accounted(q) BY <1>5, <1>6, <1>11, <1>12, <1>13, <1>14, <1>15, <1>16, AccountedSets
<1>18. \A x \in ToSet(t) : p.refCount[x] = 0 BY <1>5, <1>6, <1>9 DEF Free, Evictable
<1> QED BY <1>7, <1>9, <1>11, <1>12, <1>17, <1>18 DEF q

(* Referencing cached blocks keeps the accounts and costs the woken ones. *)
LEMMA ReferenceAccounted ==
  ASSUME NEW p \in PoolRec, Accounted(p), NEW hits \in Seq(Block),
         \A x \in ToSet(hits) : p.contentKey[x] # NoKey
  PROVE  LET q == ReferenceBlocks(p, hits)
             woken == {x \in ToSet(hits) : p.refCount[x] = 0} IN
         /\ q \in PoolRec /\ Accounted(q)
         /\ q.refCount = [x \in Block |-> p.refCount[x] + IF x \in ToSet(hits) THEN 1 ELSE 0]
         /\ q.contentKey = p.contentKey /\ q.thrown = p.thrown
         /\ AvailableBlocks(q) = AvailableBlocks(p) - Cardinality(woken)
         /\ Cardinality(woken) \in Nat
<1> DEFINE hit == ToSet(hits)
           woken == {x \in hit : p.refCount[x] = 0}
           rc == [x \in Block |-> p.refCount[x] + IF x \in hit THEN 1 ELSE 0]
           young == Only(p.lru, Block \ hit)
           q == ReferenceBlocks(p, hits)
<1>1. /\ p.refCount \in [Block -> Nat] /\ p.contentKey \in [Block -> Key \cup {NoKey}]
      /\ p.lru \in Seq(Block) /\ p.free \in Seq(Block) /\ p.referenced \in Int /\ p.evictable \in Int
      /\ p.thrown \in BOOLEAN
  BY DEF PoolRec
<1>2. /\ ToSet(p.lru) = Evictable(p) /\ ToSet(p.free) = Free(p) /\ IsInjective(p.lru) /\ IsInjective(p.free)
      /\ p.referenced = Cardinality(Referenced(p)) /\ p.evictable = Cardinality(Evictable(p))
      /\ \A x, y \in Block : x # y /\ p.contentKey[x] # NoKey => p.contentKey[x] # p.contentKey[y]
  BY AccountedSets
<1>3. hit \subseteq Block BY DEF ToSet
<1>4. young \in Seq(Block) /\ ToSet(young) = Evictable(p) \cap (Block \ hit) /\ IsInjective(young)
  BY <1>1, <1>2, OnlyProperties
<1>5. /\ woken \subseteq Block /\ IsFiniteSet(woken) /\ Cardinality(woken) \in Nat
      /\ IsFiniteSet(Evictable(p)) /\ Cardinality(Evictable(p)) \in Nat
      /\ IsFiniteSet(Referenced(p)) /\ Cardinality(Referenced(p)) \in Nat
  BY <1>3, BlockFinite DEF Evictable, Referenced
<1> HIDE DEF young
<1>6. rc \in [Block -> Nat]
  <2>1. \A x \in Block : p.refCount[x] \in Nat BY <1>1
  <2>2. \A x \in Block : p.refCount[x] + (IF x \in hit THEN 1 ELSE 0) \in Nat BY <2>1
  <2> QED BY <2>2
<1>7. p.thrown = (p.thrown \/ \E x \in woken : p.contentKey[x] = NoKey)
  <2>1. ~\E x \in woken : p.contentKey[x] = NoKey OBVIOUS
  <2> QED BY <1>1, <2>1
<1> HIDE DEF hit
<1>8. q = [p EXCEPT !.refCount = rc, !.contentKey = p.contentKey, !.lru = young, !.free = p.free,
                    !.referenced = p.referenced + Cardinality(woken),
                    !.evictable = p.evictable - Cardinality(woken), !.thrown = p.thrown]
  BY <1>7 DEF ReferenceBlocks, young, hit, PoolRec
<1> HIDE DEF q
<1>9. p.referenced + Cardinality(woken) \in Int /\ p.evictable - Cardinality(woken) \in Int
  BY <1>1, <1>5
<1>10. /\ q \in PoolRec /\ q.refCount = rc /\ q.contentKey = p.contentKey /\ q.lru = young /\ q.free = p.free
       /\ q.referenced = p.referenced + Cardinality(woken)
       /\ q.evictable = p.evictable - Cardinality(woken) /\ q.thrown = p.thrown
  <2> DEFINE e == p.evictable - Cardinality(woken)  r == p.referenced + Cardinality(woken)
  <2>1. e \in Int /\ r \in Int BY <1>9
  <2> HIDE DEF rc, woken, e, r
  <2> QED BY <1>1, <1>4, <1>6, <1>8, <2>1 DEF PoolRec, e, r
<1>11. \A x \in Block : /\ x \in hit => rc[x] = p.refCount[x] + 1
                        /\ x \notin hit => rc[x] = p.refCount[x]
  BY <1>1
<1> HIDE DEF rc
<1>12. /\ Referenced(q) = Referenced(p) \cup woken
       /\ Evictable(q) = Evictable(p) \ woken /\ Evictable(q) = ToSet(young) /\ Free(q) = Free(p)
  <2>1. \A x \in Block : p.refCount[x] \in Nat BY <1>1
  <2>2. Referenced(q) = Referenced(p) \cup woken BY <1>3, <1>10, <1>11, <2>1 DEF Referenced
  <2>3. \A x \in hit : p.contentKey[x] # NoKey BY DEF hit
  <2>4. Evictable(q) = Evictable(p) \ woken BY <1>10, <1>11, <2>1 DEF Evictable
  <2>5. Evictable(q) = ToSet(young) BY <1>4, <1>10, <1>11, <2>1 DEF Evictable
  <2>6. Free(q) = Free(p) BY <1>10, <1>11, <2>1, <2>3 DEF Free
  <2> QED BY <2>2, <2>4, <2>5, <2>6
<1>13. woken \subseteq Evictable(p) /\ Referenced(p) \cap woken = {}
  BY <1>3 DEF Evictable, Referenced, hit
<1> HIDE DEF woken
<1>14. q.evictable = Cardinality(Evictable(q))
  <2>1. Evictable(p) \cap woken = woken BY <1>13
  <2>2. Cardinality(Evictable(p) \ woken)
          = Cardinality(Evictable(p)) - Cardinality(Evictable(p) \cap woken)
    BY ONLY <1>5, FS_Difference, Zenon
  <2> QED BY <1>2, <1>5, <1>10, <1>12, <2>1, <2>2
<1>15. q.referenced = Cardinality(Referenced(q))
  <2>1. Cardinality(Referenced(p) \cup woken) = Cardinality(Referenced(p)) + Cardinality(woken) - Cardinality({})
    BY <1>5, <1>13, FS_Union
  <2> QED BY <1>2, <1>5, <1>10, <1>12, <2>1, FS_EmptySet
<1>16. Accounted(q) BY <1>2, <1>4, <1>10, <1>12, <1>14, <1>15, AccountedSets
<1>17. AvailableBlocks(q) = AvailableBlocks(p) - Cardinality(woken)
  <2>1. Len(p.free) \in Nat BY <1>1
  <2> QED BY <1>1, <1>5, <1>10, <2>1 DEF AvailableBlocks
<1> QED BY <1>5, <1>10, <1>16, <1>17 DEF q, rc, woken, hit

(* Releasing a table of held blocks keeps the accounts. *)
LEMMA ReleaseAccounted ==
  ASSUME NEW p \in PoolRec, Accounted(p), NEW t \in Seq(Block), IsInjective(t),
         \A x \in ToSet(t) : p.refCount[x] > 0
  PROVE  LET q == ReleaseBlocks(p, t) IN
         /\ q \in PoolRec /\ Accounted(q)
         /\ q.refCount = [x \in Block |-> p.refCount[x] - IF x \in ToSet(t) THEN 1 ELSE 0]
         /\ q.contentKey = p.contentKey /\ q.thrown = p.thrown
<1> DEFINE T == ToSet(t)
           dead == {x \in T : p.refCount[x] = 1}
           K == {x \in dead : p.contentKey[x] # NoKey}
           U == {x \in dead : p.contentKey[x] = NoKey}
           cached == Only(Reverse(t), K)
           unkeyed == Only(Reverse(t), U)
           rc == [x \in Block |-> p.refCount[x] - IF x \in T THEN 1 ELSE 0]
           q == ReleaseBlocks(p, t)
<1>1. /\ p.refCount \in [Block -> Nat] /\ p.contentKey \in [Block -> Key \cup {NoKey}]
      /\ p.lru \in Seq(Block) /\ p.free \in Seq(Block) /\ p.referenced \in Int /\ p.evictable \in Int
      /\ p.thrown \in BOOLEAN
  BY DEF PoolRec
<1>2. /\ ToSet(p.lru) = Evictable(p) /\ ToSet(p.free) = Free(p) /\ IsInjective(p.lru) /\ IsInjective(p.free)
      /\ p.referenced = Cardinality(Referenced(p)) /\ p.evictable = Cardinality(Evictable(p))
      /\ \A x, y \in Block : x # y /\ p.contentKey[x] # NoKey => p.contentKey[x] # p.contentKey[y]
  BY AccountedSets
<1>3. T \subseteq Block BY DEF ToSet
<1>4. /\ cached \in Seq(Block) /\ ToSet(cached) = K /\ IsInjective(cached)
      /\ unkeyed \in Seq(Block) /\ ToSet(unkeyed) = U /\ IsInjective(unkeyed)
  <2>1. Reverse(t) \in Seq(Block) /\ ToSet(Reverse(t)) = T /\ IsInjective(Reverse(t))
    BY ReverseSet
  <2>2. /\ cached \in Seq(Block) /\ ToSet(cached) = T \cap K /\ IsInjective(cached)
        /\ unkeyed \in Seq(Block) /\ ToSet(unkeyed) = T \cap U /\ IsInjective(unkeyed)
    <3> HIDE DEF T, K, U
    <3> QED BY <2>1, OnlyProperties
  <2> QED BY <2>2
<1>5. /\ K \subseteq Block /\ U \subseteq Block /\ dead \subseteq Block /\ dead = K \cup U /\ K \cap U = {}
      /\ Evictable(p) \subseteq Block /\ Free(p) \subseteq Block
      /\ K \cap Evictable(p) = {} /\ U \cap Free(p) = {}
      /\ dead \subseteq Referenced(p) /\ Referenced(p) \subseteq Block
  BY <1>1, <1>3 DEF Evictable, Free, Referenced
<1> HIDE DEF cached, unkeyed
<1>6. /\ p.lru \o cached \in Seq(Block) /\ ToSet(p.lru \o cached) = Evictable(p) \cup K
      /\ p.free \o unkeyed \in Seq(Block) /\ ToSet(p.free \o unkeyed) = Free(p) \cup U
  <2> HIDE DEF K, U
  <2>0. /\ p.lru \in Seq(Block) /\ cached \in Seq(Block)
        /\ p.free \in Seq(Block) /\ unkeyed \in Seq(Block)
    BY <1>1, <1>4
  <2>1. ToSet(p.lru \o cached) = ToSet(p.lru) \cup ToSet(cached)
    BY ONLY <2>0, ConcatSet
  <2>2. ToSet(p.free \o unkeyed) = ToSet(p.free) \cup ToSet(unkeyed)
    BY ONLY <2>0, ConcatSet
  <2>3. p.lru \o cached \in Seq(Block) /\ p.free \o unkeyed \in Seq(Block) BY <1>1, <1>4
  <2> QED BY <1>2, <1>4, <2>1, <2>2, <2>3
<1>7. IsInjective(p.lru \o cached) /\ IsInjective(p.free \o unkeyed)
  <2> HIDE DEF K, U
  <2>1. ToSet(p.lru) \cap ToSet(cached) = {} /\ ToSet(p.free) \cap ToSet(unkeyed) = {}
    BY <1>2, <1>4, <1>5
  <2>2. IsInjective(p.lru \o cached) BY <1>1, <1>2, <1>4, <2>1, ConcatSet, Zenon
  <2>3. IsInjective(p.free \o unkeyed) BY <1>1, <1>2, <1>4, <2>1, ConcatSet, Zenon
  <2> QED BY <2>2, <2>3
<1>8. /\ IsFiniteSet(K) /\ Cardinality(K) \in Nat /\ IsFiniteSet(U) /\ Cardinality(U) \in Nat
      /\ IsFiniteSet(dead) /\ Cardinality(dead) \in Nat
      /\ IsFiniteSet(Evictable(p)) /\ Cardinality(Evictable(p)) \in Nat
      /\ IsFiniteSet(Referenced(p)) /\ Cardinality(Referenced(p)) \in Nat
  BY <1>5, BlockFinite
<1>9. Len(unkeyed) = Cardinality(U) /\ Cardinality(dead) = Cardinality(K) + Cardinality(U)
  <2> HIDE DEF K, U, dead
  <2>1. Len(unkeyed) = Cardinality(U) BY <1>4, InjectiveLen
  <2>2. Cardinality(K \cup U) = Cardinality(K) + Cardinality(U) - Cardinality({})
    BY <1>5, <1>8, FS_Union
  <2> QED BY <1>5, <1>8, <2>1, <2>2, FS_EmptySet
<1>10. rc \in [Block -> Nat]
  <2>1. \A x \in Block : p.refCount[x] \in Nat /\ (x \in T => p.refCount[x] > 0) BY <1>1
  <2>2. \A x \in Block : p.refCount[x] - (IF x \in T THEN 1 ELSE 0) \in Nat BY <2>1
  <2> QED BY <2>2
<1>11. p.thrown = (p.thrown \/ \E x \in T : p.refCount[x] <= 0)
  <2>1. \A x \in T : p.refCount[x] \in Nat /\ p.refCount[x] > 0 BY <1>1, <1>3
  <2>2. ~\E x \in T : p.refCount[x] <= 0 BY <2>1
  <2> QED BY <1>1, <2>2
<1> HIDE DEF T
<1>12. q = [p EXCEPT !.refCount = rc, !.contentKey = p.contentKey, !.lru = p.lru \o cached,
                     !.free = p.free \o unkeyed, !.referenced = p.referenced - Cardinality(dead),
                     !.evictable = p.evictable + Cardinality(dead) - Len(unkeyed), !.thrown = p.thrown]
  BY <1>11 DEF ReleaseBlocks, cached, unkeyed, T, PoolRec
<1> HIDE DEF q
<1>13. /\ p.referenced - Cardinality(dead) \in Int
       /\ p.evictable + Cardinality(dead) - Len(unkeyed) = p.evictable + Cardinality(K)
       /\ p.evictable + Cardinality(K) \in Int
  BY <1>1, <1>8, <1>9
<1>14. /\ q \in PoolRec /\ q.refCount = rc /\ q.contentKey = p.contentKey /\ q.lru = p.lru \o cached
       /\ q.free = p.free \o unkeyed /\ q.referenced = p.referenced - Cardinality(dead)
       /\ q.evictable = p.evictable + Cardinality(K) /\ q.thrown = p.thrown
  <2> DEFINE l == p.lru \o cached  f == p.free \o unkeyed
             e == p.evictable + Cardinality(K)  r == p.referenced - Cardinality(dead)
  <2>1. l \in Seq(Block) /\ f \in Seq(Block) /\ e \in Int /\ r \in Int BY <1>6, <1>13
  <2>2. q = [p EXCEPT !.refCount = rc, !.contentKey = p.contentKey, !.lru = l, !.free = f,
                      !.referenced = r, !.evictable = e, !.thrown = p.thrown]
    BY <1>12, <1>13
  <2> HIDE DEF rc, K, U, dead, l, f, e, r
  <2>3. q \in PoolRec BY <1>1, <1>10, <2>1, <2>2 DEF PoolRec
  <2>4. /\ q.refCount = rc /\ q.contentKey = p.contentKey /\ q.lru = l
        /\ q.free = f /\ q.referenced = r /\ q.evictable = e /\ q.thrown = p.thrown
    BY <2>2 DEF PoolRec
  <2> QED BY <2>3, <2>4 DEF l, f, e, r
<1>15. \A x \in Block : /\ x \in T => rc[x] = p.refCount[x] - 1 /\ p.refCount[x] > 0
                        /\ x \notin T => rc[x] = p.refCount[x]
                        /\ p.refCount[x] \in Nat
  BY <1>1 DEF T
<1> HIDE DEF rc
<1>16. Referenced(q) = Referenced(p) \ dead /\ Evictable(q) = Evictable(p) \cup K /\ Free(q) = Free(p) \cup U
  <2>1. \A x \in Block : q.refCount[x] = 0 <=> (p.refCount[x] = 0 \/ x \in dead) BY <1>14, <1>15
  <2>2. \A x \in Block : q.refCount[x] > 0 <=> (p.refCount[x] > 0 /\ x \notin dead)
    BY <1>14, <1>15
  <2>3. Referenced(q) = Referenced(p) \ dead BY <2>2 DEF Referenced
  <2>4. Evictable(q) = Evictable(p) \cup K BY <1>3, <1>14, <2>1 DEF Evictable
  <2>5. Free(q) = Free(p) \cup U BY <1>3, <1>14, <2>1 DEF Free
  <2> QED BY <2>3, <2>4, <2>5
<1> HIDE DEF K, U, dead
<1>17. q.evictable = Cardinality(Evictable(q))
  <2>1. Cardinality(Evictable(p) \cup K) = Cardinality(Evictable(p)) + Cardinality(K) - Cardinality({})
    BY <1>5, <1>8, FS_Union
  <2> QED BY <1>2, <1>8, <1>14, <1>16, <2>1, FS_EmptySet
<1>18. q.referenced = Cardinality(Referenced(q))
  <2>1. Referenced(p) \cap dead = dead BY <1>5
  <2>2. Cardinality(Referenced(p) \ dead)
          = Cardinality(Referenced(p)) - Cardinality(Referenced(p) \cap dead)
    BY ONLY <1>8, FS_Difference, Zenon
  <2> QED BY <1>2, <1>8, <1>14, <1>16, <2>1, <2>2
<1>19. Accounted(q) BY <1>2, <1>6, <1>7, <1>14, <1>16, <1>17, <1>18, AccountedSets
<1> QED BY <1>14, <1>19 DEF q, rc, T

(* Registering a held block under its key keeps the accounts and touches no *)
(* other held block; of a call on which the code throws it says only that a *)
(* pool remains.                                                            *)
LEMMA RegisterAccounted ==
  ASSUME PoolAssumption, NEW p \in PoolRec, NEW block \in Block, NEW key \in Key
  PROVE  LET q == Register(p, block, key) IN
         /\ q \in PoolRec
         /\ (Accounted(p) /\ p.refCount[block] > 0 /\ p.contentKey[block] \in {NoKey, key}) =>
              /\ Accounted(q) /\ q.refCount = p.refCount /\ q.thrown = p.thrown
              /\ q.contentKey[block] \in {p.contentKey[block], key}
              /\ \A x \in Block : x # block /\ p.refCount[x] > 0 => q.contentKey[x] = p.contentKey[x]
<1> DEFINE other == Holders(p, key) \ {block}
           ck == [x \in Block |-> IF x = block THEN key ELSE IF x \in other THEN NoKey ELSE p.contentKey[x]]
           l == Only(p.lru, Block \ other)
           f == p.free \o SetToSeq(other)
           e == p.evictable - Cardinality(other)
           moved == [p EXCEPT !.contentKey = ck, !.lru = l, !.free = f, !.evictable = e]
           q == Register(p, block, key)
           wrong == p.refCount[block] <= 0 \/ p.contentKey[block] \notin {NoKey, key}
           private == \E x \in other : p.refCount[x] # 0
<1>1. /\ p.refCount \in [Block -> Nat] /\ p.contentKey \in [Block -> Key \cup {NoKey}]
      /\ p.lru \in Seq(Block) /\ p.free \in Seq(Block) /\ p.referenced \in Int /\ p.evictable \in Int
      /\ p.thrown \in BOOLEAN
  BY DEF PoolRec
<1>2. /\ wrong => q = [p EXCEPT !.thrown = TRUE]
      /\ ~wrong /\ private => q = p
      /\ ~wrong /\ ~private => q = moved
  BY DEF Register
<1>3. NoKey \notin Key BY DEF PoolAssumption, Key
<1>4. other \subseteq Block /\ \A x \in Block : x \in other <=> x # block /\ p.contentKey[x] = key
  BY DEF Holders
<1> HIDE DEF other, q
<1>5. IsFiniteSet(other) /\ Cardinality(other) \in Nat BY <1>4, BlockFinite
<1>6. SetToSeq(other) \in Seq(Block) /\ ToSet(SetToSeq(other)) = other /\ IsInjective(SetToSeq(other))
  BY <1>4, <1>5, SetToSeqSet
<1>7. l \in Seq(Block) /\ ToSet(l) = ToSet(p.lru) \cap (Block \ other) /\ (IsInjective(p.lru) => IsInjective(l))
  BY <1>1, OnlyProperties
<1> DEFINE new == SetToSeq(other)
<1>8. f \in Seq(Block) /\ ToSet(f) = ToSet(p.free) \cup other
  <2>1. p.free \in Seq(Block) /\ new \in Seq(Block) BY <1>1, <1>6
  <2> HIDE DEF new
  <2>2. p.free \o new \in Seq(Block) /\ ToSet(p.free \o new) = ToSet(p.free) \cup ToSet(new)
    BY ONLY <2>1, ConcatSet
  <2> QED BY <1>6, <2>2 DEF new
<1>9. ck \in [Block -> Key \cup {NoKey}]
  <2>1. \A x \in Block : (IF x = block THEN key ELSE IF x \in other THEN NoKey ELSE p.contentKey[x]) \in Key \cup {NoKey}
    BY <1>1
  <2> QED BY <2>1
<1>10. e \in Int BY <1>1, <1>5
<1>11. \A x \in Block : /\ x = block => ck[x] = key
                        /\ x # block /\ x \in other => ck[x] = NoKey
                        /\ x # block /\ x \notin other => ck[x] = p.contentKey[x]
  OBVIOUS
<1> HIDE DEF ck, l, f, e
<1>12. /\ moved \in PoolRec /\ moved.refCount = p.refCount /\ moved.contentKey = ck /\ moved.lru = l
       /\ moved.free = f /\ moved.referenced = p.referenced /\ moved.evictable = e /\ moved.thrown = p.thrown
  BY <1>7, <1>8, <1>9, <1>10 DEF PoolRec
<1>13. [p EXCEPT !.thrown = TRUE] \in PoolRec BY DEF PoolRec
<1>14. q \in PoolRec BY <1>2, <1>12, <1>13
<1> HIDE DEF moved
<1>15. ASSUME Accounted(p), p.refCount[block] > 0, p.contentKey[block] \in {NoKey, key}
       PROVE  /\ Accounted(q) /\ q.refCount = p.refCount /\ q.thrown = p.thrown
              /\ q.contentKey[block] \in {p.contentKey[block], key}
              /\ \A x \in Block : x # block /\ p.refCount[x] > 0 => q.contentKey[x] = p.contentKey[x]
  <2>1. ~wrong BY <1>1, <1>15
  <2>2. CASE private BY <1>2, <1>15, <2>1, <2>2
  <2>3. CASE ~private
    <3>1. q = moved BY <1>2, <2>1, <2>3
    <3>2. \A x \in other : p.refCount[x] = 0 /\ p.contentKey[x] = key BY <1>1, <1>4, <2>3
    <3>3. /\ ToSet(p.lru) = Evictable(p) /\ ToSet(p.free) = Free(p) /\ IsInjective(p.lru) /\ IsInjective(p.free)
          /\ p.referenced = Cardinality(Referenced(p)) /\ p.evictable = Cardinality(Evictable(p))
          /\ \A x, y \in Block : x # y /\ p.contentKey[x] # NoKey => p.contentKey[x] # p.contentKey[y]
      BY <1>15, AccountedSets
    <3>4. Referenced(moved) = Referenced(p) BY <1>12 DEF Referenced
    <3>5. \A x \in Block : p.refCount[x] \in Nat BY <1>1
    <3>6. Evictable(moved) = Evictable(p) \ other
      BY <1>3, <1>4, <1>11, <1>12, <1>15, <3>2, <3>5 DEF Evictable
    <3>7. Free(moved) = Free(p) \cup other
      BY <1>3, <1>4, <1>11, <1>12, <1>15, <3>2, <3>5 DEF Free
    <3>8. other \subseteq Evictable(p) /\ other \cap Free(p) = {}
      BY <1>3, <1>4, <3>2 DEF Evictable, Free
    <3>9. ToSet(l) = Evictable(moved) /\ IsInjective(l) /\ ToSet(f) = Free(moved)
      BY <1>7, <1>8, <3>3, <3>6, <3>7 DEF Evictable
    <3>10. IsInjective(f)
      <4>1. ToSet(p.free) \cap ToSet(new) = {} BY <1>6, <3>3, <3>8
      <4>2. p.free \in Seq(Block) /\ new \in Seq(Block) /\ IsInjective(p.free) /\ IsInjective(new)
        BY <1>1, <1>6, <3>3
      <4> HIDE DEF new
      <4>3. IsInjective(p.free \o new) BY ONLY <4>1, <4>2, ConcatSet, Zenon
      <4> QED BY <4>3 DEF f, new
    <3>11. e = Cardinality(Evictable(moved))
      <4>1. IsFiniteSet(Evictable(p)) BY BlockFinite DEF Evictable
      <4>2. Cardinality(Evictable(p) \ other) = Cardinality(Evictable(p)) - Cardinality(Evictable(p) \cap other)
        BY ONLY <4>1, FS_Difference, Zenon
      <4>3. Evictable(p) \cap other = other BY <3>8
      <4> QED BY <3>3, <3>6, <4>2, <4>3 DEF e
    <3>12. \A x, y \in Block : x # y /\ ck[x] # NoKey => ck[x] # ck[y]
      <4> SUFFICES ASSUME NEW x \in Block, NEW y \in Block, x # y, ck[x] # NoKey, ck[x] = ck[y] PROVE FALSE
        OBVIOUS
      <4>1. CASE x = block BY <1>3, <1>4, <1>11, <4>1
      <4>2. CASE y = block BY <1>3, <1>4, <1>11, <4>2
      <4>3. CASE x # block /\ y # block BY <1>11, <3>3, <4>3
      <4> QED BY <4>1, <4>2, <4>3
    <3>13. Accounted(moved) BY <1>12, <3>3, <3>4, <3>9, <3>10, <3>11, <3>12, AccountedSets
    <3>14. moved.contentKey[block] = key BY <1>11, <1>12
    <3>15. \A x \in Block : x # block /\ p.refCount[x] > 0 => moved.contentKey[x] = p.contentKey[x]
      BY <1>11, <1>12, <3>2
    <3> QED BY <1>12, <3>1, <3>13, <3>14, <3>15
  <2> QED BY <2>2, <2>3
<1> QED BY <1>14, <1>15 DEF q

-----------------------------------------------------------------------------
(* A key is never NoKey, and tells the position of its block. *)
LEMMA KeyProperties ==
  ASSUME PoolAssumption
  PROVE  /\ SystemBlocks \in Nat
         /\ \A c \in Session, i \in Nat : /\ SequenceBlockKey(c, i) \in Key
                                          /\ SequenceBlockKey(c, i) # NoKey
         /\ \A c, d \in Session, i, j \in Nat : SequenceBlockKey(c, i) = SequenceBlockKey(d, j) => i = j
<1>1. SystemBlocks \in Nat BY KvAssumption DEF SystemBlocks
<1>2. \A c \in Session, i \in Nat : SequenceBlockKey(c, i) \in Key BY DEF SequenceBlockKey, Key
<1>3. \A c, d \in Session, i, j \in Nat : SequenceBlockKey(c, i) = SequenceBlockKey(d, j) => i = j
  BY DEF SequenceBlockKey
<1> QED BY <1>1, <1>2, <1>3 DEF PoolAssumption, Key

(* The blocks of the cached prefix are distinct, each under the key of its  *)
(* place.                                                                   *)
LEMMA Hits ==
  ASSUME PoolAssumption, NEW p \in PoolRec, NEW c \in Session, NEW tokens \in Nat \ {0}
  PROVE  LET hits == LongestCachedPrefix(p, c, tokens) IN
         /\ hits \in Seq(Block) /\ IsInjective(hits)
         /\ \A i \in 1..Len(hits) : p.contentKey[hits[i]] = SequenceBlockKey(c, i - 1)
<1> DEFINE max == (tokens - 1) \div BlockSize
           cached(n) == \A i \in 0..(n - 1) : Holders(p, SequenceBlockKey(c, i)) # {}
           longest(n) == cached(n) /\ (n = max \/ ~cached(n + 1))
           len == CHOOSE n \in 0..max : longest(n)
           hits == [i \in 1..len |-> CHOOSE x \in Block : p.contentKey[x] = SequenceBlockKey(c, i - 1)]
<1>1. max \in Nat BY KvAssumption
<1>2. LongestCachedPrefix(p, c, tokens) = hits BY Zenon DEF LongestCachedPrefix
<1> HIDE DEF max
<1>3. \E n \in 0..max : longest(n)
  <2> DEFINE T == {k \in Nat : k <= max /\ cached(max - k)}
  <2>1. max \in T
    <3>1. max - max = 0 /\ cached(0) BY <1>1
    <3> QED BY <1>1, <3>1
  <2>2. PICK k \in T : \A y \in T : k <= y BY <2>1, Least
  <2> DEFINE n == max - k
  <2>3. n \in 0..max /\ cached(n) BY <1>1, <2>2
  <2>4. CASE k = 0 BY <1>1, <2>3, <2>4
  <2>5. CASE k # 0
    <3>1. k - 1 \notin T /\ k - 1 \in Nat /\ k - 1 <= max /\ max - (k - 1) = n + 1
      BY <1>1, <2>2, <2>5
    <3> HIDE DEF cached, n
    <3>2. ~cached(n + 1) BY <3>1
    <3> QED BY <2>3, <3>2
  <2> QED BY <2>4, <2>5
<1> HIDE DEF longest
<1>4. len \in 0..max /\ longest(len) BY <1>3
<1> HIDE DEF len
<1>5. len \in Nat /\ cached(len) BY <1>1, <1>4 DEF longest
<1>6. \A i \in 1..len : hits[i] \in Block /\ p.contentKey[hits[i]] = SequenceBlockKey(c, i - 1)
  <2> SUFFICES ASSUME NEW i \in 1..len PROVE hits[i] \in Block /\ p.contentKey[hits[i]] = SequenceBlockKey(c, i - 1)
    OBVIOUS
  <2>1. i - 1 \in 0..(len - 1) BY <1>5
  <2>2. Holders(p, SequenceBlockKey(c, i - 1)) # {} BY <1>5, <2>1
  <2>3. \E x \in Block : p.contentKey[x] = SequenceBlockKey(c, i - 1) BY <2>2 DEF Holders
  <2>4. hits[i] = CHOOSE x \in Block : p.contentKey[x] = SequenceBlockKey(c, i - 1) OBVIOUS
  <2> HIDE DEF hits
  <2> QED BY <2>3, <2>4
<1>7. DOMAIN hits = 1..len OBVIOUS
<1>8. hits = [i \in 1..len |-> hits[i]] OBVIOUS
<1> HIDE DEF hits
<1>9. hits \in Seq(Block) /\ Len(hits) = len BY <1>5, <1>6, <1>7, <1>8
<1>10. IsInjective(hits)
  <2> SUFFICES ASSUME NEW i \in 1..len, NEW j \in 1..len, hits[i] = hits[j] PROVE i = j
    BY <1>7 DEF IsInjective
  <2>1. SequenceBlockKey(c, i - 1) = SequenceBlockKey(c, j - 1) BY <1>6
  <2>2. i - 1 \in Nat /\ j - 1 \in Nat BY <1>5
  <2>3. i - 1 = j - 1 BY <2>1, <2>2, KeyProperties
  <2> QED BY <1>5, <2>3
<1> QED BY <1>2, <1>6, <1>9, <1>10

(* A stack filled in descending order. *)
LEMMA CountDown ==
  ASSUME NEW m \in Nat, NEW k \in 0..m, NEW s, s = [i \in 1..k |-> m - i]
  PROVE  s \in Seq((m - k)..(m - 1)) /\ ToSet(s) = (m - k)..(m - 1) /\ IsInjective(s) /\ Len(s) = k
<1>1. DOMAIN s = 1..k /\ \A i \in 1..k : s[i] = m - i /\ m - i \in (m - k)..(m - 1) OBVIOUS
<1>2. s \in Seq((m - k)..(m - 1)) /\ Len(s) = k BY <1>1
<1>3. \A x \in (m - k)..(m - 1) : m - x \in 1..k /\ s[m - x] = x BY <1>1
<1>4. ToSet(s) = (m - k)..(m - 1) BY <1>1, <1>3 DEF ToSet
<1>5. IsInjective(s) BY <1>1 DEF IsInjective
<1> QED BY <1>2, <1>4, <1>5

(* A new pool is accounted for. *)
LEMMA NewPool ==
  ASSUME PoolAssumption
  PROVE  CreateKvPool \in PoolRec /\ Accounted(CreateKvPool)
         /\ CreateKvPool.refCount = [x \in Block |-> 0] /\ ~CreateKvPool.thrown
<1> DEFINE p == CreateKvPool  free == [i \in 1..TotalBlocks |-> TotalBlocks - i]
<1>1. free \in Seq(Block) /\ ToSet(free) = Block /\ IsInjective(free)
  <2>1. TotalBlocks \in Nat /\ TotalBlocks \in 0..TotalBlocks /\ TotalBlocks - TotalBlocks = 0
    BY KvAssumption
  <2> HIDE DEF free
  <2>2. /\ free \in Seq((TotalBlocks - TotalBlocks)..(TotalBlocks - 1)) /\ IsInjective(free)
        /\ ToSet(free) = (TotalBlocks - TotalBlocks)..(TotalBlocks - 1)
    BY <2>1, CountDown DEF free
  <2> QED BY <2>1, <2>2 DEF Block
<1> HIDE DEF free
<1>2. /\ p.refCount = [x \in Block |-> 0] /\ p.contentKey = [x \in Block |-> NoKey] /\ p.lru = <<>>
      /\ p.free = free /\ p.referenced = 0 /\ p.evictable = 0 /\ p.thrown = FALSE
  BY DEF CreateKvPool, free
<1>3. p \in PoolRec
  <2>1. [x \in Block |-> 0] \in [Block -> Nat] /\ [x \in Block |-> NoKey] \in [Block -> Key \cup {NoKey}]
    OBVIOUS
  <2>2. <<>> \in Seq(Block) OBVIOUS
  <2> QED BY <1>1, <2>1, <2>2 DEF CreateKvPool, PoolRec, free
<1> HIDE DEF p
<1>4. \A x \in Block : p.refCount[x] = 0 /\ p.contentKey[x] = NoKey BY <1>2
<1>5. Referenced(p) = {} /\ Evictable(p) = {} /\ Free(p) = Block
  BY <1>4 DEF Referenced, Evictable, Free
<1>6. ToSet(<<>>) = {} /\ IsInjective(<<>>) BY DEF ToSet, IsInjective
<1>7. Accounted(p) BY <1>1, <1>2, <1>3, <1>4, <1>5, <1>6, FS_EmptySet, AccountedSets
<1> QED BY <1>2, <1>3, <1>7 DEF p

(* So is one with the system prompt cached. *)
LEMMA MorningPool ==
  ASSUME PoolAssumption
  PROVE  CreateMorningKvPool \in PoolRec /\ Accounted(CreateMorningKvPool)
         /\ CreateMorningKvPool.refCount = [x \in Block |-> 0] /\ ~CreateMorningKvPool.thrown
<1> DEFINE p == CreateMorningKvPool  left == TotalBlocks - SystemBlocks
           free == [i \in 1..left |-> TotalBlocks - i]  lru == [i \in 1..SystemBlocks |-> SystemBlocks - i]
           ck == [x \in Block |-> IF x < SystemBlocks THEN <<SystemOwner, x>> ELSE NoKey]
<1>1. /\ TotalBlocks \in Nat \ {0} /\ SystemBlocks \in Nat /\ SystemBlocks <= TotalBlocks
      /\ left \in 0..TotalBlocks /\ TotalBlocks - left = SystemBlocks
  BY KvAssumption DEF SystemBlocks
<1> HIDE DEF left
<1>2. free \in Seq(SystemBlocks..(TotalBlocks - 1)) /\ ToSet(free) = SystemBlocks..(TotalBlocks - 1) /\ IsInjective(free)
  <2> HIDE DEF free
  <2>1. free \in Seq((TotalBlocks - left)..(TotalBlocks - 1)) /\ IsInjective(free)
        /\ ToSet(free) = (TotalBlocks - left)..(TotalBlocks - 1)
    BY <1>1, CountDown DEF free
  <2> QED BY <1>1, <2>1
<1>3. lru \in Seq(0..(SystemBlocks - 1)) /\ ToSet(lru) = 0..(SystemBlocks - 1) /\ IsInjective(lru) /\ Len(lru) = SystemBlocks
  <2> HIDE DEF lru
  <2>1. SystemBlocks \in 0..SystemBlocks /\ SystemBlocks - SystemBlocks = 0 BY <1>1
  <2>2. lru \in Seq((SystemBlocks - SystemBlocks)..(SystemBlocks - 1)) /\ IsInjective(lru) /\ Len(lru) = SystemBlocks
        /\ ToSet(lru) = (SystemBlocks - SystemBlocks)..(SystemBlocks - 1)
    BY <1>1, <2>1, CountDown DEF lru
  <2> QED BY <2>1, <2>2
<1> HIDE DEF free, lru
<1>4. free \in Seq(Block) /\ lru \in Seq(Block)
  <2>1. \A x \in SystemBlocks..(TotalBlocks - 1) : x \in Block BY <1>1 DEF Block
  <2>2. \A x \in 0..(SystemBlocks - 1) : x \in Block BY <1>1 DEF Block
  <2>3. SystemBlocks..(TotalBlocks - 1) \subseteq Block /\ 0..(SystemBlocks - 1) \subseteq Block
    BY <2>1, <2>2
  <2> QED BY <1>2, <1>3, <2>3, SeqMonotonic
<1>5. ck \in [Block -> Key \cup {NoKey}]
  <2>1. \A x \in Block : x \in Nat BY <1>1 DEF Block
  <2> QED BY <2>1 DEF Key
<1>6. \A x \in Block : /\ x \in Nat
                       /\ x < SystemBlocks => ck[x] = <<SystemOwner, x>>
                       /\ ~(x < SystemBlocks) => ck[x] = NoKey
  <2>1. \A x \in Block : x \in Nat BY <1>1 DEF Block
  <2> QED BY <2>1
<1>7. \A x \in Nat : <<SystemOwner, x>> # NoKey BY DEF PoolAssumption
<1> HIDE DEF ck
<1>8. p = [refCount |-> [x \in Block |-> 0], contentKey |-> ck, lru |-> lru, free |-> free,
           referenced |-> 0, evictable |-> SystemBlocks, thrown |-> FALSE]
  <2> DEFINE k == CreateKvPool  rc == [x \in Block |-> 0]  c == [x \in Block |-> NoKey]
             all == [i \in 1..TotalBlocks |-> TotalBlocks - i]
  <2>1. k = [refCount |-> rc, contentKey |-> c, lru |-> <<>>, free |-> all,
             referenced |-> 0, evictable |-> 0, thrown |-> FALSE]
    BY DEF CreateKvPool
  <2>2. p = [k EXCEPT !.contentKey = ck, !.lru = lru, !.free = free, !.evictable = SystemBlocks]
    BY DEF CreateMorningKvPool, free, lru, left, ck
  <2> HIDE DEF k, rc, c, all, p
  <2>3. p = [refCount |-> rc, contentKey |-> ck, lru |-> lru, free |-> free,
             referenced |-> 0, evictable |-> SystemBlocks, thrown |-> FALSE]
    BY <2>1, <2>2
  <2> QED BY <2>3 DEF rc
<1>9. /\ p.refCount = [x \in Block |-> 0] /\ p.contentKey = ck /\ p.lru = lru
      /\ p.free = free /\ p.referenced = 0 /\ p.evictable = SystemBlocks /\ p.thrown = FALSE
  BY <1>8
<1>10. p \in PoolRec
  <2>1. [x \in Block |-> 0] \in [Block -> Nat] OBVIOUS
  <2> QED BY <1>1, <1>4, <1>5, <1>8, <2>1 DEF PoolRec
<1> HIDE DEF p
<1>11. \A x \in Block : p.refCount[x] = 0 /\ p.contentKey[x] = ck[x] BY <1>9
<1>12. Referenced(p) = {} /\ Evictable(p) = 0..(SystemBlocks - 1) /\ Free(p) = SystemBlocks..(TotalBlocks - 1)
  <2>1. Referenced(p) = {} BY <1>11 DEF Referenced
  <2>2. \A x \in Block : x \in 0..(SystemBlocks - 1) <=> x < SystemBlocks BY <1>1, <1>6
  <2>3. \A x \in Block : x \in SystemBlocks..(TotalBlocks - 1) <=> ~(x < SystemBlocks)
    BY <1>1, <1>6 DEF Block
  <2>4. 0..(SystemBlocks - 1) \subseteq Block /\ SystemBlocks..(TotalBlocks - 1) \subseteq Block
    BY <1>1 DEF Block
  <2>5. Evictable(p) = 0..(SystemBlocks - 1) BY <1>6, <1>7, <1>11, <2>2, <2>4 DEF Evictable
  <2>6. Free(p) = SystemBlocks..(TotalBlocks - 1) BY <1>6, <1>7, <1>11, <2>3, <2>4 DEF Free
  <2> QED BY <2>1, <2>5, <2>6
<1>13. Cardinality(Evictable(p)) = SystemBlocks BY <1>3, <1>12, InjectiveLen
<1>14. \A x, y \in Block : x # y /\ p.contentKey[x] # NoKey => p.contentKey[x] # p.contentKey[y]
  BY <1>6, <1>7, <1>11
<1>15. Accounted(p) BY <1>2, <1>3, <1>9, <1>10, <1>12, <1>13, <1>14, FS_EmptySet, AccountedSets
<1> QED BY <1>9, <1>10, <1>15 DEF p

-----------------------------------------------------------------------------
(* Blocks and tokens. *)
LEMMA Division ==
  /\ \A x \in Nat : x \div BlockSize \in Nat /\ BlocksForTokens(x) \in Nat /\ x \div BlockSize <= BlocksForTokens(x)
  /\ \A x, y \in Nat : x <= y => x \div BlockSize <= y \div BlockSize /\ BlocksForTokens(x) <= BlocksForTokens(y)
  /\ \A x \in Nat : (x * BlockSize) \div BlockSize = x /\ x * BlockSize \in Nat /\ BlocksForTokens(x * BlockSize) = x
  /\ BlocksForTokens(0) = 0 /\ 0 \div BlockSize = 0
  /\ \A x, i \in Nat : i <= x \div BlockSize <=> i * BlockSize <= x
<1> DEFINE n == BlockSize
<1>1. n \in Nat \ {0} BY KvAssumption
<1> HIDE DEF n
<1>2. \A x \in Nat : x \div n \in Nat /\ (x \div n) * n <= x /\ x < (x \div n + 1) * n BY <1>1
<1>3. \A x, y \in Nat : x <= y => x \div n <= y \div n BY <1>1
<1>4. \A x \in Nat : x + n - 1 \in Nat /\ x <= x + n - 1 BY <1>1
<1>5. \A x \in Nat : x \div n <= (x + n - 1) \div n BY <1>3, <1>4
<1>6. \A x, y \in Nat : x <= y => x + n - 1 <= y + n - 1 BY <1>1
<1>7. \A x, y \in Nat : x <= y => (x + n - 1) \div n <= (y + n - 1) \div n BY <1>3, <1>4, <1>6
<1>8. \A x \in Nat : x * n \in Nat /\ (x * n) \div n = x BY <1>1
<1>9. ASSUME NEW x \in Nat PROVE (x * n + n - 1) \div n = x
  <2>1. x * n + n - 1 \in Nat /\ x * n <= x * n + n - 1 /\ x * n + n - 1 < (x + 1) * n BY <1>1
  <2> QED BY <1>1, <2>1
<1>10. 0 \div n = 0 /\ (0 + n - 1) \div n = 0 BY <1>1
<1>11. ASSUME NEW x \in Nat, NEW i \in Nat PROVE i <= x \div n <=> i * n <= x
  <2>1. x \div n \in Nat /\ (x \div n) * n <= x /\ x < (x \div n + 1) * n BY <1>2
  <2>2. CASE i <= x \div n
    <3>1. i * n <= (x \div n) * n BY <1>1, <2>1, <2>2
    <3>2. i * n \in Nat /\ (x \div n) * n \in Nat BY <1>1, <2>1
    <3> QED BY <2>1, <2>2, <3>1, <3>2
  <2>3. CASE ~(i <= x \div n)
    <3>1. x \div n + 1 <= i BY <2>1, <2>3
    <3>2. (x \div n + 1) * n <= i * n BY <1>1, <2>1, <3>1
    <3>3. i * n \in Nat /\ (x \div n + 1) * n \in Nat BY <1>1, <2>1
    <3> QED BY <2>1, <2>3, <3>2, <3>3
  <2> QED BY <2>2, <2>3
<1> QED BY <1>2, <1>3, <1>4, <1>5, <1>7, <1>8, <1>9, <1>10, <1>11 DEF n, BlocksForTokens

(* The result of registering blocks from+1 to `to` of a table, one by one. *)
RegistersTo(p, c, t, from, to, q) ==
  \E f : /\ f[from] = p
         /\ \A i \in from..to : i # from => f[i] = Register(f[i - 1], t[i], SequenceBlockKey(c, i - 1))
         /\ q = f[to]

(* The recursive definition of RegisterFullBlocks is a sequence of          *)
(* registrations.                                                           *)
LEMMA RegisterSteps ==
  ASSUME PoolAssumption, NEW p \in PoolRec, NEW c \in Session, NEW t \in Seq(Block), NEW from \in Nat, NEW n \in Nat,
         NEW to \in Nat, to = Registered(from, n), from <= to, to <= Len(t)
  PROVE  RegistersTo(p, c, t, from, to, RegisterFullBlocks(p, c, t, from, n))
<1> DEFINE Next1(i, v) == Register(v, t[i], SequenceBlockKey(c, i - 1))
           Fits(f) == f = [i \in from..to |-> IF i = from THEN p ELSE Next1(i, f[i - 1])]
           step == [x \in (from..to) \X PoolRec |-> IF x[1] = from THEN x[2] ELSE Next1(x[1], x[2])]
<1>1. \A i \in from..to : i # from => i - 1 \in Nat /\ i - 1 \in from..to /\ t[i] \in Block
  OBVIOUS
<1>2. \A i \in from..to, v \in PoolRec : i # from => Next1(i, v) \in PoolRec
  <2> SUFFICES ASSUME NEW i \in from..to, NEW v \in PoolRec, i # from PROVE Next1(i, v) \in PoolRec
    OBVIOUS
  <2>1. t[i] \in Block /\ SequenceBlockKey(c, i - 1) \in Key BY <1>1, KeyProperties
  <2> QED BY <2>1, RegisterAccounted
<1> HIDE DEF Next1
<1>3. \A i \in from..to, v \in PoolRec : i # from => step[<<i, v>>] = Next1(i, v) OBVIOUS
<1>4. step \in [(from..to) \X PoolRec -> PoolRec] BY <1>2
<1> HIDE DEF step
<1>5. from \in Int /\ to \in Int OBVIOUS
<1>6. Built(from, to, PoolRec, p, step) BY <1>4, <1>5, Recursion
<1>7. PICK f \in [from..to -> PoolRec] : f[from] = p /\ \A i \in from..to : i # from => f[i] = step[<<i, f[i - 1]>>]
  BY <1>6 DEF Built
<1>8. \A i \in from..to : f[i] = IF i = from THEN p ELSE Next1(i, f[i - 1])
  <2> SUFFICES ASSUME NEW i \in from..to PROVE f[i] = IF i = from THEN p ELSE Next1(i, f[i - 1])
    OBVIOUS
  <2>1. CASE i = from BY <1>7, <2>1
  <2>2. CASE i # from
    <3>1. f[i - 1] \in PoolRec BY <1>1, <2>2
    <3>2. f[i] = step[<<i, f[i - 1]>>] BY <1>7, <2>2
    <3> QED BY <1>3, <2>2, <3>1, <3>2
  <2> QED BY <2>1, <2>2
<1>9. Fits(f) BY <1>8
<1> DEFINE g == CHOOSE x : Fits(x)
<1>10. Fits(g) BY <1>9
<1>11. RegisterFullBlocks(p, c, t, from, n) = g[to] BY Zenon DEF RegisterFullBlocks, Next1
<1> HIDE DEF g
<1>12. \A i \in from..to : g[i] = IF i = from THEN p ELSE Next1(i, g[i - 1]) BY <1>10
<1>13. g[from] = p /\ \A i \in from..to : i # from => g[i] = Next1(i, g[i - 1]) BY <1>12
<1> QED BY <1>11, <1>13 DEF Next1, RegistersTo

-----------------------------------------------------------------------------
(* The invariant. *)
Typed ==
  /\ pool \in PoolRec
  /\ session \in [Holder -> Session \cup {None}] /\ table \in [Holder -> Seq(Block)]
  /\ registered \in [Holder -> Nat] /\ computed \in [Holder -> Nat] /\ allocated \in [Holder -> Nat]

Filled ==
  \A h \in Holder :
    /\ IsInjective(table[h]) /\ Len(table[h]) = BlocksForTokens(allocated[h])
    /\ registered[h] = computed[h] \div BlockSize /\ computed[h] <= allocated[h]
    /\ session[h] = None => allocated[h] = 0

KeysTrue(p, reach) ==
  \A h \in Holder : \A i \in 1..Len(table[h]) :
    p.contentKey[table[h][i]] # NoKey =>
      p.contentKey[table[h][i]] = SequenceBlockKey(session[h], i - 1) /\ i <= reach[h]

Agree(g, h) ==
  \A i \in 1..Len(table[g]), j \in 1..Len(table[h]) : table[g][i] = table[h][j] =>
    /\ SequenceBlockKey(session[g], i - 1) = SequenceBlockKey(session[h], j - 1)
    /\ i <= registered[g] /\ j <= registered[h]

AllAgree == \A g, h \in Holder : g # h => Agree(g, h)

Holding(tables, x) == {h \in Holder : x \in ToSet(tables[h])}
Counted == \A x \in Block : pool.refCount[x] = Cardinality(Holding(table, x))

PoolInv ==
  Typed /\ Filled /\ KeysTrue(pool, registered) /\ AllAgree /\ Counted /\ Accounted(pool) /\ ~pool.thrown

(* The invariant implies what the run checks. *)
LEMMA PoolInvConsistent == PoolAssumption /\ PoolInv => PoolConsistent
<1> SUFFICES ASSUME PoolAssumption, PoolInv PROVE PoolConsistent OBVIOUS
<1> USE DEF PoolInv
<1>1. \A h \in Holder : DOMAIN table[h] = 1..Len(table[h]) /\ Len(table[h]) \in Nat BY DEF Typed
<1>2. SharedBlocksAgree BY <1>1 DEF SharedBlocksAgree, AllAgree, Agree
<1>3. RefCountsHeld BY DEF RefCountsHeld, Counted, Holding
<1>4. CachedContentComputed
  <2> SUFFICES ASSUME NEW h \in Holder, NEW i \in 1..Len(table[h]), pool.contentKey[table[h][i]] # NoKey
               PROVE  pool.contentKey[table[h][i]] = SequenceBlockKey(session[h], i - 1) /\ i * BlockSize <= computed[h]
    BY <1>1 DEF CachedContentComputed
  <2>1. pool.contentKey[table[h][i]] = SequenceBlockKey(session[h], i - 1) /\ i <= registered[h]
    BY DEF KeysTrue
  <2>2. computed[h] \in Nat /\ registered[h] = computed[h] \div BlockSize /\ i \in Nat
    BY <1>1 DEF Typed, Filled
  <2>3. i * BlockSize <= computed[h] BY <2>1, <2>2, Division
  <2> QED BY <2>1, <2>3
<1> QED BY <1>2, <1>3, <1>4 DEF PoolConsistent, PoolAccounted, NoThrow

(* What a change of one table does to the number of holders of a block. *)
LEMMA HoldingChange ==
  ASSUME PoolAssumption, NEW old \in [Holder -> Seq(Block)], NEW h \in Holder, NEW t \in Seq(Block), NEW x
  PROVE  LET new == [old EXCEPT ![h] = t] IN
         /\ Cardinality(Holding(old, x)) \in Nat
         /\ (x \in ToSet(t) <=> x \in ToSet(old[h])) => Holding(new, x) = Holding(old, x)
         /\ x \in ToSet(t) /\ x \notin ToSet(old[h]) =>
              Cardinality(Holding(new, x)) = Cardinality(Holding(old, x)) + 1
         /\ x \notin ToSet(t) /\ x \in ToSet(old[h]) =>
              Cardinality(Holding(new, x)) = Cardinality(Holding(old, x)) - 1
<1> DEFINE new == [old EXCEPT ![h] = t]
<1>1. \A g \in Holder : new[g] = IF g = h THEN t ELSE old[g] OBVIOUS
<1> HIDE DEF new
<1>2. IsFiniteSet(Holding(old, x))
  <2>1. Holding(old, x) \subseteq Holder BY DEF Holding
  <2> QED BY <2>1, FS_Subset DEF PoolAssumption
<1>3. Cardinality(Holding(old, x)) \in Nat BY <1>2, FS_CardinalityType
<1>4. (x \in ToSet(t) <=> x \in ToSet(old[h])) => Holding(new, x) = Holding(old, x)
  BY <1>1 DEF Holding
<1>5. ASSUME x \in ToSet(t), x \notin ToSet(old[h])
      PROVE  Cardinality(Holding(new, x)) = Cardinality(Holding(old, x)) + 1
  <2>1. Holding(new, x) = Holding(old, x) \cup {h} /\ h \notin Holding(old, x)
    BY <1>1, <1>5 DEF Holding
  <2> QED BY <1>2, <2>1, FS_AddElement
<1>6. ASSUME x \notin ToSet(t), x \in ToSet(old[h])
      PROVE  Cardinality(Holding(new, x)) = Cardinality(Holding(old, x)) - 1
  <2>1. Holding(new, x) = Holding(old, x) \ {h} /\ h \in Holding(old, x)
    BY <1>1, <1>6 DEF Holding
  <2> QED BY <1>2, <2>1, FS_RemoveElement
<1> QED BY <1>3, <1>4, <1>5, <1>6 DEF new

(* A block without references is in no table. *)
LEMMA HeldCounted ==
  ASSUME PoolAssumption, Typed, Counted, NEW x \in Block
  PROVE  pool.refCount[x] = 0 <=> \A h \in Holder : x \notin ToSet(table[h])
<1>1. IsFiniteSet(Holding(table, x))
  <2>1. Holding(table, x) \subseteq Holder BY DEF Holding
  <2> QED BY <2>1, FS_Subset DEF PoolAssumption
<1>2. pool.refCount[x] = 0 <=> Holding(table, x) = {} BY <1>1, FS_EmptySet DEF Counted
<1> QED BY <1>2 DEF Holding

(* Members of a sequence and its positions. *)
LEMMA Members ==
  ASSUME NEW B, NEW s \in Seq(B)
  PROVE  /\ Len(s) \in Nat /\ DOMAIN s = 1..Len(s) /\ \A i \in 1..Len(s) : s[i] \in B /\ s[i] \in ToSet(s)
         /\ \A x \in ToSet(s) : x \in B /\ \E i \in 1..Len(s) : s[i] = x
<1>1. Len(s) \in Nat /\ DOMAIN s = 1..Len(s) /\ \A i \in 1..Len(s) : s[i] \in B OBVIOUS
<1> QED BY <1>1 DEF ToSet

(* Hits are shared with holders that computed them; the fresh blocks had no *)
(* holder.                                                                  *)
LEMMA AdmitInv ==
  ASSUME PoolAssumption, PoolInv, NEW h \in Holder, NEW c \in Session,
         NEW tokens \in 1..MaxTokens, NEW chunk \in 1..MaxTokens, Admit(h, c, tokens, chunk)
  PROVE  PoolInv'
<1> DEFINE hits == LongestCachedPrefix(pool, c, tokens)
           n == Len(hits)
           cached == n * BlockSize
           fresh == BlocksForTokens(cached + chunk) - n
           q == ReferenceBlocks(pool, hits)
           got == TakenBlocks(q, fresh)
           r == TakeBlocks(q, fresh)
           t == hits \o got
           woken == {x \in ToSet(hits) : pool.refCount[x] = 0}
<1>1. MaxTokens \in Nat \ {0} /\ tokens \in Nat \ {0} /\ chunk \in Nat \ {0}
  BY DEF PoolAssumption
<1>2. /\ session[h] = None /\ cached + chunk <= tokens
      /\ CanAcquire(pool, hits, BlocksForTokens(tokens) - n)
      /\ pool' = r
      /\ session' = [session EXCEPT ![h] = c] /\ table' = [table EXCEPT ![h] = t]
      /\ registered' = [registered EXCEPT ![h] = n] /\ computed' = [computed EXCEPT ![h] = cached]
      /\ allocated' = [allocated EXCEPT ![h] = cached + chunk]
  BY DEF Admit, AcquireBlocks
<1>3. Typed /\ Filled /\ KeysTrue(pool, registered) /\ AllAgree /\ Counted /\ Accounted(pool) /\ ~pool.thrown
  BY DEF PoolInv
<1>4. /\ pool \in PoolRec /\ pool.refCount \in [Block -> Nat] /\ pool.contentKey \in [Block -> Key \cup {NoKey}]
      /\ pool.thrown \in BOOLEAN
      /\ session \in [Holder -> Session \cup {None}] /\ table \in [Holder -> Seq(Block)]
      /\ registered \in [Holder -> Nat] /\ computed \in [Holder -> Nat] /\ allocated \in [Holder -> Nat]
  BY <1>3 DEF Typed, PoolRec
<1>5. /\ hits \in Seq(Block) /\ IsInjective(hits) /\ n \in Nat
      /\ \A i \in 1..n : /\ hits[i] \in Block /\ pool.contentKey[hits[i]] = SequenceBlockKey(c, i - 1)
                         /\ SequenceBlockKey(c, i - 1) # NoKey
  <2>1. /\ hits \in Seq(Block) /\ IsInjective(hits)
        /\ \A i \in 1..Len(hits) : pool.contentKey[hits[i]] = SequenceBlockKey(c, i - 1)
    BY <1>1, <1>4, Hits
  <2> HIDE DEF hits
  <2>2. n \in Nat /\ \A i \in 1..n : hits[i] \in Block /\ i - 1 \in Nat BY <2>1
  <2>3. \A i \in 1..n : SequenceBlockKey(c, i - 1) # NoKey BY <2>2, KeyProperties
  <2> QED BY <2>1, <2>2, <2>3
<1> HIDE DEF hits, n
<1>6. \A x \in ToSet(hits) : x \in Block /\ pool.contentKey[x] # NoKey /\ \E i \in 1..n : hits[i] = x
  BY <1>5, Members DEF n
<1>7. /\ q \in PoolRec /\ Accounted(q) /\ q.contentKey = pool.contentKey /\ q.thrown = pool.thrown
      /\ q.refCount = [x \in Block |-> pool.refCount[x] + IF x \in ToSet(hits) THEN 1 ELSE 0]
      /\ AvailableBlocks(q) = AvailableBlocks(pool) - Cardinality(woken) /\ Cardinality(woken) \in Nat
  <2>1. /\ pool \in PoolRec /\ Accounted(pool) /\ hits \in Seq(Block)
        /\ \A x \in ToSet(hits) : pool.contentKey[x] # NoKey
    BY <1>3, <1>4, <1>5, <1>6
  <2> QED BY ONLY <2>1, ReferenceAccounted
<1> HIDE DEF q
<1>8. fresh \in Nat /\ n + fresh = BlocksForTokens(cached + chunk) /\ cached \in Nat /\ cached \div BlockSize = n
      /\ fresh <= BlocksForTokens(tokens) - n
  <2>1. cached \in Nat /\ cached \div BlockSize = n /\ BlocksForTokens(cached) = n
    BY <1>5, Division
  <2>2. cached <= cached + chunk /\ cached + chunk \in Nat /\ tokens \in Nat BY <1>1, <2>1
  <2>3. n <= BlocksForTokens(cached + chunk) /\ BlocksForTokens(cached + chunk) \in Nat
        /\ BlocksForTokens(cached + chunk) <= BlocksForTokens(tokens) /\ BlocksForTokens(tokens) \in Nat
    BY <1>2, <2>1, <2>2, Division
  <2> QED BY <1>5, <2>1, <2>3
<1>9. fresh <= AvailableBlocks(q)
  <2>1. (BlocksForTokens(tokens) - n) + Cardinality(woken) <= AvailableBlocks(pool)
    BY <1>2 DEF CanAcquire
  <2>2. BlocksForTokens(tokens) \in Nat BY <1>1, Division
  <2>3. AvailableBlocks(pool) \in Int
    <3>1. Len(pool.free) \in Nat /\ pool.evictable \in Int BY <1>4 DEF PoolRec
    <3> QED BY <3>1 DEF AvailableBlocks
  <2> HIDE DEF woken, fresh
  <2> QED BY <1>5, <1>7, <1>8, <2>1, <2>2, <2>3
<1> HIDE DEF fresh, cached
<1>10. /\ r \in PoolRec /\ Accounted(r) /\ got \in Seq(Block) /\ Len(got) = fresh /\ IsInjective(got)
       /\ \A x \in ToSet(got) : q.refCount[x] = 0
       /\ r.refCount = [x \in Block |-> IF x \in ToSet(got) THEN 1 ELSE q.refCount[x]]
       /\ r.contentKey = [x \in Block |-> IF x \in ToSet(got) THEN NoKey ELSE q.contentKey[x]]
       /\ r.thrown = q.thrown
  BY <1>7, <1>8, <1>9, TakeAccounted
<1> HIDE DEF got, r
<1>11. \A x \in Block : /\ x \in ToSet(got) => /\ x \notin ToSet(hits) /\ pool.refCount[x] = 0
                                               /\ r.refCount[x] = 1 /\ r.contentKey[x] = NoKey
                        /\ x \in ToSet(hits) => /\ x \notin ToSet(got) /\ r.refCount[x] = pool.refCount[x] + 1
                                                /\ r.contentKey[x] = pool.contentKey[x]
                        /\ x \notin ToSet(got) /\ x \notin ToSet(hits) =>
                              r.refCount[x] = pool.refCount[x] /\ r.contentKey[x] = pool.contentKey[x]
  <2>1. \A x \in Block : /\ pool.refCount[x] \in Nat
                         /\ x \in ToSet(hits) => q.refCount[x] = pool.refCount[x] + 1
                         /\ x \notin ToSet(hits) => q.refCount[x] = pool.refCount[x]
    BY <1>4, <1>7
  <2>2. \A x \in Block : /\ x \in ToSet(got) => r.refCount[x] = 1 /\ r.contentKey[x] = NoKey
                         /\ x \notin ToSet(got) => r.refCount[x] = q.refCount[x] /\ r.contentKey[x] = pool.contentKey[x]
    BY <1>7, <1>10
  <2> QED BY <1>10, <2>1, <2>2
<1>12. \A x \in ToSet(got) : x \in Block BY <1>10, Members
<1>13. /\ t \in Seq(Block) /\ ToSet(t) = ToSet(hits) \cup ToSet(got) /\ Len(t) = n + fresh
       /\ \A i \in 1..n : t[i] = hits[i]
       /\ \A i \in (n + 1)..(n + fresh) : t[i] = got[i - n]
  <2>1. /\ hits \o got \in Seq(Block) /\ ToSet(hits \o got) = ToSet(hits) \cup ToSet(got)
        /\ Len(hits \o got) = Len(hits) + Len(got)
        /\ \A i \in 1..Len(hits) : (hits \o got)[i] = hits[i]
        /\ \A i \in (Len(hits) + 1)..(Len(hits) + Len(got)) : (hits \o got)[i] = got[i - Len(hits)]
    <3>1. hits \in Seq(Block) /\ got \in Seq(Block) BY <1>5, <1>10
    <3> QED BY ONLY <3>1, ConcatSet
  <2> QED BY <1>10, <2>1 DEF n
<1>14. IsInjective(t)
  <2>1. ToSet(hits) \cap ToSet(got) = {} BY <1>6, <1>11
  <2> QED BY <1>5, <1>10, <2>1, ConcatSet, Zenon
<1> HIDE DEF t
<1>15. \A i \in 1..Len(t) : \/ i \in 1..n /\ t[i] = hits[i] /\ t[i] \in ToSet(hits)
                            \/ i \notin 1..n /\ t[i] \in ToSet(got)
  <2> SUFFICES ASSUME NEW i \in 1..Len(t), i \notin 1..n PROVE t[i] \in ToSet(got)
    BY <1>5, <1>13, Members DEF n
  <2>1. i - n \in 1..fresh /\ i \in (n + 1)..(n + fresh) BY <1>5, <1>8, <1>13
  <2>2. t[i] = got[i - n] BY <1>13, <2>1
  <2> QED BY <1>10, <2>1, <2>2, Members
<1>16. table[h] = <<>> /\ Len(table[h]) = 0 /\ ToSet(table[h]) = {}
  <2>1. allocated[h] = 0 BY <1>2, <1>3 DEF Filled
  <2>2. Len(table[h]) = 0 BY <1>3, <2>1, Division DEF Filled
  <2>3. table[h] = <<>> BY <1>4, <2>2
  <2> QED BY <2>2, <2>3 DEF ToSet
<1>17. \A g \in Holder : /\ g # h => /\ table'[g] = table[g] /\ session'[g] = session[g]
                                     /\ registered'[g] = registered[g] /\ computed'[g] = computed[g]
                                     /\ allocated'[g] = allocated[g]
                         /\ g = h => /\ table'[g] = t /\ session'[g] = c /\ registered'[g] = n
                                     /\ computed'[g] = cached /\ allocated'[g] = cached + chunk
  BY <1>2, <1>4
<1>18. \A g \in Holder : \A i \in 1..Len(table[g]) :
         table[g][i] \in Block /\ table[g][i] \in ToSet(table[g]) /\ table[g][i] \notin ToSet(got)
  <2> SUFFICES ASSUME NEW g \in Holder, NEW i \in 1..Len(table[g])
               PROVE  table[g][i] \in Block /\ table[g][i] \in ToSet(table[g]) /\ table[g][i] \notin ToSet(got)
    OBVIOUS
  <2>1. table[g] \in Seq(Block) BY <1>4
  <2>2. table[g][i] \in Block /\ table[g][i] \in ToSet(table[g]) BY <2>1, Members
  <2>3. pool.refCount[table[g][i]] # 0 BY <1>3, <2>2, HeldCounted
  <2> QED BY <1>11, <2>2, <2>3
<1>19. Typed'
  <2>1. cached + chunk \in Nat BY <1>1, <1>8
  <2> QED BY <1>2, <1>4, <1>5, <1>8, <1>10, <1>13, <2>1 DEF Typed
<1>20. Filled'
  <2>1. None # c /\ cached <= cached + chunk BY <1>1, <1>8 DEF PoolAssumption
  <2> QED BY <1>3, <1>8, <1>13, <1>14, <1>17, <2>1 DEF Filled
<1>21. KeysTrue(pool, registered)'
  <2> SUFFICES ASSUME NEW g \in Holder, NEW i \in 1..Len(table'[g]), r.contentKey[table'[g][i]] # NoKey
               PROVE  r.contentKey[table'[g][i]] = SequenceBlockKey(session'[g], i - 1) /\ i <= registered'[g]
    BY <1>2 DEF KeysTrue
  <2>1. CASE g # h
    <3>1. i \in 1..Len(table[g]) /\ table'[g][i] = table[g][i] BY <1>17, <2>1
    <3>2. r.contentKey[table[g][i]] = pool.contentKey[table[g][i]] BY <1>11, <1>18, <3>1
    <3> QED BY <1>3, <1>17, <2>1, <3>1, <3>2 DEF KeysTrue
  <2>2. CASE g = h
    <3>1. i \in 1..Len(t) /\ table'[g][i] = t[i] BY <1>17, <2>2
    <3>2. t[i] \notin ToSet(got) BY <1>11, <1>12, <3>1
    <3>3. i \in 1..n /\ t[i] = hits[i] /\ t[i] \in ToSet(hits) BY <1>15, <3>1, <3>2
    <3>4. r.contentKey[t[i]] = SequenceBlockKey(c, i - 1) BY <1>5, <1>6, <1>11, <3>3
    <3> QED BY <1>5, <1>17, <2>2, <3>1, <3>3, <3>4
  <2> QED BY <2>1, <2>2
<1>22. AllAgree'
  <2>1. ASSUME NEW g \in Holder, g # h, NEW i \in 1..Len(t), NEW j \in 1..Len(table[g]), t[i] = table[g][j]
        PROVE  /\ SequenceBlockKey(c, i - 1) = SequenceBlockKey(session[g], j - 1)
               /\ i <= n /\ j <= registered[g]
    <3>1. t[i] \notin ToSet(got) BY <1>18, <2>1
    <3>2. i \in 1..n /\ t[i] = hits[i] BY <1>15, <2>1, <3>1
    <3>3. pool.contentKey[table[g][j]] = SequenceBlockKey(c, i - 1) /\ SequenceBlockKey(c, i - 1) # NoKey
      BY <1>5, <2>1, <3>2
    <3>4. pool.contentKey[table[g][j]] = SequenceBlockKey(session[g], j - 1) /\ j <= registered[g]
      BY <1>3, <2>1, <3>3 DEF KeysTrue
    <3> QED BY <1>5, <3>2, <3>3, <3>4
  <2> SUFFICES ASSUME NEW f \in Holder, NEW g \in Holder, f # g,
                      NEW i \in 1..Len(table'[f]), NEW j \in 1..Len(table'[g]), table'[f][i] = table'[g][j]
               PROVE  /\ SequenceBlockKey(session'[f], i - 1) = SequenceBlockKey(session'[g], j - 1)
                      /\ i <= registered'[f] /\ j <= registered'[g]
    BY DEF AllAgree, Agree
  <2>2. CASE f = h
    <3>1. i \in 1..Len(t) /\ j \in 1..Len(table[g]) /\ t[i] = table[g][j] BY <1>17, <2>2
    <3> QED BY <1>17, <2>1, <2>2, <3>1
  <2>3. CASE g = h
    <3>1. j \in 1..Len(t) /\ i \in 1..Len(table[f]) /\ t[j] = table[f][i] BY <1>17, <2>3
    <3> QED BY <1>17, <2>1, <2>3, <3>1
  <2>4. CASE f # h /\ g # h BY <1>3, <1>17, <2>4 DEF AllAgree, Agree
  <2> QED BY <2>2, <2>3, <2>4
<1>23. Counted'
  <2> SUFFICES ASSUME NEW x \in Block PROVE r.refCount[x] = Cardinality(Holding(table', x))
    BY <1>2 DEF Counted, Holding
  <2>1. /\ pool.refCount[x] = Cardinality(Holding(table, x)) /\ pool.refCount[x] \in Nat
        /\ x \notin ToSet(t) => Holding(table', x) = Holding(table, x)
        /\ x \in ToSet(t) => Cardinality(Holding(table', x)) = Cardinality(Holding(table, x)) + 1
    <3>1. pool.refCount[x] = Cardinality(Holding(table, x)) /\ pool.refCount[x] \in Nat
      BY <1>3, <1>4 DEF Counted
    <3>2. table' = [table EXCEPT ![h] = t] /\ table \in [Holder -> Seq(Block)] /\ t \in Seq(Block)
      BY <1>2, <1>4, <1>13
    <3>3. /\ (x \in ToSet(t) <=> x \in ToSet(table[h])) => Holding(table', x) = Holding(table, x)
          /\ x \in ToSet(t) /\ x \notin ToSet(table[h]) =>
               Cardinality(Holding(table', x)) = Cardinality(Holding(table, x)) + 1
      BY ONLY PoolAssumption, <3>2, HoldingChange
    <3> QED BY <1>16, <3>1, <3>3
  <2>2. x \in ToSet(t) <=> x \in ToSet(hits) \/ x \in ToSet(got) BY <1>13
  <2> QED BY <1>11, <2>1, <2>2
<1>24. Accounted(pool)' /\ ~pool.thrown'
  BY <1>2, <1>3, <1>7, <1>10
<1> QED BY <1>19, <1>20, <1>21, <1>22, <1>23, <1>24 DEF PoolInv

(* The blocks put behind a table had no holder. *)
LEMMA AllocateInv ==
  ASSUME PoolAssumption, PoolInv, NEW h \in Holder, NEW n \in 1..MaxTokens, Allocate(h, n)
  PROVE  PoolInv'
<1> DEFINE need == BlocksForTokens(computed[h] + n) - Len(table[h])
           old == table[h]
           l == Len(old)
           got == TakenBlocks(pool, need)
           r == TakeBlocks(pool, need)
           t == old \o got
<1>1. Typed /\ Filled /\ KeysTrue(pool, registered) /\ AllAgree /\ Counted /\ Accounted(pool) /\ ~pool.thrown
  BY DEF PoolInv
<1>2. /\ pool \in PoolRec /\ pool.refCount \in [Block -> Nat]
      /\ session \in [Holder -> Session \cup {None}] /\ table \in [Holder -> Seq(Block)]
      /\ registered \in [Holder -> Nat] /\ computed \in [Holder -> Nat] /\ allocated \in [Holder -> Nat]
  BY <1>1 DEF Typed, PoolRec
<1>3. /\ session[h] # None /\ computed[h] = allocated[h] /\ need <= AvailableBlocks(pool)
      /\ need > 0 => pool' = r /\ table' = [table EXCEPT ![h] = t]
      /\ ~(need > 0) => pool' = pool /\ table' = table
      /\ allocated' = [allocated EXCEPT ![h] = computed[h] + n]
      /\ session' = session /\ registered' = registered /\ computed' = computed
  BY <1>2 DEF Allocate
<1>4. /\ computed[h] + n \in Nat /\ computed[h] <= computed[h] + n
      /\ need \in Nat /\ l + need = BlocksForTokens(computed[h] + n) /\ l \in Nat
  <2>1. n \in Nat /\ n > 0 /\ computed[h] \in Nat BY <1>2 DEF PoolAssumption
  <2>2. computed[h] + n \in Nat /\ computed[h] <= computed[h] + n BY <2>1
  <2>3. l = BlocksForTokens(computed[h]) BY <1>1, <1>3 DEF Filled
  <2>4. BlocksForTokens(computed[h]) <= BlocksForTokens(computed[h] + n) /\ BlocksForTokens(computed[h]) \in Nat
        /\ BlocksForTokens(computed[h] + n) \in Nat
    BY <2>1, <2>2, Division
  <2> HIDE DEF l
  <2> QED BY <2>2, <2>3, <2>4 DEF l
<1>5. old \in Seq(Block) /\ IsInjective(old) BY <1>1, <1>2 DEF Filled
<1>6. CASE ~(need > 0)
  <2>1. l = BlocksForTokens(computed[h] + n) BY <1>4, <1>6
  <2>2. pool' = pool /\ table' = table /\ session' = session /\ registered' = registered /\ computed' = computed
    BY <1>3, <1>6
  <2>3. allocated' \in [Holder -> Nat] /\ \A g \in Holder : allocated'[g] = IF g = h THEN computed[h] + n ELSE allocated[g]
    BY <1>2, <1>3, <1>4
  <2>4. Typed' BY <1>1, <2>2, <2>3 DEF Typed
  <2>5. Filled' BY <1>1, <1>3, <1>4, <2>1, <2>2, <2>3 DEF Filled
  <2>6. KeysTrue(pool, registered)' BY <1>1, <2>2 DEF KeysTrue
  <2>7. AllAgree' BY <1>1, <2>2 DEF AllAgree, Agree
  <2>8. Counted' BY <1>1, <2>2 DEF Counted, Holding
  <2> QED BY <1>1, <2>2, <2>4, <2>5, <2>6, <2>7, <2>8 DEF PoolInv
<1>7. CASE need > 0
  <2>1. pool' = r /\ table' = [table EXCEPT ![h] = t] BY <1>3, <1>7
  <2>2. /\ r \in PoolRec /\ Accounted(r) /\ got \in Seq(Block) /\ Len(got) = need /\ IsInjective(got)
        /\ \A x \in ToSet(got) : pool.refCount[x] = 0
        /\ r.refCount = [x \in Block |-> IF x \in ToSet(got) THEN 1 ELSE pool.refCount[x]]
        /\ r.contentKey = [x \in Block |-> IF x \in ToSet(got) THEN NoKey ELSE pool.contentKey[x]]
        /\ r.thrown = pool.thrown
    <3>1. pool \in PoolRec /\ Accounted(pool) /\ need \in Nat /\ need <= AvailableBlocks(pool)
      BY <1>1, <1>2, <1>3, <1>4
    <3> HIDE DEF need
    <3> QED BY <3>1, TakeAccounted
  <2> HIDE DEF r, got, need
  <2>3. \A x \in ToSet(got) : x \in Block BY <2>2, Members
  <2>4. \A x \in Block : /\ x \in ToSet(got) => r.refCount[x] = 1 /\ r.contentKey[x] = NoKey
                         /\ x \notin ToSet(got) => r.refCount[x] = pool.refCount[x] /\ r.contentKey[x] = pool.contentKey[x]
    BY <2>2
  <2>5. \A g \in Holder : \A i \in 1..Len(table[g]) :
          table[g][i] \in Block /\ table[g][i] \in ToSet(table[g]) /\ table[g][i] \notin ToSet(got)
    <3> SUFFICES ASSUME NEW g \in Holder, NEW i \in 1..Len(table[g])
                 PROVE  table[g][i] \in Block /\ table[g][i] \in ToSet(table[g]) /\ table[g][i] \notin ToSet(got)
      OBVIOUS
    <3>1. table[g] \in Seq(Block) BY <1>2
    <3>2. table[g][i] \in Block /\ table[g][i] \in ToSet(table[g]) BY <3>1, Members
    <3>3. pool.refCount[table[g][i]] # 0 BY <1>1, <3>2, HeldCounted
    <3> QED BY <2>2, <3>2, <3>3
  <2>6. ToSet(old) \cap ToSet(got) = {}
    <3>1. \A x \in ToSet(old) : \E i \in 1..Len(old) : old[i] = x BY <1>5, Members
    <3> QED BY <2>5, <3>1
  <2>7. /\ t \in Seq(Block) /\ ToSet(t) = ToSet(old) \cup ToSet(got) /\ Len(t) = l + need
        /\ \A i \in 1..l : t[i] = old[i]
        /\ \A i \in (l + 1)..(l + need) : t[i] = got[i - l]
    <3>1. old \in Seq(Block) /\ got \in Seq(Block) BY <1>5, <2>2
    <3> HIDE DEF old
    <3>2. /\ old \o got \in Seq(Block) /\ ToSet(old \o got) = ToSet(old) \cup ToSet(got)
          /\ Len(old \o got) = Len(old) + Len(got)
          /\ \A i \in 1..Len(old) : (old \o got)[i] = old[i]
          /\ \A i \in (Len(old) + 1)..(Len(old) + Len(got)) : (old \o got)[i] = got[i - Len(old)]
      BY ONLY <3>1, ConcatSet
    <3> QED BY <2>2, <3>2
  <2>8. IsInjective(t)
    <3> HIDE DEF old
    <3> QED BY <1>5, <2>2, <2>6, ConcatSet, Zenon
  <2> HIDE DEF t
  <2>9. \A i \in 1..Len(t) : \/ i \in 1..l /\ t[i] = old[i]
                             \/ i \notin 1..l /\ t[i] \in ToSet(got)
    <3> SUFFICES ASSUME NEW i \in 1..Len(t), i \notin 1..l PROVE t[i] \in ToSet(got) BY <2>7
    <3>1. i - l \in 1..need /\ i \in (l + 1)..(l + need) BY <1>4, <2>7
    <3>2. t[i] = got[i - l] BY <2>7, <3>1
    <3> QED BY <2>2, <3>1, <3>2, Members
  <2>10. \A g \in Holder : /\ g # h => table'[g] = table[g] /\ allocated'[g] = allocated[g]
                           /\ g = h => table'[g] = t /\ allocated'[g] = computed[h] + n
    BY <1>2, <1>3, <2>1
  <2>11. Typed' BY <1>2, <1>3, <1>4, <2>1, <2>2, <2>7 DEF Typed
  <2>12. Filled' BY <1>1, <1>3, <1>4, <2>7, <2>8, <2>10 DEF Filled
  <2>13. \A g \in Holder : \A i \in 1..Len(table'[g]) :
            \/ i \in 1..Len(table[g]) /\ table'[g][i] = table[g][i]
            \/ g = h /\ table'[g][i] \in ToSet(got)
    BY <2>9, <2>10
  <2>14. KeysTrue(pool, registered)'
    <3> SUFFICES ASSUME NEW g \in Holder, NEW i \in 1..Len(table'[g]), r.contentKey[table'[g][i]] # NoKey
                 PROVE  r.contentKey[table'[g][i]] = SequenceBlockKey(session[g], i - 1) /\ i <= registered[g]
      BY <1>3, <2>1 DEF KeysTrue
    <3>1. i \in 1..Len(table[g]) /\ table'[g][i] = table[g][i] BY <2>3, <2>4, <2>13
    <3>2. r.contentKey[table[g][i]] = pool.contentKey[table[g][i]] BY <2>4, <2>5, <3>1
    <3> QED BY <1>1, <3>1, <3>2 DEF KeysTrue
  <2>15. AllAgree'
    <3> SUFFICES ASSUME NEW f \in Holder, NEW g \in Holder, f # g,
                        NEW i \in 1..Len(table'[f]), NEW j \in 1..Len(table'[g]), table'[f][i] = table'[g][j]
                 PROVE  /\ SequenceBlockKey(session[f], i - 1) = SequenceBlockKey(session[g], j - 1)
                        /\ i <= registered[f] /\ j <= registered[g]
      BY <1>3 DEF AllAgree, Agree
    <3>1. i \in 1..Len(table[f]) /\ table'[f][i] = table[f][i] /\ j \in 1..Len(table[g]) /\ table'[g][j] = table[g][j]
      BY <2>5, <2>10, <2>13
    <3> QED BY <1>1, <3>1 DEF AllAgree, Agree
  <2>16. Counted'
    <3> SUFFICES ASSUME NEW x \in Block PROVE r.refCount[x] = Cardinality(Holding(table', x))
      BY <2>1 DEF Counted, Holding
    <3>1. pool.refCount[x] = Cardinality(Holding(table, x)) /\ pool.refCount[x] \in Nat
      BY <1>1, <1>2 DEF Counted
    <3>2. table' = [table EXCEPT ![h] = t] /\ table \in [Holder -> Seq(Block)] /\ t \in Seq(Block)
      BY <1>2, <2>1, <2>7
    <3>3. /\ (x \in ToSet(t) <=> x \in ToSet(table[h])) => Holding(table', x) = Holding(table, x)
          /\ x \in ToSet(t) /\ x \notin ToSet(table[h]) =>
               Cardinality(Holding(table', x)) = Cardinality(Holding(table, x)) + 1
      BY ONLY PoolAssumption, <3>2, HoldingChange
    <3>4. CASE x \in ToSet(got) BY <2>2, <2>4, <2>6, <2>7, <3>1, <3>3, <3>4
    <3>5. CASE x \notin ToSet(got) BY <2>4, <2>7, <3>1, <3>3, <3>5
    <3> QED BY <3>4, <3>5
  <2>17. Accounted(pool)' /\ ~pool.thrown' BY <1>1, <2>1, <2>2
  <2> QED BY <2>11, <2>12, <2>14, <2>15, <2>16, <2>17 DEF PoolInv
<1> QED BY <1>6, <1>7

(* Registration, block by block: before block i, what the invariant says    *)
(* holds with i - 1 blocks registered, and nobody shares a block that is    *)
(* not registered yet.                                                      *)
LEMMA ComputeInv ==
  ASSUME PoolAssumption, PoolInv, NEW h \in Holder, Compute(h)
  PROVE  PoolInv'
<1> DEFINE c == session[h]  t == table[h]  from == registered[h]  n == allocated[h]  to == Registered(from, n)
           key(i) == SequenceBlockKey(c, i - 1)
<1>1. Typed /\ Filled /\ KeysTrue(pool, registered) /\ AllAgree /\ Counted /\ Accounted(pool) /\ ~pool.thrown
  BY DEF PoolInv
<1>2. /\ pool \in PoolRec /\ pool.refCount \in [Block -> Nat]
      /\ session \in [Holder -> Session \cup {None}] /\ table \in [Holder -> Seq(Block)]
      /\ registered \in [Holder -> Nat] /\ computed \in [Holder -> Nat] /\ allocated \in [Holder -> Nat]
  BY <1>1 DEF Typed, PoolRec
<1>3. /\ computed[h] < n /\ pool' = RegisterFullBlocks(pool, c, t, from, n)
      /\ registered' = [registered EXCEPT ![h] = to] /\ computed' = [computed EXCEPT ![h] = n]
      /\ session' = session /\ table' = table /\ allocated' = allocated
  BY DEF Compute
<1>4. c \in Session /\ t \in Seq(Block) /\ IsInjective(t) /\ from \in Nat /\ n \in Nat
  <2>1. c # None BY <1>1, <1>2, <1>3 DEF Filled
  <2> QED BY <1>1, <1>2, <2>1 DEF Filled
<1>5. to = n \div BlockSize /\ to \in Nat /\ from <= to /\ to <= Len(t)
  <2>1. from = computed[h] \div BlockSize /\ Len(t) = BlocksForTokens(n) /\ computed[h] \in Nat
    BY <1>1, <1>2 DEF Filled
  <2>2. computed[h] <= n BY <1>3, <1>4, <2>1
  <2>3. computed[h] \div BlockSize <= n \div BlockSize BY <1>4, <2>1, <2>2, Division
  <2>4. n \div BlockSize \in Nat /\ n \div BlockSize <= BlocksForTokens(n) BY <1>4, Division
  <2> QED BY <1>4, <2>1, <2>3, <2>4 DEF Registered
<1> HIDE DEF to
<1>6. PICK f : /\ f[from] = pool
               /\ \A i \in from..to : i # from => f[i] = Register(f[i - 1], t[i], SequenceBlockKey(c, i - 1))
               /\ RegisterFullBlocks(pool, c, t, from, n) = f[to]
  <2>1. RegistersTo(pool, c, t, from, to, RegisterFullBlocks(pool, c, t, from, n))
    BY <1>2, <1>4, <1>5, RegisterSteps DEF to
  <2> QED BY <2>1 DEF RegistersTo
<1> DEFINE reach(i) == [registered EXCEPT ![h] = i]
           Good(p, i) == /\ p \in PoolRec /\ Accounted(p) /\ p.refCount = pool.refCount /\ p.thrown = pool.thrown
                         /\ KeysTrue(p, reach(i))
           S == {i \in from..to : Good(f[i], i)}
<1>7. \A i \in Nat : reach(i)[h] = i /\ \A g \in Holder : g # h => reach(i)[g] = registered[g]
  BY <1>2
<1> HIDE DEF reach
<1>8. from \in S
  <2>1. from \in from..to BY <1>4, <1>5
  <2>2. KeysTrue(pool, reach(from)) BY <1>1, <1>4, <1>7 DEF KeysTrue
  <2> QED BY <1>1, <1>2, <1>6, <2>1, <2>2
<1>9. ASSUME NEW i \in (from + 1)..to, i - 1 \in S PROVE i \in S
  <2> DEFINE p == f[i - 1]  q == f[i]  x == t[i]
  <2>1. i \in from..to /\ i # from /\ i \in 1..Len(t) /\ i \in Nat /\ i - 1 \in Nat /\ from < i
    BY <1>4, <1>5
  <2>2. Good(p, i - 1) BY <1>9
  <2>3. q = Register(p, x, key(i)) BY <1>6, <2>1
  <2>4. x \in Block /\ x \in ToSet(t) BY <1>4, <2>1, Members
  <2>5. key(i) \in Key BY <1>4, <2>1, KeyProperties
  <2> HIDE DEF p, q
  <2>6. p.refCount[x] > 0
    <3>1. pool.refCount[x] # 0 BY <1>1, <2>4, HeldCounted
    <3>2. pool.refCount[x] \in Nat BY <1>2, <2>4
    <3> QED BY <2>2, <3>1, <3>2
  <2>7. p.contentKey[x] \in {NoKey, key(i)} BY <2>1, <2>2 DEF KeysTrue
  <2>8. /\ q \in PoolRec /\ Accounted(q) /\ q.refCount = p.refCount /\ q.thrown = p.thrown
        /\ q.contentKey[x] \in {p.contentKey[x], key(i)}
        /\ \A y \in Block : y # x /\ p.refCount[y] > 0 => q.contentKey[y] = p.contentKey[y]
    BY <2>2, <2>3, <2>4, <2>5, <2>6, <2>7, RegisterAccounted
  <2>9. KeysTrue(q, reach(i))
    <3> SUFFICES ASSUME NEW g \in Holder, NEW j \in 1..Len(table[g]), q.contentKey[table[g][j]] # NoKey
                 PROVE  q.contentKey[table[g][j]] = SequenceBlockKey(session[g], j - 1) /\ j <= reach(i)[g]
      BY DEF KeysTrue
    <3>1. table[g] \in Seq(Block) BY <1>2
    <3>2. table[g][j] \in Block /\ table[g][j] \in ToSet(table[g]) /\ j \in Nat BY <3>1, Members
    <3>3. CASE table[g][j] = x
      <4>1. g = h
        <5> SUFFICES ASSUME g # h PROVE FALSE OBVIOUS
        <5>1. i <= registered[h] BY <1>1, <2>1, <3>3 DEF AllAgree, Agree
        <5> QED BY <1>4, <2>1, <5>1
      <4>2. j = i
        <5>1. DOMAIN t = 1..Len(t) BY <1>4, Members
        <5> QED BY <1>4, <2>1, <3>3, <4>1, <5>1 DEF IsInjective
      <4>3. q.contentKey[x] = key(i) BY <2>7, <2>8, <3>3
      <4> QED BY <1>7, <2>1, <3>3, <4>1, <4>2, <4>3
    <3>4. CASE table[g][j] # x
      <4>1. pool.refCount[table[g][j]] # 0 BY <1>1, <3>2, HeldCounted
      <4>2. pool.refCount[table[g][j]] \in Nat BY <1>2, <3>2
      <4>3. p.refCount[table[g][j]] > 0 BY <2>2, <4>1, <4>2
      <4>4. q.contentKey[table[g][j]] = p.contentKey[table[g][j]] BY <2>8, <3>2, <3>4, <4>3
      <4>5. p.contentKey[table[g][j]] = SequenceBlockKey(session[g], j - 1) /\ j <= reach(i - 1)[g]
        BY <2>2, <4>4 DEF KeysTrue
      <4>6. reach(i - 1)[g] <= reach(i)[g] /\ reach(i - 1)[g] \in Nat /\ reach(i)[g] \in Nat
        <5>1. CASE g = h
          <6>1. reach(i - 1)[h] = i - 1 /\ reach(i)[h] = i BY <1>7, <2>1
          <6> QED BY <2>1, <5>1, <6>1
        <5>2. CASE g # h
          <6>1. reach(i - 1)[g] = registered[g] /\ reach(i)[g] = registered[g]
            BY <1>7, <2>1, <5>2
          <6>2. registered[g] \in Nat BY <1>2
          <6> QED BY <6>1, <6>2
        <5> QED BY <5>1, <5>2
      <4> QED BY <3>2, <4>4, <4>5, <4>6
    <3> QED BY <3>3, <3>4
  <2> QED BY <2>1, <2>2, <2>8, <2>9 DEF q
<1> HIDE DEF S
<1>10. to \in S
  <2>1. from \in Int /\ to \in Int BY <1>4, <1>5
  <2>2. \A i \in (from + 1)..to : i - 1 \in S => i \in S BY <1>9
  <2>3. \A i \in from..to : i \in S BY <1>8, <2>1, <2>2, IntervalInduction
  <2> QED BY <1>4, <1>5, <2>3
<1>11. Good(pool', to) BY <1>3, <1>6, <1>10 DEF S
<1>12. registered' = reach(to) BY <1>3 DEF reach
<1>13. \A g \in Holder : registered[g] <= registered'[g] /\ registered[g] \in Nat /\ registered'[g] \in Nat
  <2> SUFFICES ASSUME NEW g \in Holder
               PROVE  registered[g] <= registered'[g] /\ registered[g] \in Nat /\ registered'[g] \in Nat
    OBVIOUS
  <2>1. registered[g] \in Nat /\ registered[h] \in Nat BY <1>2
  <2>2. registered'[g] = IF g = h THEN to ELSE registered[g] BY <1>2, <1>3
  <2> QED BY <1>5, <2>1, <2>2
<1>14. Typed' BY <1>2, <1>3, <1>4, <1>5, <1>11 DEF Typed
<1>15. Filled'
  <2>1. \A g \in Holder : /\ g # h => registered'[g] = registered[g] /\ computed'[g] = computed[g]
                          /\ g = h => registered'[g] = n \div BlockSize /\ computed'[g] = n
    BY <1>2, <1>3, <1>5
  <2> QED BY <1>1, <1>3, <1>4, <2>1 DEF Filled
<1>16. KeysTrue(pool, registered)' BY <1>3, <1>11, <1>12 DEF KeysTrue
<1>17. AllAgree'
  <2> SUFFICES ASSUME NEW e \in Holder, NEW g \in Holder, e # g,
                      NEW i \in 1..Len(table[e]), NEW j \in 1..Len(table[g]), table[e][i] = table[g][j]
               PROVE  /\ SequenceBlockKey(session[e], i - 1) = SequenceBlockKey(session[g], j - 1)
                      /\ i <= registered'[e] /\ j <= registered'[g]
    BY <1>3 DEF AllAgree, Agree
  <2>1. /\ SequenceBlockKey(session[e], i - 1) = SequenceBlockKey(session[g], j - 1)
        /\ i <= registered[e] /\ j <= registered[g]
    BY <1>1 DEF AllAgree, Agree
  <2>2. i \in Nat /\ j \in Nat OBVIOUS
  <2> QED BY <1>13, <2>1, <2>2
<1>18. Counted' BY <1>1, <1>3, <1>11 DEF Counted, Holding
<1> QED BY <1>1, <1>11, <1>14, <1>15, <1>16, <1>17, <1>18 DEF PoolInv

(* All that is computed has been registered, so leaving only releases. *)
LEMMA LeaveInv ==
  ASSUME PoolAssumption, PoolInv, NEW h \in Holder, Leave(h)
  PROVE  PoolInv'
<1> DEFINE c == session[h]  t == table[h]  from == registered[h]  n == computed[h]
           r == ReleaseBlocks(pool, t)
<1>1. Typed /\ Filled /\ KeysTrue(pool, registered) /\ AllAgree /\ Counted /\ Accounted(pool) /\ ~pool.thrown
  BY DEF PoolInv
<1>2. /\ pool \in PoolRec /\ pool.refCount \in [Block -> Nat]
      /\ session \in [Holder -> Session \cup {None}] /\ table \in [Holder -> Seq(Block)]
      /\ registered \in [Holder -> Nat] /\ computed \in [Holder -> Nat] /\ allocated \in [Holder -> Nat]
  BY <1>1 DEF Typed, PoolRec
<1>3. /\ c \in Session /\ t \in Seq(Block) /\ IsInjective(t) /\ from \in Nat /\ n \in Nat
      /\ from = n \div BlockSize /\ from <= Len(t)
  <2>1. c \in Session BY <1>2 DEF Leave
  <2>2. n <= allocated[h] /\ Len(t) = BlocksForTokens(allocated[h]) /\ from = n \div BlockSize /\ allocated[h] \in Nat
        /\ n \in Nat
    BY <1>1, <1>2 DEF Filled
  <2>3. n \div BlockSize <= allocated[h] \div BlockSize /\ allocated[h] \div BlockSize <= Len(t)
        /\ n \div BlockSize \in Nat /\ allocated[h] \div BlockSize \in Nat /\ Len(t) \in Nat
    BY <2>2, Division
  <2> QED BY <1>1, <1>2, <2>1, <2>2, <2>3 DEF Filled
<1>4. RegisterFullBlocks(pool, c, t, from, n) = pool
  <2>1. Registered(from, n) = from BY <1>3 DEF Registered
  <2>2. RegistersTo(pool, c, t, from, from, RegisterFullBlocks(pool, c, t, from, n))
    BY <1>2, <1>3, <2>1, RegisterSteps
  <2> QED BY <2>2 DEF RegistersTo
<1>5. /\ pool' = r
      /\ session' = [session EXCEPT ![h] = None] /\ table' = [table EXCEPT ![h] = <<>>]
      /\ registered' = [registered EXCEPT ![h] = 0] /\ computed' = [computed EXCEPT ![h] = 0]
      /\ allocated' = [allocated EXCEPT ![h] = 0]
  BY <1>4 DEF Leave
<1>6. /\ r \in PoolRec /\ Accounted(r)
      /\ r.refCount = [x \in Block |-> pool.refCount[x] - IF x \in ToSet(t) THEN 1 ELSE 0]
      /\ r.contentKey = pool.contentKey /\ r.thrown = pool.thrown
  <2>1. ASSUME NEW x \in ToSet(t) PROVE pool.refCount[x] > 0
    <3>1. x \in Block BY <1>3, Members
    <3>2. pool.refCount[x] # 0 BY <1>1, <3>1, HeldCounted
    <3> QED BY <1>2, <3>1, <3>2
  <2> QED BY <1>1, <1>2, <1>3, <2>1, ReleaseAccounted
<1> HIDE DEF r
<1>7. \A g \in Holder : /\ g # h => /\ table'[g] = table[g] /\ session'[g] = session[g]
                                    /\ registered'[g] = registered[g] /\ computed'[g] = computed[g]
                                    /\ allocated'[g] = allocated[g]
                        /\ g = h => /\ table'[g] = <<>> /\ session'[g] = None /\ registered'[g] = 0
                                    /\ computed'[g] = 0 /\ allocated'[g] = 0
  BY <1>2, <1>5
<1>8. Len(<<>>) = 0 /\ IsInjective(<<>>) /\ ToSet(<<>>) = {} /\ <<>> \in Seq(Block)
  BY DEF IsInjective, ToSet
<1>9. Typed' BY <1>2, <1>5, <1>6, <1>8 DEF Typed
<1>10. Filled'
  <2> SUFFICES ASSUME NEW g \in Holder
               PROVE  /\ IsInjective(table'[g]) /\ Len(table'[g]) = BlocksForTokens(allocated'[g])
                      /\ registered'[g] = computed'[g] \div BlockSize /\ computed'[g] <= allocated'[g]
                      /\ session'[g] = None => allocated'[g] = 0
    BY DEF Filled
  <2>1. CASE g # h BY <1>1, <1>7, <2>1 DEF Filled
  <2>2. CASE g = h
    <3>1. 0 \div BlockSize = 0 /\ BlocksForTokens(0) = 0 BY ONLY Division
    <3> QED BY ONLY <1>7, <1>8, <2>2, <3>1, g \in Holder
  <2> QED BY <2>1, <2>2
<1>11. \A g \in Holder : 1..Len(table'[g]) # {} => g # h BY <1>7, <1>8
<1>12. KeysTrue(pool, registered)' BY <1>1, <1>5, <1>6, <1>7, <1>11 DEF KeysTrue
<1>13. AllAgree'
  <2> SUFFICES ASSUME NEW e \in Holder, NEW g \in Holder, e # g,
                      NEW i \in 1..Len(table'[e]), NEW j \in 1..Len(table'[g]), table'[e][i] = table'[g][j]
               PROVE  /\ SequenceBlockKey(session'[e], i - 1) = SequenceBlockKey(session'[g], j - 1)
                      /\ i <= registered'[e] /\ j <= registered'[g]
    BY DEF AllAgree, Agree
  <2>1. e # h /\ g # h BY <1>11
  <2> QED BY <1>1, <1>7, <2>1 DEF AllAgree, Agree
<1>14. Counted'
  <2> SUFFICES ASSUME NEW x \in Block PROVE r.refCount[x] = Cardinality(Holding(table', x))
    BY <1>5 DEF Counted, Holding
  <2>1. pool.refCount[x] = Cardinality(Holding(table, x)) /\ pool.refCount[x] \in Nat
    BY <1>1, <1>2 DEF Counted
  <2>2. table' = [table EXCEPT ![h] = <<>>] /\ table \in [Holder -> Seq(Block)] /\ <<>> \in Seq(Block)
    BY <1>2, <1>5, <1>8
  <2>3. /\ (x \in ToSet(<<>>) <=> x \in ToSet(table[h])) => Holding(table', x) = Holding(table, x)
        /\ x \notin ToSet(<<>>) /\ x \in ToSet(table[h]) =>
             Cardinality(Holding(table', x)) = Cardinality(Holding(table, x)) - 1
    BY ONLY PoolAssumption, <2>2, HoldingChange
  <2>4. /\ x \in ToSet(t) => r.refCount[x] = pool.refCount[x] - 1
        /\ x \notin ToSet(t) => r.refCount[x] = pool.refCount[x]
    BY <1>6, <2>1
  <2> QED BY <1>8, <2>1, <2>3, <2>4
<1>15. Accounted(pool)' /\ ~pool.thrown' BY <1>1, <1>5, <1>6
<1> QED BY <1>9, <1>10, <1>12, <1>13, <1>14, <1>15 DEF PoolInv

(* Empty tables hold nothing. *)
LEMMA EmptyCounted ==
  ASSUME NEW x, NEW tables, \A g \in Holder : tables[g] = <<>>
  PROVE  Cardinality(Holding(tables, x)) = 0
<1>1. ToSet(<<>>) = {} BY DEF ToSet
<1>2. Holding(tables, x) = {} BY <1>1 DEF Holding
<1> QED BY <1>2, FS_EmptySet

(* The invariant holds in the morning. *)
LEMMA InitInv ==
  ASSUME PoolAssumption, Init
  PROVE  PoolInv
<1>1. /\ pool \in PoolRec /\ Accounted(pool) /\ pool.refCount = [x \in Block |-> 0] /\ ~pool.thrown
  BY MorningPool DEF Init
<1>2. /\ session = [h \in Holder |-> None] /\ table = [h \in Holder |-> <<>>] /\ registered = [h \in Holder |-> 0]
      /\ computed = [h \in Holder |-> 0] /\ allocated = [h \in Holder |-> 0]
  BY DEF Init
<1>3. Len(<<>>) = 0 /\ IsInjective(<<>>) /\ <<>> \in Seq(Block) BY DEF IsInjective
<1>4. Typed BY <1>1, <1>2, <1>3 DEF Typed
<1>5. Filled BY <1>2, <1>3, Division DEF Filled
<1>6. KeysTrue(pool, registered) /\ AllAgree BY <1>2, <1>3 DEF KeysTrue, AllAgree, Agree
<1>7. \A x \in Block : Cardinality(Holding(table, x)) = 0 BY <1>2, EmptyCounted
<1>8. Counted BY <1>1, <1>7 DEF Counted
<1> QED BY <1>1, <1>4, <1>5, <1>6, <1>8 DEF PoolInv

(* And after a crash. *)
LEMMA WipeInv ==
  ASSUME PoolAssumption, Wipe
  PROVE  PoolInv'
<1>1. /\ pool' \in PoolRec /\ Accounted(pool') /\ pool'.refCount = [x \in Block |-> 0] /\ ~pool'.thrown
  BY NewPool DEF Wipe
<1>2. /\ session' = [h \in Holder |-> None] /\ table' = [h \in Holder |-> <<>>] /\ registered' = [h \in Holder |-> 0]
      /\ computed' = [h \in Holder |-> 0] /\ allocated' = [h \in Holder |-> 0]
  BY DEF Wipe
<1>3. Len(<<>>) = 0 /\ IsInjective(<<>>) /\ <<>> \in Seq(Block) BY DEF IsInjective
<1>4. Typed' BY <1>1, <1>2, <1>3 DEF Typed
<1>5. Filled' BY <1>2, <1>3, Division DEF Filled
<1>6. KeysTrue(pool, registered)' /\ AllAgree' BY <1>2, <1>3 DEF KeysTrue, AllAgree, Agree
<1>7. \A x \in Block : Cardinality(Holding(table', x)) = 0 BY <1>2, EmptyCounted
<1>8. Counted' BY <1>1, <1>7 DEF Counted, Holding
<1> QED BY <1>1, <1>4, <1>5, <1>6, <1>8 DEF PoolInv

(* Whatever the holders do, in any order, a block is handed out to nobody   *)
(* else while it is held and none is lost; sequences that share one agree   *)
(* on its content, and a hit is on KV that was computed; and no call        *)
(* throws: for pools, prompts and numbers of holders of any size            *)
(* (kv/ops.ts, kv/pool.ts assertKvInvariants).                              *)
THEOREM PoolIsConsistent ==
  ASSUME PoolAssumption
  PROVE  Spec => []PoolConsistent
<1>1. Init => PoolInv BY InitInv
<1>2. PoolInv /\ [Next]_vars => PoolInv'
  <2> SUFFICES ASSUME PoolInv, [Next]_vars PROVE PoolInv' OBVIOUS
  <2>1. CASE \E h \in Holder, c \in Session, tokens, chunk \in 1..MaxTokens : Admit(h, c, tokens, chunk)
    BY <2>1, AdmitInv
  <2>2. CASE \E h \in Holder, n \in 1..MaxTokens : Allocate(h, n) BY <2>2, AllocateInv
  <2>3. CASE \E h \in Holder : Compute(h) BY <2>3, ComputeInv
  <2>4. CASE \E h \in Holder : Leave(h) BY <2>4, LeaveInv
  <2>5. CASE Wipe BY <2>5, WipeInv
  <2>6. CASE UNCHANGED vars
    BY <2>6 DEF vars, PoolInv, Typed, Filled, KeysTrue, AllAgree, Agree, Counted, Holding
  <2> QED BY <2>1, <2>2, <2>3, <2>4, <2>5, <2>6 DEF Next
<1>3. PoolInv => PoolConsistent BY PoolInvConsistent
<1> QED BY <1>1, <1>2, <1>3, PTL DEF Spec
=============================================================================
