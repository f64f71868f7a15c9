---------------------------- MODULE PlayheadProofs ----------------------------
(***************************************************************************)
(* What Playhead states of its steps, proved for every week, shift, window *)
(* length, set of speeds and budget: NothingMissed of every state, and     *)
(* PlaysComputed of every step.                                            *)
(***************************************************************************)
EXTENDS Playhead, FiniteSetTheorems, WellFoundedInduction, TLAPS

-----------------------------------------------------------------------------
(* Least elements and division. *)

LEMMA Lowest ==
  ASSUME NEW S \in SUBSET Nat, S # {}
  PROVE  /\ Min(S) \in S
         /\ \A y \in S : Min(S) <= y
<1>1. \E x \in S : \A y \in S : ~(<<y, x>> \in OpToRel(<, Nat))
  BY NatLessThanWellFounded, WFMin, Zenon
<1>2. \A x, y \in Nat : x < y => <<x, y>> \in OpToRel(<, Nat)
  BY DEF OpToRel
<1>3. PICK x \in S : \A y \in S : ~(<<y, x>> \in OpToRel(<, Nat)) BY <1>1
<1>4. \A y \in S : ~(y < x) BY <1>2, <1>3
<1>5. \E z \in S : \A y \in S : z =< y BY <1>4
<1> QED BY <1>5 DEF Min

LEMMA Greater ==
  ASSUME NEW a \in Int, NEW b \in Int
  PROVE  Max({a, b}) = IF a >= b THEN a ELSE b
BY DEF Max

LEMMA Product == \A a, b \in Nat : a * b \in Nat
OBVIOUS

LEMMA Divided ==
  ASSUME NEW a \in Nat, NEW n \in Nat \ {0}
  PROVE  /\ a \div n \in Nat
         /\ a % n \in 0 .. n - 1
         /\ a = n * (a \div n) + (a % n)
OBVIOUS

LEMMA Multiples ==
  ASSUME NEW q \in Int, NEW p \in Int, NEW n \in Nat, p <= q
  PROVE  n * p <= n * q
OBVIOUS

(* Quotient and remainder are what they are. *)
LEMMA Quotient ==
  ASSUME NEW n \in Nat \ {0}, NEW q \in Nat, NEW r \in 0 .. n - 1
  PROVE  /\ n * q + r \in Nat
         /\ (n * q + r) \div n = q
         /\ (n * q + r) % n = r
<1> DEFINE a == n * q + r
<1>1. a \in Nat BY Product
<1>2. /\ a \div n \in Nat /\ a % n \in 0 .. n - 1
      /\ a = n * (a \div n) + (a % n)
  BY <1>1, Divided
<1> DEFINE k == a \div n
           m == a % n
<1>3. k \in Nat /\ m \in 0 .. n - 1 /\ n * q + r = n * k + m BY <1>2
<1> HIDE DEF k, m
<1>4. ASSUME k < q PROVE FALSE
  <2>1. n * (k + 1) <= n * q BY <1>3, <1>4, Multiples
  <2>2. n * (k + 1) = n * k + n BY <1>3
  <2> QED BY <2>1, <2>2, <1>3, Product
<1>5. ASSUME q < k PROVE FALSE
  <2>1. n * (q + 1) <= n * k BY <1>3, <1>5, Multiples
  <2>2. n * (q + 1) = n * q + n OBVIOUS
  <2> QED BY <2>1, <2>2, <1>3, Product
<1>6. k = q BY <1>3, <1>4, <1>5
<1>7. m = r BY <1>3, <1>6, Product
<1> QED BY <1>1, <1>6, <1>7 DEF k, m

-----------------------------------------------------------------------------
(* Days, windows and buckets. *)

Slots == {s \in Week : s % WindowLen = 0}

LEMMA Constants ==
  /\ {WeekDays, DayLen, ShiftStart, ShiftEnd, HistLen, WindowLen, ChunkLen} \subseteq Nat \ {0}
  /\ WeekLen \in Nat \ {0}
  /\ Entry \in Week /\ SeekPoints \subseteq Week
  /\ Min(Speeds) \in Speeds
<1>1. WeekDays * DayLen \in Nat \ {0} BY PlayheadAssumption
<1>2. Min(Speeds) \in Speeds BY PlayheadAssumption, Lowest
<1> QED BY <1>1, <1>2, PlayheadAssumption DEF WeekLen, Week

LEMMA DayTime ==
  ASSUME NEW t \in Week
  PROVE  /\ DayOf(t) \in Days
         /\ t % DayLen \in 0 .. DayLen - 1
         /\ t = DayLen * DayOf(t) + (t % DayLen)
<1>1. t \in Nat /\ t < WeekLen BY Constants DEF Week
<1>2. /\ DayOf(t) \in Nat /\ t % DayLen \in 0 .. DayLen - 1
      /\ t = DayLen * DayOf(t) + (t % DayLen)
  BY <1>1, Constants, Divided DEF DayOf
<1> DEFINE d == DayOf(t)
           r == t % DayLen
<1>3. d \in Nat /\ r \in 0 .. DayLen - 1 /\ t = DayLen * d + r BY <1>2
<1> HIDE DEF d, r
<1>4. ASSUME WeekDays <= d PROVE FALSE
  <2>1. DayLen * WeekDays <= DayLen * d BY <1>3, <1>4, Constants, Multiples
  <2>2. WeekLen = DayLen * WeekDays BY Constants DEF WeekLen
  <2>3. DayLen * d \in Nat BY <1>3, Constants, Product
  <2> QED BY <2>1, <2>2, <2>3, <1>1, <1>3, Constants
<1>5. d \in Days BY <1>3, <1>4, Constants DEF Days
<1> QED BY <1>2, <1>5 DEF d

(* A window lies within its day. *)
LEMMA WindowInDay ==
  ASSUME NEW s \in Slots
  PROVE  /\ DayOf(s) \in Days
         /\ \A x \in s .. SlotEnd(s) - 1 :
              x \in Week /\ DayOf(x) = DayOf(s) /\ x % DayLen = (s % DayLen) + (x - s)
<1> DEFINE n == DayLen \div WindowLen
           j == s \div WindowLen
<1>1. s \in Week /\ s \in Nat /\ s % WindowLen = 0 BY Constants DEF Slots, Week
<1>2. n \in Nat /\ DayLen = WindowLen * n
  <2>1. n \in Nat /\ DayLen = WindowLen * n + (DayLen % WindowLen) BY Constants, Divided
  <2>2. DayLen % WindowLen = 0 BY PlayheadAssumption
  <2> QED BY <2>1, <2>2, Constants, Product
<1>3. n # 0 BY <1>2, Constants
<1>4. j \in Nat /\ s = WindowLen * j
  <2>1. j \in Nat /\ s = WindowLen * j + (s % WindowLen) BY <1>1, Constants, Divided
  <2> QED BY <2>1, <1>1, Constants, Product
<1> HIDE DEF n, j
<1> DEFINE d == j \div n
           k == j % n
<1>5. d \in Nat /\ k \in 0 .. n - 1 /\ j = n * d + k BY <1>2, <1>3, <1>4, Divided
<1> HIDE DEF d, k
<1> DEFINE p == n * d
           q == WindowLen * k
<1>6. p \in Nat /\ q \in Nat BY <1>2, <1>5, Constants, Product
<1>7. s = WindowLen * p + q BY <1>4, <1>5, <1>6, Constants
<1>8. WindowLen * p = DayLen * d BY <1>2, <1>5, Constants
<1>9. q + WindowLen <= DayLen
  <2>1. WindowLen * (k + 1) <= WindowLen * n BY <1>2, <1>5, Constants, Multiples
  <2>2. WindowLen * (k + 1) = q + WindowLen BY <1>5, Constants
  <2> QED BY <2>1, <2>2, <1>2
<1>10. DayLen * d \in Nat BY <1>5, Constants, Product
<1> HIDE DEF p, q
<1>11. s = DayLen * d + q BY <1>7, <1>8
<1>12. ASSUME NEW x \in s .. SlotEnd(s) - 1
       PROVE  /\ x \in Nat /\ DayOf(x) = d /\ x % DayLen = q + (x - s)
  <2>1. q + (x - s) \in 0 .. DayLen - 1 BY <1>1, <1>6, <1>9, Constants DEF SlotEnd
  <2>2. x = DayLen * d + (q + (x - s)) BY <1>1, <1>6, <1>10, <1>11, Constants DEF SlotEnd
  <2> QED BY <2>1, <2>2, <1>5, Constants, Quotient DEF DayOf
<1>13. s \in s .. SlotEnd(s) - 1 BY <1>1, Constants DEF SlotEnd
<1>14. DayOf(s) = d /\ s % DayLen = q BY <1>12, <1>13, <1>1, <1>6
<1>15. d \in Days BY <1>14, <1>1, DayTime
<1>16. ASSUME NEW x \in s .. SlotEnd(s) - 1 PROVE x \in Week
  <2>1. x < DayLen * d + DayLen BY <1>1, <1>6, <1>9, <1>10, <1>11, Constants DEF SlotEnd
  <2>2. DayLen * (d + 1) <= DayLen * WeekDays BY <1>5, <1>15, Constants, Multiples DEF Days
  <2>3. DayLen * (d + 1) = DayLen * d + DayLen BY <1>5, Constants
  <2>4. WeekLen = DayLen * WeekDays BY Constants DEF WeekLen
  <2> QED BY <2>1, <2>2, <2>3, <2>4, <1>10, <1>12, <1>16, Constants DEF Week
<1> QED BY <1>12, <1>14, <1>15, <1>16

(* The window of an instant. *)
LEMMA WindowOf ==
  ASSUME NEW t \in Week
  PROVE  SlotAt(t) \in Slots /\ t \in SlotAt(t) .. SlotEnd(SlotAt(t)) - 1
<1>1. t \in Nat /\ t < WeekLen BY Constants DEF Week
<1> DEFINE q == t \div WindowLen
           r == t % WindowLen
<1>2. q \in Nat /\ r \in 0 .. WindowLen - 1 /\ t = WindowLen * q + r BY <1>1, Constants, Divided
<1>3. SlotAt(t) = WindowLen * q BY <1>2, Constants DEF SlotAt
<1> HIDE DEF q, r
<1>4. WindowLen * q \in Nat BY <1>2, Constants, Product
<1>5. (WindowLen * q + 0) % WindowLen = 0 BY <1>2, Constants, Quotient
<1>6. SlotAt(t) % WindowLen = 0 BY <1>3, <1>4, <1>5
<1> QED BY <1>1, <1>2, <1>3, <1>4, <1>6, Constants DEF Slots, Week, SlotEnd

(* The histogram bucket an instant is in starts on its day. *)
LEMMA BucketOf ==
  ASSUME NEW t \in Week, NEW cut, cut = (t \div HistLen) * HistLen
  PROVE  /\ cut \in Week /\ cut <= t
         /\ DayOf(cut) = DayOf(t)
         /\ cut % DayLen <= t % DayLen
<1> DEFINE d == DayOf(t)
           r == t % DayLen
           n == DayLen \div WindowLen
           m == WindowLen \div HistLen
<1>1. d \in Days /\ r \in 0 .. DayLen - 1 /\ t = DayLen * d + r BY DayTime
<1>2. n \in Nat /\ DayLen = WindowLen * n
  <2>1. n \in Nat /\ DayLen = WindowLen * n + (DayLen % WindowLen) BY Constants, Divided
  <2>2. DayLen % WindowLen = 0 BY PlayheadAssumption
  <2> QED BY <2>1, <2>2, Constants, Product
<1>3. m \in Nat /\ WindowLen = HistLen * m
  <2>1. m \in Nat /\ WindowLen = HistLen * m + (WindowLen % HistLen) BY Constants, Divided
  <2>2. WindowLen % HistLen = 0 BY PlayheadAssumption
  <2> QED BY <2>1, <2>2, Constants, Product
<1> HIDE DEF d, r, n, m
<1>4. d \in Nat /\ r \in Nat BY <1>1, Constants DEF Days
<1> DEFINE k == r \div HistLen
           e == r % HistLen
           b == m * n
<1>5. k \in Nat /\ e \in 0 .. HistLen - 1 /\ r = HistLen * k + e BY <1>4, Constants, Divided
<1>6. b \in Nat BY <1>2, <1>3, Product
<1>7. DayLen = HistLen * b
  <2>1. DayLen = (HistLen * m) * n BY <1>2, <1>3
  <2> QED BY <2>1, <1>2, <1>3, Constants
<1> HIDE DEF k, e, b
<1> DEFINE f == b * d
<1>8. f \in Nat /\ HistLen * f = DayLen * d
  <2>1. f \in Nat BY <1>4, <1>6, Product
  <2>2. HistLen * f = (HistLen * b) * d BY <1>4, <1>6, Constants
  <2> QED BY <2>1, <2>2, <1>7
<1> HIDE DEF f
<1>9. t = HistLen * (f + k) + e
  <2>1. HistLen * (f + k) = HistLen * f + HistLen * k BY <1>5, <1>8, Constants
  <2>2. HistLen * f \in Nat /\ HistLen * k \in Nat BY <1>5, <1>8, Constants, Product
  <2> QED BY <2>1, <2>2, <1>1, <1>5, <1>8, Constants
<1>10. f + k \in Nat BY <1>5, <1>8
<1>11. t \div HistLen = f + k BY <1>9, <1>10, <1>5, Constants, Quotient
<1>12. cut = DayLen * d + HistLen * k BY <1>5, <1>8, <1>11, Constants
<1>13. HistLen * k \in Nat /\ HistLen * k <= r BY <1>5, Constants, Product
<1>14. HistLen * k \in 0 .. DayLen - 1 BY <1>13, <1>1, <1>4, Constants
<1>15. DayOf(cut) = d /\ cut % DayLen = HistLen * k /\ cut \in Nat
  BY <1>12, <1>14, <1>4, Constants, Quotient DEF DayOf
<1>16. DayLen * d \in Nat BY <1>4, Constants, Product
<1>17. cut <= t BY <1>1, <1>4, <1>12, <1>13, <1>16
<1>18. t < WeekLen BY Constants DEF Week
<1> QED BY <1>13, <1>15, <1>17, <1>18, Constants DEF Week, d, r

-----------------------------------------------------------------------------
(* The playable time before an instant, counted, and how far a frame gets. *)

Before(t) == {x \in Week : x < t /\ InShift(x)}

LEMMA Ranks ==
  /\ \A t \in 0 .. WeekLen : Rank[t] \in Nat
  /\ \A t \in Week : Rank[t + 1] = Rank[t] + IF InShift(t) THEN 1 ELSE 0
<1>1. \A t \in 0 .. WeekLen : Rank[t] = Cardinality(Before(t)) BY DEF Rank, Before
<1>2. IsFiniteSet(Week) BY Constants, FS_Interval DEF Week
<1>3. \A t \in 0 .. WeekLen : IsFiniteSet(Before(t)) BY <1>2, FS_Subset DEF Before
<1>4. \A t \in 0 .. WeekLen : Rank[t] \in Nat BY <1>1, <1>3, FS_CardinalityType
<1>5. ASSUME NEW t \in Week
      PROVE  Rank[t + 1] = Rank[t] + IF InShift(t) THEN 1 ELSE 0
  <2>1. t \in 0 .. WeekLen /\ t + 1 \in 0 .. WeekLen BY Constants DEF Week
  <2>2. t \notin Before(t) BY <2>1 DEF Before
  <2>3. CASE InShift(t)
    <3>1. Before(t + 1) = Before(t) \cup {t} BY <2>1, <2>3, Constants DEF Before, Week
    <3>2. Cardinality(Before(t) \cup {t}) = Cardinality(Before(t)) + 1 BY <1>3, <2>1, <2>2, FS_AddElement
    <3> QED BY <1>1, <2>1, <2>3, <3>1, <3>2
  <2>4. CASE ~InShift(t)
    <3>1. Before(t + 1) = Before(t) BY <2>1, <2>4, Constants DEF Before, Week
    <3> QED BY <1>1, <1>4, <2>1, <2>4, <3>1
  <2> QED BY <2>3, <2>4
<1> QED BY <1>4, <1>5

(* Whoever has counted past n playable instants has met the one after n. *)
LEMMA RankMet ==
  ASSUME NEW from \in 0 .. WeekLen, NEW t \in from .. WeekLen, NEW n \in Nat, Rank[t] > Rank[from] + n
  PROVE  \E x \in from .. t - 1 : InShift(x) /\ Rank[x] = Rank[from] + n
<1> DEFINE S == {y \in from .. t : Rank[y] > Rank[from] + n}
           y0 == Min(S)
<1>1. from \in Nat /\ t \in 0 .. WeekLen /\ from <= t BY Constants
<1>2. S \in SUBSET Nat /\ t \in S BY <1>1
<1>3. y0 \in S /\ \A y \in S : y0 <= y BY <1>2, Lowest
<1> HIDE DEF y0
<1>4. y0 \in from .. t /\ Rank[y0] > Rank[from] + n BY <1>3
<1>5. Rank[from] \in Nat BY Ranks
<1>6. y0 # from BY <1>4, <1>5
<1> DEFINE x == y0 - 1
<1>7. x \in from .. t - 1 /\ x \in Week /\ x + 1 = y0 BY <1>1, <1>4, <1>6, Constants DEF Week
<1>8. x \notin S
  <2>1. ASSUME x \in S PROVE FALSE
    <3>1. y0 <= x BY <1>3, <2>1
    <3> QED BY <3>1, <1>1, <1>4
  <2> QED BY <2>1
<1>9. Rank[x] \in Nat
  <2>1. x \in 0 .. WeekLen BY <1>1, <1>7, Constants
  <2> QED BY <2>1, Ranks
<1>10. Rank[x] <= Rank[from] + n BY <1>1, <1>5, <1>7, <1>8, <1>9
<1>11. Rank[x + 1] = Rank[x] + IF InShift(x) THEN 1 ELSE 0 BY <1>7, Ranks
<1>12. InShift(x) /\ Rank[x] = Rank[from] + n
  BY <1>4, <1>5, <1>7, <1>9, <1>10, <1>11
<1> HIDE DEF x
<1> QED BY <1>7, <1>12

LEMMA WeekEndIn == WeekEnd \in 0 .. WeekLen
<1>1. WeekDays - 1 \in Nat BY Constants
<1>2. (WeekDays - 1) * DayLen \in Nat BY <1>1, Constants, Product
<1>3. WeekLen = (WeekDays - 1) * DayLen + DayLen BY Constants DEF WeekLen
<1>4. ShiftEnd \in Nat /\ ShiftEnd <= DayLen /\ DayLen \in Nat BY Constants, PlayheadAssumption
<1> QED BY <1>2, <1>3, <1>4 DEF WeekEnd

(* Where an advance of `sim` ends: it passes computed time only, less than    *)
(* `sim` of it, and says it buffers exactly if it ends at uncomputed shift time. *)
LEMMA Advanced ==
  ASSUME NEW from \in 0 .. WeekLen, NEW sim \in Nat, NEW computed
  PROVE  LET r == Advance(from, sim, computed)
         IN /\ r.playhead \in from .. WeekLen
            /\ r.buffering \in BOOLEAN /\ r.ended \in BOOLEAN
            /\ r.buffering = BufferingAt(r.playhead, computed)
            /\ \A t \in from .. r.playhead - 1 :
                 InShift(t) => IsComputed(computed, t) /\ Rank[t] - Rank[from] < sim
<1> DEFINE stops == {x \in Playable(from) : \/ ~IsComputed(computed, x)
                                            \/ Rank[x] = Rank[from] + sim}
           r == Advance(from, sim, computed)
<1>1. r = IF stops = {} THEN [playhead |-> Max({from, WeekEnd}), buffering |-> FALSE, ended |-> TRUE]
          ELSE [playhead |-> Min(stops), buffering |-> BufferingAt(Min(stops), computed), ended |-> FALSE]
  BY DEF Advance
<1>2. \A x : x \in Playable(from) <=> x \in Week /\ x >= from /\ InShift(x) BY DEF Playable
<1>3. Week \subseteq Nat /\ \A x \in Week : x < WeekLen BY Constants DEF Week
<1>7. \A x \in stops : x \in Week /\ x >= from BY <1>2
<1>4. from \in Nat /\ from <= WeekLen BY Constants
<1>5. /\ r.playhead \in from .. WeekLen
      /\ r.buffering \in BOOLEAN /\ r.ended \in BOOLEAN
      /\ r.buffering = BufferingAt(r.playhead, computed)
      /\ \A t \in Playable(from) : t < r.playhead => t \notin stops
  <2>1. CASE stops = {}
    <3>1. r.playhead = Max({from, WeekEnd}) /\ r.buffering = FALSE /\ r.ended = TRUE BY <1>1, <2>1
    <3>2. r.playhead \in from .. WeekLen BY <3>1, <1>4, WeekEndIn, Constants, Greater
    <3>3. ASSUME BufferingAt(r.playhead, computed) PROVE FALSE
      <4>1. InShift(r.playhead) /\ ~IsComputed(computed, r.playhead) BY <3>3 DEF BufferingAt
      <4>2. r.playhead \in Playable(from) BY <4>1, <3>2, <1>2, <1>4 DEF InShift
      <4> QED BY <2>1, <4>1, <4>2
    <3>4. BufferingAt(r.playhead, computed) \in BOOLEAN BY DEF BufferingAt
    <3> QED BY <2>1, <3>1, <3>2, <3>3, <3>4
  <2>2. CASE stops # {}
    <3>1. /\ r.playhead = Min(stops) /\ r.ended = FALSE
          /\ r.buffering = BufferingAt(Min(stops), computed)
      BY <1>1, <2>2
    <3>2. stops \in SUBSET Nat BY <1>2, <1>3
    <3>3. Min(stops) \in stops /\ \A y \in stops : Min(stops) <= y BY <2>2, <3>2, Lowest
    <3>4. Min(stops) \in Week /\ Min(stops) >= from BY <1>7, <3>3
    <3>5. r.playhead \in from .. WeekLen
      <4>1. PICK p : p = r.playhead OBVIOUS
      <4>2. p \in Week /\ p >= from BY <3>1, <3>4, <4>1
      <4>3. p \in Nat /\ p < WeekLen BY <4>2, <1>3
      <4>4. p \in from .. WeekLen BY <4>2, <4>3, <1>4, Constants
      <4> QED BY <4>1, <4>4
    <3>6. BufferingAt(Min(stops), computed) \in BOOLEAN BY DEF BufferingAt
    <3>7. ASSUME NEW t \in Playable(from), t < r.playhead PROVE t \notin stops
      BY <3>1, <3>2, <3>3, <3>4, <3>7, <1>2, <1>3
    <3> QED BY <3>1, <3>5, <3>6, <3>7
  <2> QED BY <2>1, <2>2
<1> HIDE DEF r
<1>6. ASSUME NEW t \in from .. r.playhead - 1, InShift(t)
      PROVE  IsComputed(computed, t) /\ Rank[t] - Rank[from] < sim
  <2>1. t \in Nat /\ t >= from /\ t < r.playhead /\ t < WeekLen BY <1>5, <1>4, <1>6, Constants
  <2>2. t \in Playable(from) BY <2>1, <1>2, <1>6 DEF InShift
  <2>6. t \notin stops BY <1>5, <2>1, <2>2
  <2>3. IsComputed(computed, t) /\ Rank[t] # Rank[from] + sim BY <2>2, <2>6
  <2>4. Rank[t] \in Nat /\ Rank[from] \in Nat
    <3>1. t \in 0 .. WeekLen BY <2>1, Constants
    <3> QED BY <3>1, Ranks
  <2>5. ASSUME Rank[t] > Rank[from] + sim PROVE FALSE
    <3>1. t \in from .. WeekLen BY <2>1, <1>4, Constants
    <3>2. PICK x \in from .. t - 1 : InShift(x) /\ Rank[x] = Rank[from] + sim BY <2>5, <3>1, RankMet
    <3>3. x \in Playable(from) /\ x < r.playhead BY <3>2, <2>1, <1>2, <1>4, <1>5 DEF InShift
    <3> QED BY <1>5, <3>2, <3>3
  <2> QED BY <2>3, <2>4, <2>5
<1> QED BY <1>5, <1>6 DEF r

-----------------------------------------------------------------------------
(* The inductive invariant: the types, the buffering flag, the windows that   *)
(* are there or asked for, and who is still to be told of a change.           *)

Kinds == {"mount", "play", "set", "seek", "fork", "reset"}
Views == [playhead : 0 .. WeekLen, playing : BOOLEAN, speed : Speeds, mode : {"live", "graph"},
          buffering : BOOLEAN, computed : [Days -> Nat], disposed : BOOLEAN]
Clients == [focusDay : Int, prefetchDay : Int, received : SUBSET Slots, pending : SUBSET Slots]
Canvases == [listening : BOOLEAN, handle : BOOLEAN, dirty : BOOLEAN, undrawn : BOOLEAN]
Reacts == [subscribed : BOOLEAN, pending : BOOLEAN, wait : Nat, untold : BOOLEAN]

TypeOK ==
  /\ view \in Views /\ client \in Clients
  /\ canvas \in Canvases /\ react \in Reacts
  /\ wall \in Nat

\* A window is computed to its end; those the client holds are.
Whole(slot, computed) == \A t \in slot .. SlotEnd(slot) - 1 : IsComputed(computed, t)
AllThere(c, computed) == \A slot \in c.pending \cup c.received : Whole(slot, computed)
AskedFor(c, v) == ~v.disposed /\ DotsShown(v) /\ v.playhead < WeekLen => ~Wanted(c, v, SlotAt(v.playhead))

\* A change not drawn has marked the canvas and has its frame; one not told
\* has its timer.
CanvasTold(cv) == cv.undrawn => cv.listening /\ cv.dirty /\ cv.handle
ReactTold(r) == r.untold => r.pending

Sound ==
  /\ TypeOK
  /\ BufferingTrue
  /\ AllThere(client, view.computed) /\ AskedFor(client, view)
  /\ view.playing => canvas.handle
  /\ CanvasTold(canvas) /\ ReactTold(react)

Inv == Sound /\ left \in [Kinds -> Nat]

-----------------------------------------------------------------------------
(* What the parts of an action make of the client, the canvas and React. *)

LEMMA Aligned ==
  ASSUME NEW t \in Nat
  PROVE  /\ SlotAt(t) \in Nat /\ SlotAt(t) % WindowLen = 0
         /\ SlotEnd(SlotAt(t)) \in Nat /\ SlotEnd(SlotAt(t)) % WindowLen = 0
<1> DEFINE q == t \div WindowLen
<1>1. q \in Nat BY Constants, Divided
<1>2. SlotAt(t) = WindowLen * q BY <1>1, Constants DEF SlotAt
<1> HIDE DEF q
<1>3. WindowLen * q \in Nat BY <1>1, Constants, Product
<1>4. WindowLen * (q + 1) = WindowLen * q + WindowLen BY <1>1, Constants
<1>5. (WindowLen * q + 0) % WindowLen = 0 BY <1>1, Constants, Quotient
<1>6. (WindowLen * (q + 1) + 0) % WindowLen = 0
  <2>1. q + 1 \in Nat /\ WindowLen \in Nat \ {0} /\ 0 \in 0 .. WindowLen - 1 BY <1>1, Constants
  <2> QED BY <2>1, Quotient
<1>7. SlotEnd(SlotAt(t)) = WindowLen * (q + 1) BY <1>2, <1>4 DEF SlotEnd
<1> QED BY <1>2, <1>3, <1>4, <1>5, <1>6, <1>7, Constants

LEMMA WantedWhole ==
  ASSUME NEW c \in Clients, NEW v \in Views, NEW s \in Nat, s % WindowLen = 0, Wanted(c, v, s)
  PROVE  s \in Slots /\ Whole(s, v.computed)
<1>1. InShift(s) \/ InShift(SlotEnd(s) - 1) BY DEF Wanted
<1>2. \A t : InShift(t) => t \in Week BY DEF InShift
<1>3. s \in Week
  <2>1. s \in Week \/ SlotEnd(s) - 1 \in Week BY <1>1, <1>2
  <2> QED BY <2>1, Constants DEF Week, SlotEnd
<1> QED BY <1>3 DEF Slots, Whole, Wanted

LEMMA DetailStep ==
  ASSUME NEW c \in Clients, NEW v \in Views, AllThere(c, v.computed)
  PROVE  /\ WithDetail(c, v) \in Clients
         /\ AllThere(WithDetail(c, v), v.computed)
         /\ AskedFor(WithDetail(c, v), v)
<1> DEFINE slot == SlotAt(v.playhead)
           next == IF 2 * v.playhead >= slot + SlotEnd(slot) /\ SlotEnd(slot) < WeekLen THEN {SlotEnd(slot)} ELSE {}
           due == {s \in {slot} \cup next : Wanted(c, v, s)}
<1>1. v.playhead \in Nat BY Constants DEF Views
<1>2. \A s \in {slot} \cup next : s \in Nat /\ s % WindowLen = 0 BY <1>1, Aligned
<1>3. \A s \in due : s \in Slots /\ Whole(s, v.computed) BY <1>2, WantedWhole
<1>4. CASE DotsShown(v)
  <2>1. WithDetail(c, v) = [c EXCEPT !.pending = @ \cup due] BY <1>4 DEF WithDetail
  <2> HIDE DEF due
  <2>2. /\ WithDetail(c, v) \in Clients
        /\ WithDetail(c, v).pending = c.pending \cup due
        /\ WithDetail(c, v).received = c.received
    BY <2>1, <1>3 DEF Clients
  <2>3. AllThere(WithDetail(c, v), v.computed) BY <2>2, <1>3 DEF AllThere
  <2>4. slot \in due => Held(WithDetail(c, v), slot) BY <2>2 DEF Held
  <2>5. slot \notin due => ~Wanted(c, v, slot) BY DEF due
  <2>6. Held(c, slot) => Held(WithDetail(c, v), slot) BY <2>2 DEF Held
  <2>7. ~Wanted(WithDetail(c, v), v, slot) BY <2>4, <2>5, <2>6 DEF Wanted
  <2> QED BY <2>2, <2>3, <2>7 DEF AskedFor
<1>5. CASE ~DotsShown(v)
  <2>1. WithDetail(c, v) = c BY <1>5 DEF WithDetail
  <2> QED BY <2>1, <1>5 DEF AskedFor
<1> QED BY <1>4, <1>5

LEMMA FocusStep ==
  ASSUME NEW c \in Clients, NEW v \in Views
  PROVE  /\ WithFocus(c, v) \in Clients
         /\ WithFocus(c, v).pending = c.pending /\ WithFocus(c, v).received = c.received
<1>1. v.playhead \in 0 .. WeekLen /\ v.playhead \in Nat /\ v.speed \in Nat
  <2>1. v.playhead \in 0 .. WeekLen /\ v.speed \in Speeds BY DEF Views
  <2>2. Speeds \subseteq Nat \ {0} BY PlayheadAssumption
  <2>3. v.playhead \in Nat BY <2>1, Constants
  <2> QED BY <2>1, <2>2, <2>3
<1>2. ASSUME NEW t \in Nat PROVE DayOf(t) \in Int
  <2>1. t \div DayLen \in Nat BY Constants, Divided
  <2> QED BY <2>1 DEF DayOf
<1>3. Max({v.speed * LookWall, LookMin}) \in Nat
  <2>1. v.speed * LookWall \in Nat /\ LookMin \in Nat BY <1>1, PlayheadAssumption, Product
  <2> QED BY <2>1, Greater
<1>4. Lookahead(v).playhead \in 0 .. WeekLen BY <1>1, <1>3, Advanced, Constants DEF Lookahead
<1>5. DayOf(Lookahead(v).playhead) \in Int BY <1>2, <1>4, Constants
<1>6. \/ WithFocus(c, v) = c
      \/ WithFocus(c, v) = [c EXCEPT !.focusDay = DayOf(v.playhead), !.prefetchDay = None]
      \/ WithFocus(c, v) = [c EXCEPT !.prefetchDay = DayOf(Lookahead(v).playhead)]
  <2>1. Prefetched(c, Lookahead(v)) = c
        \/ Prefetched(c, Lookahead(v)) = [c EXCEPT !.prefetchDay = DayOf(Lookahead(v).playhead)]
    BY DEF Prefetched
  <2> QED BY <2>1 DEF WithFocus, FocusedOn
<1>7. DayOf(v.playhead) \in Int /\ None \in Int BY <1>1, <1>2 DEF None
<1> QED BY <1>5, <1>6, <1>7 DEF Clients

LEMMA DirtiedTells ==
  ASSUME NEW cv \in Canvases, CanvasTold(cv)
  PROVE  /\ Dirtied(cv) \in Canvases /\ CanvasTold(Dirtied(cv))
         /\ cv.handle => Dirtied(cv).handle
BY DEF Canvases, CanvasTold, Dirtied

LEMMA CalledTells ==
  ASSUME NEW r \in Reacts, ReactTold(r)
  PROVE  Called(r) \in Reacts /\ ReactTold(Called(r))
BY PlayheadAssumption DEF Reacts, ReactTold, Called, Fired

LEMMA NotifyTells ==
  ASSUME Sound, Notify
  PROVE  /\ canvas' \in Canvases /\ CanvasTold(canvas')
         /\ canvas.handle => canvas'.handle
         /\ react' \in Reacts /\ ReactTold(react')
BY DirtiedTells, CalledTells DEF Sound, TypeOK, Notify

-----------------------------------------------------------------------------
(* Every action keeps the invariant. *)

\* What a frame makes of the view: it moves the playhead as Advance says, or
\* leaves all as it is.
LEMMA FrameMoves ==
  ASSUME Sound, Frame
  PROVE  /\ view' \in Views
         /\ view'.computed = view.computed /\ view'.mode = view.mode /\ view'.disposed = view.disposed
         /\ view'.speed = view.speed
         /\ view'.buffering = BufferingAt(view'.playhead, view'.computed)
         /\ ~view.playing => view' = view
         /\ \A t \in view.playhead .. view'.playhead - 1 :
              InShift(t) => IsComputed(view.computed, t) /\ Rank[t] - Rank[view.playhead] < wall * view.speed
<1> DEFINE r == Advance(view.playhead, wall * view.speed, view.computed)
<1>1. view \in Views /\ wall \in Nat BY DEF Sound, TypeOK
<1>2. view.playhead \in 0 .. WeekLen /\ view.speed \in Speeds BY <1>1 DEF Views
<1>3. wall * view.speed \in Nat
  <2>1. Speeds \subseteq Nat \ {0} BY PlayheadAssumption
  <2> QED BY <2>1, <1>1, <1>2, Product
<1>4. /\ r.playhead \in view.playhead .. WeekLen
      /\ r.buffering \in BOOLEAN /\ r.ended \in BOOLEAN
      /\ r.buffering = BufferingAt(r.playhead, view.computed)
      /\ \A t \in view.playhead .. r.playhead - 1 :
           InShift(t) => IsComputed(view.computed, t) /\ Rank[t] - Rank[view.playhead] < wall * view.speed
  BY <1>2, <1>3, Advanced
<1>5. view' = Ticked(r) BY DEF Frame
<1> HIDE DEF r
<1>6. CASE view' = view
  <2>1. view.playhead \in Int BY <1>2, Constants
  <2>2. \A t \in view.playhead .. view'.playhead - 1 : FALSE BY <1>6, <2>1
  <2> QED BY <1>1, <1>6, <2>2 DEF Sound, BufferingTrue
<1>7. CASE view' # view
  <2>1. /\ view' = [view EXCEPT !.playhead = r.playhead, !.buffering = r.buffering, !.playing = ~r.ended]
        /\ view.playing
    BY <1>5, <1>7 DEF Ticked
  <2>2. r.playhead \in 0 .. WeekLen BY <1>2, <1>4, Constants
  <2>3. /\ view' \in Views /\ view'.playhead = r.playhead /\ view'.buffering = r.buffering
        /\ view'.computed = view.computed /\ view'.mode = view.mode /\ view'.disposed = view.disposed
        /\ view'.speed = view.speed
    BY <1>1, <1>4, <2>1, <2>2 DEF Views
  <2> QED BY <1>4, <2>1, <2>3
<1> QED BY <1>6, <1>7

LEMMA FrameStep ==
  ASSUME Sound, Frame
  PROVE  Sound'
<1>1. /\ view \in Views /\ client \in Clients /\ canvas \in Canvases /\ react \in Reacts /\ wall \in Nat
      /\ CanvasTold(canvas) /\ ReactTold(react)
      /\ AllThere(client, view.computed) /\ AskedFor(client, view)
  BY DEF Sound, TypeOK
<1>2. /\ view' \in Views /\ view'.computed = view.computed
      /\ view'.buffering = BufferingAt(view'.playhead, view'.computed)
      /\ ~view.playing => view' = view
  BY FrameMoves
<1>3. /\ client' \in Clients /\ AllThere(client', view'.computed) /\ AskedFor(client', view')
  <2>1. CASE view.playing
    <3> DEFINE c == WithFocus(client, view')
    <3>1. c \in Clients /\ c.pending = client.pending /\ c.received = client.received
      BY <1>1, <1>2, FocusStep
    <3>2. AllThere(c, view'.computed) BY <1>1, <1>2, <3>1 DEF AllThere
    <3>3. client' = WithDetail(c, view') BY <2>1 DEF Frame
    <3> HIDE DEF c
    <3> QED BY <1>2, <3>1, <3>2, <3>3, DetailStep
  <2>2. CASE ~view.playing
    <3>1. client' = client BY <2>2 DEF Frame
    <3> QED BY <1>1, <1>2, <2>2, <3>1
  <2> QED BY <2>1, <2>2
<1>4. /\ canvas' \in Canvases /\ CanvasTold(canvas') /\ (view'.playing => canvas'.handle)
  <2> DEFINE changed == view' # view
             cv == IF changed THEN Dirtied(canvas) ELSE canvas
  <2>1. cv \in Canvases /\ CanvasTold(cv) BY <1>1, DirtiedTells
  <2>2. canvas' = AfterFrame(cv, view'.playing, changed) BY DEF Frame
  <2>3. view'.playing \in BOOLEAN /\ changed \in BOOLEAN /\ canvas.listening \in BOOLEAN
    BY <1>1, <1>2 DEF Views, Canvases
  <2> HIDE DEF cv, changed
  <2>4. NextFrame(view'.playing, changed /\ canvas.listening) \in BOOLEAN
        /\ (view'.playing => NextFrame(view'.playing, changed /\ canvas.listening))
    BY <2>3 DEF NextFrame
  <2>5. Drawn(cv, view'.playing) \in BOOLEAN BY <2>1, <2>3 DEF Drawn, Canvases
  <2>6. /\ canvas' \in Canvases
        /\ canvas'.handle = NextFrame(view'.playing, changed /\ canvas.listening)
        /\ canvas'.undrawn = (cv.undrawn /\ ~Drawn(cv, view'.playing))
    BY <2>1, <2>2, <2>4, <2>5 DEF AfterFrame, Canvases
  <2>7. cv.undrawn => Drawn(cv, view'.playing) BY <2>1 DEF CanvasTold, Drawn
  <2> QED BY <2>4, <2>6, <2>7 DEF CanvasTold
<1>5. /\ react' \in Reacts /\ ReactTold(react') BY <1>1, CalledTells DEF Frame
<1>6. wall' \in Nat BY <1>1 DEF Frame
<1> QED BY <1>2, <1>3, <1>4, <1>5, <1>6 DEF Sound, TypeOK, BufferingTrue

\* Time, timers and mounting: the view and the client stay.
LEMMA TellingStep ==
  ASSUME Sound, Elapse \/ TimerFires \/ Listen \/ Subscribe
  PROVE  Sound' /\ view' = view
<1>1. /\ view \in Views /\ canvas \in Canvases /\ react \in Reacts /\ wall \in Nat
      /\ CanvasTold(canvas) /\ ReactTold(react) /\ (view.playing => canvas.handle)
  BY DEF Sound, TypeOK
<1>2. UNCHANGED <<view, client>> BY DEF Elapse, TimerFires, Listen, Subscribe
<1>3. CASE Elapse
  <2>1. MaxWall \in Nat BY PlayheadAssumption
  <2>2. wall' \in Nat BY <1>1, <1>3, <2>1 DEF Elapse, Least
  <2>3. react.wait \in Nat BY <1>1 DEF Reacts
  <2>4. Max({react.wait - 1, 0}) \in Nat BY <2>3, Greater
  <2>5. react' \in Reacts /\ ReactTold(react') /\ canvas' = canvas
    BY <1>1, <1>3, <2>4 DEF Elapse, Reacts, ReactTold
  <2> QED BY <1>2, <2>2, <2>5 DEF Sound, TypeOK, BufferingTrue
<1>4. CASE TimerFires
  <2>1. Interval \in Nat BY PlayheadAssumption
  <2>2. react' \in Reacts /\ ReactTold(react') /\ canvas' = canvas /\ wall' = wall
    BY <1>1, <1>4, <2>1 DEF TimerFires, Fired, Reacts, ReactTold
  <2> QED BY <1>2, <2>2 DEF Sound, TypeOK, BufferingTrue
<1>5. CASE Listen
  <2>1. canvas' \in Canvases /\ CanvasTold(canvas') /\ (canvas.handle => canvas'.handle)
    BY <1>1, <1>5 DEF Listen, Canvases, CanvasTold
  <2>2. react' = react /\ wall' = wall BY <1>5 DEF Listen
  <2> QED BY <1>1, <1>2, <2>1, <2>2 DEF Sound, TypeOK, BufferingTrue
<1>6. CASE Subscribe
  <2>1. react' \in Reacts /\ ReactTold(react') BY <1>1, <1>6 DEF Subscribe, Reacts, ReactTold
  <2>2. canvas' = canvas /\ wall' = wall BY <1>6 DEF Subscribe
  <2> QED BY <1>1, <1>2, <2>1, <2>2 DEF Sound, TypeOK, BufferingTrue
<1> QED BY <1>3, <1>4, <1>5, <1>6

\* An action that leaves view and client sound and notifies.
LEMMA NotifyingStep ==
  ASSUME Sound, Notify, wall' = wall,
         view' \in Views, client' \in Clients, BufferingTrue',
         AllThere(client', view'.computed), AskedFor(client', view'),
         view'.playing => view.playing
  PROVE  Sound'
BY NotifyTells DEF Sound, TypeOK

\* Which window is due depends on these parts of the view only.
LEMMA SameAsked ==
  ASSUME NEW c, NEW v, NEW w, AskedFor(c, v),
         w.playhead = v.playhead, w.computed = v.computed, w.mode = v.mode, w.speed = v.speed,
         w.disposed = v.disposed
  PROVE  AskedFor(c, w)
BY DEF AskedFor, DotsShown, Wanted

\* None is due while the playhead is at time that is not computed.
LEMMA NoneDue ==
  ASSUME NEW c, NEW v, v.playhead \in Week, ~IsComputed(v.computed, v.playhead)
  PROVE  AskedFor(c, v)
<1>1. v.playhead \in SlotAt(v.playhead) .. SlotEnd(SlotAt(v.playhead)) - 1 BY WindowOf
<1> QED BY <1>1 DEF AskedFor, Wanted

LEMMA PlayStep ==
  ASSUME Sound, Play \/ Pause
  PROVE  Sound' /\ client' = client
<1>1. /\ view \in Views /\ client \in Clients /\ canvas \in Canvases /\ react \in Reacts /\ wall \in Nat
      /\ CanvasTold(canvas) /\ ReactTold(react) /\ BufferingTrue
      /\ AllThere(client, view.computed) /\ AskedFor(client, view)
  BY DEF Sound, TypeOK
<1>2. client' = client /\ \E b \in BOOLEAN : view' = [view EXCEPT !.playing = b] BY DEF Play, Pause
<1>3. /\ view' \in Views /\ view'.playhead = view.playhead /\ view'.buffering = view.buffering
      /\ view'.computed = view.computed /\ view'.mode = view.mode /\ view'.speed = view.speed
      /\ view'.disposed = view.disposed
  BY <1>1, <1>2 DEF Views
<1>4. BufferingTrue' /\ AllThere(client', view'.computed) /\ client' \in Clients
  BY <1>1, <1>2, <1>3 DEF BufferingTrue
<1>5. AskedFor(client', view') BY <1>1, <1>2, <1>3, SameAsked
<1>6. CASE Play
  <2>1. canvas' = [Dirtied(canvas) EXCEPT !.handle = TRUE] BY <1>6 DEF Play
  <2>2. Dirtied(canvas) \in Canvases /\ CanvasTold(Dirtied(canvas)) BY <1>1, DirtiedTells
  <2>3. canvas' \in Canvases /\ CanvasTold(canvas') /\ canvas'.handle
    BY <2>1, <2>2 DEF Canvases, CanvasTold
  <2>4. react' \in Reacts /\ ReactTold(react') BY <1>1, <1>6, CalledTells DEF Play
  <2>5. wall' \in Nat BY <1>6 DEF Play
  <2> QED BY <1>2, <1>3, <1>4, <1>5, <2>3, <2>4, <2>5 DEF Sound, TypeOK
<1>7. CASE Pause
  <2>1. Notify /\ wall' = wall /\ (view'.playing => view.playing) BY <1>7 DEF Pause
  <2> QED BY <1>2, <1>3, <1>4, <1>5, <2>1, NotifyingStep
<1> QED BY <1>2, <1>6, <1>7

LEMMA SettingStep ==
  ASSUME Sound, (\E s \in Speeds : SetSpeed(s)) \/ (\E m \in {"live", "graph"} : SetMode(m))
  PROVE  Sound'
<1>1. /\ view \in Views /\ client \in Clients /\ BufferingTrue /\ AllThere(client, view.computed)
  BY DEF Sound, TypeOK
<1>2. \/ \E s \in Speeds : view' = [view EXCEPT !.speed = s]
      \/ \E m \in {"live", "graph"} : view' = [view EXCEPT !.mode = m]
  BY DEF SetSpeed, SetMode
<1>3. /\ view' \in Views /\ view'.playhead = view.playhead /\ view'.buffering = view.buffering
      /\ view'.computed = view.computed /\ view'.playing = view.playing
  BY <1>1, <1>2 DEF Views
<1>4. client' = WithDetail(client, view') /\ Notify /\ wall' = wall BY DEF SetSpeed, SetMode
<1>5. client' \in Clients /\ AllThere(client', view'.computed) /\ AskedFor(client', view')
  BY <1>1, <1>3, <1>4, DetailStep
<1>6. BufferingTrue' BY <1>1, <1>3 DEF BufferingTrue
<1> QED BY <1>3, <1>4, <1>5, <1>6, NotifyingStep

LEMMA MovingStep ==
  ASSUME Sound, JumpToEntry \/ (\E t \in SeekPoints : Seek(t))
  PROVE  Sound'
<1>1. /\ view \in Views /\ client \in Clients /\ AllThere(client, view.computed) BY DEF Sound, TypeOK
<1>2. PICK t \in Week, v \in {view, [view EXCEPT !.playing = FALSE, !.speed = Min(Speeds)]} : MoveTo(t, v)
  BY Constants DEF JumpToEntry, Seek
<1>3. v \in Views /\ v.computed = view.computed /\ (v.playing => view.playing)
  BY <1>1, <1>2, Constants DEF Views
<1>4. /\ view' = [v EXCEPT !.playhead = t, !.buffering = BufferingAt(t, view.computed)]
      /\ client' = WithDetail(FocusedOn(client, t), view')
      /\ Notify /\ wall' = wall
  BY <1>2 DEF MoveTo
<1>5. t \in 0 .. WeekLen /\ BufferingAt(t, view.computed) \in BOOLEAN
  BY Constants DEF Week, BufferingAt
<1>6. /\ view' \in Views /\ view'.playhead = t /\ view'.buffering = BufferingAt(t, view.computed)
      /\ view'.computed = view.computed /\ view'.playing = v.playing
  BY <1>3, <1>4, <1>5 DEF Views
<1>7. DayOf(t) \in Int /\ None \in Int BY DayTime, Constants DEF Days, None
<1>8. /\ FocusedOn(client, t) \in Clients
      /\ FocusedOn(client, t).pending = client.pending /\ FocusedOn(client, t).received = client.received
  BY <1>1, <1>7 DEF FocusedOn, Clients
<1>9. AllThere(FocusedOn(client, t), view'.computed) BY <1>1, <1>6, <1>8 DEF AllThere
<1>10. client' \in Clients /\ AllThere(client', view'.computed) /\ AskedFor(client', view')
  BY <1>4, <1>6, <1>8, <1>9, DetailStep
<1>11. BufferingTrue' BY <1>6 DEF BufferingTrue
<1> QED BY <1>3, <1>4, <1>6, <1>10, <1>11, NotifyingStep

\* A fork: what stays of the received windows stays computed, and the
\* playhead's own is cut.
LEMMA ForkStep ==
  ASSUME Sound, NEW lasting \in BOOLEAN, Fork(lasting)
  PROVE  Sound'
<1> DEFINE t == view.playhead
           day == DayOf(t)
           cut == (t \div HistLen) * HistLen
           computed == [d \in Days |-> IF d = day THEN Least(view.computed[d], cut % DayLen)
                                       ELSE IF lasting /\ d > day THEN 0 ELSE view.computed[d]]
<1>1. /\ view \in Views /\ client \in Clients /\ AllThere(client, view.computed) BY DEF Sound, TypeOK
<1>2. /\ t < WeekLen
      /\ view' = WithComputed(view, computed)
      /\ client' = ForkedDetail(client, day, cut, lasting)
      /\ Notify /\ wall' = wall
  BY DEF Fork
<1>3. t \in Week /\ view.computed \in [Days -> Nat]
  <2>1. t \in 0 .. WeekLen /\ view.computed \in [Days -> Nat] BY <1>1 DEF Views
  <2> QED BY <1>2, <2>1, Constants DEF Week
<1>4. /\ cut \in Week /\ cut <= t /\ DayOf(cut) = day /\ cut % DayLen <= t % DayLen
  BY <1>3, BucketOf
<1> HIDE DEF cut
<1>5. /\ day \in Days
      /\ t % DayLen \in 0 .. DayLen - 1 /\ cut % DayLen \in 0 .. DayLen - 1
      /\ cut = DayLen * day + (cut % DayLen)
  <2>1. day \in Days /\ t % DayLen \in 0 .. DayLen - 1 BY <1>3, DayTime
  <2>2. cut % DayLen \in 0 .. DayLen - 1 /\ cut = DayLen * DayOf(cut) + (cut % DayLen) BY <1>4, DayTime
  <2> QED BY <2>1, <2>2, <1>4
<1>6. /\ \A d \in Days : computed[d] = IF d = day THEN Least(view.computed[d], cut % DayLen)
                                       ELSE IF lasting /\ d > day THEN 0 ELSE view.computed[d]
      /\ computed \in [Days -> Nat]
  BY <1>3, <1>5, Constants DEF Least
<1> HIDE DEF computed
<1>7. /\ view' \in Views /\ view'.playhead = t /\ view'.computed = computed
      /\ view'.playing = view.playing /\ view'.buffering = BufferingAt(t, computed)
  <2>1. BufferingAt(t, computed) \in BOOLEAN BY DEF BufferingAt
  <2>2. view' = [view EXCEPT !.computed = computed, !.buffering = BufferingAt(t, computed)]
    BY <1>2 DEF WithComputed
  <2> HIDE DEF t
  <2>3. view' \in Views BY <1>1, <1>6, <2>1, <2>2 DEF Views
  <2>4. /\ view'.playhead = view.playhead /\ view'.computed = computed
        /\ view'.playing = view.playing /\ view'.buffering = BufferingAt(t, computed)
    BY <1>1, <2>2 DEF Views
  <2> QED BY <2>3, <2>4 DEF t
<1>8. ~IsComputed(computed, t)
  <2>1. computed[day] <= cut % DayLen /\ computed[day] \in Nat BY <1>3, <1>5, <1>6, Constants DEF Least
  <2> QED BY <2>1, <1>4, <1>5, Constants DEF IsComputed
<1>9. AskedFor(client', view') BY <1>3, <1>7, <1>8, NoneDue
<1>10. /\ client' \in Clients /\ client'.pending = {}
       /\ \A s \in client'.received :
            s \in client.received /\ ~(DayOf(s) = day /\ SlotEnd(s) > cut) /\ ~(lasting /\ DayOf(s) > day)
  <2>1. day \in Int /\ None \in Int BY <1>5, Constants DEF Days, None
  <2> HIDE DEF day
  <2> QED BY <1>1, <1>2, <2>1 DEF ForkedDetail, Clients
<1>11. ASSUME NEW s \in client'.received, NEW x \in s .. SlotEnd(s) - 1
       PROVE  IsComputed(computed, x)
  <2>1. s \in Slots /\ s \in client.received BY <1>1, <1>10 DEF Clients
  <2>2. DayOf(s) \in Days /\ x \in Week /\ DayOf(x) = DayOf(s) BY <2>1, WindowInDay
  <2>3. /\ x % DayLen \in 0 .. DayLen - 1
        /\ x = DayLen * DayOf(s) + (x % DayLen)
    BY <2>2, DayTime
  <2>4. x % DayLen < view.computed[DayOf(s)] BY <1>1, <2>1, <2>2 DEF AllThere, Whole, IsComputed
  <2>5. CASE DayOf(s) = day
    <3>1. SlotEnd(s) <= cut
      <4>1. ~(SlotEnd(s) > cut) BY <1>10, <2>5
      <4>2. SlotEnd(s) \in Int /\ cut \in Int BY <2>1, <1>4, Constants DEF SlotEnd, Slots, Week
      <4> QED BY <4>1, <4>2
    <3>2. x < cut BY <2>1, <2>2, <3>1, <1>4, Constants DEF SlotEnd, Slots, Week
    <3>3. DayLen * day \in Nat BY <1>5, Constants, Product DEF Days
    <3>4. x = DayLen * day + (x % DayLen) BY <2>3, <2>5
    <3>5. x % DayLen < cut % DayLen BY <2>3, <3>2, <3>3, <3>4, <1>5, Constants
    <3>6. computed[day] = Least(view.computed[day], cut % DayLen) BY <1>5, <1>6
    <3> QED BY <2>2, <2>4, <2>5, <3>5, <3>6 DEF IsComputed, Least
  <2>6. CASE DayOf(s) # day
    <3>1. computed[DayOf(s)] = view.computed[DayOf(s)] BY <1>6, <1>10, <2>2, <2>6
    <3> QED BY <2>2, <2>4, <3>1 DEF IsComputed
  <2> QED BY <2>5, <2>6
<1>12. AllThere(client', view'.computed) BY <1>7, <1>10, <1>11 DEF AllThere, Whole
<1>13. BufferingTrue' BY <1>7 DEF BufferingTrue
<1> QED BY <1>2, <1>7, <1>9, <1>10, <1>12, <1>13, NotifyingStep

\* A run starts with nothing computed and nothing asked for.
LEMMA StartedSound ==
  /\ Started \in Views /\ NewClient \in Clients
  /\ Started.buffering = BufferingAt(Started.playhead, Started.computed)
  /\ ~Started.playing
  /\ AllThere(NewClient, Started.computed) /\ AskedFor(NewClient, Started)
<1> DEFINE zero == [d \in Days |-> 0]
<1>1. zero \in [Days -> Nat] /\ BufferingAt(Entry, zero) \in BOOLEAN BY DEF BufferingAt
<1>2. Entry \in Week /\ Entry \in 0 .. WeekLen /\ Min(Speeds) \in Speeds BY Constants DEF Week
<1>3. /\ Started \in Views /\ Started.playhead = Entry /\ Started.computed = zero /\ ~Started.playing
      /\ Started.buffering = BufferingAt(Entry, zero)
  BY <1>1, <1>2 DEF Started, Views
<1>4. DayOf(Entry) \in Int /\ None \in Int BY <1>2, DayTime, Constants DEF Days, None
<1>5. NewClient \in Clients /\ NewClient.pending = {} /\ NewClient.received = {}
  BY <1>4 DEF NewClient, Clients
<1>6. AllThere(NewClient, Started.computed) BY <1>5 DEF AllThere
<1>7. DayOf(Entry) \in Days /\ Entry % DayLen \in 0 .. DayLen - 1 BY <1>2, DayTime
<1>8. ~IsComputed(Started.computed, Started.playhead) BY <1>3, <1>7, Constants DEF IsComputed
<1> QED BY <1>2, <1>3, <1>5, <1>6, <1>8, NoneDue

LEMMA ResetStep ==
  ASSUME Sound, Reset \/ Dispose
  PROVE  Sound'
<1>1. /\ view \in Views /\ client \in Clients /\ canvas \in Canvases /\ react \in Reacts /\ wall \in Nat
      /\ ReactTold(react) /\ BufferingTrue /\ AllThere(client, view.computed)
  BY DEF Sound, TypeOK
<1>2. CASE Reset
  <2>1. view' = Started /\ client' = NewClient /\ Notify /\ wall' = wall BY <1>2 DEF Reset
  <2>2. /\ view' \in Views /\ client' \in Clients /\ ~view'.playing
        /\ AllThere(client', view'.computed) /\ AskedFor(client', view')
    BY <2>1, StartedSound
  <2>3. BufferingTrue' BY <2>1, StartedSound DEF BufferingTrue
  <2> QED BY <2>1, <2>2, <2>3, NotifyingStep
<1>3. CASE Dispose
  <2>1. /\ view' = [view EXCEPT !.disposed = TRUE, !.playing = FALSE]
        /\ client' = client /\ wall' = wall
    BY <1>3 DEF Dispose
  <2>2. /\ view' \in Views /\ view'.playhead = view.playhead /\ view'.buffering = view.buffering
        /\ view'.computed = view.computed /\ ~view'.playing /\ view'.disposed
    BY <1>1, <2>1 DEF Views
  <2>3. AskedFor(client', view') BY <2>2 DEF AskedFor
  <2>4. BufferingTrue' BY <1>1, <2>2 DEF BufferingTrue
  <2>5. canvas' \in Canvases /\ CanvasTold(canvas') BY <1>1, <1>3 DEF Dispose, Canvases, CanvasTold
  <2>6. react' \in Reacts /\ ReactTold(react') BY <1>1, <1>3 DEF Dispose, Reacts, ReactTold
  <2> QED BY <1>1, <2>1, <2>2, <2>3, <2>4, <2>5, <2>6 DEF Sound, TypeOK
<1> QED BY <1>2, <1>3

LEMMA ProgressStep ==
  ASSUME Sound, NEW d \in Days, Progress(d)
  PROVE  Sound'
<1> DEFINE further == (view.computed[d] \div ChunkLen + 1) * ChunkLen
           computed == [view.computed EXCEPT ![d] = further]
<1>1. /\ view \in Views /\ client \in Clients /\ AllThere(client, view.computed)
  BY DEF Sound, TypeOK
<1>2. view.computed \in [Days -> Nat] BY <1>1 DEF Views
<1>3. further \in Nat /\ view.computed[d] <= further
  <2> DEFINE n == view.computed[d]
             q == n \div ChunkLen
             r == n % ChunkLen
  <2>1. n \in Nat BY <1>2
  <2>2. q \in Nat /\ r \in 0 .. ChunkLen - 1 /\ n = ChunkLen * q + r BY <2>1, Constants, Divided
  <2> HIDE DEF q, r, n
  <2>3. (q + 1) * ChunkLen = ChunkLen * q + ChunkLen BY <2>2, Constants
  <2>4. ChunkLen * q \in Nat BY <2>2, Constants, Product
  <2>5. (q + 1) * ChunkLen \in Nat /\ n <= (q + 1) * ChunkLen BY <2>2, <2>3, <2>4, Constants
  <2> QED BY <2>5 DEF n, q
<1>4. /\ view' = WithComputed(view, computed)
      /\ client' = WithDetail(client, view')
      /\ Notify /\ wall' = wall
  BY <1>2 DEF Progress
<1> HIDE DEF further
<1>5. /\ computed \in [Days -> Nat]
      /\ \A e \in Days : view.computed[e] <= computed[e]
  BY <1>2, <1>3
<1> HIDE DEF computed
<1>6. /\ view' \in Views /\ view'.playhead = view.playhead /\ view'.computed = computed
      /\ view'.playing = view.playing /\ view'.buffering = BufferingAt(view.playhead, computed)
  <2>1. BufferingAt(view.playhead, computed) \in BOOLEAN BY DEF BufferingAt
  <2> QED BY <1>1, <1>4, <1>5, <2>1 DEF WithComputed, Views
<1>7. ASSUME NEW s \in client.pending \cup client.received, NEW x \in s .. SlotEnd(s) - 1
      PROVE  IsComputed(computed, x)
  <2>1. s \in Slots BY <1>1 DEF Clients
  <2>2. x \in Week BY <2>1, WindowInDay
  <2>3. DayOf(x) \in Days /\ x % DayLen \in 0 .. DayLen - 1 BY <2>2, DayTime
  <2>4. x % DayLen < view.computed[DayOf(x)] BY <1>1 DEF AllThere, Whole, IsComputed
  <2> QED BY <1>2, <1>5, <2>3, <2>4, Constants DEF IsComputed
<1>8. AllThere(client, view'.computed) BY <1>6, <1>7 DEF AllThere, Whole
<1>9. client' \in Clients /\ AllThere(client', view'.computed) /\ AskedFor(client', view')
  BY <1>1, <1>4, <1>6, <1>8, DetailStep
<1>10. BufferingTrue' BY <1>6 DEF BufferingTrue
<1> QED BY <1>4, <1>6, <1>9, <1>10, NotifyingStep

LEMMA AnswerStep ==
  ASSUME Sound, NEW slot \in client.pending, Detail(slot)
  PROVE  Sound'
<1>1. /\ view \in Views /\ client \in Clients /\ AllThere(client, view.computed) /\ AskedFor(client, view)
      /\ BufferingTrue
  BY DEF Sound, TypeOK
<1>2. /\ client' = [client EXCEPT !.pending = @ \ {slot}, !.received = @ \cup {slot}]
      /\ view' = view /\ wall' = wall /\ Notify
  BY DEF Detail
<1>3. /\ client' \in Clients
      /\ client'.pending \cup client'.received = client.pending \cup client.received
  BY <1>1, <1>2 DEF Clients
<1>4. AllThere(client', view'.computed) BY <1>1, <1>2, <1>3 DEF AllThere
<1>5. \A s : Held(client', s) <=> Held(client, s) BY <1>3 DEF Held
<1>6. AskedFor(client', view') BY <1>1, <1>2, <1>5 DEF AskedFor, Wanted
<1>7. BufferingTrue' BY <1>1, <1>2 DEF BufferingTrue
<1> QED BY <1>1, <1>2, <1>3, <1>4, <1>6, <1>7, NotifyingStep

-----------------------------------------------------------------------------
(* The theorems. *)

LEMMA InitSound == Init => Inv
<1> SUFFICES ASSUME Init PROVE Inv OBVIOUS
<1>1. view = Started /\ client = NewClient BY DEF Init
<1>2. BufferingTrue BY <1>1, StartedSound DEF BufferingTrue
<1>3. /\ canvas \in Canvases /\ CanvasTold(canvas) /\ react \in Reacts /\ ReactTold(react)
      /\ wall \in Nat
  BY DEF Init, Canvases, CanvasTold, Reacts, ReactTold
<1>4. left \in [Kinds -> Nat]
  <2>1. Budgets \subseteq [Kinds -> Nat] BY PlayheadAssumption DEF Kinds
  <2> QED BY <2>1 DEF Init
<1> QED BY <1>1, <1>2, <1>3, <1>4, StartedSound DEF Inv, Sound, TypeOK

\* A user's action uses up one of its kind; the other steps none.
LEMMA Budgeted ==
  ASSUME Inv, NEW kind \in Kinds, Count(kind)
  PROVE  left' \in [Kinds -> Nat] /\ left' # left
<1>1. left \in [Kinds -> Nat] BY DEF Inv
<1>2. left[kind] \in Nat /\ left[kind] > 0 /\ left' = [left EXCEPT ![kind] = left[kind] - 1]
  BY <1>1 DEF Count
<1>3. left'[kind] = left[kind] - 1 BY <1>1, <1>2
<1> QED BY <1>1, <1>2, <1>3

LEMMA UserStep ==
  ASSUME Inv, UserSteps
  PROVE  Inv' /\ left' # left
<1>1. Sound BY DEF Inv
<1>2. PICK kind \in Kinds : Count(kind) BY DEF UserSteps, Kinds
<1>3. left' \in [Kinds -> Nat] /\ left' # left BY <1>2, Budgeted
<1>4. \/ Listen \/ Subscribe
      \/ Play \/ Pause
      \/ (\E s \in Speeds : SetSpeed(s)) \/ (\E m \in {"live", "graph"} : SetMode(m))
      \/ JumpToEntry \/ (\E t \in SeekPoints : Seek(t))
      \/ \E lasting \in BOOLEAN : Fork(lasting)
      \/ Reset \/ Dispose
  BY DEF UserSteps
<1>5. Sound'
  BY <1>1, <1>4, TellingStep, PlayStep, SettingStep, MovingStep, ForkStep, ResetStep
<1> QED BY <1>3, <1>5 DEF Inv

LEMMA NextSound ==
  ASSUME Inv, [Next]_vars
  PROVE  Inv'
<1>1. Sound /\ left \in [Kinds -> Nat] BY DEF Inv
<1>2. CASE Frame
  <2>1. Sound' /\ left' = left BY <1>1, <1>2, FrameStep DEF Frame
  <2> QED BY <1>1, <2>1 DEF Inv
<1>3. CASE Elapse \/ TimerFires
  <2>1. Sound' /\ left' = left BY <1>1, <1>3, TellingStep DEF Elapse, TimerFires
  <2> QED BY <1>1, <2>1 DEF Inv
<1>4. CASE UserSteps BY <1>4, UserStep
<1>5. CASE \E d \in Days : Progress(d)
  <2>1. Sound' /\ left' = left BY <1>1, <1>5, ProgressStep DEF Progress
  <2> QED BY <1>1, <2>1 DEF Inv
<1>6. CASE \E slot \in client.pending : Detail(slot)
  <2>1. Sound' /\ left' = left BY <1>1, <1>6, AnswerStep DEF Detail
  <2> QED BY <1>1, <2>1 DEF Inv
<1>7. CASE UNCHANGED vars
  BY <1>1, <1>7 DEF vars, Inv, Sound, TypeOK, BufferingTrue
<1> QED BY <1>2, <1>3, <1>4, <1>5, <1>6, <1>7 DEF Next

LEMMA InvMeans == Inv => NothingMissed
<1> SUFFICES ASSUME Inv PROVE NothingMissed OBVIOUS
<1>1. DetailAsked BY DEF Inv, Sound, AllThere, Whole, AskedFor, DetailAsked
<1>2. ChangeNotLost BY DEF Inv, Sound, CanvasTold, ReactTold, ChangeNotLost
<1> QED BY <1>1, <1>2 DEF Inv, Sound, NothingMissed

\* At any time, after whatever frames, actions of the user and news of the
\* worker: the store says it is buffering exactly when it is, a change that the
\* canvas or React has not been told of has its frame or timer on the way, and
\* the playhead's detail window is there or asked for as soon as it is computed.
THEOREM NothingIsMissed == Spec => []NothingMissed
<1>1. Spec => []Inv BY InitSound, NextSound, PTL DEF Spec
<1> QED BY <1>1, InvMeans, PTL

LEMMA StepPlays ==
  ASSUME Inv, Next
  PROVE  \A t \in view.playhead .. view'.playhead - 1 :
           left' = left /\ InShift(t) =>
             /\ IsComputed(view.computed, t)
             /\ Rank[t] - Rank[view.playhead] < wall * view.speed
<1>1. Sound /\ view.playhead \in Int BY Constants DEF Inv, Sound, TypeOK, Views
<1>2. CASE Frame BY <1>1, <1>2, FrameMoves
<1>3. CASE UserSteps BY <1>3, UserStep
<1>4. CASE ~Frame /\ ~UserSteps
  <2>1. view'.playhead = view.playhead
    <3>1. view \in Views BY <1>1 DEF Sound, TypeOK
    <3>2. CASE Elapse \/ TimerFires BY <3>2 DEF Elapse, TimerFires
    <3>3. CASE \E d \in Days : Progress(d) BY <3>1, <3>3 DEF Progress, WithComputed, Views
    <3>4. CASE \E slot \in client.pending : Detail(slot) BY <3>4 DEF Detail
    <3> QED BY <1>4, <3>2, <3>3, <3>4 DEF Next
  <2> QED BY <1>1, <2>1
<1> QED BY <1>2, <1>3, <1>4

\* A frame passes no shift time that the worker has not computed, and no more
\* of it than the wall time allows at the speed.
THEOREM PlaysOnlyComputed == Spec => PlaysComputed
<1>1. Spec => []Inv BY InitSound, NextSound, PTL DEF Spec
<1>2. Inv /\ [Next]_vars =>
        [\A t \in view.playhead .. view'.playhead - 1 :
           left' = left /\ InShift(t) =>
             /\ IsComputed(view.computed, t)
             /\ Rank[t] - Rank[view.playhead] < wall * view.speed]_vars
  BY StepPlays
<1> QED BY <1>1, <1>2, PTL DEF Spec, PlaysComputed
=============================================================================
