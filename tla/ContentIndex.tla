----------------------------- MODULE ContentIndex -----------------------------
(***************************************************************************)
(* The content index of a KV pool as it is kept (engine/kv/content.ts):    *)
(* per owner a doubly linked list of pages, each for PageSize consecutive  *)
(* block indices, in one array that grows; freed pages are used again.  A  *)
(* search may start from the page of the last write, from a page the       *)
(* caller knows, or from the owner's first page.                           *)
(*                                                                         *)
(* Pages are numbered from 1, so that 0 is none, as in the stored links;   *)
(* the array is the sequence of its pages used so far and its capacity.    *)
(***************************************************************************)
EXTENDS Integers, FiniteSets, SequencesExt

CONSTANTS
  TotalBlocks, Owners, Indices, NoKey,
  PageSize, InitialPages

VARIABLES x, contentKey, answer

vars == <<x, contentKey, answer>>

Blocks == 0..(TotalBlocks - 1)
Slots == 0..(PageSize - 1)
Clear == [s \in Slots |-> 0]
Least(a, b) == IF a < b THEN a ELSE b
Most(a, b) == IF a > b THEN a ELSE b

Number(k) == k[2] \div PageSize
Slot(k) == k[2] % PageSize
Base(k) == <<k[1], Number(k)>>

\* clearIndex
EmptyIndex ==
  [first |-> [o \in Owners |-> 0], pages |-> <<>>, capacity |-> Least(InitialPages, TotalBlocks),
   free |-> 0, keyPage |-> [b \in Blocks |-> 0], hint |-> 0, hintBase |-> NoKey, thrown |-> FALSE]

----------------------------------------------------------------------------
(* Pages.                                                                  *)

\* Where a search starts: a page the caller knows, the hint if it is not past, or the first.
StartPage(i, owner, number, from) ==
  IF from # 0 THEN from
  ELSE IF i.hint # 0 /\ i.hintBase[1] = owner /\ i.pages[i.hint].number <= number THEN i.hint
  ELSE i.first[owner]

\* The walk from page p: on to the last page not past number, or back to the
\* first one not before it.
Onward(i, p, number) ==
  LET go(q, k) == LET next == i.pages[q].next
                  IN IF next = 0 \/ i.pages[next].number > number THEN q ELSE next
  IN FoldLeft(go, p, [k \in DOMAIN i.pages |-> k])
Backward(i, p, number) ==
  LET go(q, k) == LET prev == i.pages[q].prev
                  IN IF prev = 0 \/ i.pages[prev].number < number THEN q ELSE prev
  IN FoldLeft(go, p, [k \in DOMAIN i.pages |-> k])

\* The page, or where a new one goes: between before and after.
FindPage(i, owner, number, from) ==
  LET p == StartPage(i, owner, number, from)
      q == IF i.pages[p].number <= number THEN Onward(i, p, number) ELSE Backward(i, p, number)
  IN IF p = 0 THEN [page |-> 0, before |-> 0, after |-> 0]
     ELSE IF i.pages[q].number = number THEN [page |-> q, before |-> 0, after |-> 0]
     ELSE IF i.pages[p].number <= number THEN [page |-> 0, before |-> q, after |-> i.pages[q].next]
     ELSE [page |-> 0, before |-> i.pages[q].prev, after |-> q]

\* A freed page, or a new one, for which the array may have to grow.
AllocPage(i) ==
  LET blank == [live |-> 0, number |-> 0, next |-> 0, prev |-> 0, slots |-> Clear]
      full  == Len(i.pages) = i.capacity
      grown == Least(TotalBlocks, i.capacity + Most(InitialPages, i.capacity \div 2))
  IN IF i.free # 0
     THEN [i EXCEPT !.free = i.pages[i.free].next, !.pages[i.free].next = 0]
     ELSE [i EXCEPT !.pages = Append(@, blank), !.capacity = IF full THEN grown ELSE @,
                    !.thrown = @ \/ (full /\ i.capacity >= TotalBlocks)]
Allocated(i) == IF i.free # 0 THEN i.free ELSE Len(i.pages) + 1

\* A page's links; what a list without its page starts from.
NextOf(i, p, next) == IF p = 0 THEN i ELSE [i EXCEPT !.pages[p].next = next]
PrevOf(i, p, prev) == IF p = 0 THEN i ELSE [i EXCEPT !.pages[p].prev = prev]
FirstOf(i, p, owner, first) == IF p = 0 THEN [i EXCEPT !.first[owner] = first] ELSE i

Linked(i, q, owner, number, at) ==
  FirstOf(NextOf(PrevOf([i EXCEPT !.pages[q] = [@ EXCEPT !.number = number, !.next = at.after, !.prev = at.before]],
                        at.after, q), at.before, q), at.before, owner, q)
AddPage(i, owner, number, at) == Linked(AllocPage(i), Allocated(i), owner, number, at)

Unlinked(i, next, prev, owner) == FirstOf(NextOf(PrevOf(i, next, prev), prev, next), prev, owner, next)
\* Mutant: the hint stays on a page that is freed.
FreePageHinted(i, p, owner) ==
  LET f == Unlinked(i, i.pages[p].next, i.pages[p].prev, owner)
  IN [f EXCEPT !.pages[p] = [@ EXCEPT !.number = 0, !.prev = 0, !.next = i.free], !.free = p]
\* Unlink an empty page and free it.
FreePage(i, p, owner) ==
  LET f == Unlinked(i, i.pages[p].next, i.pages[p].prev, owner)
      lost == i.hint = p
  IN [f EXCEPT !.pages[p] = [@ EXCEPT !.number = 0, !.prev = 0, !.next = i.free], !.free = p,
               !.hint = IF lost THEN 0 ELSE @, !.hintBase = IF lost THEN NoKey ELSE @]

----------------------------------------------------------------------------
(* Keys.                                                                   *)

SetHint(i, p, k) == [i EXCEPT !.hint = p, !.hintBase = Base(k)]

\* The page for the key, made if missing.
SearchPage(i, k, from) ==
  LET at == FindPage(i, k[1], Number(k), from)
  IN IF at.page # 0 THEN [index |-> i, page |-> at.page]
     ELSE [index |-> AddPage(i, k[1], Number(k), at), page |-> Allocated(i)]
PageFor(i, k, from) == IF Base(k) = i.hintBase THEN [index |-> i, page |-> i.hint] ELSE SearchPage(i, k, from)

\* indexAdd: [index, holder], a holder as block + 1.
IndexAdd(i, k, b, from) ==
  LET found  == PageFor(i, k, from)
      p      == found.page
      holder == found.index.pages[p].slots[Slot(k)]
      noted  == [found.index EXCEPT !.pages[p].slots[Slot(k)] = b + 1, !.pages[p].live = @ + 1, !.keyPage[b] = p]
  IN [index |-> IF holder # 0 THEN found.index ELSE IF p # i.hint THEN SetHint(noted, p, k) ELSE noted,
      holder |-> holder]

IndexReplace(i, holder, k, b) ==
  LET p == i.keyPage[holder]
  IN SetHint([i EXCEPT !.pages[p].slots[Slot(k)] = b + 1, !.keyPage[b] = p], p, k)

IndexRemove(i, b, k) ==
  LET p == i.keyPage[b]
      f == [i EXCEPT !.pages[p].slots[Slot(k)] = 0, !.pages[p].live = @ - 1]
  IN IF i.pages[p].live = 1 THEN FreePage(f, p, k[1]) ELSE f

----------------------------------------------------------------------------
(* Lookups.                                                                *)

\* The owner's first page not before page number n.
FirstFrom(i, owner, n) ==
  LET go(p, k) == IF p # 0 /\ i.pages[p].number < n THEN i.pages[p].next ELSE p
  IN FoldLeft(go, i.first[owner], [k \in DOMAIN i.pages |-> k])

\* walkCached: w.n is the next index, on page w.page, which is 0 once it stops.
WalkCached(i, owner, from, to) ==
  LET start == FirstFrom(i, owner, from \div PageSize)
      step(w, n) ==
        LET page == IF n = from \/ n % PageSize # 0 \/ w.page = 0 THEN w.page ELSE i.pages[w.page].next
            right == page # 0 /\ i.pages[page].number = n \div PageSize
            entry == i.pages[page].slots[n % PageSize]
        IN IF right /\ entry # 0 THEN [page |-> page, found |-> w.found \cup {<<n, entry - 1>>}]
           ELSE [w EXCEPT !.page = 0]
  IN FoldLeft(step, [page |-> start, found |-> {}], [j \in 1..(to - from) |-> from + j - 1]).found

----------------------------------------------------------------------------
(* The calls the pool makes (ops.ts).                                      *)

Init == x = EmptyIndex /\ contentKey = [b \in Blocks |-> NoKey] /\ answer = {}

\* The page of the block before, when it is known to hold the key before.
KnownPages(k) == {0} \cup {x.keyPage[b] : b \in {c \in Blocks : contentKey[c] = <<k[1], k[2] - 1>>}}

Register(b, k, from) ==
  /\ contentKey[b] = NoKey
  /\ \E add \in {IndexAdd(x, k, b, from)} :
       /\ x' = add.index
       /\ answer' = IF add.holder = 0 THEN {} ELSE {<<k, add.holder - 1>>}
       /\ contentKey' = IF add.holder = 0 THEN [contentKey EXCEPT ![b] = k] ELSE contentKey

\* registerDuplicate, when the holder can be retired.
Replace(holder, b) ==
  /\ contentKey[holder] # NoKey /\ contentKey[b] = NoKey
  /\ x' = IndexReplace(x, holder, contentKey[holder], b)
  /\ contentKey' = [contentKey EXCEPT ![holder] = NoKey, ![b] = contentKey[holder]]
  /\ answer' = {}

Evict(b) ==
  /\ contentKey[b] # NoKey
  /\ x' = IndexRemove(x, b, contentKey[b])
  /\ contentKey' = [contentKey EXCEPT ![b] = NoKey]
  /\ answer' = {}

Ranges == {w \in Owners \X Indices \X {i + 1 : i \in Indices} : w[2] < w[3]}
\* A walk changes nothing, so every owner's every range may be asked at once.
Walk == answer' = {<<w, WalkCached(x, w[1], w[2], w[3])>> : w \in Ranges} /\ UNCHANGED <<x, contentKey>>

Reset == x' = EmptyIndex /\ contentKey' = [b \in Blocks |-> NoKey] /\ answer' = {}

Next ==
  \/ \E b \in Blocks, o \in Owners, i \in Indices : \E from \in KnownPages(<<o, i>>) : Register(b, <<o, i>>, from)
  \/ \E h, b \in Blocks : Replace(h, b)
  \/ \E b \in Blocks : Evict(b)
  \/ Walk \/ Reset

Spec == Init /\ [][Next]_vars

----------------------------------------------------------------------------
(* Properties.                                                             *)

\* checkIndex: the lists are in order and doubly linked, a page counts what it
\* holds, holds something, and is either in one list or free and clear; the
\* hint is the page it says.
OfOwner(o) == {p \in DOMAIN x.pages : \E s \in Slots : x.pages[p].slots[s] # 0 /\ contentKey[x.pages[p].slots[s] - 1][1] = o}
CheckIndex ==
  LET used == UNION {OfOwner(o) : o \in Owners}
  IN /\ ~x.thrown /\ Len(x.pages) <= x.capacity /\ x.capacity <= TotalBlocks
     /\ \A o \in Owners :
          /\ x.first[o] # 0 <=> OfOwner(o) # {}
          /\ \A p \in OfOwner(o) :
               /\ x.pages[p].live = Cardinality({s \in Slots : x.pages[p].slots[s] # 0})
               /\ \A s \in Slots : x.pages[p].slots[s] # 0 =>
                    LET b == x.pages[p].slots[s] - 1
                    IN contentKey[b] = <<o, x.pages[p].number * PageSize + s>> /\ x.keyPage[b] = p
               /\ IF x.pages[p].prev = 0 THEN x.first[o] = p
                  ELSE /\ x.pages[p].prev \in OfOwner(o) /\ x.pages[x.pages[p].prev].next = p
                       /\ x.pages[x.pages[p].prev].number < x.pages[p].number
     /\ \A p \in DOMAIN x.pages \ used : x.pages[p].slots = Clear /\ x.pages[p].live = 0
     /\ x.free = 0 <=> used = DOMAIN x.pages
     /\ IF x.hint = 0 THEN x.hintBase = NoKey
        ELSE x.hint \in OfOwner(x.hintBase[1]) /\ x.pages[x.hint].number = x.hintBase[2]

Map == INSTANCE ContentMap

\* Through page reuse, growth and every place a search may start from, the
\* pages give each call the answer one flat map of keys would give that call -
\* this key's holder, this owner's blocks in this range - so a search that
\* starts on a stale page of another owner shows; and they stay what checkIndex
\* wants.
IndexImplementsMap == Map!Spec /\ []CheckIndex
=============================================================================
