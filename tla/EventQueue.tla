------------------------------ MODULE EventQueue ------------------------------
(***************************************************************************)
(* The event queue as it is built (engine/core/queue.ts): a binary heap of *)
(* entries whose slots come from a pool, cancelled in place and dropped    *)
(* when they reach the top or when the heap is compacted.  A handle is a   *)
(* slot with its generation.  The mark of a cancelled entry stays in its   *)
(* slot until the slot is used again.  The arrays' capacity is left out.   *)
(*                                                                         *)
(* The users keep the handle of every event they have scheduled and may    *)
(* cancel any of them at any time.  Positions count from 1.                *)
(***************************************************************************)
EXTENDS Integers, SequencesExt

CONSTANTS
  Ranks,      \* the times and priorities events are scheduled with
  Span,       \* 2^32: the sequence numbers (SEQ_SPAN), and the generations of
              \* a slot, a Uint32 that wraps
  MaxEvents,  \* bound on the events scheduled
  CompactMin  \* cancelled entries that are tolerated (COMPACT_MIN)

QueueAssumption ==
  Ranks \subseteq Int \X Nat /\ {Span, MaxEvents, CompactMin} \subseteq Nat

VARIABLES
  q,       \* the queue
  handles, \* the handle of every event scheduled so far
  answer   \* what the last call returned, with what it was asked

vars == <<q, handles, answer>>

CreateQueue == [heap |-> <<>>, cancelled |-> {}, gen |-> <<>>, free |-> <<>>, live |-> 0, nextSeq |-> 0]

-----------------------------------------------------------------------------
Before(e, f) ==
  \/ e.at < f.at
  \/ e.at = f.at /\ (e.ord[1] < f.ord[1] \/ (e.ord[1] = f.ord[1] /\ e.ord[2] < f.ord[2]))

(* The heap h after entry e has sunk or risen along `path`: each entry on it  *)
(* moves back by one, and e takes the last place.                            *)
Shift(h, path, e) ==
  [i \in DOMAIN h |->
     IF i \notin Range(path) THEN h[i]
     ELSE IF i = Last(path) THEN e
     ELSE h[path[1 + CHOOSE k \in DOMAIN path : path[k] = i]]]

SiftUp(h, i, e) ==
  LET path[j \in 1..i] ==
        IF j > 1 /\ Before(e, h[j \div 2]) THEN <<j>> \o path[j \div 2] ELSE <<j>>
  IN  Shift(h, path[i], e)

SiftDown(h, i, e) ==
  LET child(j) == IF 2 * j < Len(h) /\ Before(h[2 * j + 1], h[2 * j]) THEN 2 * j + 1 ELSE 2 * j
      path[j \in DOMAIN h] ==
        IF 2 * j <= Len(h) /\ Before(h[child(j)], e) THEN <<j>> \o path[child(j)] ELSE <<j>>
  IN  Shift(h, path[i], e)

RemoveTop(h) ==
  LET rest == Front(h) IN IF rest = <<>> THEN <<>> ELSE SiftDown(rest, 1, Last(h))

FreeSlotUncounted(s, slot) ==  \* mutation: a reused slot keeps its generation
  [s EXCEPT !.free = Append(@, slot)]
FreeSlot(s, slot) ==
  [s EXCEPT !.gen[slot] = (@ + 1) % Span, !.free = Append(@, slot)]

(* The slot of a handle that is still pending.                               *)
IsPending(h) ==
  /\ h.slot \in DOMAIN q.gen
  /\ q.gen[h.slot] = h.gen
  /\ h.slot \notin q.cancelled

-----------------------------------------------------------------------------
(* A fresh slot; the code doubles its arrays when they are full. *)
Grown(gen) == Append(gen, 0)

QueuePush(at, priority) ==
  LET fresh == q.free = <<>>
      slot  == IF fresh THEN Len(q.gen) + 1 ELSE Last(q.free)
      entry == [at |-> at, ord |-> <<priority, q.nextSeq>>, slot |-> slot]
      gen   == IF fresh THEN Grown(q.gen) ELSE q.gen
  IN  /\ q.nextSeq < Span /\ q.nextSeq < MaxEvents
      /\ q' = [q EXCEPT !.heap = SiftUp(Append(@, entry), Len(@) + 1, entry),
                        !.free = IF fresh THEN @ ELSE Front(@), !.gen = gen,
                        !.cancelled = @ \ {slot},
                        !.live = @ + 1, !.nextSeq = @ + 1]
      /\ handles' = Append(handles, [slot |-> slot, gen |-> gen[slot]])
      /\ answer' = [scheduled |-> q.nextSeq]

(* queuePeekAt: cancelled entries are dropped from the top. *)
RECURSIVE Peeked(_)
Peeked(s) ==
  IF s.heap # <<>> /\ s.heap[1].slot \in s.cancelled
  THEN Peeked(FreeSlot([s EXCEPT !.heap = RemoveTop(@)], s.heap[1].slot)) ELSE s

Published(e) == [at |-> e.at, ord |-> e.ord]

QueuePop ==
  LET s == Peeked(q) IN
  /\ q' = IF s.heap = <<>> THEN s
          ELSE FreeSlot([s EXCEPT !.heap = RemoveTop(@), !.live = @ - 1], s.heap[1].slot)
  /\ answer' = [taken |-> {Published(e) : e \in IF s.heap = <<>> THEN {} ELSE {s.heap[1]}}]
  /\ UNCHANGED handles

(* The cancelled entries are dropped and the rest made a heap again. *)
Compact(s) ==
  LET kept == SelectSeq(s.heap, LAMBDA e : e.slot \notin s.cancelled)
      gone == SelectSeq(s.heap, LAMBDA e : e.slot \in s.cancelled)
      half == Len(kept) \div 2
      heaped == FoldLeft(LAMBDA h, i : SiftDown(h, half + 1 - i, h[half + 1 - i]),
                         kept, [i \in 1..half |-> i])
  IN  FoldLeft(LAMBDA r, e : FreeSlot(r, e.slot), [s EXCEPT !.heap = heaped], gone)

(* The handle the i-th scheduling returned is cancelled. *)
QueueCancel(i) ==
  LET h == handles[i]
      marked == [q EXCEPT !.cancelled = @ \cup {h.slot}, !.live = @ - 1]
      dead   == Len(marked.heap) - marked.live
  IN  /\ answer' = [cancelled |-> i - 1, was |-> IsPending(h)]
      /\ q' = IF ~IsPending(h) THEN q
              ELSE IF dead > CompactMin /\ dead > marked.live THEN Compact(marked) ELSE marked
      /\ UNCHANGED handles

-----------------------------------------------------------------------------
Init == q = CreateQueue /\ handles = <<>> /\ answer = <<>>

Next ==
  \/ \E rank \in Ranks : QueuePush(rank[1], rank[2])
  \/ QueuePop
  \/ \E i \in DOMAIN handles : QueueCancel(i)

Spec == Init /\ [][Next]_vars

-----------------------------------------------------------------------------
(* Properties.                                                               *)

Slots == DOMAIN q.gen
InHeap == {q.heap[i].slot : i \in DOMAIN q.heap}

(* What assertQueue checks: every parent comes before its children, a slot   *)
(* is in the heap or free and only once, and the live entries are counted.   *)
QueueWellFormed ==
  /\ \A i \in DOMAIN q.heap \ {1} : Before(q.heap[i \div 2], q.heap[i])
  /\ InHeap \cup Range(q.free) = Slots
  /\ Len(q.heap) + Len(q.free) = Len(q.gen)
  /\ q.live = Len(SelectSeq(q.heap, LAMBDA e : e.slot \notin q.cancelled))

(* The queue does what EventSet promises: events are taken in their order,   *)
(* and the handle a scheduling returned cancels that event or, once it is    *)
(* taken or cancelled, nothing, however often slots are reused, entries are  *)
(* dropped late, or the heap is compacted; and it stays what assertQueue     *)
(* checks.                                                                   *)
Promise == INSTANCE EventSet WITH
  pending <- {Published(e) : e \in {f \in Range(q.heap) : f.slot \notin q.cancelled}},
  pushed <- q.nextSeq
Implements == Promise!Spec /\ []QueueWellFormed
=============================================================================
