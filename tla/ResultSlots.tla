---------------------------- MODULE ResultSlots ----------------------------
(***************************************************************************)
(* The slot table of one day of the results index                          *)
(* (src/playback/index/slots.ts): bucket -> block and offset.  A block is  *)
(* a record with the start of its first bucket, `start`, and the buckets'  *)
(* contents, `data`; `width` is the width of a bucket.  Instants are       *)
(* counted from the start of the day.                                      *)
(***************************************************************************)
EXTENDS Integers, Sequences, SequencesExt, FiniteSetsExt

MISSING == -1
QUIET == -2

EmptySlots(slotsPerDay) ==
  [slots |-> [i \in 0 .. slotsPerDay - 1 |-> MISSING], entries |-> <<>>]

\* Quiet marks first, for the span's whole buckets that nothing is known of;
\* then the block over whatever was there.
AddBlock(ix, width, block, from, to) ==
  LET first == block.start \div width
      count == Len(block.data)
      marked == [i \in DOMAIN ix.slots |->
                   IF from \div width <= i /\ i < to \div width /\ ix.slots[i] = MISSING
                   THEN QUIET ELSE ix.slots[i]]
      filled == [i \in DOMAIN ix.slots |->
                   IF first <= i /\ i < first + count
                   THEN Len(ix.entries) + 1 ELSE marked[i]]
  IN IF \A i \in DOMAIN ix.slots : ~(first <= i /\ i < first + count)
     THEN [ix EXCEPT !.slots = marked]
     ELSE [slots |-> filled,
           entries |-> Append(ix.entries, [block |-> block, startSlot |-> first])]

\* Mutant: the slot that starts at the cut is kept.
FirstCutSlotNext(width, cut) == (cut \div width) + 1

\* The first slot that starts at or after the cut.
FirstCutSlot(width, cut) == (cut + width - 1) \div width

\* Forget the buckets from the cut on, and the blocks left with none.
CutSlots(ix, width, cut) ==
  LET kept == [i \in DOMAIN ix.slots |->
                 IF i < FirstCutSlot(width, cut) THEN ix.slots[i] ELSE MISSING]
      live == {kept[i] : i \in DOMAIN kept} \ {MISSING, QUIET}
      firstUse(id) == Min({i \in DOMAIN kept : kept[i] = id})
      order == SetToSortSeq(live, LAMBDA a, b : firstUse(a) < firstUse(b))
      newId(id) == CHOOSE k \in DOMAIN order : order[k] = id
  IN [slots |-> [i \in DOMAIN kept |-> IF kept[i] \in live THEN newId(kept[i]) ELSE kept[i]],
      entries |-> [k \in DOMAIN order |-> ix.entries[order[k]]]]

IsQuietAt(ix, g) == ix.slots[g] = QUIET
IsMissing(ix, g) == ix.slots[g] = MISSING

\* What a query reads in slot g; `quiet` stands for an omitted bucket.
ReadSlot(ix, g, quiet) ==
  IF IsQuietAt(ix, g) THEN quiet
  ELSE LET e == ix.entries[ix.slots[g]]
       IN e.block.data[g - e.startSlot + 1]
============================================================================
