------------------------------ MODULE ContentMap ------------------------------
(***************************************************************************)
(* What the content index of a KV pool promises (engine/kv/content.ts): a  *)
(* map that gives each content key at most one block and a block at most   *)
(* one key, from which a run of cached blocks is read.  A key is the owner *)
(* of the content and the index of the block in the owner's sequence.  An  *)
(* answer names the key or the range it was asked for, so that an          *)
(* implementation has to give it to that very call; which block lost or    *)
(* got a key shows in contentKey itself.                                   *)
(***************************************************************************)
EXTENDS Integers

CONSTANTS Blocks, Owners, Indices, NoKey

VARIABLES
  contentKey,  \* the key each block holds
  answer       \* what the last call returned, with what it was asked

Holder(k) == {b \in Blocks : contentKey[b] = k}

Init == contentKey = [b \in Blocks |-> NoKey] /\ answer = {}

\* Give b the key, unless another block holds it: then say which.
Register(b, k) ==
  /\ contentKey[b] = NoKey
  /\ answer' = {k} \X Holder(k)
  /\ contentKey' = IF Holder(k) = {} THEN [contentKey EXCEPT ![b] = k] ELSE contentKey

Replace(holder, b) ==
  /\ contentKey[holder] # NoKey /\ contentKey[b] = NoKey
  /\ contentKey' = [contentKey EXCEPT ![holder] = NoKey, ![b] = contentKey[holder]]
  /\ answer' = {}

Evict(b) ==
  /\ contentKey[b] # NoKey
  /\ contentKey' = [contentKey EXCEPT ![b] = NoKey]
  /\ answer' = {}

\* The blocks that hold the owner's indices from on, up to the first not cached.
Cached(owner, from, to) ==
  {<<i, b>> \in (from..(to - 1)) \X Blocks :
     b \in Holder(<<owner, i>>) /\ \A j \in from..i : Holder(<<owner, j>>) # {}}

Ranges == {w \in Owners \X Indices \X {i + 1 : i \in Indices} : w[2] < w[3]}
\* A walk changes nothing, so every owner's every range may be asked at once.
Walk ==
  /\ answer' = {<<w, Cached(w[1], w[2], w[3])>> : w \in Ranges}
  /\ UNCHANGED contentKey

Reset == contentKey' = [b \in Blocks |-> NoKey] /\ answer' = {}

Next ==
  \/ \E b \in Blocks, o \in Owners, i \in Indices : Register(b, <<o, i>>)
  \/ \E h, b \in Blocks : Replace(h, b)
  \/ \E b \in Blocks : Evict(b)
  \/ Walk \/ Reset

Spec == Init /\ [][Next]_<<contentKey, answer>>
=============================================================================
