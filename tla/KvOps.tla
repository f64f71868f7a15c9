------------------------------- MODULE KvOps -------------------------------
(***************************************************************************)
(* The KV block pool of one replica (engine/kv) as pure operators on a     *)
(* pool record.  Calls that move several blocks are given in closed form:  *)
(* what they leave behind, in which order.  The linked LRU list is the     *)
(* sequence of its blocks, least recently used first; the free stack is a  *)
(* sequence whose last element is the top; the content index is the        *)
(* function from blocks to keys, searched by key.                          *)
(***************************************************************************)
EXTENDS Integers, Sequences, SequencesExt, FiniteSets, TLC

CONSTANTS
  TotalBlocks, BlockSize,
  SystemTokens,  \* length of the system prompt all sessions share
  SystemOwner,   \* the owner of its blocks' keys (0 in keys.ts)
  NoKey

ASSUME KvAssumption ==
  /\ TotalBlocks \in Nat \ {0} /\ BlockSize \in Nat \ {0}
  /\ SystemTokens \in Nat /\ SystemTokens \div BlockSize <= TotalBlocks

Block == 0..(TotalBlocks - 1)
BlocksForTokens(tokens) == (tokens + BlockSize - 1) \div BlockSize
SystemBlocks == SystemTokens \div BlockSize

(* The key of block i of a session's sequence: its first full blocks are the *)
(* system prompt's, shared by all sessions.                                  *)
SequenceBlockKey(session, i) ==
  IF i < SystemBlocks THEN <<SystemOwner, i>> ELSE <<session, i>>

(* A pool as a new or crashed replica has it, and as a replica has it in the *)
(* morning, with the system prompt cached.  `thrown` stands for a call on    *)
(* which the code throws.                                                    *)
CreateKvPool ==
  [refCount |-> [b \in Block |-> 0], contentKey |-> [b \in Block |-> NoKey],
   lru |-> <<>>, free |-> [i \in 1..TotalBlocks |-> TotalBlocks - i],
   referenced |-> 0, evictable |-> 0, thrown |-> FALSE]

CreateMorningKvPool ==
  [CreateKvPool EXCEPT
     !.contentKey = [b \in Block |-> IF b < SystemBlocks THEN <<SystemOwner, b>> ELSE NoKey],
     !.lru = [i \in 1..SystemBlocks |-> SystemBlocks - i],
     !.free = [i \in 1..(TotalBlocks - SystemBlocks) |-> TotalBlocks - i],
     !.evictable = SystemBlocks]

AvailableBlocks(p) == Len(p.free) + p.evictable

Holders(p, key) == {b \in Block : p.contentKey[b] = key}

(* The members of a sequence that are in a set, in order. *)
Only(s, S) ==
  LET upTo[n \in 0..Len(s)] ==
        IF n = 0 THEN <<>>
        ELSE IF s[n] \in S THEN Append(upTo[n - 1], s[n]) ELSE upTo[n - 1]
  IN  upTo[Len(s)]

(* The blocks of the longest cached prefix; a hit never covers the last      *)
(* token, which has to be computed.                                          *)
LongestCachedPrefix(p, session, tokens) ==
  LET maxHit == (tokens - 1) \div BlockSize
      cached(n) == \A i \in 0..(n - 1) : Holders(p, SequenceBlockKey(session, i)) # {}
      hits == CHOOSE n \in 0..maxHit : cached(n) /\ (n = maxHit \/ ~cached(n + 1))
  IN  [i \in 1..hits |-> CHOOSE b \in Block : p.contentKey[b] = SequenceBlockKey(session, i - 1)]

(* Referencing evictable hits uses capacity too. *)
CanAcquire(p, hits, n) ==
  n + Cardinality({b \in ToSet(hits) : p.refCount[b] = 0}) <= AvailableBlocks(p)

(* takeBlocks: n blocks, free ones first, from the top of the stack, then    *)
(* the least recently used ones, which lose their keys.                      *)
TakenBlocks(p, n) ==
  LET free == IF Len(p.free) < n THEN Len(p.free) ELSE n
  IN  SubSeq(Reverse(p.free), 1, free) \o SubSeq(p.lru, 1, n - free)

TakeBlocksKeepingKeys(p, n) ==  \* mutation: an evicted block keeps its key
  LET free == IF Len(p.free) < n THEN Len(p.free) ELSE n
      taken == ToSet(TakenBlocks(p, n))
  IN  [p EXCEPT !.refCount = [b \in Block |-> IF b \in taken THEN 1 ELSE p.refCount[b]],
                !.free = SubSeq(@, 1, Len(@) - free),
                !.lru = SubSeq(@, n - free + 1, Len(@)),
                !.evictable = @ - (n - free),
                !.referenced = @ + n]
TakeBlocks(p, n) ==
  LET free == IF Len(p.free) < n THEN Len(p.free) ELSE n
      taken == ToSet(TakenBlocks(p, n))
  IN  [p EXCEPT !.refCount = [b \in Block |-> IF b \in taken THEN 1 ELSE p.refCount[b]],
                !.contentKey = [b \in Block |-> IF b \in taken THEN NoKey ELSE p.contentKey[b]],
                !.free = SubSeq(@, 1, Len(@) - free),
                !.lru = SubSeq(@, n - free + 1, Len(@)),
                !.evictable = @ - (n - free),
                !.referenced = @ + n]

(* A reference more on each hit; evictable ones leave the LRU list. *)
ReferenceBlocks(p, hits) ==
  LET hit   == ToSet(hits)
      woken == {b \in hit : p.refCount[b] = 0}
  IN  [p EXCEPT !.refCount = [b \in Block |-> p.refCount[b] + IF b \in hit THEN 1 ELSE 0],
                !.lru = Only(@, Block \ hit),
                !.evictable = @ - Cardinality(woken),
                !.referenced = @ + Cardinality(woken),
                !.thrown = @ \/ \E b \in woken : p.contentKey[b] = NoKey]

(* Admission: the hits are referenced first, so the allocation cannot evict  *)
(* them; the fresh blocks follow them in the table.                          *)
AcquireBlocks(p, hits, n) ==
  LET q == ReferenceBlocks(p, hits)
  IN  [pool |-> TakeBlocks(q, n), table |-> hits \o TakenBlocks(q, n)]

(* One reference less on each block of a table, last block first.  Blocks    *)
(* nobody holds any more join the LRU list at its recent end if they are     *)
(* cached, else the free stack.                                              *)
ReleaseBlocks(p, table) ==
  LET dead   == {b \in ToSet(table) : p.refCount[b] = 1}
      cached == Only(Reverse(table), {b \in dead : p.contentKey[b] # NoKey})
      unkeyed == Only(Reverse(table), {b \in dead : p.contentKey[b] = NoKey})
  IN  [p EXCEPT !.refCount = [b \in Block |-> p.refCount[b] - IF b \in ToSet(table) THEN 1 ELSE 0],
                !.lru = @ \o cached,
                !.free = @ \o unkeyed,
                !.evictable = @ + Cardinality(dead) - Len(unkeyed),
                !.referenced = @ - Cardinality(dead),
                !.thrown = @ \/ \E b \in ToSet(table) : p.refCount[b] <= 0]

(* A held block takes its key.  If another block has that content, the key   *)
(* moves here when that one is evictable, which then becomes free, and this  *)
(* block stays private when that one is referenced.                          *)
RegisterTwice(p, block, key) ==  \* mutation: an evictable duplicate stays on the LRU list
  IF p.contentKey[block] = key \/ \E b \in Holders(p, key) : p.refCount[b] # 0 THEN p
  ELSE [p EXCEPT !.contentKey = [b \in Block |-> IF b = block THEN key
                                              ELSE IF b \in Holders(p, key) THEN NoKey ELSE p.contentKey[b]]]
Register(p, block, key) ==
  LET other == Holders(p, key) \ {block} IN
  IF p.refCount[block] <= 0 \/ p.contentKey[block] \notin {NoKey, key}
  THEN [p EXCEPT !.thrown = TRUE]
  ELSE IF \E b \in other : p.refCount[b] # 0 THEN p
  ELSE [p EXCEPT !.contentKey = [b \in Block |-> IF b = block THEN key
                                                  ELSE IF b \in other THEN NoKey ELSE p.contentKey[b]],
                 !.lru = Only(@, Block \ other),
                 !.free = @ \o SetToSeq(other),
                 !.evictable = @ - Cardinality(other)]

(* The blocks of a sequence filled since the first `from` were registered    *)
(* take their keys, in order.                                                *)
Registered(from, computed) ==
  IF computed \div BlockSize <= from THEN from ELSE computed \div BlockSize
RegisterFullBlocks(p, session, table, from, computed) ==
  LET upTo[n \in from..Registered(from, computed)] ==
        IF n = from THEN p
        ELSE Register(upTo[n - 1], table[n], SequenceBlockKey(session, n - 1))
  IN  upTo[Registered(from, computed)]

(* The accounting of a pool (assertKvInvariants): every block is on exactly  *)
(* the structure its state implies, once; the counters count; no two blocks  *)
(* have the same content.                                                    *)
Accounted(p) ==
  LET referenced == {b \in Block : p.refCount[b] > 0}
      evictable  == {b \in Block : p.refCount[b] = 0 /\ p.contentKey[b] # NoKey}
  IN  /\ ToSet(p.lru) = evictable /\ ToSet(p.free) = Block \ (referenced \cup evictable)
      /\ IsInjective(p.lru) /\ IsInjective(p.free)
      /\ p.referenced = Cardinality(referenced) /\ p.evictable = Cardinality(evictable)
      /\ \A b, c \in Block :
           b # c /\ p.contentKey[b] # NoKey => p.contentKey[b] # p.contentKey[c]
=============================================================================
