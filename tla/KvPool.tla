------------------------------- MODULE KvPool -------------------------------
(***************************************************************************)
(* The KV pool of one replica under any sequence of the calls its callers  *)
(* make (engine/kv/ops.ts, in the order replica/steps.ts and requests.ts   *)
(* use them): admit a sequence on its cached prefix, allocate the next     *)
(* chunk, register what was computed, and register and release on finish,  *)
(* cancel or preemption.  Any holder may act next, and two holders may     *)
(* compute the same content at once.                                       *)
(***************************************************************************)
EXTENDS KvOps

CONSTANTS
  Holder,     \* sequences that can hold blocks at once
  Session,
  MaxTokens,  \* bound on the length of a sequence
  None

PoolAssumption ==
  /\ MaxTokens \in Nat \ {0} /\ IsFiniteSet(Holder)
  /\ SystemOwner \notin Session /\ None \notin Session
  /\ NoKey \notin (Session \cup {SystemOwner}) \X Nat

ASSUME PoolBounds == PoolAssumption

VARIABLES
  pool,
  session,     \* whose sequence a holder holds, None when it holds nothing
  table,       \* its block table
  registered,  \* leading blocks that have been through registration
  computed,    \* tokens whose KV exists
  allocated    \* tokens its blocks were allocated for

vars == <<pool, session, table, registered, computed, allocated>>

Init ==
  /\ pool = CreateMorningKvPool
  /\ session = [h \in Holder |-> None]
  /\ table = [h \in Holder |-> <<>>]
  /\ registered = [h \in Holder |-> 0]
  /\ computed = [h \in Holder |-> 0]
  /\ allocated = [h \in Holder |-> 0]

(* admitWaiting: all of the sequence must fit, its first chunk is allocated. *)
Admit(h, c, tokens, chunk) ==
  LET hits   == LongestCachedPrefix(pool, c, tokens)
      cached == Len(hits) * BlockSize
      fresh  == BlocksForTokens(cached + chunk) - Len(hits)
      got    == AcquireBlocks(pool, hits, fresh)
  IN  /\ session[h] = None
      /\ cached + chunk <= tokens
      /\ CanAcquire(pool, hits, BlocksForTokens(tokens) - Len(hits))
      /\ pool' = got.pool
      /\ session' = [session EXCEPT ![h] = c]
      /\ table' = [table EXCEPT ![h] = got.table]
      /\ registered' = [registered EXCEPT ![h] = Len(hits)]
      /\ computed' = [computed EXCEPT ![h] = cached]
      /\ allocated' = [allocated EXCEPT ![h] = cached + chunk]

(* The next chunk or decode token: its blocks are allocated if the pool can  *)
(* give them, else nothing changes and the caller preempts.                  *)
Allocate(h, n) ==
  LET need == BlocksForTokens(computed[h] + n) - Len(table[h]) IN
  /\ session[h] # None /\ computed[h] = allocated[h] /\ computed[h] + n <= MaxTokens
  /\ need <= AvailableBlocks(pool)
  /\ pool' = IF need > 0 THEN TakeBlocks(pool, need) ELSE pool
  /\ table' = IF need > 0 THEN [table EXCEPT ![h] = @ \o TakenBlocks(pool, need)] ELSE table
  /\ allocated' = [allocated EXCEPT ![h] = computed[h] + n]
  /\ UNCHANGED <<session, registered, computed>>

(* The step ends: what was allocated is computed, full blocks are keyed. *)
Compute(h) ==
  /\ computed[h] < allocated[h]
  /\ pool' = RegisterFullBlocks(pool, session[h], table[h], registered[h], allocated[h])
  /\ registered' = [registered EXCEPT ![h] = Registered(registered[h], allocated[h])]
  /\ computed' = [computed EXCEPT ![h] = allocated[h]]
  /\ UNCHANGED <<session, table, allocated>>

(* registerAndRelease: on finish, cancellation or preemption, mid-step too. *)
Leave(h) ==
  /\ session[h] # None
  /\ pool' = ReleaseBlocks(RegisterFullBlocks(pool, session[h], table[h], registered[h],
                                              computed[h]), table[h])
  /\ session' = [session EXCEPT ![h] = None]
  /\ table' = [table EXCEPT ![h] = <<>>]
  /\ registered' = [registered EXCEPT ![h] = 0]
  /\ computed' = [computed EXCEPT ![h] = 0]
  /\ allocated' = [allocated EXCEPT ![h] = 0]

(* A crash wipes the pool, and every table with it. *)
Wipe ==
  /\ pool' = CreateKvPool
  /\ session' = [h \in Holder |-> None]
  /\ table' = [h \in Holder |-> <<>>]
  /\ registered' = [h \in Holder |-> 0]
  /\ computed' = [h \in Holder |-> 0]
  /\ allocated' = [h \in Holder |-> 0]

Next ==
  \/ \E h \in Holder, c \in Session, tokens, chunk \in 1..MaxTokens : Admit(h, c, tokens, chunk)
  \/ \E h \in Holder, n \in 1..MaxTokens : Allocate(h, n)
  \/ \E h \in Holder : Compute(h) \/ Leave(h)
  \/ Wipe

Spec == Init /\ [][Next]_vars

-----------------------------------------------------------------------------
(* Properties.                                                               *)

(* Free, referenced and evictable blocks partition the pool, the lists and   *)
(* counters agree with the blocks' states, and content is held at most once  *)
(* (kv/pool.ts assertKvInvariants).                                          *)
PoolAccounted == Accounted(pool)

(* A block's reference count is the number of tables it is in: a block in    *)
(* use is never handed out again, and one nobody uses is never lost.         *)
RefCountsHeld ==
  \A b \in Block : pool.refCount[b] = Cardinality({h \in Holder : b \in ToSet(table[h])})

(* Sequences that share a block agree on what is in it: it is the same       *)
(* position of the same session, or of the system prompt, and it is full.    *)
SharedBlocksAgree ==
  \A g, h \in Holder : \A i \in DOMAIN table[g], j \in DOMAIN table[h] :
    (g # h /\ table[g][i] = table[h][j]) =>
      /\ SequenceBlockKey(session[g], i - 1) = SequenceBlockKey(session[h], j - 1)
      /\ i <= registered[g] /\ j <= registered[h]

(* A cached block holds what its key says: its holders have computed it, in  *)
(* full, at that place.  A hit can never reuse KV that does not exist.       *)
CachedContentComputed ==
  \A h \in Holder : \A i \in DOMAIN table[h] :
    LET key == pool.contentKey[table[h][i]] IN
    key # NoKey => key = SequenceBlockKey(session[h], i - 1) /\ i * BlockSize <= computed[h]

(* No call is made on which the code throws: a free block referenced, an     *)
(* unheld block released or registered, a second key for a block.            *)
NoThrow == ~pool.thrown

(* Whatever the holders do, in any order, the pool, its tables and its cache *)
(* agree: no block is handed out twice or lost, no sequence reads another's  *)
(* KV, and no hit finds KV that was never computed (kv/ops.ts, kv/pool.ts).  *)
PoolConsistent ==
  PoolAccounted /\ RefCountsHeld /\ SharedBlocksAgree /\ CachedContentComputed /\ NoThrow
=============================================================================
