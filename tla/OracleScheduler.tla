-------------------------- MODULE OracleScheduler --------------------------
(***************************************************************************)
(* The reference the replica scheduler is tested against                   *)
(* (engine/oracle/scheduler.ts): one scheduler, one step at a time, with   *)
(* no spans, no lazy state and no aggregates; every request carries its    *)
(* own counts.  It shares the KV pool with the engine and nothing else.    *)
(*                                                                         *)
(* Left out: a step's cost, the meters, the cached tokens it reports and   *)
(* the request overhead; a chunk whose request left is taken out instead   *)
(* of marked dead, and a request that ended keeps no counts.               *)
(***************************************************************************)
EXTENDS KvOps

CONSTANTS Req, Workloads, MaxBatchedTokens, MaxSeqs, MaxModelLen

VARIABLES
  req,     \* each request's workload
  up,      \* the replica is ready
  ora,     \* the replica and its requests
  seen     \* the requests that were dispatched

vars == <<req, up, ora, seen>>

InPhase(o, p) == {s \in Req : o.phase[s] = p}
HasWork(o) == o.running # <<>> \/ o.waiting # <<>>
Drop(list, s) == SelectSeq(list, LAMBDA x : x # s)
HeldBlocks(o, s) == Len(o.blocks[s])

\* OReq, OReplica, createReplica
Replica(phase, pool) ==
  [phase |-> phase, pool |-> pool, waiting |-> <<>>, running |-> <<>>, mode |-> "idle",
   chunks |-> <<>>, blocks |-> [s \in Req |-> <<>>], registered |-> [s \in Req |-> 0],
   computed |-> [s \in Req |-> 0], target |-> [s \in Req |-> 0],
   generated |-> [s \in Req |-> 0], outcome |-> [s \in Req |-> "none"], thrown |-> FALSE]

----------------------------------------------------------------------------
(* Leaving the replica.                                                    *)

RegisterFull(o, s) ==
  [o EXCEPT !.pool = RegisterFullBlocks(@, req[s].session, o.blocks[s], o.registered[s], o.computed[s]),
            !.registered[s] = Registered(@, o.computed[s])]

RegisterAndRelease(o, s) ==
  LET full == RegisterFull(o, s)
  IN [full EXCEPT !.pool = ReleaseBlocks(@, o.blocks[s]), !.blocks[s] = <<>>, !.registered[s] = 0]

LeaveRunning(o, s) ==
  RegisterAndRelease([o EXCEPT !.running = Drop(@, s), !.chunks = SelectSeq(@, LAMBDA c : c.slot # s)], s)

\* The most recently admitted running request goes back to the front of the
\* queue, to prefill its prompt and the output so far.
PreemptTail(o) ==
  LET victim == Last(o.running)
      left   == LeaveRunning(o, victim)
  IN [left EXCEPT !.target[victim] = req[victim].prompt + o.generated[victim],
                  !.computed[victim] = 0, !.phase[victim] = "waiting",
                  !.waiting = <<victim>> \o @,
                  !.thrown = @ \/ \E i \in DOMAIN o.chunks : o.chunks[i].slot = victim]

Ended(o, s, outcome) ==
  [o EXCEPT !.phase[s] = "none", !.outcome[s] = outcome, !.computed[s] = 0, !.target[s] = 0]
Finish(o, s) == Ended(LeaveRunning(o, s), s, "finished")

----------------------------------------------------------------------------
(* Composing a step.                                                       *)

BudgetUsed(o) == Cardinality(InPhase(o, "decode")) + FoldLeft(LAMBDA sum, c : sum + c.n, 0, o.chunks)

\* Blocks for s, preempting until they fit or s has preempted itself.
Fits(o, n) == n <= AvailableBlocks(o.pool)
AllocateOrPreempt(o, s, n) ==
  LET again(f, i) == IF Fits(f, n) \/ f.phase[s] = "waiting" THEN f ELSE PreemptTail(f)
      room == FoldLeft(again, o, [i \in DOMAIN o.running |-> i])
  IN IF room.phase[s] = "waiting" THEN room
     ELSE [room EXCEPT !.blocks[s] = @ \o TakenBlocks(room.pool, n), !.pool = TakeBlocks(@, n)]

\* A. Every decode computes one token; the next token of one may need a block.
GrowDecodes(o) ==
  LET grow(f, s) ==
        IF f.phase[s] = "decode" /\ BlocksForTokens(f.computed[s] + 1) > HeldBlocks(f, s)
        THEN AllocateOrPreempt(f, s, 1) ELSE f
  IN FoldLeft(grow, o, o.running)

\* B. Running prefills take chunks of what is left of the budget.
Chunk(o, s, prior, n) == [o EXCEPT !.chunks = Append(@, [slot |-> s, prior |-> prior, n |-> n])]
ContinuePrefill(o, s) ==
  LET left == MaxBatchedTokens - BudgetUsed(o)
      n    == IF o.target[s] - o.computed[s] < left THEN o.target[s] - o.computed[s] ELSE left
      need == BlocksForTokens(o.computed[s] + n) - HeldBlocks(o, s)
      got  == IF need > 0 THEN AllocateOrPreempt(o, s, need) ELSE o
  IN IF o.phase[s] # "prefill" \/ left <= 0 THEN o
     ELSE IF got.phase[s] = "waiting" THEN got ELSE Chunk(got, s, o.computed[s], n)
ContinuePrefills(o) == FoldLeft(ContinuePrefill, o, o.running)

\* C. Admissions from the head of the queue, if the whole uncached prompt fits.
AdmitHead(o, s) ==
  LET hits   == LongestCachedPrefix(o.pool, req[s].session, o.target[s])
      cached == Len(hits) * BlockSize
      left   == MaxBatchedTokens - BudgetUsed(o)
      n      == IF o.target[s] - cached < left THEN o.target[s] - cached ELSE left
      got    == AcquireBlocks(o.pool, hits, BlocksForTokens(cached + n) - Len(hits))
  IN IF /\ s = Head(o.waiting) /\ left > 0 /\ Len(o.running) < MaxSeqs
        /\ CanAcquire(o.pool, hits, BlocksForTokens(o.target[s]) - Len(hits))
     THEN Chunk([o EXCEPT !.pool = got.pool, !.blocks[s] = got.table, !.registered[s] = Len(hits),
                          !.computed[s] = cached, !.phase[s] = "prefill", !.waiting = Tail(@),
                          !.running = Append(@, s)], s, cached, n)
     ELSE o

Start(o) ==
  IF InPhase(o, "decode") = {} /\ o.chunks = <<>>
  THEN [o EXCEPT !.mode = "idle", !.thrown = @ \/ HasWork(o)]
  ELSE [o EXCEPT !.mode = "step"]
Compose(o) ==
  LET fresh == [o EXCEPT !.chunks = <<>>]
      kept  == ContinuePrefills(GrowDecodes(fresh))
  IN Start(IF Len(kept.running) < Len(o.running) THEN kept ELSE FoldLeft(AdmitHead, kept, kept.waiting))

----------------------------------------------------------------------------
(* Applying a step.                                                        *)

ReachedTarget(o, s) == o.generated[s] >= req[s].output

\* 1. every decode has one more token; 2. decodes at their target finish.
Decoded(o, s) ==
  IF o.phase[s] # "decode" THEN o
  ELSE RegisterFull([o EXCEPT !.computed[s] = @ + 1, !.generated[s] = @ + 1], s)
FinishDecode(o, s) == IF o.phase[s] = "decode" /\ ReachedTarget(o, s) THEN Finish(o, s) ELSE o

\* 3. chunks register; one that completes its prefill samples a token.
ApplyChunk(o, c) ==
  LET s    == c.slot
      full == RegisterFull([o EXCEPT !.computed[s] = c.prior + c.n], s)
      told == [full EXCEPT !.generated[s] = @ + 1]
  IN IF full.computed[s] < full.target[s] THEN full
     ELSE IF ReachedTarget(told, s) THEN Finish(told, s) ELSE [told EXCEPT !.phase[s] = "decode"]

EndStep(o) ==
  LET decoded  == FoldLeft(Decoded, o, o.running)
      finished == FoldLeft(FinishDecode, decoded, o.running)
  IN Compose(FoldLeft(ApplyChunk, finished, o.chunks))

----------------------------------------------------------------------------
(* Requests arriving and leaving from outside.                             *)

CanEverRun(s) ==
  /\ req[s].prompt + req[s].output <= MaxModelLen
  /\ BlocksForTokens(req[s].prompt + req[s].output - 1) <= TotalBlocks

Enqueue(o, s) ==
  [o EXCEPT !.phase[s] = "waiting", !.target[s] = req[s].prompt, !.waiting = Append(@, s),
            !.mode = IF @ = "idle" THEN "kick" ELSE @]

\* A step in flight runs on; a kick with nothing left to do is taken back.
Cancel(o, s) ==
  LET out == IF o.phase[s] = "waiting" THEN [o EXCEPT !.waiting = Drop(@, s)] ELSE LeaveRunning(o, s)
  IN Ended([out EXCEPT !.mode = IF @ = "kick" /\ ~HasWork(out) THEN "idle" ELSE @], s, "timedOut")

\* Leaving Ready fails everything and wipes the KV pool.
FailAll(o) ==
  [Replica([s \in Req |-> "none"], CreateKvPool) EXCEPT
     !.generated = o.generated, !.thrown = o.thrown,
     !.outcome = [s \in Req |-> IF o.phase[s] = "none" THEN o.outcome[s] ELSE "failed"]]

Init ==
  /\ req \in [Req -> Workloads] /\ up = TRUE /\ seen = {}
  /\ ora = Replica([s \in Req |-> "none"], CreateMorningKvPool)

Dispatch(s) ==
  /\ s \notin seen /\ seen' = seen \cup {s}
  /\ ora' = IF up /\ CanEverRun(s) THEN Enqueue(ora, s) ELSE [ora EXCEPT !.outcome[s] = "failed"]
  /\ UNCHANGED <<req, up>>
TimeOut(s) == ora.phase[s] # "none" /\ ora' = Cancel(ora, s) /\ UNCHANGED <<req, up, seen>>
Kicked == ora.mode = "kick" /\ ora' = Compose(ora) /\ UNCHANGED <<req, up, seen>>
Stepped == ora.mode = "step" /\ ora' = EndStep(ora) /\ UNCHANGED <<req, up, seen>>
Crash == up /\ up' = FALSE /\ ora' = FailAll(ora) /\ UNCHANGED <<req, seen>>
Rejoin == ~up /\ up' = TRUE /\ ora' = [ora EXCEPT !.pool = CreateKvPool] /\ UNCHANGED <<req, seen>>

Next == Kicked \/ Stepped \/ Crash \/ Rejoin \/ \E s \in Req : Dispatch(s) \/ TimeOut(s)

Spec == Init /\ [][Next]_vars
=============================================================================
