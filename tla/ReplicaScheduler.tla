-------------------------- MODULE ReplicaScheduler --------------------------
(***************************************************************************)
(* The continuous-batching scheduler of one replica (engine/replica) over  *)
(* its KV pool.  `eng` is the engine as the module's variables hold it; a  *)
(* span of decode steps is one event, and its steps are applied to `eng`   *)
(* lazily, so `elapsed` says how many of them have ended by now.  The      *)
(* handlers are atomic; arrivals, cancellations, meter reads, crashes and  *)
(* the replica's own events come in any order.                             *)
(*                                                                         *)
(* Abstracted: durations (a step ends whenever it ends), meters and        *)
(* notices, and the decode clock: each decoding request's own count of     *)
(* computed tokens moves with every step instead of the shared clock, and  *)
(* the requests of a block group are those whose count is a multiple of    *)
(* the block size.  Requests wait out no overhead here (Fleet has that).   *)
(***************************************************************************)
EXTENDS KvOps

CONSTANTS
  Req,              \* requests dispatched to the replica, each once
  Workloads,        \* what a request may be: [session, prompt, output]
  MaxBatchedTokens, MaxSeqs, MaxModelLen,  \* engine limits
  Jumping           \* whether decode-only steps are merged into spans

\* What a calibration must satisfy, or the replica is not created.
EngineLimits ==
  /\ {MaxSeqs, MaxBatchedTokens, MaxModelLen} \subseteq Nat \ {0}
  /\ MaxSeqs <= MaxBatchedTokens

ASSUME SchedulerAssumption ==
  /\ EngineLimits /\ Jumping \in BOOLEAN
  /\ \A w \in Workloads :
       w.prompt \in Nat \ {0} /\ w.prompt >= SystemTokens /\ w.output \in Nat \ {0}

VARIABLES
  req,      \* each request's workload
  up,       \* rep.state = ready
  eng,      \* the engine and its requests' fields
  elapsed,  \* steps of the span in flight that have ended by now
  arrived   \* history: the requests dispatched here, in order

vars == <<req, up, eng, elapsed, arrived>>

Waiting(e) == {s \in Req : e.phase[s] = "waiting"}
Prefilling(e) == {s \in Req : e.phase[s] = "prefill"}
Decoding(e) == {s \in Req : e.phase[s] = "decode"}
HasWork(e) == e.running # <<>> \/ e.waiting # <<>>
Chunked(e) == {e.chunks[i].slot : i \in DOMAIN e.chunks}
Without(list, s) == SelectSeq(list, LAMBDA x : x # s)

(* Tokens of the step being composed: one per decode, and the chunks'. *)
Used(e) == FoldLeft(LAMBDA sum, c : sum + c.n, Cardinality(Decoding(e)), e.chunks)

(* Output so far: a decode has one token more than the KV past its prompt. *)
GeneratedTokens(e, s) ==
  IF e.phase[s] = "decode" THEN e.computed[s] - req[s].prompt + 1 ELSE e.generated[s]

CanEverRun(s) ==
  /\ req[s].prompt + req[s].output <= MaxModelLen
  /\ BlocksForTokens(req[s].prompt + req[s].output - 1) <= TotalBlocks

InitialEngine ==
  [phase |-> [s \in Req |-> "none"], waiting |-> <<>>, running |-> <<>>,
   pool |-> CreateMorningKvPool, table |-> [s \in Req |-> <<>>],
   registered |-> [s \in Req |-> 0], computed |-> [s \in Req |-> 0],
   target |-> [s \in Req |-> 0], generated |-> [s \in Req |-> 0],
   outcome |-> [s \in Req |-> "none"], chunks |-> <<>>, mode |-> "idle",
   spanSteps |-> 0, spanDone |-> 0, thrown |-> FALSE]

Init ==
  /\ req \in [Req -> Workloads]
  /\ up = TRUE
  /\ eng = InitialEngine
  /\ elapsed = 0
  /\ arrived = <<>>

-----------------------------------------------------------------------------
(* A request's moves.                                                        *)

(* Keys for the blocks filled since the last registration. *)
RegisterComputed(e, s, computed) ==
  [e EXCEPT !.pool = RegisterFullBlocks(@, req[s].session, e.table[s], e.registered[s], computed),
            !.registered[s] = Registered(@, computed),
            !.computed[s] = computed]

(* leaveRunning and registerAndRelease: what was computed stays cached, the  *)
(* blocks are released and the chunk in flight no longer applies.            *)
VacateUnreleased(e, s) ==  \* mutation: the blocks are forgotten, not released
  LET f == RegisterComputed(e, s, e.computed[s]) IN
  [f EXCEPT !.generated[s] = GeneratedTokens(e, s), !.table[s] = <<>>, !.registered[s] = 0,
            !.running = Without(@, s), !.chunks = SelectSeq(@, LAMBDA c : c.slot # s)]
Vacate(e, s) ==
  LET f == RegisterComputed(e, s, e.computed[s]) IN
  [f EXCEPT !.pool = ReleaseBlocks(@, e.table[s]), !.table[s] = <<>>, !.registered[s] = 0,
            !.generated[s] = GeneratedTokens(e, s),
            !.running = Without(@, s), !.chunks = SelectSeq(@, LAMBDA c : c.slot # s)]

(* Back to the front of the queue, to prefill the prompt and the output so   *)
(* far.  A prefill already scheduled in this step must not be the victim.    *)
Preempt(e, s) ==
  [Vacate(e, s) EXCEPT !.phase[s] = "waiting", !.waiting = <<s>> \o @, !.computed[s] = 0,
                       !.target[s] = req[s].prompt + GeneratedTokens(e, s),
                       !.thrown = @ \/ s \in Chunked(e)]

End(e, s, outcome) ==
  [e EXCEPT !.phase[s] = "none", !.outcome[s] = outcome, !.computed[s] = 0, !.target[s] = 0]

(* Takes a request out wherever it is. *)
Detach(e, s) ==
  IF e.phase[s] = "waiting" THEN [e EXCEPT !.waiting = Without(@, s)] ELSE Vacate(e, s)

-----------------------------------------------------------------------------
(* Composing a step.                                                         *)

(* Blocks for s, preempting the most recently admitted requests until they   *)
(* fit or s itself is preempted.                                             *)
Grow(e, s, need) ==
  IF need <= 0 \/ e.phase[s] = "waiting" THEN e
  ELSE [e EXCEPT !.table[s] = @ \o TakenBlocks(e.pool, need), !.pool = TakeBlocks(@, need)]

AllocatePreempting(e, s, need) ==
  LET preemptTail(f, victim) ==
        IF need <= AvailableBlocks(f.pool) \/ f.phase[s] = "waiting" THEN f
        ELSE Preempt(f, victim)
  IN  Grow(FoldLeft(preemptTail, e, Reverse(e.running)), s, need)

(* Every decode computes a token; the ones at a block boundary need a block, *)
(* in admission order.                                                       *)
AtBoundary(e, s) == e.phase[s] = "decode" /\ e.computed[s] % BlockSize = 0

ScheduleDecodes(e) ==
  LET decode(f, s) == IF AtBoundary(f, s) THEN AllocatePreempting(f, s, 1) ELSE f
  IN  FoldLeft(decode, e, e.running)

(* Running prefills get chunks from the token budget, in admission order. *)
ChunkTokens(e, left) == Min({left, MaxBatchedTokens - Used(e)})
PushChunk(e, s, prior, n) ==
  IF e.phase[s] = "waiting" THEN e
  ELSE [e EXCEPT !.chunks = Append(@, [slot |-> s, prior |-> prior, n |-> n])]

ScheduleRunningPrefills(e) ==
  LET prefill(f, s) ==
        LET n == ChunkTokens(f, f.target[s] - f.computed[s])
            need == BlocksForTokens(f.computed[s] + n) - Len(f.table[s])
        IN  IF f.phase[s] # "prefill" \/ Used(f) >= MaxBatchedTokens THEN f
            ELSE PushChunk(AllocatePreempting(f, s, need), s, f.computed[s], n)
  IN  FoldLeft(prefill, e, e.running)

(* The head of the queue is admitted while budget and places remain and its  *)
(* whole uncached prompt fits; its first chunk is allocated.  The first that *)
(* does not fit stops admission.                                             *)
HasRoom(e) == Used(e) < MaxBatchedTokens /\ Len(e.running) < MaxSeqs

Admit(e, s, hits) ==
  LET cached == Len(hits) * BlockSize
      n      == ChunkTokens(e, e.target[s] - cached)
      got    == AcquireBlocks(e.pool, hits, BlocksForTokens(cached + n) - Len(hits))
  IN  IF \/ s # Head(e.waiting) \/ ~HasRoom(e)
         \/ ~CanAcquire(e.pool, hits, BlocksForTokens(e.target[s]) - Len(hits))
      THEN e
      ELSE PushChunk([e EXCEPT !.pool = got.pool, !.table[s] = got.table,
                               !.registered[s] = Len(hits), !.computed[s] = cached,
                               !.phase[s] = "prefill",
                               !.waiting = Tail(@), !.running = Append(@, s)], s, cached, n)

AdmitWaiting(e) ==
  LET admit(f, s) == Admit(f, s, LongestCachedPrefix(f.pool, req[s].session, f.target[s]))
  IN  FoldLeft(admit, e, e.waiting)

(* Decode steps from this one to the first finish, and to the first whose    *)
(* blocks would not fit: every request crosses one boundary per block.       *)
StepsUntilFinish(e) ==
  Min({req[s].output - GeneratedTokens(e, s) : s \in Decoding(e)})

StepsUntilKvShortLate(e) ==  \* mutation: off by one
  LET b      == Cardinality(Decoding(e))
      cycles == AvailableBlocks(e.pool) \div b
      need(j) == Cardinality({s \in Decoding(e) : \E i \in 1..j : (e.computed[s] + i) % BlockSize = 0})
  IN  cycles * BlockSize + 1 + Min({j \in 1..BlockSize : need(j) > AvailableBlocks(e.pool) - cycles * b})
StepsUntilKvShort(e) ==
  LET b      == Cardinality(Decoding(e))
      cycles == AvailableBlocks(e.pool) \div b
      need(j) == Cardinality({s \in Decoding(e) : \E i \in 1..j : (e.computed[s] + i) % BlockSize = 0})
  IN  cycles * BlockSize + Min({j \in 1..BlockSize : need(j) > AvailableBlocks(e.pool) - cycles * b})

HeadSessionClear(e) ==
  e.waiting # <<>> =>
    \A i \in DOMAIN e.running : req[e.running[i]].session # req[Head(e.waiting)].session

SpanSteps(e, preempted) ==
  IF ~Jumping \/ e.chunks # <<>> \/ preempted \/ ~HeadSessionClear(e) THEN 1
  ELSE Min({StepsUntilFinish(e), StepsUntilKvShort(e)})

(* The step that was composed, or the span that starts with it. *)
StartStep(e, preempted) ==
  LET k == SpanSteps(e, preempted) IN
  IF Decoding(e) = {} /\ e.chunks = <<>>
  THEN [e EXCEPT !.thrown = @ \/ HasWork(e)]  \* an empty step with work queued
  ELSE IF k >= 2 THEN [e EXCEPT !.mode = "span", !.spanSteps = k]
  ELSE [e EXCEPT !.mode = "step"]

(* A step that preempted somebody admits nobody. *)
AdmitAndStart(scheduled, before) ==
  IF Len(scheduled.running) < Len(before) THEN StartStep(scheduled, TRUE)
  ELSE StartStep(AdmitWaiting(scheduled), FALSE)

Compose(e) ==
  LET start == [e EXCEPT !.chunks = <<>>, !.mode = "idle", !.spanSteps = 0, !.spanDone = 0]
  IN  AdmitAndStart(ScheduleRunningPrefills(ScheduleDecodes(start)), e.running)

-----------------------------------------------------------------------------
(* Ending a step.                                                            *)

(* Every decode has computed its token; the blocks that fills are registered. *)
EndDecodeStep(e) ==
  LET step(f, s) ==
        IF f.phase[s] # "decode" THEN f
        ELSE IF (f.computed[s] + 1) % BlockSize = 0 THEN RegisterComputed(f, s, f.computed[s] + 1)
        ELSE [f EXCEPT !.computed[s] = @ + 1]
  IN  FoldLeft(step, e, e.running)

Finish(e, s) == End(Detach(e, s), s, "finished")

Done(e, s) == GeneratedTokens(e, s) >= req[s].output

(* A chunk that completes its prefill samples a token, a resumed request's   *)
(* next one, and the request finishes or decodes.                            *)
EndPrefill(e, s) == IF Done(e, s) THEN Finish(e, s) ELSE [e EXCEPT !.phase[s] = "decode"]
EndChunk(e, c) ==
  LET f == RegisterComputed(e, c.slot, c.prior + c.n)
  IN  IF c.prior + c.n < e.target[c.slot] THEN f
      ELSE EndPrefill([f EXCEPT !.generated[c.slot] = @ + 1], c.slot)

(* Decodes end first, in admission order, then the chunks. *)
FinishDecodes(e) ==
  LET finish(f, s) == IF e.phase[s] = "decode" /\ Done(e, s) THEN Finish(f, s) ELSE f
  IN  FoldLeft(finish, e, e.running)
FinishStep(e) ==
  [FoldLeft(EndChunk, FinishDecodes(EndDecodeStep(e)), e.chunks) EXCEPT !.chunks = <<>>]

(* The next step of a span takes the blocks the plan left for it. *)
StartSpanStep(e) ==
  LET start(f, s) ==
        IF ~AtBoundary(f, s) THEN f
        ELSE IF AvailableBlocks(f.pool) < 1 THEN [f EXCEPT !.thrown = TRUE]
        ELSE Grow(f, s, 1)
  IN  FoldLeft(start, e, e.running)

(* syncSpan: the steps that have ended by now are applied, one by one. *)
SyncSpan(e, n) ==
  LET apply(f, i) == [StartSpanStep(EndDecodeStep(f)) EXCEPT !.spanDone = @ + 1]
  IN  IF e.mode # "span" THEN e
      ELSE FoldLeft(apply, e, [i \in 1..(n - e.spanDone) |-> i])

(* A span, synchronised, is cut after the step in flight. *)
TruncateNever(e) == e  \* mutation: the span runs on
Truncate(e) ==
  IF e.mode = "span" /\ e.spanDone + 1 < e.spanSteps
  THEN [e EXCEPT !.spanSteps = e.spanDone + 1] ELSE e

Now(e) == SyncSpan(e, elapsed)

-----------------------------------------------------------------------------
(* Handlers.                                                                 *)

(* A request that finds the replica down or could never run fails at once;   *)
(* another joins the queue, wakes an idle replica, and as a new head stops   *)
(* the span after the step in flight.                                        *)
WakesNever(e) == e.mode  \* mutation: an idle replica is not woken
Wakes(e) == IF e.mode = "idle" THEN "kick" ELSE e.mode

Enqueue(e, s) ==
  LET f == [e EXCEPT !.phase[s] = "waiting", !.target[s] = req[s].prompt,
                     !.waiting = Append(@, s), !.mode = Wakes(e)]
  IN  IF e.waiting = <<>> THEN Truncate(f) ELSE f

Dispatched(s) ==
  /\ s \notin ToSet(arrived)
  /\ arrived' = Append(arrived, s)
  /\ eng' = IF up /\ CanEverRun(s) THEN Enqueue(Now(eng), s)
            ELSE [eng EXCEPT !.outcome[s] = "failed"]
  /\ UNCHANGED <<req, up, elapsed>>

(* The kick of a replica with nothing left is cancelled; a running request   *)
(* or the head that leaves stops the span.                                   *)
Leave(e, s) ==
  End([Detach(e, s) EXCEPT !.generated[s] = GeneratedTokens(e, s)], s, "timedOut")
StopSpan(e) == IF e.mode = "kick" /\ ~HasWork(e) THEN [e EXCEPT !.mode = "idle"] ELSE Truncate(e)
Cancel(e, s) ==
  IF e.phase[s] # "waiting" \/ s = Head(e.waiting) THEN StopSpan(Leave(e, s)) ELSE Leave(e, s)

Cancelled(s) ==
  /\ eng.phase[s] # "none"
  /\ eng' = Cancel(Now(eng), s)
  /\ UNCHANGED <<req, up, elapsed, arrived>>

(* The instant has settled: the requests of a wake-up share the first step. *)
Kick ==
  /\ eng.mode = "kick"
  /\ eng' = Compose(eng)
  /\ elapsed' = 0
  /\ UNCHANGED <<req, up, arrived>>

(* Time passes the end of a step inside the span; no event fires. *)
Tick ==
  /\ eng.mode = "span" /\ elapsed + 1 < eng.spanSteps
  /\ elapsed' = elapsed + 1
  /\ UNCHANGED <<req, up, eng, arrived>>

StepEnd ==
  /\ eng.mode = "step" \/ (eng.mode = "span" /\ elapsed + 1 = eng.spanSteps)
  /\ eng' = Compose(FinishStep(Now(eng)))
  /\ elapsed' = 0
  /\ UNCHANGED <<req, up, arrived>>

(* A bucket end or a reader of the meters applies what has elapsed. *)
MeterSync ==
  /\ eng.mode = "span" /\ eng.spanDone < elapsed
  /\ eng' = Now(eng)
  /\ UNCHANGED <<req, up, elapsed, arrived>>

(* failAll: everything held fails, with its output so far, and KV is wiped. *)
FailAll(e) ==
  [e EXCEPT !.phase = [s \in Req |-> "none"], !.waiting = <<>>, !.running = <<>>,
            !.pool = CreateKvPool, !.table = [s \in Req |-> <<>>],
            !.registered = [s \in Req |-> 0], !.computed = [s \in Req |-> 0],
            !.target = [s \in Req |-> 0],
            !.generated = [s \in Req |-> GeneratedTokens(e, s)],
            !.outcome = [s \in Req |-> IF e.phase[s] # "none" THEN "failed" ELSE @[s]],
            !.chunks = <<>>, !.mode = "idle", !.spanSteps = 0, !.spanDone = 0]

Crash ==
  /\ up
  /\ up' = FALSE
  /\ eng' = FailAll(Now(eng))
  /\ elapsed' = 0
  /\ UNCHANGED <<req, arrived>>

Rejoin ==
  /\ ~up
  /\ up' = TRUE
  /\ eng' = [eng EXCEPT !.pool = CreateKvPool]
  /\ UNCHANGED <<req, elapsed, arrived>>

(* What the replica's own events and the passing of time do, and the rest. *)
Works == Kick \/ Tick \/ StepEnd
Met ==
  \/ \E s \in Req : Dispatched(s) \/ Cancelled(s)
  \/ MeterSync \/ Crash \/ Rejoin

Next == Works \/ Met

Spec == Init /\ [][Next]_vars

-----------------------------------------------------------------------------
(* Properties.  They speak of the engine as a reader that synchronises it    *)
(* first sees it.                                                            *)

(* No handler throws: no step is composed empty while work is queued, no     *)
(* prefill scheduled in a step is preempted by it, no planned span step runs *)
(* out of blocks, and the pool is never misused.                             *)
NoThrow == LET e == Now(eng) IN ~e.thrown /\ ~e.pool.thrown

(* assertRequests: a request is once in the queue its phase names and in no  *)
(* other.  A running one holds the blocks of what it has computed and of     *)
(* what the step in flight computes, no more, and its full blocks are        *)
(* registered; a prefill is short of its target, a decode has a token and is *)
(* short of its output.  A waiting one holds nothing, and the pool accounts  *)
(* for exactly these.                                                        *)
InFlight(e, s) == FoldLeft(LAMBDA sum, c : IF c.slot = s THEN sum + c.n ELSE sum, 0, e.chunks)
Holding(e, s) ==
  CASE e.phase[s] = "decode" -> e.computed[s] + 1
    [] e.phase[s] = "prefill" -> e.computed[s] + InFlight(e, s)
    [] OTHER -> 0
AssertRequests(e) ==
  /\ IsInjective(e.waiting) /\ ToSet(e.waiting) = Waiting(e)
  /\ IsInjective(e.running) /\ ToSet(e.running) = Prefilling(e) \cup Decoding(e)
  /\ \A s \in Req : Len(e.table[s]) = BlocksForTokens(Holding(e, s))
  /\ \A s \in ToSet(e.running) : e.registered[s] = e.computed[s] \div BlockSize
  /\ \A s \in Prefilling(e) : e.computed[s] < e.target[s]
  /\ \A s \in Decoding(e) : GeneratedTokens(e, s) \in 1..(req[s].output - 1)
  /\ \A b \in Block : e.pool.refCount[b] = Cardinality({s \in Req : b \in ToSet(e.table[s])})
  /\ Accounted(e.pool)

(* assertSchedule: a replica that is not ready holds nothing and is idle, an *)
(* idle one has nothing to do, a kick has new work only, and a span has      *)
(* steps left and no prefill.                                                *)
AssertSchedule(e) ==
  /\ ~up => e.mode = "idle"
  /\ e.mode = "idle" => ~HasWork(e)
  /\ e.mode = "kick" => e.waiting # <<>> /\ e.running = <<>>
  /\ e.mode = "span" => e.spanDone < e.spanSteps /\ e.chunks = <<>>

(* The replica's checks of itself (replica/invariants.ts) hold after every   *)
(* handler, and for a reader that synchronises it first.                     *)
ChecksPass == \A e \in {eng, Now(eng)} : AssertRequests(e) /\ AssertSchedule(e)

(* No step exceeds max_num_batched_tokens or max_num_seqs, whatever was      *)
(* preempted while it was composed.                                          *)
StepWithinLimits ==
  LET e == Now(eng) IN Used(e) <= MaxBatchedTokens /\ Len(e.running) <= MaxSeqs

(* Nobody overtakes: the running requests and then the queue are in the      *)
(* order of arrival, through every preemption and readmission.               *)
ArrivalOrder ==
  LET held == eng.running \o eng.waiting
      place(s) == CHOOSE i \in DOMAIN arrived : arrived[i] = s
  IN  \A i, j \in DOMAIN held : i < j => place(held[i]) < place(held[j])

(* A finished request has exactly its output: preemption, resumption and     *)
(* span ends neither lose nor add a token.                                   *)
OutputExact == \A s \in Req : eng.outcome[s] = "finished" => eng.generated[s] = req[s].output

(* In every order of arrivals, cancellations, reads and crashes the replica  *)
(* keeps its blocks, limits, order and counts (replica/steps.ts, span.ts).   *)
ReplicaExact == NoThrow /\ ChecksPass /\ StepWithinLimits /\ ArrivalOrder /\ OutputExact

(* Every request that reached the replica ends: preempting the most recently *)
(* admitted lets the oldest one finish, so requests cannot preempt each      *)
(* other for ever, and no arrival leaves the replica asleep.                 *)
Served == \A s \in Req : (s \in ToSet(arrived)) ~> (eng.outcome[s] # "none")
=============================================================================
