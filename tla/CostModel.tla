------------------------------ MODULE CostModel ------------------------------
(***************************************************************************)
(* What the steps of a replica cost (engine/cost/step.ts) and the closed   *)
(* forms that price a run of decode-only steps at once (decode-span.ts).   *)
(* A batch decodes while requests prefill in chunks; decode-only stretches *)
(* are jumped over within a time budget.                                   *)
(*                                                                         *)
(* Times are exact integers: milliseconds times the achieved FLOPs per ms  *)
(* (Cal.fpm) times the achieved bytes per ms (Cal.bpm), so that both terms *)
(* of the roofline are whole.  The square root of the inverse is rounded,  *)
(* by at most a step either way, as the code assumes.                      *)
(***************************************************************************)
EXTENDS Integers, SequencesExt

CONSTANTS
  Cals,        \* calibrations: [linear, attention, kv, weights, fpm, bpm, overhead, perSeq, perCached]
  Chunks,      \* chunk sizes
  Prompts, Cached, Budgets,
  MaxBatch, MaxContext,  \* bounds on the batch and on a sequence's context
  None

VARIABLES
  cal, chunk,
  pre,     \* the latest request to prefill: [prompt, cached, prior, ms, pairs, alone]
  seqs,    \* the contexts of the decoding sequences
  totals,  \* the running totals of the step description: [seqs, context]
  last,    \* the description of the step just run
  jump     \* the jump just made: [batch, context, budget, k, ms, flops, bytes], or None

vars == <<cal, chunk, pre, seqs, totals, last, jump>>

Infinity == 1000000
Lower(a, b) == IF a < b THEN a ELSE b
Higher(a, b) == IF a > b THEN a ELSE b
Largest(S) == CHOOSE x \in S : \A y \in S : y <= x
Total(q) == FoldLeft(+, 0, q)

----------------------------------------------------------------------------
(* One step (step.ts).                                                     *)

EmptyStepDesc == [seqs |-> 0, context |-> 0, tokens |-> 0, prior |-> 0, pairs |-> 0, cached |-> 0]

AttentionPairs(prior, n) == n * prior + (n * (n + 1)) \div 2
AddPrefillChunk(d, prior, n) ==
  [d EXCEPT !.tokens = @ + n, !.prior = @ + prior, !.pairs = @ + AttentionPairs(prior, n)]
AddAdmittedChunk(d, cached, n) == [AddPrefillChunk(d, cached, n) EXCEPT !.cached = @ + cached]
AddDecodeSequence(d, context) == [d EXCEPT !.seqs = @ + 1, !.context = @ + context]

StepFlops(d, c) == c.linear * (d.tokens + d.seqs) + c.attention * (d.pairs + d.context)
StepBytes(d, c) == c.weights + c.kv * ((d.context + d.prior + d.tokens) + (d.seqs + d.tokens))
Roof(flops, bytes, c) == Higher(flops * c.bpm, bytes * c.fpm)
StepExtra(d, c) == (c.overhead + c.perSeq * d.seqs + c.perCached * d.cached) * c.fpm * c.bpm
StepMs(d, c) == IF d.tokens + d.seqs = 0 THEN 0 ELSE StepExtra(d, c) + Roof(StepFlops(d, c), StepBytes(d, c), c)

\* assertInvariants
DescHolds(d) ==
  /\ d.cached <= d.prior /\ d.context >= d.seqs /\ (d.seqs > 0 \/ d.context = 0)
  /\ (d.tokens > 0 \/ d.prior + d.pairs = 0) /\ d.pairs >= d.prior + d.tokens

----------------------------------------------------------------------------
(* Reference latencies of a request alone (reference.ts).                  *)

Batch1Chunk(w, prompt, cached, size, c) ==
  LET n == Lower(size, prompt - w.prior)
      d == IF w.prior = cached THEN AddAdmittedChunk(EmptyStepDesc, cached, n) ELSE AddPrefillChunk(EmptyStepDesc, w.prior, n)
  IN IF w.prior < prompt THEN [prior |-> w.prior + n, ms |-> w.ms + StepMs(d, c)] ELSE w
Batch1Prefill(prompt, cached, size, c) ==
  FoldLeft(LAMBDA w, i : Batch1Chunk(w, prompt, cached, size, c), [prior |-> cached, ms |-> 0], [i \in 1..prompt |-> i]).ms

----------------------------------------------------------------------------
(* A span of decode-only steps (decode-span.ts).                           *)

\* Mutant: the second line takes over at the step where the two meet.
SwitchStepAtTie(f0, f1, s0, s1) == IF s1 > f1 THEN (f0 - s0) \div (s1 - f1) ELSE Infinity
\* The first step at which the second line binds.
SwitchStep(f0, f1, s0, s1) == IF s1 > f1 THEN (f0 - s0) \div (s1 - f1) + 1 ELSE Infinity

Lines(c0, c1, m0, m1) ==
  IF c0 > m0 \/ (c0 = m0 /\ c1 >= m1)
  THEN [first0 |-> c0, first1 |-> c1, second0 |-> m0, second1 |-> m1, switch |-> SwitchStep(c0, c1, m0, m1)]
  ELSE [first0 |-> m0, first1 |-> m1, second0 |-> c0, second1 |-> c1, switch |-> SwitchStep(m0, m1, c0, c1)]
DecodeSpan(batch, context, c) ==
  [overhead |-> (c.overhead + c.perSeq * batch) * c.fpm * c.bpm,
   flops0 |-> c.linear * batch + c.attention * context, flops1 |-> c.attention * batch,
   bytes0 |-> c.weights + c.kv * (context + batch), bytes1 |-> c.kv * batch,
   lines |-> Lines((c.linear * batch + c.attention * context) * c.bpm, c.attention * batch * c.bpm,
                   (c.weights + c.kv * (context + batch)) * c.fpm, c.kv * batch * c.fpm)]

LineSum(x0, x1, from, n) == n * x0 + x1 * (from * n + (n * (n - 1)) \div 2)
DecodeSpanStepMs(s, j) ==
  s.overhead + (IF j < s.lines.switch THEN s.lines.first0 + s.lines.first1 * j ELSE s.lines.second0 + s.lines.second1 * j)
DecodeSpanDurationMs(s, k) ==
  LineSum(s.overhead + s.lines.first0, s.lines.first1, 0, Lower(k, s.lines.switch))
  + (IF k > s.lines.switch THEN LineSum(s.overhead + s.lines.second0, s.lines.second1, s.lines.switch, k - s.lines.switch) ELSE 0)
DecodeSpanFlops(s, k) == LineSum(s.flops0, s.flops1, 0, k)
DecodeSpanBytes(s, k) == LineSum(s.bytes0, s.bytes1, 0, k)

\* The root of the quadratic, off by as much as a step after rounding.
SolveSteps(base, slope, budget, off) ==
  LET fit == {x \in 0..MaxContext : base * x + slope * ((x * (x - 1)) \div 2) <= budget}
  IN IF budget <= 0 THEN 0 ELSE Higher(0, Largest(fit) + off)

Guess(s, budget, off) ==
  LET at == IF s.lines.switch < Infinity THEN DecodeSpanDurationMs(s, s.lines.switch) ELSE Infinity
  IN IF at <= budget
     THEN s.lines.switch + SolveSteps(s.overhead + s.lines.second0 + s.lines.second1 * s.lines.switch, s.lines.second1, budget - at, off)
     ELSE SolveSteps(s.overhead + s.lines.first0, s.lines.first1, budget, off)
\* Down while it does not fit, then up while the next step fits too.
Settle(s, budget, k) ==
  LET down == Largest({0} \cup {j \in 1..k : DecodeSpanDurationMs(s, j) <= budget})
  IN Largest({j \in down..(down + MaxContext) : j = down \/ DecodeSpanDurationMs(s, j) <= budget})
DecodeSpanStepsWithin(s, budget, off) == Settle(s, budget, Guess(s, budget, off))

----------------------------------------------------------------------------
(* The meters (replica/span.ts): what the step or the span in flight has     *)
(* done by a time after its start, a step that is under way in proportion;   *)
(* and an account of it, which adds what is new since the last.              *)

Part(x, into, len) == IF into <= 0 THEN 0 ELSE IF into >= len THEN x ELSE (x * into) \div len
WorkInStep(d, c, e) ==
  LET ms == StepMs(d, c) IN
  [busy |-> Part(ms, e, ms), flops |-> Part(StepFlops(d, c), e, ms), decode |-> Part(d.seqs, e, ms),
   prefill |-> Part(d.tokens, e, ms)]
WorkInSpan(s, k, batch, e) ==
  LET all == DecodeSpanDurationMs(s, k)
      n == IF e >= all THEN k ELSE Lower(k, DecodeSpanStepsWithin(s, e, 0))
      InStep(x) == IF n = k THEN 0 ELSE Part(x, e - DecodeSpanDurationMs(s, n), DecodeSpanStepMs(s, n))
  IN [busy |-> IF n = k THEN all ELSE Higher(0, Lower(e, all)),
      flops |-> DecodeSpanFlops(s, n) + InStep(s.flops0 + s.flops1 * n),
      decode |-> batch * n + InStep(batch), prefill |-> 0]
NoWork == [busy |-> 0, flops |-> 0, decode |-> 0, prefill |-> 0]
Accrue(m, w) == [meters |-> [x \in DOMAIN w |-> m.meters[x] + (w[x] - m.acct[x])], acct |-> w]

----------------------------------------------------------------------------
(* The batch that the costs are taken of (replica/steps.ts).               *)

Init ==
  /\ cal \in Cals /\ chunk \in Chunks
  /\ pre = None /\ seqs = <<>> /\ totals = [seqs |-> 0, context |-> 0]
  /\ last = EmptyStepDesc /\ jump = None

Prefilling == pre # None /\ pre.prior < pre.prompt

Admit(prompt, cached) ==
  /\ ~Prefilling /\ Len(seqs) < MaxBatch
  /\ pre' = [prompt |-> prompt, cached |-> Lower(cached, prompt - 1), prior |-> Lower(cached, prompt - 1),
             ms |-> 0, pairs |-> 0, alone |-> seqs = <<>>]
  /\ last' = EmptyStepDesc /\ jump' = None
  /\ UNCHANGED <<cal, chunk, seqs, totals>>

\* The step with the chunk n: the decode fields are the running totals.
DescOf(n) ==
  LET d == [EmptyStepDesc EXCEPT !.seqs = totals.seqs, !.context = totals.context]
  IN IF pre.prior = pre.cached THEN AddAdmittedChunk(d, pre.cached, n) ELSE AddPrefillChunk(d, pre.prior, n)

\* Every decoding sequence grows by k.
Grown(k) == [i \in DOMAIN seqs |-> seqs[i] + k]
TotalsAfter(k) == [totals EXCEPT !.context = @ + k * totals.seqs]
Joined(context) ==
  LET d == AddDecodeSequence([EmptyStepDesc EXCEPT !.seqs = totals.seqs, !.context = TotalsAfter(1).context], context)
  IN [seqs |-> d.seqs, context |-> d.context]

\* The last chunk samples the first token: the request decodes, attending to it.
Step ==
  /\ Prefilling /\ \A i \in DOMAIN seqs : seqs[i] < MaxContext
  /\ LET n == Lower(chunk, pre.prompt - pre.prior)
         done == pre.prior + n = pre.prompt
     IN /\ last' = DescOf(n)
        /\ pre' = [pre EXCEPT !.prior = @ + n, !.ms = @ + StepMs(last', cal), !.pairs = @ + last'.pairs]
        /\ seqs' = IF done THEN Grown(1) \o <<pre.prompt + 1>> ELSE Grown(1)
        /\ totals' = IF done THEN Joined(pre.prompt + 1) ELSE TotalsAfter(1)
  /\ jump' = None
  /\ UNCHANGED <<cal, chunk>>

\* A decode-only stretch: as many steps as the budget holds, at once.
Jump(budget, off) ==
  /\ ~Prefilling /\ seqs # <<>>
  /\ \E s \in {DecodeSpan(totals.seqs, totals.context, cal)} : \E k \in {DecodeSpanStepsWithin(s, budget, off)} :
       /\ \A i \in DOMAIN seqs : seqs[i] + k <= MaxContext
       /\ seqs' = Grown(k) /\ totals' = TotalsAfter(k)
       /\ jump' = [batch |-> totals.seqs, context |-> totals.context, budget |-> budget, k |-> k,
                   ms |-> DecodeSpanDurationMs(s, k), flops |-> DecodeSpanFlops(s, k), bytes |-> DecodeSpanBytes(s, k)]
  /\ pre' = None /\ last' = EmptyStepDesc
  /\ UNCHANGED <<cal, chunk>>

Leave(i) ==
  /\ seqs' = RemoveAt(seqs, i)
  /\ totals' = [seqs |-> totals.seqs - 1, context |-> totals.context - seqs[i]]
  /\ last' = EmptyStepDesc /\ jump' = None
  /\ UNCHANGED <<cal, chunk, pre>>

Next ==
  \/ \E p \in Prompts, c \in Cached : Admit(p, c)
  \/ Step
  \/ \E b \in Budgets, off \in {-1, 0, 1} : Jump(b, off)
  \/ \E i \in DOMAIN seqs : Leave(i)

Spec == Init /\ [][Next]_vars

----------------------------------------------------------------------------
(* Properties.                                                             *)

\* The decode-only steps one by one.
StepAt(j) == [EmptyStepDesc EXCEPT !.seqs = jump.batch, !.context = jump.context + j * jump.batch]
OneByOne(k) == Total([j \in 1..k |-> StepMs(StepAt(j - 1), cal)])

JumpExact ==
  jump # None =>
    /\ jump.ms = OneByOne(jump.k)
    /\ jump.flops = Total([j \in 1..jump.k |-> StepFlops(StepAt(j - 1), cal)])
    /\ jump.bytes = Total([j \in 1..jump.k |-> StepBytes(StepAt(j - 1), cal)])
    /\ OneByOne(jump.k) <= jump.budget /\ jump.budget < OneByOne(jump.k + 1)

\* However often a step or a span is accounted while it is in flight, what is
\* counted never falls, is that of the steps done one by one at the end of each,
\* and the meters end with the whole.
Accounted(works) == FoldLeft(Accrue, [meters |-> NoWork, acct |-> NoWork], works).meters
NeverFalls(works) ==
  \A i \in 2..Len(works) : \A x \in DOMAIN NoWork : works[i - 1][x] <= works[i][x]
WorkExact ==
  /\ LET ms == StepMs(last, cal)
         works == [e \in 1..4 |-> WorkInStep(last, cal, (e * ms) \div 3)]
     IN  /\ NeverFalls(works)
         /\ Accounted(works) = [busy |-> ms, flops |-> IF ms = 0 THEN 0 ELSE StepFlops(last, cal),
                                decode |-> last.seqs, prefill |-> last.tokens]
  /\ jump # None =>
       LET s == DecodeSpan(jump.batch, jump.context, cal)
           Done(j) == [busy |-> OneByOne(j), flops |-> Total([i \in 1..j |-> StepFlops(StepAt(i - 1), cal)]),
                       decode |-> j * jump.batch, prefill |-> 0]
           At(e) == WorkInSpan(s, jump.k, jump.batch, e)
           works == FlattenSeq([j \in 1..jump.k |-> <<At(OneByOne(j) - 1), At(OneByOne(j))>>])
       IN  /\ NeverFalls(works)
           /\ \A j \in 1..jump.k : works[2 * j] = Done(j)
           /\ Accounted(works) = Done(jump.k)

\* A prompt costs the same attention in any chunks, and alone the reference latency.
PrefillExact ==
  pre # None /\ ~Prefilling =>
    /\ pre.pairs = AttentionPairs(pre.cached, pre.prompt - pre.cached)
    /\ pre.alone => pre.ms = Batch1Prefill(pre.prompt, pre.cached, chunk, cal)

\* A stretch of decode-only steps that is jumped over costs what its steps cost
\* one by one, also across the step where compute and memory swap, and is the
\* longest the budget holds however its square root was rounded; the running
\* totals of a batch that grows, finishes and jumps are its sums.
CostExact ==
  /\ JumpExact /\ WorkExact /\ PrefillExact /\ DescHolds(last)
  /\ totals = [seqs |-> Len(seqs), context |-> Total(seqs)]
=============================================================================
