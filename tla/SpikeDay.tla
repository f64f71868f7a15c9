------------------------------ MODULE SpikeDay ------------------------------
(***************************************************************************)
(* The scale study's one-day engine (spikes/scale/engine.ts): sessions of  *)
(* turns, round robin over replicas, a scheduler and a KV pool each, and   *)
(* two ways to find a session's cached blocks again: a map of block keys,  *)
(* and owners written on the blocks with a chain from one head per session *)
(* and replica, which no eviction ever mends.                              *)
(*                                                                         *)
(* Abstracted: the system prompt's full blocks, held all day, are not      *)
(* among the Blocks; a token is the turn that wrote it; a step with        *)
(* prefill takes `long`, another 1; the counters and the recorder are left *)
(* out, and a session's draws are part of the plan.                        *)
(***************************************************************************)
EXTENDS Integers, SequencesExt

CONSTANTS
  Plans,         \* [mode, long, starts, turns]; turns[s] is a sequence of [msg, out, think]
  Replicas, Pool, BS, SystemTokens,
  MaxLen, Room,  \* maxModelLen and the 16 tokens a clipped prompt leaves of it
  MaxBatched, MaxSeqs, FirstTokenTimeout, DayEnd, None

VARIABLE d       \* S, and `wrong`, which remembers a hit on a block that holds something else

Blocks == 1..Pool
SysBlocks == SystemTokens \div BS
Least(a, b) == IF a < b THEN a ELSE b
BlocksOf(n) == (n + BS - 1) \div BS
Sess(q) == q[1]
Turn(q) == q[2]
\* cfg.turns of a session; its draws for one turn
Turns(e, s) == Len(e.plan.turns[s])
Draw(e, q) == e.plan.turns[Sess(q)][Turn(q)]

MakeReplica ==
  [free |-> [i \in Blocks |-> i], ref |-> [b \in Blocks |-> 0], text |-> [b \in Blocks |-> <<>>],
   owner |-> [b \in Blocks |-> None], next |-> [b \in Blocks |-> None],
   running |-> <<>>, waiting |-> <<>>, step |-> <<>>, stepEnd |-> None]

\* What the request's text holds in block i: who wrote each token.
TextOf(e, q, i) ==
  LET prior == e.reqs[q].prior
      at(p) == IF p <= SystemTokens THEN 0
               ELSE IF p - SystemTokens <= Len(prior) THEN prior[p - SystemTokens] ELSE Turn(q)
  IN [k \in 1..BS |-> at((SysBlocks + i - 1) * BS + k)]

----------------------------------------------------------------------------
(* KV blocks.                                                              *)

NumFree(e, r) == Len(e.reps[r].free)

\* allocBlock n times from the head of the free list; what a block held is gone.
Alloc(e, r, q, n) ==
  LET taken == SubSeq(e.reps[r].free, 1, n)
      hit   == ToSet(taken)
  IN [e EXCEPT !.reqs[q].blocks = @ \o taken,
               !.reps[r].free = SubSeq(@, n + 1, Len(@)),
               !.reps[r].ref = [b \in Blocks |-> IF b \in hit THEN 1 ELSE @[b]],
               !.reps[r].owner = [b \in Blocks |-> IF b \in hit THEN None ELSE @[b]]]

\* freeReqBlocks: chain what is full from the session's head, then release,
\* the request's last block first.
Chained(e, r, q) ==
  LET bl   == e.reqs[q].blocks
      h    == e.reqs[q].hashed
      s    == Sess(q)
      full == SubSeq(bl, 1, h)
      after(b) == LET j == CHOOSE i \in 1..h : bl[i] = b IN IF j = h THEN None ELSE bl[j + 1]
      next == [e EXCEPT !.reps[r].next = [b \in Blocks |-> IF b \in ToSet(full) THEN after(b) ELSE @[b]]]
  IN IF e.plan.mode # "owner" THEN e
     ELSE IF e.sessions[s] = None THEN next
     ELSE [next EXCEPT !.sessions[s].head[r] = IF h > 0 THEN bl[1] ELSE None]
Released(e, r, q) ==
  LET bl     == e.reqs[q].blocks
      others == [b \in Blocks |-> e.reps[r].ref[b] - (IF Contains(bl, b) THEN 1 ELSE 0)]
  IN [e EXCEPT !.reps[r].ref = others,
               !.reps[r].free = @ \o SelectSeq(Reverse(bl), LAMBDA b : others[b] = 0),
               !.reqs[q].blocks = <<>>, !.reqs[q].hashed = 0]
FreeReqBlocks(e, r, q) == Released(Chained(e, r, q), r, q)

\* lookup(): the full blocks of the request that are cached, one token kept back.
Key(q, j) == <<Sess(q), SysBlocks + j - 1>>
LookupMap(e, r, q, k) ==
  LET p == e.reps[r]
      found(j) == {b \in Blocks : p.owner[b] = Key(q, j)}
      add(hits, j) == IF Len(hits) = j - 1 /\ found(j) # {} THEN hits \o SetToSeq(found(j)) ELSE hits
  IN FoldLeft(add, <<>>, [j \in 1..k |-> j])

\* Mutant: the walk trusts the chain as long as it goes on.
LookupOwnerTrusting(e, r, q, k) ==
  LET p == e.reps[r]
      s == e.sessions[Sess(q)]
      start == IF s = None THEN None ELSE s.head[r]
      add(w, j) == IF w.at = None THEN w ELSE [at |-> p.next[w.at], hits |-> Append(w.hits, w.at)]
  IN FoldLeft(add, [at |-> start, hits |-> <<>>], [j \in 1..k |-> j]).hits
LookupOwner(e, r, q, k) ==
  LET p == e.reps[r]
      s == e.sessions[Sess(q)]
      start == IF s = None THEN None ELSE s.head[r]
      add(w, j) == IF w.at = None \/ p.owner[w.at] # Key(q, j) THEN [w EXCEPT !.at = None]
                   ELSE [at |-> p.next[w.at], hits |-> Append(w.hits, w.at)]
  IN FoldLeft(add, [at |-> start, hits |-> <<>>], [j \in 1..k |-> j]).hits
Lookup(e, r, q) ==
  LET k == ((e.reqs[q].tokens - 1) \div BS) - SysBlocks
  IN CASE e.plan.mode = "none"  -> <<>>
       [] e.plan.mode = "map"   -> LookupMap(e, r, q, k)
       [] e.plan.mode = "owner" -> LookupOwner(e, r, q, k)

----------------------------------------------------------------------------
(* The scheduler.                                                          *)

\* The last admitted goes back to the front of the queue with no block left.
Requeued(e, r, q) ==
  [e EXCEPT !.reps[r].running = Front(@), !.reps[r].waiting = <<q>> \o @, !.reqs[q].computed = 0,
            !.reqs[q].tokens = e.reqs[q].prompt + e.reqs[q].generated]
Preempt(e, r) ==
  LET q == Last(e.reps[r].running) IN Requeued(FreeReqBlocks(e, r, q), r, q)

\* The last are preempted until there is room for the blocks, or q is gone itself.
MakeRoom(e, r, q, need) ==
  FoldLeft(LAMBDA f, x : IF need <= NumFree(f, r) \/ ~Contains(f.reps[r].running, q) THEN f ELSE Preempt(f, r),
           e, e.reps[r].running)

Scheduled(e, r, q, n) == [e EXCEPT !.reps[r].step = Append(@, q), !.reqs[q].sched = n]

\* w: the day e, the budget left, whether anyone was preempted, any prefill
GrowIn(w, f, r, q, n, need) ==
  LET cut == f.reps[r].running # w.e.reps[r].running
  IN IF ~Contains(f.reps[r].running, q) THEN [w EXCEPT !.e = f, !.preempted = TRUE]
     ELSE [e |-> Scheduled(IF need > 0 THEN Alloc(f, r, q, need) ELSE f, r, q, n), budget |-> w.budget - n,
           preempted |-> w.preempted \/ cut,
           prefill |-> w.prefill \/ ~(n = 1 /\ w.e.reqs[q].generated > 0)]
GrowBy(w, r, q, n, need) == GrowIn(w, MakeRoom(w.e, r, q, need), r, q, n, need)
Grow(w, r, q) ==
  LET req == w.e.reqs[q]
      n   == Least(req.tokens - req.computed, w.budget)
  IN IF ~Contains(w.e.reps[r].running, q) \/ w.budget <= 0 \/ req.aborted THEN w
     ELSE GrowBy(w, r, q, n, BlocksOf(req.computed + n) - SysBlocks - Len(req.blocks))

Acquired(e, r, q, hits) ==
  [e EXCEPT !.reqs[q].blocks = hits, !.reqs[q].hashed = Len(hits),
            !.reps[r].ref = [b \in Blocks |-> IF b \in ToSet(hits) THEN @[b] + 1 ELSE @[b]],
            !.reps[r].free = SelectSeq(@, LAMBDA b : b \notin ToSet(hits)),
            !.wrong = @ \/ \E i \in DOMAIN hits : e.reps[r].text[hits[i]] # TextOf(e, q, i)]
Admitted(e, r, q, hits, need) ==
  [Alloc(Acquired(e, r, q, hits), r, q, need) EXCEPT
     !.reps[r].waiting = Tail(@), !.reps[r].running = Append(@, q),
     !.reqs[q].computed = (SysBlocks + Len(hits)) * BS]
AdmitOn(w, r, q, hits) ==
  LET e    == w.e
      c    == (SysBlocks + Len(hits)) * BS
      n    == Least(e.reqs[q].tokens - c, w.budget)
      need == BlocksOf(c + n) - SysBlocks - Len(hits)
      freeable == Len(SelectSeq(hits, LAMBDA b : e.reps[r].ref[b] = 0))
  IN IF need > NumFree(e, r) - freeable THEN w
     ELSE [w EXCEPT !.e = Scheduled(Admitted(e, r, q, hits, need), r, q, n), !.budget = @ - n, !.prefill = TRUE]
Admit(w, r, q) ==
  IF q = Head(w.e.reps[r].waiting) /\ w.budget > 0 /\ Len(w.e.reps[r].running) < MaxSeqs
  THEN AdmitOn(w, r, q, Lookup(w.e, r, q)) ELSE w

AdmitAll(w, r) ==
  IF w.preempted THEN w ELSE FoldLeft(LAMBDA v, q : Admit(v, r, q), w, w.e.reps[r].waiting)
Started(w, r) ==
  LET p == w.e.reps[r]
  IN IF p.step = <<>>
     THEN [w.e EXCEPT !.reps[r].stepEnd = None, !.thrown = @ \/ (p.waiting # <<>> /\ p.running = <<>>)]
     ELSE [w.e EXCEPT !.reps[r].stepEnd = w.e.now + (IF w.prefill THEN w.e.plan.long ELSE 1)]
Compose(e, r) ==
  LET start == [e |-> [e EXCEPT !.reps[r].step = <<>>], budget |-> MaxBatched, preempted |-> FALSE, prefill |-> FALSE]
  IN Started(AdmitAll(FoldLeft(LAMBDA w, q : Grow(w, r, q), start, e.reps[r].running), r), r)

----------------------------------------------------------------------------
(* The load.                                                               *)

\* The heap of next turns, in order of time and of scheduling.
HeapPush(heap, ev) ==
  LET before == Len(SelectSeq(heap, LAMBDA x : x.t <= ev.t)) IN InsertAt(heap, before + 1, ev)

Request(e, q, r, prompt) ==
  LET text == e.sessions[Sess(q)].text
  IN [replica |-> r, prompt |-> prompt, prior |-> SubSeq(text, 1, Least(Len(text), prompt - SystemTokens)),
      target |-> Least(Draw(e, q).out, MaxLen - prompt), tokens |-> prompt, computed |-> 0, generated |-> 0,
      blocks |-> <<>>, hashed |-> 0, sched |-> 0, deadline |-> e.now + FirstTokenTimeout,
      first |-> FALSE, aborted |-> FALSE, done |-> FALSE]
Dispatched(e, q, r, req) ==
  LET next == [t |-> e.now + Draw(e, q).think, q |-> <<Sess(q), Turn(q) + 1>>]
  IN [e EXCEPT !.rr = (@ + 1) % Len(Replicas),
               !.reqs = [x \in DOMAIN @ \cup {q} |-> IF x = q THEN req ELSE @[x]],
               !.sessions[Sess(q)].inflight = q, !.sessions[Sess(q)].nextTurn = Turn(q) + 1,
               !.reps[r].waiting = Append(@, q), !.tq = Append(@, q),
               !.heap = IF Turn(q) < Turns(e, Sess(q)) THEN HeapPush(@, next) ELSE @]
ComposeIfIdle(e, r) == IF e.reps[r].stepEnd = None THEN Compose(e, r) ELSE e
\* A prompt is clipped so that there is always room to answer.
Arrive(e, s, turn) ==
  LET q      == <<s, turn>>
      r      == Replicas[e.rr + 1]
      prompt == Least(SystemTokens + Len(e.sessions[s].text) + Draw(e, q).msg, MaxLen - Room)
  IN ComposeIfIdle(Dispatched(e, q, r, Request(e, q, r, prompt)), r)

\* endRequest: a turn that came due meanwhile arrives now; a session ends
\* with its last turn, and with one that timed out.
Answered(e, q) ==
  LET req == e.reqs[q]
      len == req.prompt - SystemTokens + req.generated
  IN [e EXCEPT !.reqs[q].done = TRUE, !.sessions[Sess(q)].inflight = None,
               !.sessions[Sess(q)].text = [i \in 1..len |-> IF i <= Len(req.prior) THEN req.prior[i] ELSE Turn(q)]]
GoesOn(e, s) ==
  LET due == e.sessions[s].pendingTurn
  IN IF due > 0 THEN Arrive([e EXCEPT !.sessions[s].pendingTurn = 0], s, due)
     ELSE IF e.sessions[s].nextTurn > Turns(e, s) THEN [e EXCEPT !.sessions[s] = None] ELSE e
Finished(e, q) == GoesOn(Answered(e, q), Sess(q))
TimedOut(e, q) == [e EXCEPT !.reqs[q].done = TRUE, !.sessions[Sess(q)] = None]

StartSession(e) ==
  LET s == e.nextSession
      session == [nextTurn |-> 1, inflight |-> None, pendingTurn |-> 0, text |-> <<>>,
                  head |-> [r \in ToSet(Replicas) |-> None]]
  IN Arrive([e EXCEPT !.nextSession = @ + 1, !.sessions[s] = session], s, 1)

TurnReady(e) ==
  LET q == Head(e.heap).q
      s == Sess(q)
      f == [e EXCEPT !.heap = Tail(@)]
  IN IF f.sessions[s] = None THEN f
     ELSE IF f.sessions[s].inflight # None THEN [f EXCEPT !.sessions[s].pendingTurn = Turn(q)]
     ELSE Arrive(f, s, Turn(q))

\* A request that runs is only marked; the end of its step takes it out.
Timeout(e) ==
  LET q == Head(e.tq)
      r == e.reqs[q].replica
      f == [e EXCEPT !.tq = Tail(@)]
  IN IF f.reqs[q].done \/ f.reqs[q].first THEN f
     ELSE IF Contains(f.reps[r].waiting, q)
     THEN TimedOut(FreeReqBlocks([f EXCEPT !.reps[r].waiting = Remove(@, q)], r, q), q)
     ELSE [f EXCEPT !.reqs[q].aborted = TRUE]

----------------------------------------------------------------------------
(* The end of a step.                                                      *)

\* Blocks that became full are found again from now on.
Register(e, r, q) ==
  LET req  == e.reqs[q]
      full == (req.computed \div BS) - SysBlocks
      taken(j) == e.plan.mode = "map" /\ \E b \in Blocks : e.reps[r].owner[b] = Key(q, j)
      new  == {j \in req.hashed + 1 .. full : e.reps[r].owner[req.blocks[j]] = None /\ ~taken(j)}
      slot(b) == CHOOSE j \in new : req.blocks[j] = b
      fresh == {req.blocks[j] : j \in new}
  IN IF e.plan.mode = "none" THEN e
     ELSE [e EXCEPT !.reps[r].owner = [b \in Blocks |-> IF b \in fresh THEN Key(q, slot(b)) ELSE @[b]],
                    !.reps[r].text = [b \in Blocks |-> IF b \in fresh THEN TextOf(e, q, slot(b)) ELSE @[b]],
                    !.reqs[q].hashed = IF full > @ THEN full ELSE @]

Sampled(e, q) ==
  LET req == e.reqs[q]
  IN IF req.computed < req.tokens THEN e
     ELSE [e EXCEPT !.reqs[q].generated = @ + 1, !.reqs[q].tokens = @ + 1, !.reqs[q].first = TRUE,
                    !.reqs[q].done = req.generated + 1 >= req.target]
Computed(e, r, q) ==
  IF e.reqs[q].aborted THEN e
  ELSE Sampled(Register([e EXCEPT !.reqs[q].computed = @ + e.reqs[q].sched], r, q), q)

Left(e, r, q) ==
  IF e.reqs[q].aborted THEN TimedOut(FreeReqBlocks(e, r, q), q)
  ELSE IF e.reqs[q].done THEN Finished(FreeReqBlocks(e, r, q), q) ELSE e

AllLeft(e, r) ==
  LET stays(q) == ~(e.reqs[q].aborted \/ e.reqs[q].done)
  IN [FoldLeft(LAMBDA f, q : Left(f, r, q), e, e.reps[r].running) EXCEPT !.reps[r].running = SelectSeq(@, stays)]
StepEnd(e, r) == Compose(AllLeft(FoldLeft(LAMBDA f, q : Computed(f, r, q), e, e.reps[r].step), r), r)

----------------------------------------------------------------------------
(* advance(): the earliest event; at one time step ends, timeouts, turns   *)
(* and then session starts.                                                *)

Due(e) ==
  {<<e.reps[r].stepEnd, 1, i>> : <<r, i>> \in {<<Replicas[i], i>> : i \in {j \in DOMAIN Replicas : e.reps[Replicas[j]].stepEnd # None}}}
  \cup (IF e.tq = <<>> THEN {} ELSE {<<e.reqs[Head(e.tq)].deadline, 2, 0>>})
  \cup (IF e.heap = <<>> THEN {} ELSE {<<Head(e.heap).t, 3, 0>>})
  \cup (IF e.nextSession > Len(e.plan.starts) THEN {} ELSE {<<e.plan.starts[e.nextSession], 4, 0>>})
Sooner(x, y) ==
  \/ x[1] < y[1]
  \/ x[1] = y[1] /\ (x[2] < y[2] \/ (x[2] = y[2] /\ x[3] <= y[3]))

Handle(e, x) ==
  LET f == [e EXCEPT !.now = x[1]]
  IN CASE x[2] = 1 -> StepEnd(f, Replicas[x[3]])
       [] x[2] = 2 -> Timeout(f)
       [] x[2] = 3 -> TurnReady(f)
       [] x[2] = 4 -> StartSession(f)

Opening(plan) ==
  [plan |-> plan, now |-> 0, nextSession |-> 1, rr |-> 0, sessions |-> [s \in DOMAIN plan.starts |-> None],
   heap |-> <<>>, tq |-> <<>>, reps |-> [r \in ToSet(Replicas) |-> MakeReplica],
   reqs |-> [q \in {} |-> None], wrong |-> FALSE, thrown |-> FALSE]
Init == d \in {Opening(plan) : plan \in Plans}

Advance ==
  \E x \in Due(d) :
    /\ \A y \in Due(d) : Sooner(x, y)
    /\ x[1] < DayEnd
    /\ \E e \in {Handle(d, x)} : d' = e

\* checkpointState(): timeouts that can no longer do anything are forgotten.
Checkpoint == d' = [d EXCEPT !.tq = SelectSeq(@, LAMBDA q : ~d.reqs[q].done /\ ~d.reqs[q].first)]

Next == ~d.thrown /\ (Advance \/ Checkpoint)
Spec == Init /\ [][Next]_d

----------------------------------------------------------------------------
(* Properties.                                                             *)

InSystem(q) == ~d.reqs[q].done
RunsOn(q, r) == Contains(d.reps[r].running, q)
WaitsOn(q, r) == Contains(d.reps[r].waiting, q)

\* Every request that has not ended is once in one queue of its own replica
\* and its blocks are held there; a block is free exactly when nobody holds
\* it; no two cached blocks of the map share a key.
BlocksHeld ==
  /\ \A q \in DOMAIN d.reqs : InSystem(q) =>
       LET p == d.reps[d.reqs[q].replica]
       IN Len(SelectSeq(p.running \o p.waiting, LAMBDA x : x = q)) = 1
  /\ \A r \in DOMAIN d.reps : \A b \in Blocks :
       LET p == d.reps[r]
           holders == {q \in DOMAIN d.reqs : d.reqs[q].replica = r /\ Contains(d.reqs[q].blocks, b)}
       IN /\ p.ref[b] = Cardinality(holders)
          /\ \A q \in holders : RunsOn(q, r)
          /\ Len(SelectSeq(p.free, LAMBDA x : x = b)) = (IF holders = {} THEN 1 ELSE 0)
          /\ d.plan.mode = "map" /\ p.owner[b] # None => \A c \in Blocks \ {b} : p.owner[c] # p.owner[b]

\* A request that waits for its first token has its timeout queued, also
\* after any number of checkpoints, and deadlines are queued in their order.
TimeoutsArmed ==
  /\ \A q \in DOMAIN d.reqs : InSystem(q) /\ ~d.reqs[q].first /\ ~d.reqs[q].aborted => Contains(d.tq, q)
  /\ \A i, j \in DOMAIN d.tq : i < j => d.reqs[d.tq[i]].deadline <= d.reqs[d.tq[j]].deadline

\* A session that is alive has a request, or a turn still to come.
SessionsGoOn ==
  \A s \in DOMAIN d.sessions : d.sessions[s] # None =>
    d.sessions[s].inflight # None \/ \E i \in DOMAIN d.heap : Sess(d.heap[i].q) = s

\* The day's bookkeeping holds whichever way cached blocks are found, through
\* preemption, eviction, clipped prompts and checkpoints: no hit is on a block
\* whose text is another's or an older one of the session, the head of a queue
\* can always be run, and nothing is forgotten.
SpikeExact == ~d.wrong /\ ~d.thrown /\ BlocksHeld /\ TimeoutsArmed /\ SessionsGoOn
=============================================================================
