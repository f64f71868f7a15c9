------------------------------- MODULE LoadDay -------------------------------
(***************************************************************************)
(* The load of one day, twice: the session plan, computed from the day's   *)
(* input without simulating (engine/load/plan.ts), and the load module of  *)
(* the simulated day (module.ts, client.ts), whose requests take a time    *)
(* and may fail.  Session starts are candidates of a bounded-rate process, *)
(* thinned by the load in effect (arrivals.ts); scripts are keyed draws    *)
(* (script.ts); spikes and workload shifts change the load and the scripts *)
(* of the sessions that start while they last (shift.ts).                  *)
(*                                                                         *)
(* A seed is a record of short sequences, one per source of draws, read by *)
(* key.  Time is in whole units and hazards are in units of the expected   *)
(* sessions per unit of time, so a candidate's time is rounded down; both  *)
(* readings of the day round alike.  The end of a request stands for all   *)
(* that the router and the replicas do: any outcome, after Service.        *)
(***************************************************************************)
EXTENDS Integers, SequencesExt

CONSTANTS
  Knots,          \* the diurnal curve: a sequence of <<time, weight>>
  ShiftStart, ShiftEnd, DayEnd,
  MaxSegment,     \* longest piece of the envelope
  MaxMultiplier,  \* MAX_LOAD_MULTIPLIER
  ThinUnit,       \* thinning draws are in 0..(ThinUnit - 1)
  MaxModelLen, OutputMax, MaxRetries, RetryDelay,
  Defaults,       \* the parameters at the day's start
  Candidates,     \* bound: the candidates a plan looks at
  Inputs          \* [seed, patches, service, fails]

VARIABLES
  input, now,
  env,       \* the envelope of candidates: pieces [from, to, w0, w1, rate, hazard]
  params, spikes, spikeProduct, shifts, nextPatch,  \* the load slice and the parameters
  cursor,    \* [index, hazard, seg, at]; at = Never once past the envelope
  open,      \* the open session records
  extras,    \* extra requests injected so far
  log,       \* the requests sent
  plan       \* the day's plan, computed before the day

vars == <<input, now, env, params, spikes, spikeProduct, shifts, nextPatch, cursor, open, extras, log, plan>>

Never == DayEnd + 1000
Lesser(a, b) == IF a < b THEN a ELSE b
Greater(a, b) == IF a > b THEN a ELSE b
Ceil(a, b) == (a + b - 1) \div b

\* What a day's configuration must satisfy, or the day does not start.
ValidLoadConfig ==
  /\ 0 <= ShiftStart /\ ShiftStart < ShiftEnd /\ ShiftEnd <= DayEnd
  /\ \A k \in DOMAIN Knots : Knots[k][2] >= 0 /\ (k > 1 => Knots[k - 1][1] <= Knots[k][1])
  /\ Defaults.load >= 0 /\ OutputMax >= 1

\* A keyed draw.
Keyed(q, s, t) == q[((s + t) % Len(q)) + 1]

----------------------------------------------------------------------------
(* Candidates (arrivals.ts).                                               *)

WeightAt(k, t) == Knots[k][2] + ((Knots[k + 1][2] - Knots[k][2]) * (t - Knots[k][1])) \div (Knots[k + 1][1] - Knots[k][1])

\* The piece j of knot interval k, cut to the shift.
Piece(k, a, b, j) ==
  LET n == Ceil(b - a, MaxSegment)
      s == a + ((b - a) * j) \div n
      e == a + ((b - a) * (j + 1)) \div n
      x == WeightAt(k, s)
      y == WeightAt(k, e)
  IN [from |-> s, to |-> e, w0 |-> x, w1 |-> y, rate |-> Greater(x, y) * MaxMultiplier]
Pieces(k, a, b) == IF b > a THEN [j \in 1..Ceil(b - a, MaxSegment) |-> Piece(k, a, b, j - 1)] ELSE <<>>

\* A piece's hazard is what the pieces up to its end sum up to.
BuildEnvelope ==
  LET more(q, k) == q \o Pieces(k, Greater(Knots[k][1], ShiftStart), Lesser(Knots[k + 1][1], ShiftEnd))
      sum(q, s)  == Append(q, [hazard |-> (IF q = <<>> THEN 0 ELSE Last(q).hazard) + s.rate * (s.to - s.from)] @@ s)
  IN FoldLeft(sum, <<>>, FoldLeft(more, <<>>, [k \in 1..(Len(Knots) - 1) |-> k]))

NoCursor == [index |-> 0, hazard |-> 0, seg |-> 1, at |-> -1]
AdvanceCursor(e, seed, c) ==
  LET h   == c.hazard + Keyed(seed.gap, c.index, 0)
      seg == 1 + Cardinality({j \in DOMAIN e : e[j].hazard <= h})
  IN [index |-> c.index + 1, hazard |-> h, seg |-> seg,
      at |-> IF seg > Len(e) THEN Never
             ELSE e[seg].from + ((h - e[seg].hazard) + e[seg].rate * (e[seg].to - e[seg].from)) \div e[seg].rate]

EffectiveMultiplier(load, product) == Lesser(MaxMultiplier, Greater(0, load * product))

\* The thinning draw is below (weight / envelope) * (multiplier / MaxMultiplier).
AcceptCandidate(e, seed, c, multiplier) ==
  LET s == e[c.seg]
      w == s.w0 * (s.to - s.from) + (s.w1 - s.w0) * (c.at - s.from)
  IN Keyed(seed.thin, c.index, 0) * s.rate * (s.to - s.from) < w * multiplier * ThinUnit

----------------------------------------------------------------------------
(* Scripts (script.ts, shift.ts).                                          *)

DrawTurns(seed, s, mean) == 1 + Keyed(seed.turns, s, 0) * (mean - 1)
DrawMessage(seed, s, turn, median) == Greater(1, median * Keyed(seed.length, s, turn))
DrawOutput(seed, s, turn, median) == Lesser(OutputMax, Greater(1, median * Keyed(seed.length, s, turn + 1)))
DrawThink(seed, s, turn, median) == median * Keyed(seed.think, s, turn)

SessionSystemPrompt(tokens) == Lesser(tokens, Greater(0, MaxModelLen - 2))
FitMessage(sys, history, scripted) ==
  LET room == MaxModelLen - sys - history - 1 IN IF room < 1 THEN 0 ELSE Lesser(scripted, room)
FitOutput(prompt, scripted) == Greater(1, Lesser(scripted, MaxModelLen - prompt))

ShiftedParams(p, sh, t) ==
  LET apply(q, s) == IF t < s.end THEN s.changes @@ q ELSE q
  IN FoldLeft(apply, p, sh)

----------------------------------------------------------------------------
(* The plan (plan.ts).                                                     *)

\* The turns one session sends when every request ends as it arrives.
PlanTurn(seed, s, p, sys, w, turn) ==
  LET at      == IF turn = 1 THEN w.at ELSE w.at + DrawThink(seed, s, turn - 1, p.think)
      message == FitMessage(sys, w.history, DrawMessage(seed, s, turn, p.message))
      output  == FitOutput(sys + w.history + message, DrawOutput(seed, s, turn, p.output))
  IN IF w.ended \/ (turn > 1 /\ at >= ShiftEnd) \/ message = 0 THEN [w EXCEPT !.ended = TRUE]
     ELSE [w EXCEPT !.at = at, !.history = @ + message + output,
                    !.turns = Append(@, [at |-> at, message |-> message, output |-> output])]
PlanSession(seed, s, p, start) ==
  LET turn(w, t) == PlanTurn(seed, s, p, SessionSystemPrompt(p.sys), w, t)
  IN FoldLeft(turn, [at |-> start, history |-> 0, turns |-> <<>>, ended |-> FALSE],
              [t \in 1..DrawTurns(seed, s, p.turns) |-> t]).turns

\* The parameters, spikes and shifts that the patches up to time t leave.
Upto(patches, t) == SelectSeq(patches, LAMBDA q : q.at <= t)
ParamsAt(patches, t) ==
  LET set(p, q) == IF q.kind = "set" THEN q.changes @@ p ELSE p IN FoldLeft(set, Defaults, Upto(patches, t))
ShiftsAt(patches, t) ==
  LET shift(sh, q) == IF q.kind = "shift" THEN Append(sh, [end |-> q.at + q.lasts, changes |-> q.changes]) ELSE sh
  IN FoldLeft(shift, <<>>, Upto(patches, t))
SpikesAt(patches, t) ==
  LET times(m, q) == IF q.kind = "spike" /\ q.at + q.lasts > t THEN m * q.mult ELSE m
  IN FoldLeft(times, 1, Upto(patches, t))

PlanCandidate(e, seed, patches, w, c) ==
  LET p == ParamsAt(patches, c.at)
  IN IF c.at = Never \/ ~AcceptCandidate(e, seed, c, EffectiveMultiplier(p.load, SpikesAt(patches, c.at)))
     THEN [w EXCEPT !.cursor = c]
     ELSE [cursor |-> c,
           out |-> (c.index :> PlanSession(seed, c.index, ShiftedParams(p, ShiftsAt(patches, c.at), c.at), c.at)) @@ w.out]
SessionPlan(e, seed, patches) ==
  LET next(w, i) == IF w.cursor.at = Never THEN w ELSE PlanCandidate(e, seed, patches, w, AdvanceCursor(e, seed, w.cursor))
  IN FoldLeft(next, [cursor |-> NoCursor, out |-> <<>>], [i \in 1..Candidates |-> i]).out

----------------------------------------------------------------------------
(* The simulated day (module.ts, client.ts).                               *)

Init ==
  /\ input \in Inputs
  /\ now = 0 /\ env = BuildEnvelope
  /\ params = Defaults /\ spikes = <<>> /\ spikeProduct = 1 /\ shifts = <<>> /\ nextPatch = 1
  /\ cursor = AdvanceCursor(env, input.seed, NoCursor)
  /\ open = {} /\ extras = 0 /\ log = {}
  /\ plan = SessionPlan(env, input.seed, input.patches)

\* When the next thing of each kind is due.
Due(s) == IF s.sent THEN s.at + input.service ELSE s.at
PatchTimes == {q.at : q \in {input.patches[i] : i \in nextPatch..Len(input.patches)}}
SpikeEnds == {spikes[i].end : i \in {j \in DOMAIN spikes : spikes[j].active}}
Times == PatchTimes \cup SpikeEnds \cup {cursor.at} \cup {Due(s) : s \in open} \cup {DayEnd}
T == Min(Times)

\* Mutant: the product keeps the multipliers of the spikes that ended.
ProductOfAll(sp) == FoldLeft(LAMBDA m, s : m * s.mult, 1, sp)
\* The product of the spikes that last.
Product(sp) == FoldLeft(LAMBDA m, s : IF s.active THEN m * s.mult ELSE m, 1, sp)
RecomputeSpikes == spikeProduct' = Product(spikes')

\* prepareTurn: the record on its next turn, fitted, or with no message.
Prepared(s, turn) ==
  LET message == FitMessage(s.sys, s.history, DrawMessage(input.seed, s.id, turn, s.p.message))
  IN [s EXCEPT !.turn = turn, !.attempt = 0, !.message = message,
               !.output = FitOutput(s.sys + s.history + message, DrawOutput(input.seed, s.id, turn, s.p.output))]

Sent(s) == [s EXCEPT !.sent = TRUE, !.at = now']
Request(s) == [id |-> s.id, organic |-> s.organic, turn |-> s.turn, attempt |-> s.attempt, at |-> now',
               message |-> s.message, output |-> s.output, history |-> s.history]
Send(s, others) == open' = others \cup {Sent(s)} /\ log' = log \cup {Request(s)}

PatchDue ==
  /\ T \in PatchTimes /\ now' = T /\ nextPatch' = nextPatch + 1
  /\ LET q == input.patches[nextPatch]
         sys == Lesser(SessionSystemPrompt(params.sys), q.prompt)
         n == extras + 1
     IN \/ /\ q.kind = "set" /\ params' = q.changes @@ params
           /\ UNCHANGED <<spikes, spikeProduct, shifts, open, extras>>
        \/ /\ q.kind = "spike"
           /\ spikes' = Append(spikes, [mult |-> q.mult, end |-> q.at + q.lasts, active |-> TRUE])
           /\ RecomputeSpikes /\ UNCHANGED <<params, shifts, open, extras>>
        \/ /\ q.kind = "shift" /\ shifts' = Append(shifts, [end |-> q.at + q.lasts, changes |-> q.changes])
           /\ UNCHANGED <<params, spikes, spikeProduct, open, extras>>
        \/ /\ q.kind = "extra" /\ extras' = n
           /\ open' = open \cup {[id |-> n, organic |-> FALSE, turns |-> 1, turn |-> 1, attempt |-> 0, sys |-> sys,
                                  history |-> 0, message |-> q.prompt - sys, output |-> 1, p |-> params,
                                  sent |-> FALSE, at |-> T]}
           /\ UNCHANGED <<params, spikes, spikeProduct, shifts>>
  /\ UNCHANGED <<input, env, cursor, log, plan>>

\* At one instant patches come first and a spike's end before what sends.
SpikeEnd ==
  /\ T \notin PatchTimes /\ now' = T /\ T < DayEnd
  /\ \E i \in DOMAIN spikes :
       /\ spikes[i].active /\ spikes[i].end = T
       /\ spikes' = [spikes EXCEPT ![i].active = FALSE]
  /\ RecomputeSpikes
  /\ UNCHANGED <<input, env, params, shifts, nextPatch, cursor, open, extras, log, plan>>

Sending == T \notin PatchTimes \cup SpikeEnds /\ T < DayEnd /\ now' = T

\* startSession: the record of an accepted candidate.
StartSession(s, p) ==
  Prepared([id |-> s, organic |-> TRUE, turns |-> DrawTurns(input.seed, s, p.turns), turn |-> 1, attempt |-> 0,
            sys |-> SessionSystemPrompt(p.sys), history |-> 0, message |-> 0, output |-> 0, p |-> p,
            sent |-> FALSE, at |-> T], 1)

Candidate ==
  /\ Sending /\ cursor.at = T
  /\ cursor' = AdvanceCursor(env, input.seed, cursor)
  /\ IF AcceptCandidate(env, input.seed, cursor, EffectiveMultiplier(params.load, spikeProduct))
     THEN Send(StartSession(cursor.index, ShiftedParams(params, shifts, T)), open)
     ELSE UNCHANGED <<open, log>>
  /\ UNCHANGED <<input, env, params, spikes, spikeProduct, shifts, nextPatch, extras, plan>>

\* A next turn, a retry or an extra request is sent.
Arrival(s) ==
  /\ Sending /\ ~s.sent /\ s.at = T
  /\ Send(s, open \ {s})
  /\ UNCHANGED <<input, env, params, spikes, spikeProduct, shifts, nextPatch, cursor, extras, plan>>

\* onRequestEnded: the coherence rule, or a retry while attempts remain.
Pending(s, at) == IF at < DayEnd THEN {[s EXCEPT !.sent = FALSE, !.at = at]} ELSE {}
NextTurn(s) ==
  LET done == [s EXCEPT !.history = @ + s.message + s.output]
      at   == Greater(s.at + DrawThink(input.seed, s.id, s.turn, s.p.think), T)
      next == Prepared(done, s.turn + 1)
  IN IF s.turn >= s.turns \/ at >= ShiftEnd \/ next.message = 0 THEN {} ELSE Pending(next, at)
Retry(s) ==
  IF s.attempt >= MaxRetries THEN {} ELSE Pending([s EXCEPT !.attempt = @ + 1], T + RetryDelay)

OnRequestEnded(s) ==
  /\ Sending /\ s.sent /\ Due(s) = T
  /\ \/ open' = (open \ {s}) \cup NextTurn(s)
     \/ input.fails /\ open' = (open \ {s}) \cup Retry(s)
  /\ UNCHANGED <<input, env, params, spikes, spikeProduct, shifts, nextPatch, cursor, extras, log, plan>>

Next ==
  \/ PatchDue \/ SpikeEnd \/ Candidate
  \/ \E s \in open : Arrival(s) \/ OnRequestEnded(s)

Spec == Init /\ [][Next]_vars

----------------------------------------------------------------------------
(* Properties.                                                             *)

Firsts == {r \in log : r.organic /\ r.attempt = 0}

\* Each request of a session is the plan's: its script, at its time or later.
AsPlanned(r) ==
  /\ r.id \in DOMAIN plan /\ r.turn \in DOMAIN plan[r.id]
  /\ r.message = plan[r.id][r.turn].message /\ r.output = plan[r.id][r.turn].output
  /\ r.at >= plan[r.id][r.turn].at /\ (r.turn = 1 \/ input.service = 0 => r.at = plan[r.id][r.turn].at)

\* All that was due is sent: every session started, every turn when none failed.
AllSent ==
  \A s \in DOMAIN plan : \A k \in DOMAIN plan[s] :
    plan[s][k].at < now /\ (k = 1 \/ (input.service = 0 /\ ~input.fails)) => \E r \in Firsts : r.id = s /\ r.turn = k

\* More load does nothing but add sessions: those of the day without what raises
\* it are in the plan, unchanged.
Raises(q) == q.kind = "spike" \/ (q.kind = "set" /\ "load" \in DOMAIN q.changes)
Workload(patches) == SelectSeq(patches, LAMBDA q : ~Raises(q))
OnlyAdds == \A without \in {SessionPlan(env, input.seed, Workload(input.patches))} :
              \A s \in DOMAIN without : s \in DOMAIN plan /\ plan[s] = without[s]

\* What the day sends, under any outcomes and delays, is the plan that was
\* computed without simulating, later at most, and exactly the plan when the
\* requests take no time; raising the load moves no session that is there anyway.
PlanHolds == (\A r \in Firsts : AsPlanned(r)) /\ AllSent /\ (now = 0 => OnlyAdds)
=============================================================================
