----------------------------- MODULE OracleDay -----------------------------
(***************************************************************************)
(* The reference's day (engine/oracle/sim.ts): one loop over an agenda in  *)
(* order of time, band and scheduling, which drives a scripted client, a   *)
(* router and one reference scheduler per replica.  What is taken back     *)
(* stays on the agenda as a dead item, so every handle must be the live    *)
(* item it is thought to be.                                               *)
(*                                                                         *)
(* Abstracted: a step takes its replica's `pace`; the router chooses a     *)
(* least loaded replica of its last snapshot, whichever way ties break     *)
(* (RoutingPolicy has the policies).  The request overhead is zero.        *)
(***************************************************************************)
EXTENDS KvOps

CONSTANTS
  Req, Replicas, Workloads, MaxBatchedTokens, MaxSeqs, MaxModelLen,
  Inputs,   \* [specs, changes, limit, refresh, overhead, pace]
  DayEnd, None

VARIABLE d  \* the loop's variables, `specs` among them

S == INSTANCE OracleScheduler WITH req <- d.specs, ora <- d.reps, up <- d.up, seen <- d.routable

Band == [replicaChange |-> 1, stepEnd |-> 2, timeout |-> 3, cancelAt |-> 3, dispatch |-> 4,
         refresh |-> 5, arrive |-> 6, kick |-> 7]
Comes(x, y) == x.t < y.t \/ (x.t = y.t /\ Band[x.kind] <= Band[y.kind])

\* schedule(): after what is due no later; nothing at the day's end or after.
Schedule(e, t, kind, a, b) ==
  LET item   == [t |-> t, seq |-> e.seq, kind |-> kind, a |-> a, b |-> b]
      before == Cardinality({i \in DOMAIN e.agenda : Comes(e.agenda[i], item)})
  IN IF t >= DayEnd THEN e
     ELSE [e EXCEPT !.agenda = InsertAt(@, before + 1, item), !.seq = @ + 1]
NoItem == -1
Handle(e, t) == IF t >= DayEnd THEN NoItem ELSE e.seq
Unschedule(e, h) == IF h = NoItem THEN e ELSE [e EXCEPT !.dead = @ \cup {h}]

\* Mutant: the step or kick of replica r stays on the agenda.
TakenBackNever(e, r) == [e EXCEPT !.handle[r] = NoItem]
TakenBack(e, r) == [Unschedule(e, e.handle[r]) EXCEPT !.handle[r] = NoItem]

----------------------------------------------------------------------------
(* What the schedulers tell the loop.                                      *)

FirstToken(e, s) == [Unschedule(e, e.timeoutEv[s]) EXCEPT !.first[s] = e.now, !.timeoutEv[s] = NoItem]

Ended(e, s, outcome) ==
  LET f == Unschedule(e, e.timeoutEv[s])
      g == [f EXCEPT !.outcome[s] = outcome, !.open = @ - 1,
                     !.outstanding = IF e.on[s] = None THEN @ ELSE [@ EXCEPT ![e.on[s]] = @ - 1],
                     !.on[s] = None]
  IN FoldLeft(LAMBDA h, q : IF h.specs[q].after = s THEN Schedule(h, h.now + h.specs[q].at, "arrive", q, None) ELSE h,
              g, e.ids)

\* Replica r is now o; tell of each request in order what became of it.
Told(e, r, o, order) ==
  LET tell(f, s) ==
        LET g == IF f.first[s] = None /\ o.generated[s] > 0 THEN FirstToken(f, s) ELSE f
        IN IF o.outcome[s] # e.reps[r].outcome[s] THEN Ended(g, s, o.outcome[s]) ELSE g
  IN FoldLeft(tell, [e EXCEPT !.reps[r] = o], order)

Composed(e, r) ==
  IF e.reps[r].mode # "step" THEN e
  ELSE [Schedule(e, e.now + e.pace[r], "stepEnd", r, None) EXCEPT !.handle[r] = Handle(e, e.now + e.pace[r])]

Slots(chunks) == [i \in DOMAIN chunks |-> chunks[i].slot]
OnStepEnd(e, r) ==
  LET o == e.reps[r]
      order == SelectSeq(o.running, LAMBDA s : o.phase[s] = "decode") \o Slots(o.chunks)
  IN IF o.mode # "step" THEN [e EXCEPT !.thrown = TRUE]
     ELSE Composed(Told([e EXCEPT !.handle[r] = NoItem], r, S!EndStep(o), order), r)

OnKick(e, r) ==
  IF e.reps[r].mode # "kick" THEN [e EXCEPT !.thrown = TRUE]
  ELSE Composed([e EXCEPT !.handle[r] = NoItem, !.reps[r] = S!Compose(@)], r)

----------------------------------------------------------------------------
(* The router.                                                             *)

Snapshot(e) == [e EXCEPT !.seenLoad = e.outstanding]
Best(e) == {r \in e.routable : \A q \in e.routable : e.seenLoad[r] <= e.seenLoad[q]}
Live(e) == IF e.refresh = 0 THEN Snapshot(e) ELSE e

InSystem(e) == Cardinality({s \in Req : e.pending[s] # None \/ e.on[s] # None})
Refused(e) == e.routable = {} \/ (e.limit # None /\ InSystem(e) >= e.limit * Cardinality(e.routable))

\* The handlers that choose give the set of what they may do.
Arrive(e, s) ==
  LET at    == e.now + e.specs[s].timeout
      timed == IF e.specs[s].timeout = None THEN [e EXCEPT !.arrived[s] = e.now]
               ELSE [Schedule(e, at, "timeout", s, None) EXCEPT !.timeoutEv[s] = Handle(e, at), !.arrived[s] = e.now]
      seen  == Live(timed)
      due   == e.now + e.overhead
  IN IF Refused(timed) THEN {Ended(timed, s, "rejected")}
     ELSE {[Schedule(seen, due, "dispatch", s, r) EXCEPT !.pending[s] = Handle(seen, due)] : r \in Best(seen)}

\* A replica that is not ready, or could never run it, fails it at once.
Enqueued(e, s, r) ==
  LET sent == [e EXCEPT !.outstanding[r] = @ + 1, !.on[s] = r]
      o    == S!Enqueue(e.reps[r], s)
      kicked == [Schedule(sent, e.now, "kick", r, None) EXCEPT !.handle[r] = e.seq, !.reps[r] = o]
  IN IF ~(e.up[r] = "ready" /\ S!CanEverRun(s)) THEN Ended(sent, s, "failed")
     ELSE IF e.reps[r].mode = "idle" THEN kicked ELSE [sent EXCEPT !.reps[r] = o]

Dispatch(e, s, chosen) ==
  LET sent == [e EXCEPT !.pending[s] = None]
      seen == Live(sent)
  IN IF chosen \in e.routable THEN {Enqueued(sent, s, chosen)}
     ELSE IF e.routable = {} THEN {Ended(sent, s, "rejected")}
     ELSE {Enqueued(seen, s, r) : r \in Best(seen)}

CancelRequest(e, s) ==
  LET r == e.on[s]
      out == S!Cancel(e.reps[r], s)
      unkicked == IF e.reps[r].mode = "kick" /\ out.mode = "idle"
                  THEN TakenBack(e, r) ELSE e
  IN IF e.pending[s] # None
     THEN Ended([Unschedule(e, e.pending[s]) EXCEPT !.pending[s] = None], s, "timedOut")
     ELSE IF r = None THEN e ELSE Told(unkicked, r, out, <<s>>)

\* Leaving Ready takes back the step or kick in flight.
ChangeReplica(e, c) ==
  LET r == c.replica
      o == e.reps[r]
      named == [e EXCEPT !.up[r] = c.state,
                         !.routable = IF c.state = "ready" THEN @ \cup {r}
                                      ELSE IF c.state = "crashed" THEN @ ELSE @ \ {r}]
      idle == TakenBack(named, r)
  IN IF c.state = "ready"
     THEN IF e.up[r] = "ready" THEN named ELSE [named EXCEPT !.reps[r].pool = CreateKvPool]
     ELSE IF e.up[r] = "ready" \/ S!HasWork(o) \/ o.mode # "idle"
          THEN Told(idle, r, S!FailAll(o), o.running \o o.waiting)
          ELSE named

----------------------------------------------------------------------------
(* The opening agenda and the loop.                                        *)

Opening(in) ==
  LET ids   == SetToSortSeq(Req, <)
      fresh == [specs |-> in.specs, pace |-> in.pace, limit |-> in.limit, refresh |-> in.refresh,
                overhead |-> in.overhead, changes |-> in.changes, ids |-> ids,
                now |-> 0, agenda |-> <<>>, dead |-> {}, seq |-> 0, thrown |-> FALSE,
                reps |-> [r \in Replicas |-> S!Replica([s \in Req |-> "none"], CreateMorningKvPool)],
                handle |-> [r \in Replicas |-> NoItem], up |-> [r \in Replicas |-> "ready"],
                routable |-> Replicas, seenLoad |-> [r \in Replicas |-> 0],
                outstanding |-> [r \in Replicas |-> 0], pending |-> [s \in Req |-> None],
                on |-> [s \in Req |-> None], timeoutEv |-> [s \in Req |-> NoItem],
                arrived |-> [s \in Req |-> None], first |-> [s \in Req |-> None],
                outcome |-> [s \in Req |-> None], open |-> Cardinality(Req),
                changesLeft |-> Len(in.changes)]
      client(e, s) ==
        LET f == IF e.specs[s].after = None THEN Schedule(e, e.specs[s].at, "arrive", s, None) ELSE e
        IN IF e.specs[s].cancelAt = None THEN f ELSE Schedule(f, e.specs[s].cancelAt, "cancelAt", s, None)
      infra(e, k) == Schedule(e, in.changes[k].at, "replicaChange", k, None)
      opened == FoldLeft(infra, FoldLeft(client, fresh, ids), [k \in DOMAIN in.changes |-> k])
  IN IF in.refresh > 0 THEN Schedule(opened, in.refresh, "refresh", None, None) ELSE opened

Running == d.open > 0 \/ d.changesLeft > 0 \/ \E r \in Replicas : d.reps[r].mode # "idle"

InFlight(e, s) == e.arrived[s] # None /\ e.outcome[s] = None

Handled(e, x) ==
  CASE x.kind = "replicaChange" -> {ChangeReplica([e EXCEPT !.changesLeft = @ - 1], e.changes[x.a])}
    [] x.kind = "stepEnd"  -> {OnStepEnd(e, x.a)}
    [] x.kind = "kick"     -> {OnKick(e, x.a)}
    [] x.kind = "timeout"  -> LET f == [e EXCEPT !.timeoutEv[x.a] = NoItem]
                              IN {IF InFlight(f, x.a) /\ f.first[x.a] = None THEN CancelRequest(f, x.a) ELSE f}
    [] x.kind = "cancelAt" -> {IF InFlight(e, x.a) THEN CancelRequest(e, x.a) ELSE e}
    [] x.kind = "dispatch" -> Dispatch(e, x.a, x.b)
    [] x.kind = "refresh"  -> {Schedule(Snapshot(e), e.now + e.refresh, "refresh", None, None)}
    [] x.kind = "arrive"   -> Arrive(e, x.a)

Init == \E in \in Inputs : d = Opening(in)

Skip ==
  /\ Running /\ d.agenda # <<>> /\ Head(d.agenda).seq \in d.dead
  /\ d' = [d EXCEPT !.dead = @ \ {Head(d.agenda).seq}, !.agenda = Tail(@)]
Pop ==
  /\ Running /\ d.agenda # <<>> /\ Head(d.agenda).seq \notin d.dead
  /\ d' \in Handled([d EXCEPT !.now = Head(d.agenda).t, !.agenda = Tail(@)], Head(d.agenda))

Next == Skip \/ Pop
Spec == Init /\ [][Next]_d

----------------------------------------------------------------------------
(* Properties.                                                             *)

OnAgenda(kind, a) == {i \in DOMAIN d.agenda : /\ d.agenda[i].kind = kind /\ d.agenda[i].a = a
                                             /\ d.agenda[i].seq \notin d.dead}
Due(kind, a, h, t) ==
  IF t >= DayEnd THEN OnAgenda(kind, a) = {}
  ELSE \E i \in OnAgenda(kind, a) : OnAgenda(kind, a) = {i} /\ d.agenda[i].seq = h /\ d.agenda[i].t = t

(* A replica has its step end or its kick on the agenda exactly while it is  *)
(* in a step or kicked, so neither is ever stale (sim.ts:305, 333); what is  *)
(* taken back had not happened yet; and the schedulers never throw.          *)
HandlesLive ==
  /\ ~d.thrown /\ \A r \in Replicas : ~d.reps[r].thrown
  /\ \A r \in Replicas :
       /\ (OnAgenda("stepEnd", r) # {}) = (d.reps[r].mode = "step" /\ d.handle[r] # NoItem)
       /\ (OnAgenda("kick", r) # {}) = (d.reps[r].mode = "kick")
       /\ \A i \in OnAgenda("stepEnd", r) \cup OnAgenda("kick", r) : d.agenda[i].seq = d.handle[r]
  /\ d.dead \subseteq {d.agenda[i].seq : i \in DOMAIN d.agenda}

(* A request in flight is waiting out the router's overhead or is at exactly *)
(* the replica it was counted at; without a first token it has its timeout   *)
(* due; one that follows another is due when that one ends, however it ends; *)
(* and the loop goes on until all of them ended, unless the day is over.     *)
NoneForgotten ==
  /\ \A s \in Req :
       LET spec == d.specs[s]
           from == IF spec.after = None THEN 0 ELSE spec.after
       IN /\ (d.arrived[s] = None /\ (from = 0 \/ d.outcome[from] # None)) =>
               OnAgenda("arrive", s) # {} \/ (from = 0 /\ spec.at >= DayEnd) \/ (from # 0 /\ d.now + spec.at >= DayEnd)
          /\ InFlight(d, s) =>
               /\ (d.on[s] = None) = (d.pending[s] # None)
               /\ d.on[s] = None => Due("dispatch", s, d.pending[s], d.arrived[s] + d.overhead)
               /\ (d.first[s] = None /\ spec.timeout # None) =>
                    Due("timeout", s, d.timeoutEv[s], d.arrived[s] + spec.timeout)
          /\ \A r \in Replicas : (d.reps[r].phase[s] # "none") = (InFlight(d, s) /\ d.on[s] = r)
  /\ \A r \in Replicas : d.outstanding[r] = Cardinality({s \in Req : d.on[s] = r})
  /\ d.open = Cardinality({s \in Req : d.outcome[s] = None})

(* The reference can be trusted to be a run of the day. *)
DayExact == HandlesLive /\ NoneForgotten
=============================================================================
