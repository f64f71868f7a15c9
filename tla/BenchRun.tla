------------------------------ MODULE BenchRun ------------------------------
(***************************************************************************)
(* The benchmark harness (benchmarks/scripts/harness): plan.py turns a run *)
(* definition into a list of steps; executor.py walks it, starts and stops *)
(* the model servers on the GPUs (server.py), samples, measures the points *)
(* and writes a manifest whatever happens.                                 *)
(*                                                                         *)
(* The environment: a server boots, fills the compile cache when there is  *)
(* none, or dies at any time; a command fails; the operator presses Ctrl-C *)
(* and, before a cold start, moves the compile cache as told.  A label     *)
(* is <<condition, trial>>, trial 0 for a server that is no cold start.    *)
(***************************************************************************)
EXTENDS Integers, Sequences, FiniteSets, SequencesExt

CONSTANTS
  Runs,          \* the run definitions (config.py)
  Gpus,
  Windows        \* between which two instructions Ctrl-C may come: a set of phases

None == <<"none", 0>>
Orig == <<"orig", 0>>
Live == <<"live", 0>>     \* where the servers look for their compile cache

VARIABLES
  run, plan,     \* the run and its steps
  pc, phase,     \* the step, and where in it the executor is
  status,        \* running, complete, aborted, failed
  servers,       \* executor: gpu -> label of the server it holds, or None
  samplers,      \* executor: scrapers by GPU, "nvml", and the open files
  points, windows, flags, records,   \* executor: what goes into the manifest
  overload,      \* executor: overloaded points in a row by sweep, sweeps skipped
  procs,         \* the server processes: gpu, label, up, and cached
  dirs,          \* the compile caches by name
  moved,         \* commands of the privileged step that the author has run
  measuring,     \* points being measured: gpu -> counters read before
  manifest       \* what was written at the end

vars == <<run, plan, pc, phase, status, servers, samplers, points, windows, flags, records,
          overload, procs, dirs, moved, measuring, manifest>>
recorded == <<points, windows, flags, records, overload>>

Sorted(S) == SetToSortSeq(S, LAMBDA a, b : a < b)

----------------------------------------------------------------------------
(* The plan (plan.py).                                                     *)

Step(kind, gpu, data) == [kind |-> kind, gpu |-> gpu, data |-> data]

StartServer(g, label, info) ==
  <<Step("server_start", g, label), Step("server_ready", g, label), Step("first_request", g, label)>>
    \o IF info THEN <<Step("server_info", g, label)>> ELSE <<>>
StopServer(g, label) == <<Step("server_stop", g, label)>>

Bench(gpus, point, sweep, tag) ==
  Step("bench", gpus[1], [gpus |-> Range(gpus), point |-> point.id, group |-> sweep.name, tag |-> tag,
                          stop |-> IF Len(gpus) = 1 THEN sweep.stop ELSE 0, warmup |-> FALSE])
Warmup(r, g) ==
  IF ~r.warmup THEN <<>>
  ELSE <<Step("bench", g, [gpus |-> {g}, point |-> "warmup", group |-> "warmup", tag |-> "",
                           stop |-> 0, warmup |-> TRUE]),
         Step("reset_prefix_cache", g, None)>>

PointSteps(sweep, p, gpus, tag) ==
  (IF p.generated THEN <<Step("gen_dataset", 0, p.id)>> ELSE <<>>)
    \o (IF p.reset THEN [i \in DOMAIN gpus |-> Step("reset_prefix_cache", gpus[i], None)] ELSE <<>>)
    \o <<Bench(gpus, p, sweep, tag)>>
    \o (IF p.cooldown THEN <<Step("cooldown", 0, None)>> ELSE <<>>)
Points(r, gpus, tag) ==
  FlattenSeq([i \in DOMAIN r.sweeps |->
    FlattenSeq([j \in DOMAIN r.sweeps[i].points |-> PointSteps(r.sweeps[i], r.sweeps[i].points[j], gpus, tag)])])

Startup(r) ==
  FlattenSeq([i \in DOMAIN r.gpus |->
    StartServer(r.gpus[i], <<"startup", 0>>, TRUE) \o StopServer(r.gpus[i], <<"startup", 0>>)])

Sweep(r) ==
  LET g == r.gpus[1]
  IN StartServer(g, <<"main", 0>>, TRUE) \o <<Step("scrape_start", g, None)>> \o Warmup(r, g)
       \o Points(r, <<g>>, "") \o <<Step("scrape_stop", g, None)>> \o StopServer(g, <<"main", 0>>)

\* The trials of a cold-start run in order, and where in it the compile cache
\* is set aside before.
Trials(r) == FlattenSeq([i \in DOMAIN r.conditions |-> [t \in 1 .. r.trials |-> <<r.conditions[i].name, t>>]])
Asides(r) == SelectSeq(Trials(r), LAMBDA x : \E i \in DOMAIN r.conditions :
                         r.conditions[i].name = x[1] /\ "compile_cache_aside" \in r.conditions[i].privileged)
\* The first trial sets the original aside, each later one the cache that the
\* trial before it has filled.
Aside(r, x) ==
  LET k == CHOOSE i \in DOMAIN Asides(r) : Asides(r)[i] = x
  IN <<<<Live, IF k = 1 THEN Orig ELSE Asides(r)[k - 1]>>>>

Privileged(r, x) ==
  LET aside == x \in Range(Asides(r))
      drops == \E i \in DOMAIN r.conditions :
                 r.conditions[i].name = x[1] /\ "drop_caches" \in r.conditions[i].privileged
  IN IF aside THEN <<Step("privileged", 0, [moves |-> Aside(r, x), live |-> "absent"])>>
     ELSE IF drops THEN <<Step("privileged", 0, [moves |-> <<>>, live |-> "any"])>> ELSE <<>>
ColdStart(r) ==
  LET g == r.gpus[1]
      trial(x) == Privileged(r, x) \o StartServer(g, x, FALSE) \o StopServer(g, x)
  IN StartServer(g, <<"prime", 0>>, FALSE) \o StopServer(g, <<"prime", 0>>)
       \o FlattenSeq([i \in DOMAIN Trials(r) |-> trial(Trials(r)[i])])
       \o IF Asides(r) = <<>> THEN <<>>
          ELSE <<Step("privileged", 0, [moves |-> <<<<Live, Last(Asides(r))>>, <<Orig, Live>>>>,
                                        live |-> "present"])>>

\* Mutant: the servers of a phase stay up for the next.
IndependenceKeepsUp(r) ==
  FlattenSeq([i \in DOMAIN r.phases |->
    LET ph == r.phases[i]
        tag == IF Len(ph) > 1 THEN "both" ELSE "solo"
    IN FlattenSeq([k \in DOMAIN ph |-> StartServer(ph[k], <<tag, 0>>, TRUE) \o <<Step("scrape_start", ph[k], None)>>])
         \o Points(r, ph, tag)])
    \o FlattenSeq([k \in DOMAIN r.gpus |-> <<Step("scrape_stop", r.gpus[k], None)>> \o StopServer(r.gpus[k], None)])

Independence(r) ==
  FlattenSeq([i \in DOMAIN r.phases |->
    LET ph == r.phases[i]
        tag == IF Len(ph) > 1 THEN "both" ELSE "solo"
    IN FlattenSeq([k \in DOMAIN ph |-> StartServer(ph[k], <<tag, 0>>, TRUE) \o <<Step("scrape_start", ph[k], None)>>])
         \o Points(r, ph, tag)
         \o FlattenSeq([k \in DOMAIN ph |-> <<Step("scrape_stop", ph[k], None)>> \o StopServer(ph[k], <<tag, 0>>)])])

BuildPlan(r) ==
  <<Step("nvml_start", 0, None)>>
    \o (CASE r.kind = "startup" -> Startup(r)
          [] r.kind = "sweep" -> Sweep(r)
          [] r.kind = "cold_start" -> ColdStart(r)
          [] r.kind = "independence" -> Independence(r))
    \o <<Step("nvml_stop", 0, None)>>
    \o (IF r.cacheZero THEN <<Step("check", 0, "prefix_cache_zero")>> ELSE <<>>)
    \o (IF ~r.preempts /\ r.kind \in {"sweep", "independence"} THEN <<Step("check", 0, "no_preemption")>> ELSE <<>>)

----------------------------------------------------------------------------
(* The executor: one action per step that can go wrong on its own.         *)

Cur == plan[pc]
At(kind) == phase = "step" /\ pc <= Len(plan) /\ Cur.kind = kind
Continue == pc' = pc + 1 /\ phase' = "step" /\ UNCHANGED status
Raise(why) == phase' = "cleanup" /\ status' = why /\ UNCHANGED pc
Alive(g) == \E p \in procs : p.gpu = g /\ p.label = servers[g]
Up(g) == \E p \in procs : p.gpu = g /\ p.up

\* mkdir, samplers, cooldown
Housekeep ==
  /\ \/ At("nvml_start") /\ samplers' = samplers \cup {<<"nvml", 0>>, <<"nvml.jsonl", 0>>}
     \/ At("nvml_stop") /\ samplers' = samplers \ {<<"nvml", 0>>}
     \/ At("scrape_start") /\ samplers' = samplers \cup {<<"scraper", Cur.gpu>>, <<"metrics.jsonl", 0>>}
     \/ At("scrape_stop") /\ samplers' = samplers \ {<<"scraper", Cur.gpu>>}
     \/ At("cooldown") /\ UNCHANGED samplers
  /\ Continue
  /\ UNCHANGED <<run, plan, servers, recorded, procs, dirs, moved, measuring, manifest>>

\* The process is there before the executor holds it.
ServerStart ==
  /\ At("server_start")
  /\ IF servers[Cur.gpu] # None /\ Alive(Cur.gpu) THEN Raise("failed") /\ UNCHANGED procs
     ELSE /\ procs' = procs \cup {[gpu |-> Cur.gpu, label |-> Cur.data, up |-> FALSE, hit |-> FALSE]}
          /\ phase' = "launched" /\ UNCHANGED <<pc, status>>
  /\ UNCHANGED <<run, plan, servers, samplers, recorded, dirs, moved, measuring, manifest>>
ServerHeld ==
  /\ phase = "launched"
  /\ servers' = [servers EXCEPT ![Cur.gpu] = Cur.data]
  /\ records' = [records EXCEPT ![Cur.gpu] = [label |-> Cur.data, marks |-> {}, hit |-> FALSE]]
  /\ Continue
  /\ UNCHANGED <<run, plan, samplers, points, windows, flags, overload, procs, dirs, moved, measuring, manifest>>

\* wait_ready: 200 from the server, its death or the deadline.
ServerReady ==
  /\ At("server_ready")
  /\ \/ /\ Alive(Cur.gpu) /\ Up(Cur.gpu)
        /\ records' = [records EXCEPT ![Cur.gpu].marks = @ \cup {"health_ok"},
                                      ![Cur.gpu].hit = (CHOOSE p \in procs : p.gpu = Cur.gpu).hit]
        /\ Continue
     \/ Raise("failed") /\ UNCHANGED records
  /\ UNCHANGED <<run, plan, servers, samplers, points, windows, flags, overload, procs, dirs, moved, measuring, manifest>>

FirstRequest ==
  /\ At("first_request")
  /\ \/ /\ Up(Cur.gpu)
        /\ \E token \in SUBSET {"first_token"} : records' = [records EXCEPT ![Cur.gpu].marks = @ \cup token]
        /\ Continue
     \/ Raise("failed") /\ UNCHANGED records
  /\ UNCHANGED <<run, plan, servers, samplers, points, windows, flags, overload, procs, dirs, moved, measuring, manifest>>

ServerInfo ==
  /\ At("server_info")
  /\ flags' = IF Up(Cur.gpu) THEN flags ELSE flags \cup {<<"server_info_unavailable", Cur.gpu>>}
  /\ Continue
  /\ UNCHANGED <<run, plan, servers, samplers, points, windows, records, overload, procs, dirs, moved, measuring, manifest>>

\* A server that is up may refuse, too.
ResetPrefixCache ==
  /\ At("reset_prefix_cache")
  /\ \/ Up(Cur.gpu) /\ Continue
     \/ Raise("failed")
  /\ UNCHANGED <<run, plan, servers, samplers, recorded, procs, dirs, moved, measuring, manifest>>

GenDataset ==
  /\ At("gen_dataset")
  /\ Continue \/ Raise("failed")
  /\ UNCHANGED <<run, plan, servers, samplers, recorded, procs, dirs, moved, measuring, manifest>>

BenchStart ==
  /\ At("bench")
  /\ IF Cur.data.group \in overload.skipped
     THEN /\ points' = Append(points, [at |-> <<Cur.data.point, Cur.data.tag, None>>, sweep |-> Cur.data.group, skipped |-> TRUE, long |-> FALSE])
          /\ Continue /\ UNCHANGED measuring
     ELSE /\ UNCHANGED points
          /\ IF \A g \in Cur.data.gpus : servers[g] # None /\ Alive(g)
             THEN measuring' = Cur.data.gpus /\ phase' = "benching" /\ UNCHANGED <<pc, status>>
             ELSE Raise("failed") /\ UNCHANGED measuring
  /\ UNCHANGED <<run, plan, servers, samplers, windows, flags, records, overload, procs, dirs, moved, manifest>>

\* How the counters moved over a point: unknown if they could not be read
\* before and after.  Preemptions are left out of a run that does not check them.
Unread == [hits |-> "unknown", preempted |-> FALSE]
Moves(g) ==
  {Unread} \cup
    (IF Up(g) THEN [hits : {"none", "grew"}, preempted : {FALSE, ~run.preempts}] ELSE {})

\* Mutant: a point in time does not end the row of overloaded ones.
OverloadedOnce(o, group, stop, long) ==
  IF stop = 0 \/ ~long THEN o
  ELSE [row |-> [o.row EXCEPT ![group] = @ + 1],
        skipped |-> IF o.row[group] + 1 >= stop THEN o.skipped \cup {group} ELSE o.skipped]

\* No point of a sweep with a stop rule has an infinite rate (config.py 698).
Overloaded(o, group, stop, long) ==
  IF stop = 0 THEN o
  ELSE IF ~long THEN [o EXCEPT !.row[group] = 0]
  ELSE [row |-> [o.row EXCEPT ![group] = @ + 1],
        skipped |-> IF o.row[group] + 1 >= stop THEN o.skipped \cup {group} ELSE o.skipped]

\* How long a point took matters under a stop rule only.
Lengths == {FALSE, Cur.data.stop > 0}

\* A warmup must succeed; what a point's own result file says about failed
\* requests (flags that nothing reads again) is left out.
Point(g) == <<Cur.data.point, Cur.data.tag, g>>
Kept(gs, moves, long) ==
  /\ points' = points \o [i \in DOMAIN gs |->
                   [at |-> Point(gs[i]), sweep |-> Cur.data.group, skipped |-> FALSE, long |-> long]]
  /\ windows' = windows \cup {[at |-> Point(g), moved |-> moves[g]] : g \in Range(gs)}
  /\ UNCHANGED <<flags, records>>

BenchEnd ==
  /\ phase = "benching" /\ ~Cur.data.warmup
  /\ measuring' = {}
  /\ \E moves \in [measuring -> UNION {Moves(g) : g \in measuring}], long \in Lengths :
       /\ \A g \in measuring : moves[g] \in Moves(g)
       /\ Kept(Sorted(measuring), moves, long)
       /\ overload' = Overloaded(overload, Cur.data.group, Cur.data.stop, long)
  /\ Continue
  /\ UNCHANGED <<run, plan, servers, samplers, procs, dirs, moved, manifest>>

\* A result that cannot be read, or Ctrl-C, among the results: what came before
\* is kept.
BenchBreaks ==
  /\ phase = "benching" /\ ~Cur.data.warmup
  /\ measuring' = {}
  /\ \E k \in 0 .. Cardinality(measuring) - 1, long \in Lengths :
       \E first \in Moves(Sorted(measuring)[1]) :
         Kept(SubSeq(Sorted(measuring), 1, k), [g \in measuring |-> first], long)
  /\ \/ Raise("failed")
     \/ phase \in Windows /\ Raise("aborted")
  /\ UNCHANGED <<run, plan, servers, samplers, overload, procs, dirs, moved, manifest>>

WarmupEnd ==
  /\ phase = "benching" /\ Cur.data.warmup
  /\ measuring' = {}
  /\ Continue \/ Raise("failed")
  /\ UNCHANGED <<run, plan, servers, samplers, recorded, procs, dirs, moved, manifest>>

HitFlagsKnown(ws) ==  \* mutation: counters that cannot be read pass for zero
  {<<"prefix_cache_hits_nonzero", w.at>> : w \in {x \in ws : x.moved.hits = "grew"}}
HitFlags(ws) ==
  {<<"prefix_cache_hits_nonzero", w.at>> : w \in {x \in ws : x.moved.hits = "grew"}}
    \cup {<<"prefix_cache_unverified", w.at>> : w \in {x \in ws : x.moved.hits = "unknown"}}

PreemptionFlags(ws) == {<<"unexpected_preemption", w.at>> : w \in {x \in ws : x.moved.preempted}}

Check ==
  /\ At("check")
  /\ flags' = flags \cup (IF Cur.data = "prefix_cache_zero" THEN HitFlags(windows) ELSE PreemptionFlags(windows))
  /\ Continue
  /\ UNCHANGED <<run, plan, servers, samplers, points, windows, records, overload, procs, dirs, moved, measuring, manifest>>

\* The executor lets the server go, then signals its group, if its leader is
\* alive, and waits for its end.
ServerStop ==
  /\ At("server_stop")
  /\ servers' = [servers EXCEPT ![Cur.gpu] = None]
  /\ IF servers[Cur.gpu] = None THEN Continue ELSE phase' = "stopping" /\ UNCHANGED <<pc, status>>
  /\ UNCHANGED <<run, plan, samplers, recorded, procs, dirs, moved, measuring, manifest>>
Table(g) == IF records[g].label[2] = 0 THEN {} ELSE {records[g]}
ServerStopped ==
  /\ phase = "stopping"
  /\ procs' = {p \in procs : ~(p.gpu = Cur.gpu /\ p.label = records[Cur.gpu].label)}
  /\ manifest' = [manifest EXCEPT !.cold = @ \cup Table(Cur.gpu)]
  /\ Continue
  /\ UNCHANGED <<run, plan, servers, samplers, recorded, dirs, moved, measuring>>

\* A privileged step waits until the author confirms and it verifies.
HasLive == Live \in DOMAIN dirs
\* Mutant: the author's word is enough.
VerifiedOnWord(data) == TRUE
Verified(data) == data.live = "any" \/ (HasLive <=> data.live = "present")
Confirmed ==
  /\ At("privileged") /\ Verified(Cur.data)
  /\ moved' = 0
  /\ Continue
  /\ UNCHANGED <<run, plan, servers, samplers, recorded, procs, dirs, measuring, manifest>>

\* Ctrl-C, or `abort` at a privileged step.
Interrupt ==
  /\ phase \in Windows
  /\ IF phase = "cleanup" THEN phase' = "done" /\ UNCHANGED <<pc, status, measuring>>
     ELSE Raise("aborted") /\ measuring' = {}
  /\ UNCHANGED <<run, plan, servers, samplers, recorded, procs, dirs, moved, manifest>>

EndOfPlan ==
  /\ phase = "step" /\ pc > Len(plan)
  /\ phase' = "cleanup" /\ status' = "complete"
  /\ UNCHANGED <<run, plan, pc, servers, samplers, recorded, procs, dirs, moved, measuring, manifest>>

\* Mutant: the servers that are still starting are not stopped.
HeldUp == {g \in Gpus : servers[g] # None /\ Up(g)}
HeldServers == {g \in Gpus : servers[g] # None}

\* Samplers, the servers the executor holds, and the files; then the manifest.
Cleanup ==
  /\ phase = "cleanup"
  /\ procs' = {p \in procs : ~(p.gpu \in HeldServers /\ p.label = servers[p.gpu])}
  /\ servers' = [g \in Gpus |-> None]
  /\ samplers' = {}
  /\ manifest' = [manifest EXCEPT !.written = TRUE, !.status = status,
                    !.cold = @ \cup UNION {Table(g) : g \in HeldServers}]
  /\ phase' = "done"
  /\ UNCHANGED <<run, plan, pc, status, recorded, dirs, moved, measuring>>

Execute ==
  \/ Housekeep \/ ServerStart \/ ServerHeld \/ ServerReady \/ FirstRequest \/ ServerInfo
  \/ ResetPrefixCache \/ GenDataset \/ BenchStart \/ BenchEnd \/ BenchBreaks \/ WarmupEnd \/ Check
  \/ ServerStop \/ ServerStopped \/ Confirmed \/ EndOfPlan \/ Cleanup

----------------------------------------------------------------------------
(* The environment.                                                        *)

\* A server that finds no compiled graphs fills the cache.
Boot(p) ==
  /\ ~p.up
  /\ procs' = (procs \ {p}) \cup {[p EXCEPT !.up = TRUE, !.hit = HasLive]}
  /\ dirs' = IF HasLive THEN dirs
             ELSE [n \in DOMAIN dirs \cup {Live} |-> IF n = Live THEN p.label ELSE dirs[n]]
  /\ UNCHANGED <<run, plan, pc, phase, status, servers, samplers, recorded, moved, measuring, manifest>>
\* The server's workers end with their leader: what a leader leaves behind no
\* signal of the harness would reach.
Die(p) ==
  /\ procs' = procs \ {p}
  /\ UNCHANGED <<run, plan, pc, phase, status, servers, samplers, recorded, dirs, moved, measuring, manifest>>

\* The author runs the commands of a privileged step one by one, in order; a
\* cache moved to a name in use replaces what was there.
Moved(ds, m) ==
  IF m[1] \notin DOMAIN ds THEN ds
  ELSE [n \in (DOMAIN ds \ {m[1]}) \cup {m[2]} |-> IF n = m[2] THEN ds[m[1]] ELSE ds[n]]
AuthorMoves ==
  /\ At("privileged") /\ moved < Len(Cur.data.moves)
  /\ dirs' = Moved(dirs, Cur.data.moves[moved + 1])
  /\ moved' = moved + 1
  /\ UNCHANGED <<run, plan, pc, phase, status, servers, samplers, recorded, procs, measuring, manifest>>

Init ==
  /\ run \in Runs /\ plan = BuildPlan(run)
  /\ pc = 1 /\ phase = "step" /\ status = "running"
  /\ servers = [g \in Gpus |-> None] /\ samplers = {}
  /\ points = <<>> /\ windows = {} /\ flags = {}
  /\ records = [g \in Gpus |-> [label |-> None, marks |-> {}, hit |-> FALSE]]
  /\ overload = [row |-> [s \in {run.sweeps[i].name : i \in DOMAIN run.sweeps} |-> 0], skipped |-> {}]
  /\ procs = {} /\ moved = 0 /\ dirs = [n \in {Live} |-> Orig] /\ measuring = {}
  /\ manifest = [written |-> FALSE, status |-> "running", cold |-> {}]

Next ==
  \/ Execute \/ Interrupt \/ AuthorMoves
  \/ \E p \in procs : Boot(p) \/ Die(p)

Spec == Init /\ [][Next]_vars
----------------------------------------------------------------------------
(* Properties.                                                             *)

\* Once the run is over no server process and no sampler is left, however it
\* ended: by a failure, a dead server or Ctrl-C (executor.py 3-4).
StoppedAtEnd == phase = "done" => procs = {} /\ samplers = {}

\* A point is measured with the servers of its own GPUs and nothing else on
\* the machine: one process per GPU, the one the executor holds, and none on
\* a GPU outside the phase (runs/R8.toml: a solo phase needs the other idle).
MeasuredAlone ==
  phase = "benching" =>
    \A p \in procs : /\ p.gpu \in measuring /\ servers[p.gpu] = p.label
                     /\ \A q \in procs : q.gpu = p.gpu => q = p

Measured(s) == SelectSeq(points, LAMBDA p : p.sweep = s /\ ~p.skipped)
BenchSteps == {i \in DOMAIN plan : plan[i].kind = "bench" /\ ~plan[i].data.warmup}
\* A complete run has a record of every point of its definition on every GPU
\* of the phase, or says that it was skipped; and a sweep was cut short after
\* just as many overloaded points in a row as its stop rule says.
PointsAccounted ==
  status = "complete" =>
    \A i \in BenchSteps :
      LET d == plan[i].data
          ms == Measured(d.group)
          isSkipped == \E p \in Range(points) : p.skipped /\ p.at[1] = d.point /\ p.at[2] = d.tag
          rowAt(j) == j >= d.stop /\ \A k \in j - d.stop + 1 .. j : ms[k].long
      IN /\ isSkipped \/ \A g \in d.gpus : \E p \in Range(ms) : p.at = <<d.point, d.tag, g>>
         /\ isSkipped => rowAt(Len(ms))
         /\ d.stop > 0 => \A j \in 1 .. Len(ms) - 1 : ~rowAt(j)

\* A trial that must start without compiled graphs did, its server came up,
\* and no move of the compile cache has lost the one that was there before the
\* run, even if the author confirms without having run the commands.
ColdTrials ==
  /\ \E n \in DOMAIN dirs : dirs[n] = Orig
  /\ status = "complete" =>
       \A x \in Range(Trials(run)) :
         \E row \in manifest.cold :
           row.label = x /\ "health_ok" \in row.marks /\ (x \in Range(Asides(run)) => ~row.hit)

\* A complete run that must not hit the prefix cache says it did not only if
\* the counters of every measured point were read and did not move, and one
\* that must not preempt says so only if no counter it read shows it did.
Unpreempted == ~\E f \in flags : f[1] = "unexpected_preemption"
ZeroHits == ~\E f \in flags : f[1] \in {"prefix_cache_hits_nonzero", "prefix_cache_unverified"}
CleanVerdict ==
  status = "complete" =>
    \A p \in {q \in Range(points) : ~q.skipped} :
      \E w \in windows :
        /\ w.at = p.at
        /\ run.cacheZero /\ ZeroHits => w.moved.hits = "none"
        /\ ~run.preempts /\ Unpreempted => ~w.moved.preempted

\* What the manifest says of the run is so, and nothing of the run outlives it.
BenchTrue == StoppedAtEnd /\ MeasuredAlone /\ PointsAccounted /\ ColdTrials /\ CleanVerdict
=============================================================================
