----------------------------- MODULE MCMeasures -----------------------------
(***************************************************************************)
(* What is measured and charted: the metrics of a day as its chunks carry  *)
(* them to the index, the window of the charts, and the runs of the        *)
(* benchmarks.  `machine` says which one moves; the others rest as they    *)
(* start.                                                                  *)
(***************************************************************************)
EXTENDS Metrics

CONSTANTS
  NoValue,
  Machines,   \* which of the three to check
  Interrupts  \* where in a benchmark Ctrl-C may come

VARIABLES
  machine,
  snap, latest, zoom, kept,  \* ChartWindow
  run, plan, pc, stage, status, servers, samplers, points, windows, flags, records,
  overload, procs, dirs, moved, measuring, manifest  \* BenchRun; stage is its phase

chartVars == <<snap, latest, zoom, kept>>
benchVars == <<run, plan, pc, stage, status, servers, samplers, points, windows, flags, records,
               overload, procs, dirs, moved, measuring, manifest>>

----------------------------------------------------------------------------
(* A day of six buckets and three histogram buckets with its shift in the    *)
(* second of these, two replicas and two requests.  Each behaviour spends    *)
(* its steps on one part of the environment, so that the interesting ones    *)
(* fit; the ends of its advances fall on and between bucket boundaries.      *)
FirstAndRetry == [q \in 1 .. 2 |-> q - 1]

\* Instants before, in and after the active window, at a bucket's start and
\* inside it.
Instants == {1, 4, 5, 6, 9}
Ends == {{12}, {3, 7, 10, 12}}

Profile(detail, arrivals, nReq, nRep, nMeter, nFork) ==
  {[detail |-> detail, arrivals |-> arrivals, requests |-> nReq, replicas |-> nRep,
    meters |-> nMeter, forks |-> nFork, instants |-> Instants, ends |-> e] : e \in Ends}

\* One request's whole life; a shorter one with a fork; two requests side by
\* side, all recorded or only the tracked one; a crash and its recovery with a
\* step of the meters anywhere in them; and meters alone, replicas and meters
\* with a fork, and a request on a replica that crashes.
EightProfiles ==
  Profile("all", 1, 6, 0, 0, 0) \cup Profile("all", 1, 3, 0, 0, 1)
    \cup Profile("all", 2, 3, 0, 0, 0) \cup Profile("tracked", 2, 3, 0, 0, 0)
    \cup Profile("all", 0, 0, 3, 1, 0) \cup Profile("all", 0, 0, 0, 2, 0)
    \cup Profile("all", 0, 0, 1, 1, 1) \cup Profile("all", 1, 2, 1, 0, 0)

----------------------------------------------------------------------------
(* Two days of one shift of four grains, two zoom steps, two runs.           *)
ZoomSpans == <<8, 4>>
Ticks == <<1, 2, 4, 8, 24>>
Charts == INSTANCE ChartWindow
          WITH DayLen <- 24, LastDay <- 1, ShiftStart <- 4, ShiftEnd <- 20, Spans <- ZoomSpans, TickSteps <- Ticks,
               MaxTicks <- 5, DefaultSpan <- 8, LessonAt <- 10, Grain <- 4, MaxRun <- 2, None <- NoValue

----------------------------------------------------------------------------
(* Four run definitions, one of each kind: a startup of two GPUs; a sweep    *)
(* with a warmup, a generated dataset, cache resets, a cooldown and a stop   *)
(* rule of two points; a cold start of a restart and of a replacement host,  *)
(* two trials each; and two GPUs alone and together.                         *)
BenchPoint(id, gen) == [id |-> id, generated |-> gen, reset |-> gen, cooldown |-> gen]
Startup == [kind |-> "startup", gpus |-> <<0, 1>>, sweeps |-> <<>>, warmup |-> FALSE, conditions |-> <<>>,
          trials |-> 0, phases |-> <<>>, cacheZero |-> FALSE, preempts |-> FALSE]
FourRuns == {
  Startup,
  [Startup EXCEPT !.kind = "sweep", !.gpus = <<0>>, !.warmup = TRUE, !.cacheZero = TRUE, !.preempts = TRUE,
                !.sweeps = <<[name |-> "rate", stop |-> 2,
                              points |-> <<BenchPoint("p1", TRUE), BenchPoint("p2", FALSE), BenchPoint("p3", FALSE),
                                           BenchPoint("p4", FALSE)>>]>>],
  [Startup EXCEPT !.kind = "cold_start", !.gpus = <<0>>, !.trials = 2,
                !.conditions = <<[name |-> "process_restart", privileged |-> {}],
                                 [name |-> "host_reboot", privileged |-> {"drop_caches"}],
                                 [name |-> "replacement_host",
                                  privileged |-> {"drop_caches", "compile_cache_aside"}]>>],
  [Startup EXCEPT !.kind = "independence", !.cacheZero = TRUE, !.phases = <<<<0>>, <<1>>, <<0, 1>>>>,
                !.sweeps = <<[name |-> "load", stop |-> 0, points |-> <<BenchPoint("p1", FALSE)>>]>>] }

Bench == INSTANCE BenchRun WITH phase <- stage, Runs <- FourRuns, Gpus <- {0, 1}, Windows <- Interrupts

----------------------------------------------------------------------------
MeasuresInit ==
  /\ machine \in Machines
  /\ Init /\ (machine # "metrics" => left = CHOOSE p \in EightProfiles : TRUE)
  /\ Charts!Init /\ (machine # "charts" => snap.playhead = 4)
  /\ Bench!Init /\ (machine # "bench" => run = Startup)

MeasuresNext ==
  \/ machine = "metrics" /\ Next /\ UNCHANGED <<machine, chartVars, benchVars>>
  \/ machine = "charts" /\ Charts!Next /\ UNCHANGED <<machine, vars, benchVars>>
  \/ machine = "bench" /\ Bench!Next /\ UNCHANGED <<machine, vars, chartVars>>

MeasuresSpec == MeasuresInit /\ [][MeasuresNext]_<<machine, vars, chartVars, benchVars>>

(* Metrics, ChartWindow and BenchRun state these. *)
MetricsExact == machine = "metrics" => RecorderExact /\ RollupExact
WindowTrue == machine = "charts" => Charts!WindowTrue
ZoomFaithful == [][machine = "charts" => Charts!ZoomKeeps]_chartVars
BenchTrue == machine = "bench" => Bench!BenchTrue
StoppedAtEnd == machine = "bench" => Bench!StoppedAtEnd
=============================================================================
