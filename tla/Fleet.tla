------------------------------- MODULE Fleet -------------------------------
(***************************************************************************)
(* One request's life across the modules of a day run: the client of       *)
(* engine/load, the request table of engine/shared, the router, the        *)
(* replicas and the failure module.  Every handler of the event loop is    *)
(* one action, with all the notices it raises: the modules call each other *)
(* synchronously, so nothing interleaves inside a handler.  What does      *)
(* interleave are the pending events.  Simulated time is left out: a       *)
(* queued event may fire at any moment, which covers every timing the      *)
(* parameters can produce.  A handle is the event itself, and cancelling   *)
(* removes the event the handle names, so a forgotten cancel leaves a      *)
(* stale event behind.                                                     *)
(*                                                                         *)
(* Abstracted: what the policy picks (any routable replica: RoutingPolicy  *)
(* shows that each of the five returns one), and how a replica schedules   *)
(* its requests (ReplicaScheduler): a step may bring first tokens,         *)
(* finishes, preemptions and admissions, and never idles with work queued. *)
(***************************************************************************)
EXTENDS Integers, FiniteSets, TLC

CONSTANTS
  Session,         \* sessions of the day, organic and synthetic
  Replica,
  Slot,            \* request-table slots
  MaxTurns,        \* bound on the turns a session scripts
  MaxRetries,      \* bound on the maxRetries parameter
  AdmissionLimits, \* values of admissionLimitPerReplica (None: off)
  Oversized,       \* sessions whose requests no replica could ever run
  HasOverhead,     \* whether requestOverheadMs > 0
  MaxCrashes,      \* bound on crash injections
  MaxPatches,      \* bound on parameter changes
  MayRunLate,      \* whether the day may come close to its end
  None, NoEvent    \* "no value" and NO_EVENT

Outcome == {"finished", "rejected", "timedOut", "failed"}

ASSUME FleetAssumption ==
  /\ IsFiniteSet(Session) /\ IsFiniteSet(Replica) /\ IsFiniteSet(Slot)
  /\ None # NoEvent /\ None \notin Session \cup Replica \cup Slot \cup Outcome
  /\ {None, NoEvent} \cap (Slot \X (Session \X (1..MaxTurns) \X (0..MaxRetries)) \X Replica) = {}
  /\ NoEvent \notin Session \X (1..MaxTurns) \X (0..MaxRetries)
  /\ NoEvent \notin Replica \X {"kick", "step", "crashed", "down", "loadingWeights",
                                "initializingEngine"}
  /\ MaxTurns \in Nat \ {0} /\ MaxRetries \in Nat
  /\ AdmissionLimits \subseteq Nat \cup {None}
  /\ Oversized \subseteq Session
  /\ HasOverhead \in BOOLEAN /\ MayRunLate \in BOOLEAN
  /\ MaxCrashes \in Nat /\ MaxPatches \in Nat

VARIABLES
  sess,        \* session records: phase, scripted turns, turn, attempt
  slotOf,      \* S.slot: the session's live request
  timeoutEv,   \* S.timeoutEv
  sessEv,      \* S.ev: the pending retry, next turn or extra
  live,        \* t.live: 0 free, 1 live, 2 ended and not yet reusable
  freeSlots, pendingFree, \* t.freeSlots and t.pendingFree: how often each slot is listed
  reqId,       \* session, turn and attempt of the request in a slot
  outcome,     \* t.outcome
  first,       \* whether t.firstTokenMs is set
  routable,    \* the router's routable set
  pending,     \* admitted, waiting out the router overhead: the dispatch event
  dispatched,  \* dispatched and not ended: the replica
  outstanding, \* the router's count per replica
  phase, at,   \* q.phase and q.replica of the replica module
  eligibleEv,  \* q.eligibleEv
  mode, stepEv,    \* rep.mode and rep.ev
  fstate, phaseEv, \* the failure module's state and phase-end event
  timeouts, sends, dispatches, eligibles, steps, phaseEnds, \* the event queue
  params, crashes, patches, late

client  == <<sess, slotOf, timeoutEv, sessEv, timeouts, sends>>
table   == <<live, freeSlots, pendingFree, reqId, outcome, first>>
router  == <<routable, pending, dispatched, outstanding, dispatches>>
engine  == <<phase, at, eligibleEv, mode, stepEv, eligibles, steps>>
failure == <<fstate, phaseEv, phaseEnds, crashes>>
day     == <<params, patches, late>>
vars    == <<client, table, router, engine, failure, day>>

-----------------------------------------------------------------------------
SessionPhase == {"new", "inFlight", "pending", "closed"}
SessionRec == [st : SessionPhase, turns : 1..MaxTurns, turn : 1..MaxTurns,
               attempt : 0..MaxRetries]
ReqId == Session \X (1..MaxTurns) \X (0..MaxRetries)
Phase == {"none", "arriving", "waiting", "running"}
Mode == {"idle", "kick", "step"}
ReplicaState == {"ready", "crashed", "down", "loadingWeights", "initializingEngine"}
Params == [limit : AdmissionLimits, timeout : BOOLEAN, retries : 0..MaxRetries]

TimeoutEvent == Slot \X ReqId
DispatchEvent == Slot \X ReqId \X Replica
StepEvent == Replica \X {"kick", "step"}
PhaseEvent == Replica \X (ReplicaState \ {"ready"})

(* The next phase when a phase-end event fires. *)
NextPhaseLoop ==  \* mutation: the start-up begins again instead of completing
  [crashed |-> "down", down |-> "loadingWeights",
   loadingWeights |-> "initializingEngine", initializingEngine |-> "loadingWeights"]
NextPhase == [crashed |-> "down", down |-> "loadingWeights",
              loadingWeights |-> "initializingEngine", initializingEngine |-> "ready"]

(* ctx.schedule drops an event at or past the day's end and returns NO_EVENT: *)
(* possible only once the day runs late.                                      *)
Lossy == IF late THEN BOOLEAN ELSE {FALSE}
HandleAlways(e, lost) == e  \* mutation: an event that was dropped still gets a handle
Handle(e, lost) == IF lost THEN NoEvent ELSE e
Queued(e, lost) == IF lost THEN {} ELSE {e}

Held(r, ph) == {s \in Slot : at[s] = r /\ phase[s] = ph}
AdmittedSlots == {s \in Slot : pending[s] # None \/ dispatched[s] # None}
IdOf(c) == <<c, sess[c].turn, sess[c].attempt>>

(* The morning: nothing has arrived, every replica is ready and idle. *)
LoadInit ==
  /\ sess \in [Session -> {x \in SessionRec : x.st = "new" /\ x.turn = 1 /\ x.attempt = 0}]
  /\ slotOf = [c \in Session |-> None]
  /\ timeoutEv = [c \in Session |-> NoEvent] /\ sessEv = [c \in Session |-> NoEvent]
TableInit ==
  /\ live = [s \in Slot |-> 0]
  /\ freeSlots = [s \in Slot |-> 1] /\ pendingFree = [s \in Slot |-> 0]
  /\ reqId = [s \in Slot |-> None]
  /\ outcome = [s \in Slot |-> None]
  /\ first = [s \in Slot |-> FALSE]
RouterInit ==
  /\ routable = Replica
  /\ pending = [s \in Slot |-> None] /\ dispatched = [s \in Slot |-> None]
  /\ outstanding = [r \in Replica |-> 0]
ReplicaInit ==
  /\ phase = [s \in Slot |-> "none"] /\ at = [s \in Slot |-> None]
  /\ eligibleEv = [s \in Slot |-> NoEvent]
  /\ mode = [r \in Replica |-> "idle"] /\ stepEv = [r \in Replica |-> NoEvent]
FailureInit ==
  /\ fstate = [r \in Replica |-> "ready"] /\ phaseEv = [r \in Replica |-> NoEvent]

Init ==
  /\ LoadInit /\ TableInit /\ RouterInit /\ ReplicaInit /\ FailureInit
  /\ timeouts = {} /\ sends = {} /\ dispatches = {}
  /\ eligibles = {} /\ steps = {} /\ phaseEnds = {}
  /\ params \in Params
  /\ crashes = 0 /\ patches = 0 /\ late = FALSE

-----------------------------------------------------------------------------
(* requestEnded: the four subscribers, as operators over the ended slots E.  *)

(* Where onRequestEnded leaves session record x: a retry, the next turn, or  *)
(* closed.  `over`: the next turn would start after the shift, or has no     *)
(* room left; `lost`: the arrival would fall past the day's end.             *)
AfterEndExtraRetry(x, o, over, lost) ==  \* mutation: one retry too many
  IF o # "finished" /\ x.attempt <= params.retries /\ ~lost
  THEN [x EXCEPT !.attempt = @ + 1, !.st = "pending"] ELSE [x EXCEPT !.st = "closed"]
AfterEnd(x, o, over, lost) ==
  LET closed == [x EXCEPT !.st = "closed"]
      arriveAs(y) == [y EXCEPT !.st = IF lost THEN "closed" ELSE "pending"]
  IN  IF o # "finished"
      THEN IF x.attempt >= params.retries THEN closed
           ELSE arriveAs([x EXCEPT !.attempt = @ + 1])
      ELSE IF x.turn >= x.turns \/ over THEN closed
           ELSE arriveAs([x EXCEPT !.turn = @ + 1, !.attempt = 0])

(* The sessions whose timeout is cancelled: those whose request ended, and   *)
(* those whose request sampled its first token.                              *)
DisarmedAtEnd(ended, tokened) == ended  \* mutation: a first token leaves the timeout armed
Disarmed(ended, tokened) == ended \cup tokened

(* The client: the session of every ended slot moves on; its timeout, and    *)
(* the timeouts of the sessions in `tokened` (first tokens), are cancelled.  *)
ClientEnds(E, o, tokened) ==
  LET ended == {c \in Session : slotOf[c] \in E}
      quiet == Disarmed(ended, tokened)
  IN  \E over \in SUBSET ended, lost \in SUBSET (IF late THEN ended ELSE {}) :
        LET next(c) == AfterEnd(sess[c], o, c \in over, c \in lost)
            again   == {c \in ended : next(c).st = "pending"}
            evOf(c) == <<c, next(c).turn, next(c).attempt>>
        IN  /\ sess' = [c \in Session |-> IF c \in ended THEN next(c) ELSE sess[c]]
            /\ slotOf' = [c \in Session |-> IF c \in ended THEN None ELSE slotOf[c]]
            /\ timeoutEv' = [c \in Session |-> IF c \in quiet THEN NoEvent ELSE timeoutEv[c]]
            /\ timeouts' = timeouts \ {timeoutEv[c] : c \in quiet}
            /\ sessEv' = [c \in Session |-> IF c \in again THEN evOf(c) ELSE sessEv[c]]
            /\ sends' = sends \cup {evOf(c) : c \in again}

(* releaseRequest: the slots are queued for reuse; their fields stay          *)
(* readable.  It throws on a slot that is not live (AssertRequestTable).      *)
TableEnds(E, o) ==
  /\ live' = [s \in Slot |-> IF s \in E THEN 2 ELSE live[s]]
  /\ pendingFree' = [s \in Slot |-> IF s \in E THEN pendingFree[s] + 1 ELSE pendingFree[s]]
  /\ UNCHANGED freeSlots
  /\ outcome' = [s \in Slot |-> IF s \in E THEN o ELSE outcome[s]]
  /\ UNCHANGED reqId

(* The router: a dispatched request stops counting, a pending one loses its  *)
(* dispatch event.                                                           *)
RouterEndsUncounted(E) ==  \* mutation: the outstanding counts are not reduced
  /\ dispatched' = [s \in Slot |-> IF s \in E THEN None ELSE dispatched[s]]
  /\ pending' = [s \in Slot |-> IF s \in E THEN None ELSE pending[s]]
  /\ dispatches' = dispatches \ {pending[s] : s \in E}
  /\ UNCHANGED <<routable, outstanding>>
RouterEndsPending(E) ==  \* mutation: a pending request that ends stays queued for dispatch
  /\ dispatched' = [s \in Slot |-> IF s \in E THEN None ELSE dispatched[s]]
  /\ outstanding' = [r \in Replica |->
                       outstanding[r] - Cardinality({s \in E : dispatched[s] = r})]
  /\ UNCHANGED <<pending, dispatches, routable>>
RouterEnds(E) ==
  /\ dispatched' = [s \in Slot |-> IF s \in E THEN None ELSE dispatched[s]]
  /\ outstanding' = [r \in Replica |->
                       outstanding[r] - Cardinality({s \in E : dispatched[s] = r})]
  /\ pending' = [s \in Slot |-> IF s \in E THEN None ELSE pending[s]]
  /\ dispatches' = dispatches \ {pending[s] : s \in E}
  /\ UNCHANGED routable

-----------------------------------------------------------------------------
(* The client side: sessions and their requests.                             *)

(* allocRequest: every slot queued for reuse is cleared and put on the free  *)
(* list, then one is popped from it.  Which one is left open, and the list   *)
(* never runs out (the code doubles the table).  `code` is 2 for a request   *)
(* that is released again before its handler returns.                        *)
Freed == {s \in Slot : pendingFree[s] > 0}
EmptiedNever == pendingFree  \* mutation: slots put on the free list stay queued for reuse
Emptied == [s \in Slot |-> 0]
Allocatable == {s \in Slot : freeSlots[s] + pendingFree[s] > 0}
AllocRequest(s, id, code, o) ==
  /\ live' = [t \in Slot |-> IF t = s THEN code ELSE IF t \in Freed THEN 0 ELSE live[t]]
  /\ freeSlots' = [t \in Slot |-> freeSlots[t] + pendingFree[t] - (IF t = s THEN 1 ELSE 0)]
  /\ pendingFree' = [t \in Slot |-> Emptied[t] + (IF t = s /\ code = 2 THEN 1 ELSE 0)]
  /\ reqId' = [t \in Slot |-> IF t = s THEN id ELSE IF t \in Freed THEN None ELSE reqId[t]]
  /\ outcome' = [t \in Slot |-> IF t = s THEN o ELSE IF t \in Freed THEN None ELSE outcome[t]]
  /\ first' = [t \in Slot |-> first[t] /\ t # s /\ t \notin Freed]

(* The router's admission control. *)
AdmitsOneMore ==  \* mutation: off by one at the cap
  /\ routable # {}
  /\ params.limit # None =>
       Cardinality(AdmittedSlots) <= params.limit * Cardinality(routable)
Admits ==
  /\ routable # {}
  /\ params.limit # None =>
       Cardinality(AdmittedSlots) < params.limit * Cardinality(routable)

(* sendRequest of an admitted request, onArrived included. *)
SendAdmitted(c, s, fired) ==
  LET id == IdOf(c) IN
  /\ Admits
  /\ AllocRequest(s, id, 1, None)
  /\ sess' = [sess EXCEPT ![c].st = "inFlight"]
  /\ slotOf' = [slotOf EXCEPT ![c] = s]
  /\ sessEv' = [sessEv EXCEPT ![c] = NoEvent]
  /\ sends' = sends \ fired
  /\ \E lost \in Lossy :
       LET arm == params.timeout /\ ~lost IN
       /\ timeoutEv' = [timeoutEv EXCEPT ![c] = Handle(<<s, id>>, ~arm)]
       /\ timeouts' = timeouts \cup Queued(<<s, id>>, ~arm)
  /\ \E r \in routable, lost \in Lossy :
       /\ pending' = [pending EXCEPT ![s] = Handle(<<s, id, r>>, lost)]
       /\ dispatches' = dispatches \cup Queued(<<s, id, r>>, lost)
  /\ UNCHANGED <<routable, dispatched, outstanding, engine, failure, day>>

(* sendRequest of a request the router rejects inside the arrival notice: it *)
(* is created, armed, ended and disarmed in one go.                          *)
SendRejected(c, s, fired) ==
  /\ ~Admits
  /\ AllocRequest(s, IdOf(c), 2, "rejected")
  /\ \E lost \in Lossy :
       LET next == AfterEnd(sess[c], "rejected", FALSE, lost)
           ev   == <<c, next.turn, next.attempt>>
           again == next.st = "pending"
       IN  /\ sess' = [sess EXCEPT ![c] = next]
           /\ sessEv' = [sessEv EXCEPT ![c] = Handle(ev, ~again)]
           /\ sends' = (sends \ fired) \cup Queued(ev, ~again)
  /\ UNCHANGED <<slotOf, timeoutEv, timeouts, router, engine, failure, day>>

SendRequest(c, fired) ==
  \E s \in Allocatable : SendAdmitted(c, s, fired) \/ SendRejected(c, s, fired)

(* An accepted candidate starts a session whose first turn arrives now. *)
StartSession(c) == sess[c].st = "new" /\ SendRequest(c, {})

(* An extraRequest patch: a one-turn session whose arrival is an event. *)
InjectExtra(c) ==
  /\ sess[c].st = "new" /\ sess[c].turns = 1
  /\ sess' = [sess EXCEPT ![c].st = "pending"]
  /\ sessEv' = [sessEv EXCEPT ![c] = IdOf(c)]
  /\ sends' = sends \cup {IdOf(c)}
  /\ UNCHANGED <<slotOf, timeoutEv, timeouts, table, router, engine, failure, day>>

(* A retry, next turn or extra arrives (onPendingSend throws on a stale one). *)
SendDue(e) ==
  /\ sess[e[1]].st = "pending" /\ slotOf[e[1]] = None
  /\ SendRequest(e[1], {e})

-----------------------------------------------------------------------------
(* The router's dispatch, and what the replica does with it.                 *)

(* makeEligible: the request waits, and an idle replica is kicked. *)
KicksNever(r) == FALSE  \* mutation: an idle replica is not woken
Kicks(r) == mode[r] = "idle"
MakeEligible(s, r) ==
  LET kick == Kicks(r) IN
  /\ phase' = [phase EXCEPT ![s] = "waiting"]
  /\ mode' = IF kick THEN [mode EXCEPT ![r] = "kick"] ELSE mode
  /\ stepEv' = IF kick THEN [stepEv EXCEPT ![r] = <<r, "kick">>] ELSE stepEv
  /\ steps' = IF kick THEN steps \cup {<<r, "kick">>} ELSE steps

(* onDispatched: the request fails at once on a replica that is not ready or *)
(* could never run it.                                                       *)
ServesDead(r, c) == c \notin Oversized  \* mutation: the replica's state is not checked
Serves(r, c) == fstate[r] = "ready" /\ c \notin Oversized

DispatchTo(e, r) ==
  LET s == e[1] IN
  /\ Serves(r, reqId[s][1])
  /\ dispatches' = dispatches \ {e}
  /\ pending' = [pending EXCEPT ![s] = None]
  /\ dispatched' = [dispatched EXCEPT ![s] = r]
  /\ outstanding' = [outstanding EXCEPT ![r] = @ + 1]
  /\ at' = [at EXCEPT ![s] = r]
  /\ IF HasOverhead
     THEN \E lost \in Lossy :
            /\ phase' = [phase EXCEPT ![s] = "arriving"]
            /\ eligibleEv' = [eligibleEv EXCEPT ![s] = Handle(<<s, reqId[s], r>>, lost)]
            /\ eligibles' = eligibles \cup Queued(<<s, reqId[s], r>>, lost)
            /\ UNCHANGED <<mode, stepEv, steps>>
     ELSE MakeEligible(s, r) /\ UNCHANGED <<eligibleEv, eligibles>>
  /\ UNCHANGED <<routable, client, table, failure, day>>

(* The request ends inside its own dispatch: failed by the replica, or       *)
(* rejected because nothing is routable any more.                            *)
DispatchEnds(e, o) ==
  /\ ClientEnds({e[1]}, o, {}) /\ TableEnds({e[1]}, o) /\ RouterEnds({e[1]})
  /\ UNCHANGED <<first, engine, failure, day>>

(* onDispatch: a choice that stopped being routable is made again. *)
DispatchDue(e) ==
  /\ pending[e[1]] # None
  /\ LET choices == IF e[3] \in routable THEN {e[3]} ELSE routable IN
     \/ \E r \in choices : DispatchTo(e, r)
     \/ \E r \in choices : ~Serves(r, reqId[e[1]][1]) /\ DispatchEnds(e, "failed")
     \/ choices = {} /\ DispatchEnds(e, "rejected")

EligibleDue(e) ==
  LET s == e[1] r == e[3] IN
  /\ phase[s] = "arriving" /\ at[s] = r /\ eligibleEv[s] = e
  /\ eligibles' = eligibles \ {e}
  /\ eligibleEv' = [eligibleEv EXCEPT ![s] = NoEvent]
  /\ MakeEligible(s, r)
  /\ UNCHANGED <<at, client, table, router, failure, day>>

(* Request s is all the work of replica r. *)
AloneAny(s, r) == TRUE  \* mutation: a cancelled request takes the kick of the others along
Alone(s, r) == Held(r, "waiting") \cup Held(r, "running") = {s}

(* onTimeout: whoever holds the request ends it as timedOut - the router     *)
(* while it is pending, the replica after dispatch.                          *)
TimeoutDue(e) ==
  LET s == e[1] r == at[s]
      E == IF pending[s] # None \/ phase[s] # "none" THEN {s} ELSE {}
      unkick == phase[s] = "waiting" /\ mode[r] = "kick" /\ Alone(s, r)
  IN
  /\ slotOf[e[2][1]] = s /\ reqId[s] = e[2]
  /\ ClientEnds(E, "timedOut", {e[2][1]}) /\ TableEnds(E, "timedOut") /\ RouterEnds(E)
  /\ phase' = [phase EXCEPT ![s] = "none"]
  /\ at' = [at EXCEPT ![s] = None]
  /\ eligibleEv' = [eligibleEv EXCEPT ![s] = NoEvent]
  /\ eligibles' = eligibles \ {eligibleEv[s]}
  /\ mode' = IF unkick THEN [mode EXCEPT ![r] = "idle"] ELSE mode
  /\ stepEv' = IF unkick THEN [stepEv EXCEPT ![r] = NoEvent] ELSE stepEv
  /\ steps' = IF unkick THEN steps \ {stepEv[r]} ELSE steps
  /\ UNCHANGED <<first, failure, day>>

-----------------------------------------------------------------------------
(* The replica's engine steps.                                               *)

(* finishStep's ends E, then compose: preempt or admit, and keep stepping    *)
(* while anything runs.                                                      *)
FinishAndCompose(r, E) ==
  LET run  == Held(r, "running") \ E
      wait == Held(r, "waiting")
  IN
  /\ UNCHANGED <<eligibleEv, eligibles>>
  /\ \E pre \in SUBSET run, adm \in SUBSET wait, lost \in Lossy :
        LET busy == (run \ pre) \cup adm # {} IN
        /\ pre # {} => adm = {}
        /\ run \cup wait # {} => busy
        /\ phase' = [s \in Slot |-> IF s \in E THEN "none"
                                    ELSE IF s \in pre THEN "waiting"
                                    ELSE IF s \in adm THEN "running" ELSE phase[s]]
        /\ at' = [s \in Slot |-> IF s \in E THEN None ELSE at[s]]
        /\ mode' = [mode EXCEPT ![r] = IF busy THEN "step" ELSE "idle"]
        /\ stepEv' = [stepEv EXCEPT ![r] = Handle(<<r, "step">>, ~busy \/ lost)]
        /\ steps' = (steps \ {stepEv[r]}) \cup Queued(<<r, "step">>, ~busy \/ lost)

KickDue(r) ==
  /\ <<r, "kick">> \in steps /\ mode[r] = "kick" /\ stepEv[r] = <<r, "kick">>
  /\ FinishAndCompose(r, {})
  /\ UNCHANGED <<client, table, router, failure, day>>

(* A step ends: some running requests sample their first token, some finish. *)
StepEndDue(r) ==
  /\ <<r, "step">> \in steps /\ mode[r] = "step" /\ stepEv[r] = <<r, "step">>
  /\ \E tokened \in SUBSET {s \in Held(r, "running") : ~first[s]} :
       /\ first' = [s \in Slot |-> first[s] \/ s \in tokened]
       /\ \E done \in SUBSET {s \in Held(r, "running") : first[s] \/ s \in tokened} :
            /\ FinishAndCompose(r, done)
            /\ ClientEnds(done, "finished", {c \in Session : slotOf[c] \in tokened})
            /\ TableEnds(done, "finished")
            /\ RouterEnds(done)
  /\ UNCHANGED <<failure, day>>

-----------------------------------------------------------------------------
(* Failures.                                                                 *)

(* The router's onReplicaState: it cannot see a crash, only the failed       *)
(* health check that brings the replica down.                                *)
RotationLate(r, code) ==  \* mutation: a replica leaves rotation one phase too late
  CASE code = "ready" -> routable \cup {r}
    [] code \in {"crashed", "down"} -> routable
    [] OTHER -> routable \ {r}
Rotation(r, code) ==
  CASE code = "ready" -> routable \cup {r}
    [] code = "crashed" -> routable
    [] OTHER -> routable \ {r}

(* enter: replica r moves into phase `code`; every module hears it.  A       *)
(* replica that stops being ready fails all it holds (failAll) and stops     *)
(* stepping.  The replacement starts at once (REPLACEMENT_START_MS is 0), so  *)
(* the event that ends "down" never lies past the day's end.                 *)
Enter(r, code, gone) ==
  LET work == Held(r, "waiting") \cup Held(r, "running")
      fails == code # "ready" /\ (fstate[r] = "ready" \/ work # {} \/ mode[r] # "idle")
      E == IF fails THEN work \cup Held(r, "arriving") ELSE {}
      end == <<r, code>>
  IN
  /\ fstate' = [fstate EXCEPT ![r] = code]
  /\ \E lost \in (IF code = "down" THEN {FALSE} ELSE Lossy) :
       /\ phaseEv' = [phaseEv EXCEPT ![r] = Handle(end, code = "ready" \/ lost)]
       /\ phaseEnds' = (phaseEnds \ {gone}) \cup Queued(end, code = "ready" \/ lost)
  /\ routable' = Rotation(r, code)
  /\ phase' = [s \in Slot |-> IF s \in E THEN "none" ELSE phase[s]]
  /\ at' = [s \in Slot |-> IF s \in E THEN None ELSE at[s]]
  /\ eligibleEv' = [s \in Slot |-> IF s \in E THEN NoEvent ELSE eligibleEv[s]]
  /\ eligibles' = eligibles \ {eligibleEv[s] : s \in E}
  /\ mode' = IF fails THEN [mode EXCEPT ![r] = "idle"] ELSE mode
  /\ stepEv' = IF fails THEN [stepEv EXCEPT ![r] = NoEvent] ELSE stepEv
  /\ steps' = IF fails THEN steps \ {stepEv[r]} ELSE steps
  /\ ClientEnds(E, "failed", {}) /\ TableEnds(E, "failed")
  /\ dispatched' = [s \in Slot |-> IF s \in E THEN None ELSE dispatched[s]]
  /\ outstanding' = [q \in Replica |->
                       outstanding[q] - Cardinality({s \in E : dispatched[s] = q})]
  /\ UNCHANGED <<first, pending, dispatches, day>>

(* A crash injection.  One that hits a crashed replica is ignored; one that  *)
(* hits a recovering replica cancels its phase and starts over.              *)
Crash(r) ==
  /\ crashes < MaxCrashes /\ fstate[r] # "crashed"
  /\ crashes' = crashes + 1
  /\ Enter(r, "crashed", phaseEv[r])

PhaseEndDue(e) ==
  /\ phaseEv[e[1]] = e /\ fstate[e[1]] = e[2]
  /\ Enter(e[1], NextPhase[e[2]], e)
  /\ UNCHANGED crashes

-----------------------------------------------------------------------------
SetParams(p) ==
  /\ patches < MaxPatches /\ p # params
  /\ params' = p
  /\ patches' = patches + 1
  /\ UNCHANGED <<late, client, table, router, engine, failure>>

(* The day comes so close to its end that a delay may reach past it. *)
RunLate ==
  /\ MayRunLate /\ ~late
  /\ late' = TRUE
  /\ UNCHANGED <<params, patches, client, table, router, engine, failure>>

Next ==
  \/ \E c \in Session : StartSession(c) \/ InjectExtra(c)
  \/ \E e \in sends : SendDue(e)
  \/ \E e \in dispatches : DispatchDue(e)
  \/ \E e \in eligibles : EligibleDue(e)
  \/ \E e \in timeouts : TimeoutDue(e)
  \/ \E r \in Replica : KickDue(r) \/ StepEndDue(r) \/ Crash(r)
  \/ \E e \in phaseEnds : PhaseEndDue(e)
  \/ \E p \in Params : SetParams(p)
  \/ RunLate

Spec == Init /\ [][Next]_vars

(* Sessions, replicas and slots are interchangeable: nothing orders them. *)
Symmetry == Permutations(Session) \cup Permutations(Replica) \cup Permutations(Slot)

-----------------------------------------------------------------------------
(* The checks the modules ship for their own slices; the tests run them       *)
(* after every event, on the days they play.                                  *)

IsOpen(c) == sess[c].st \in {"inFlight", "pending"}

(* assertLoadInvariants: an open session has a request in flight or its next  *)
(* arrival queued, never both, and every live request is one of those.        *)
AssertLoadInvariants ==
  /\ \A c \in Session : ~IsOpen(c) =>
       sessEv[c] = NoEvent /\ timeoutEv[c] = NoEvent /\ slotOf[c] = None
  /\ \A c \in Session : IsOpen(c) =>
       /\ slotOf[c] # None <=> sessEv[c] = NoEvent
       /\ sessEv[c] # NoEvent => sessEv[c] \in sends
       /\ timeoutEv[c] # NoEvent => slotOf[c] # None /\ timeoutEv[c] \in timeouts
       /\ slotOf[c] # None => live[slotOf[c]] = 1 /\ reqId[slotOf[c]] = IdOf(c)
       /\ sess[c].turn <= sess[c].turns
  /\ \A s \in Slot : live[s] = 1 => IsOpen(reqId[s][1]) /\ slotOf[reqId[s][1]] = s

(* assertRequestTable, slot by slot: a slot is on the free list exactly while *)
(* it has no request, is queued for reuse exactly once its request has ended, *)
(* and never listed twice.                                                    *)
AssertRequestTable ==
  \A s \in Slot :
    /\ freeSlots[s] = IF live[s] = 0 THEN 1 ELSE 0
    /\ pendingFree[s] = IF live[s] = 2 THEN 1 ELSE 0

(* assertRouterInvariants: the counts are the tracked requests, what is       *)
(* pending is a live request with its dispatch queued, and the routable set   *)
(* follows the states heard.                                                  *)
AssertRouterInvariants ==
  /\ \A s \in Slot : dispatched[s] # None => live[s] = 1
  /\ \A r \in Replica : outstanding[r] = Cardinality({s \in Slot : dispatched[s] = r})
  /\ \A s \in Slot : pending[s] # None =>
       /\ dispatched[s] = None /\ live[s] = 1 /\ phase[s] = "none"
       /\ IF pending[s] = NoEvent THEN late ELSE pending[s] \in dispatches
  /\ \A r \in Replica :
       /\ fstate[r] = "ready" => r \in routable
       /\ fstate[r] \notin {"ready", "crashed"} => r \notin routable

(* assertFailureInvariants: a ready replica has no phase event, any other one *)
(* exactly the event that ends its phase, unless that lies past the day.      *)
AssertFailureInvariants ==
  \A r \in Replica :
    IF fstate[r] = "ready" THEN phaseEv[r] = NoEvent
    ELSE IF phaseEv[r] = NoEvent THEN late
    ELSE phaseEv[r] = <<r, fstate[r]>> /\ phaseEv[r] \in phaseEnds

(* assertRequests and the slot check of assertReplicaInvariants: a slot is in *)
(* a queue of its own replica exactly while it has a phase, and its request   *)
(* lives; an arriving one has its eligibility queued.                         *)
AssertQueues ==
  \A s \in Slot :
    /\ phase[s] # "none" <=> at[s] # None
    /\ at[s] # None => live[s] = 1
    /\ phase[s] = "arriving" =>
         IF eligibleEv[s] = NoEvent THEN late ELSE eligibleEv[s] \in eligibles

(* assertSchedule: nothing is held or stepped by a replica that is not ready, *)
(* an idle one has neither work nor event, and no kick or step loses its own. *)
AssertSchedule ==
  \A r \in Replica :
    LET running == Held(r, "running")
        work    == running \cup Held(r, "waiting")
    IN  /\ fstate[r] # "ready" => work \cup Held(r, "arriving") = {} /\ mode[r] = "idle"
        /\ mode[r] = "idle" => work = {} /\ stepEv[r] \notin steps
        /\ mode[r] = "kick" => work # {} /\ running = {} /\ stepEv[r] \in steps
        /\ mode[r] = "step" => stepEv[r] \in steps \/ (stepEv[r] = NoEvent /\ late)

-----------------------------------------------------------------------------
(* Properties.                                                               *)

(* Every variable of the day's slices stays in its type. *)
TypeOK ==
  /\ sess \in [Session -> SessionRec]
  /\ slotOf \in [Session -> Slot \cup {None}]
  /\ timeoutEv \in [Session -> TimeoutEvent \cup {NoEvent}]
  /\ sessEv \in [Session -> ReqId \cup {NoEvent}]
  /\ live \in [Slot -> 0..2]
  /\ freeSlots \in [Slot -> Nat] /\ pendingFree \in [Slot -> Nat]
  /\ reqId \in [Slot -> ReqId \cup {None}]
  /\ outcome \in [Slot -> Outcome \cup {None}]
  /\ first \in [Slot -> BOOLEAN]
  /\ routable \subseteq Replica
  /\ pending \in [Slot -> DispatchEvent \cup {None, NoEvent}]
  /\ dispatched \in [Slot -> Replica \cup {None}]
  /\ outstanding \in [Replica -> Int]
  /\ phase \in [Slot -> Phase]
  /\ at \in [Slot -> Replica \cup {None}]
  /\ eligibleEv \in [Slot -> DispatchEvent \cup {NoEvent}]
  /\ mode \in [Replica -> Mode]
  /\ stepEv \in [Replica -> StepEvent \cup {NoEvent}]
  /\ fstate \in [Replica -> ReplicaState]
  /\ phaseEv \in [Replica -> PhaseEvent \cup {NoEvent}]
  /\ timeouts \subseteq TimeoutEvent /\ sends \subseteq ReqId
  /\ dispatches \subseteq DispatchEvent /\ eligibles \subseteq DispatchEvent
  /\ steps \subseteq StepEvent /\ phaseEnds \subseteq PhaseEvent
  /\ params \in Params /\ crashes \in Nat /\ patches \in Nat /\ late \in BOOLEAN

(* A request that has not ended is held by exactly one module - the router   *)
(* while pending, else the replica it was dispatched to - and the router's   *)
(* idea of who holds it is the replica's own.  Otherwise nobody would ever   *)
(* end it, or two would (router/module.ts onEnded, replica/module.ts).       *)
HeldOnce ==
  \A s \in Slot :
    /\ live[s] = 1 <=> (pending[s] # None \/ dispatched[s] # None)
    /\ ~(pending[s] # None /\ dispatched[s] # None)
    /\ at[s] = dispatched[s]
    /\ phase[s] # "none" <=> dispatched[s] # None

(* A session in flight and its live request name each other, so no session   *)
(* ever has two outstanding requests and no request outlives its session's   *)
(* interest in it (load/sessions.ts: in flight or pending, never both).      *)
OneRequestPerSession ==
  /\ \A c \in Session :
       /\ sess[c].st = "inFlight" <=> slotOf[c] # None
       /\ slotOf[c] # None => live[slotOf[c]] = 1 /\ reqId[slotOf[c]] = IdOf(c)
  /\ \A s \in Slot : live[s] = 1 => slotOf[reqId[s][1]] = s

(* No queued event is stale: the handler of each one finds the state it was  *)
(* scheduled for, so none of the handlers' throws is ever reached.           *)
NoStaleEvent ==
  /\ \A e \in timeouts : timeoutEv[e[2][1]] = e /\ slotOf[e[2][1]] = e[1] /\ reqId[e[1]] = e[2]
  /\ \A e \in dispatches : pending[e[1]] = e /\ reqId[e[1]] = e[2]
  /\ \A e \in eligibles : eligibleEv[e[1]] = e /\ phase[e[1]] = "arriving" /\ at[e[1]] = e[3]
  /\ \A e \in sends : sessEv[e[1]] = e /\ sess[e[1]].st = "pending" /\ IdOf(e[1]) = e
  /\ \A e \in steps : stepEv[e[1]] = e /\ mode[e[1]] = e[2]
  /\ \A e \in phaseEnds : phaseEv[e[1]] = e /\ fstate[e[1]] = e[2]

(* The router's outstanding count of a replica is exactly the number of      *)
(* requests dispatched to it and not ended, through reroutes, refusals       *)
(* inside the dispatch notice, crashes and timeouts.                         *)
OutstandingExact ==
  \A r \in Replica : outstanding[r] = Cardinality({s \in Slot : dispatched[s] = r})

(* Only a ready replica holds requests or has a step under way: a crash      *)
(* fails everything at once and nothing gets in before it is ready again.    *)
DeadHoldsNothing ==
  \A r \in Replica : fstate[r] # "ready" =>
    /\ \A s \in Slot : at[s] # r
    /\ mode[r] = "idle" /\ \A e \in steps : e[1] # r

(* The router keeps every ready replica in rotation and, besides those, only *)
(* crashed ones it has not heard about: a crash during recovery must not     *)
(* bring a replica back into rotation, nor a recovery leave it out.          *)
RoutableView ==
  \A r \in Replica :
    /\ fstate[r] = "ready" => r \in routable
    /\ r \in routable => fstate[r] \in {"ready", "crashed"}

(* A timeout is armed only while its request waits for a first token, so a   *)
(* request that has answered is never cancelled by its client.               *)
TimeoutBeforeToken ==
  /\ \A e \in timeouts : ~first[e[1]]
  /\ \A s \in Slot : outcome[s] = "timedOut" => ~first[s]

(* While a request waits at a ready replica, that replica has a step or kick *)
(* under way (its event may lie past the day's end): none is left unserved.  *)
NoIdleWithWork ==
  \A r \in Replica :
    (\E s \in Slot : at[s] = r /\ phase[s] \in {"waiting", "running"}) => mode[r] # "idle"

LiveSlots == {s \in Slot : live[s] = 1}

(* When a request is taken in, the requests that have not ended - at the      *)
(* router, on their way or on a replica, whatever the router counts - are no  *)
(* more than the cap in force at that moment allows, though crashes and       *)
(* parameter changes may have shrunk it below what was in flight              *)
(* (router/module.ts: admission control counts exactly, without signal delay).*)
AdmissionGate ==
  [][ (LiveSlots' \ LiveSlots # {} /\ params.limit # None) =>
        Cardinality(LiveSlots') <= params.limit * Cardinality(routable) ]_vars

(* A slot leaves its request only when the request ends: what the free list   *)
(* hands out is never the slot of a live request, however often slots were    *)
(* released and taken again (shared/requests.ts allocRequest).                *)
SlotNotReused ==
  [][ \A s \in Slot : live[s] = 1 => live'[s] # 0 /\ reqId'[s] = reqId[s] ]_vars

(* The client, the table and the queue agree: every pending event is the one *)
(* its holder's handle names, its handler will find the state it was         *)
(* scheduled for, and a session in flight and its request name each other.   *)
EventsExact == OneRequestPerSession /\ NoStaleEvent

(* What the router believes of the fleet is so: its rotation follows the     *)
(* replicas' states, and its counts the requests they hold.                  *)
RouterTrue == RoutableView /\ OutstandingExact

(* A replica that is not ready holds nothing, and one that holds work does   *)
(* not idle.                                                                 *)
ReplicasTrue == DeadHoldsNothing /\ NoIdleWithWork

(* None of the checks the code ships ever fails: every handle a module keeps *)
(* names an event that is still queued, or the day ran out for it, and every *)
(* queue, count and state they compare agrees (invariants.ts of each).       *)
AssertsHold ==
  AssertLoadInvariants /\ AssertRequestTable /\ AssertRouterInvariants
    /\ AssertFailureInvariants /\ AssertQueues /\ AssertSchedule

(* What no step may do, whatever it is: bring more requests into the system  *)
(* than the cap allows, or hand the slot of a live request to another one.   *)
StepsLegal == AdmissionGate /\ SlotNotReused

-----------------------------------------------------------------------------
(* Progress.  Fairness is that of simulated time: every queued event lies at *)
(* a finite time and fires unless it is cancelled.  The engine steps         *)
(* abstract token counts away, so that a running request keeps needing only  *)
(* finitely many steps, and that the waiting head is admitted again and      *)
(* again, is assumed here; Served of ReplicaScheduler says it of the real    *)
(* scheduler.                                                                *)

Finishes(s) == \E r \in Replica : StepEndDue(r) /\ live[s] = 1 /\ outcome'[s] = "finished"
GetsAdmitted(s) == \E r \in Replica :
                     (StepEndDue(r) \/ KickDue(r)) /\ phase[s] = "waiting" /\ phase'[s] = "running"

Sends == \E e \in sends : SendDue(e)
Dispatches == \E e \in dispatches : DispatchDue(e)
BecomesEligible == \E e \in eligibles : EligibleDue(e)
PhaseEnds == \E e \in phaseEnds : PhaseEndDue(e)

Fairness ==
  /\ WF_vars(Sends) /\ WF_vars(Dispatches) /\ WF_vars(BecomesEligible) /\ WF_vars(PhaseEnds)
  /\ \A r \in Replica : WF_vars(KickDue(r)) /\ WF_vars(StepEndDue(r))
  /\ \A s \in Slot : SF_vars(Finishes(s)) /\ SF_vars(GetsAdmitted(s))

(* A session that has started reaches its end: no crash, reroute, refusal,   *)
(* timeout or preemption leaves it waiting for an answer nobody will send.   *)
SessionsEnd == \A c \in Session : sess[c].st # "new" ~> sess[c].st = "closed"

(* A replica that crashed comes back. *)
ReplicasRecover == \A r \in Replica : fstate[r] # "ready" ~> fstate[r] = "ready"

(* After a crash, and whatever it meets, the fleet serves again. *)
FleetRecovers == SessionsEnd /\ ReplicasRecover
=============================================================================
