---------------------------- MODULE FleetProofs ----------------------------
(* Proofs about Fleet, for any number of sessions, replicas and slots. *)
EXTENDS Fleet, FiniteSetTheorems, TLAPS

-----------------------------------------------------------------------------
(* Type correctness, module by module. *)

ClientType ==
  /\ sess \in [Session -> SessionRec]
  /\ slotOf \in [Session -> Slot \cup {None}]
  /\ timeoutEv \in [Session -> TimeoutEvent \cup {NoEvent}]
  /\ sessEv \in [Session -> ReqId \cup {NoEvent}]
  /\ timeouts \subseteq TimeoutEvent /\ sends \subseteq ReqId

TableType ==
  /\ live \in [Slot -> 0..2]
  /\ freeSlots \in [Slot -> Nat] /\ pendingFree \in [Slot -> Nat]
  /\ reqId \in [Slot -> ReqId \cup {None}]
  /\ outcome \in [Slot -> Outcome \cup {None}]
  /\ first \in [Slot -> BOOLEAN]

RouterType ==
  /\ routable \subseteq Replica
  /\ pending \in [Slot -> DispatchEvent \cup {None, NoEvent}]
  /\ dispatched \in [Slot -> Replica \cup {None}]
  /\ outstanding \in [Replica -> Int]
  /\ dispatches \subseteq DispatchEvent

EngineType ==
  /\ phase \in [Slot -> Phase]
  /\ at \in [Slot -> Replica \cup {None}]
  /\ eligibleEv \in [Slot -> DispatchEvent \cup {NoEvent}]
  /\ mode \in [Replica -> Mode]
  /\ stepEv \in [Replica -> StepEvent \cup {NoEvent}]
  /\ eligibles \subseteq DispatchEvent /\ steps \subseteq StepEvent

FailureType ==
  /\ fstate \in [Replica -> ReplicaState]
  /\ phaseEv \in [Replica -> PhaseEvent \cup {NoEvent}]
  /\ phaseEnds \subseteq PhaseEvent /\ crashes \in Nat

DayType == params \in Params /\ patches \in Nat /\ late \in BOOLEAN

(* The type invariant is the conjunction of the types of the modules. *)
LEMMA TypeParts ==
  /\ TypeOK <=> ClientType /\ TableType /\ RouterType /\ EngineType /\ FailureType /\ DayType
  /\ TypeOK' <=> ClientType' /\ TableType' /\ RouterType' /\ EngineType' /\ FailureType' /\ DayType'
BY DEF TypeOK, ClientType, TableType, RouterType, EngineType, FailureType, DayType

(* A module no action touches keeps its type. *)
LEMMA UnchangedTypes ==
  /\ ClientType /\ UNCHANGED client => ClientType'
  /\ TableType /\ UNCHANGED table => TableType'
  /\ RouterType /\ UNCHANGED router => RouterType'
  /\ EngineType /\ UNCHANGED engine => EngineType'
  /\ FailureType /\ UNCHANGED failure => FailureType'
  /\ DayType /\ UNCHANGED day => DayType'
<1>1. ClientType /\ UNCHANGED client => ClientType'
  BY DEF ClientType, client
<1>2. TableType /\ UNCHANGED table => TableType'
  BY DEF TableType, table
<1>3. RouterType /\ UNCHANGED router => RouterType'
  BY DEF RouterType, router
<1>4. EngineType /\ UNCHANGED engine => EngineType'
  BY DEF EngineType, engine
<1>5. FailureType /\ UNCHANGED failure => FailureType'
  BY DEF FailureType, failure
<1>6. DayType /\ UNCHANGED day => DayType'
  BY DEF DayType, day
<1> QED BY <1>1, <1>2, <1>3, <1>4, <1>5, <1>6

(* A session record stays one when its request ends. *)
LEMMA AfterEndType ==
  ASSUME DayType, NEW x \in SessionRec, NEW o, NEW over, NEW lost
  PROVE  AfterEnd(x, o, over, lost) \in SessionRec
<1>1. /\ x = [st |-> x.st, turns |-> x.turns, turn |-> x.turn, attempt |-> x.attempt]
      /\ x.turns \in 1..MaxTurns /\ x.turn \in 1..MaxTurns /\ x.attempt \in 0..MaxRetries
  BY DEF SessionRec
<1>2. params.retries \in 0..MaxRetries
  BY DEF DayType, Params
<1>3. MaxTurns \in Nat /\ MaxRetries \in Nat
  BY FleetAssumption DEF FleetAssumption
<1> DEFINE rec(st, turn, attempt) ==
             [st |-> st, turns |-> x.turns, turn |-> turn, attempt |-> attempt]
<1>4. ASSUME NEW st \in SessionPhase, NEW turn \in 1..MaxTurns, NEW attempt \in 0..MaxRetries
      PROVE  rec(st, turn, attempt) \in SessionRec
  BY <1>1, <1>4 DEF SessionRec
<1> DEFINE again == IF lost THEN "closed" ELSE "pending"
<1>5. again \in SessionPhase /\ "closed" \in SessionPhase
  BY DEF SessionPhase
<1>6. CASE (o # "finished" /\ x.attempt >= params.retries)
           \/ (o = "finished" /\ (x.turn >= x.turns \/ over))
  <2>1. AfterEnd(x, o, over, lost) = rec("closed", x.turn, x.attempt)
    BY <1>1, <1>6 DEF AfterEnd
  <2> QED BY <2>1, <1>1, <1>4, <1>5
<1>7. CASE o # "finished" /\ ~(x.attempt >= params.retries)
  <2>1. AfterEnd(x, o, over, lost) = rec(again, x.turn, x.attempt + 1)
    BY <1>1, <1>7 DEF AfterEnd
  <2>2. x.attempt + 1 \in 0..MaxRetries
    BY <1>1, <1>2, <1>3, <1>7
  <2> QED BY <2>1, <2>2, <1>1, <1>4, <1>5
<1>8. CASE o = "finished" /\ ~(x.turn >= x.turns \/ over)
  <2>1. AfterEnd(x, o, over, lost) = rec(again, x.turn + 1, 0)
    BY <1>1, <1>8 DEF AfterEnd
  <2>2. x.turn + 1 \in 1..MaxTurns /\ 0 \in 0..MaxRetries
    BY <1>1, <1>3, <1>8
  <2> QED BY <2>1, <2>2, <1>1, <1>4, <1>5
<1> QED BY <1>6, <1>7, <1>8

LEMMA ReqIdOfRec ==
  ASSUME NEW c \in Session, NEW x \in SessionRec
  PROVE  <<c, x.turn, x.attempt>> \in ReqId
BY DEF SessionRec, ReqId

(* The client handles the end of any set of requests. *)
LEMMA ClientEndsType ==
  ASSUME ClientType, DayType, NEW E, NEW o, NEW tokened, ClientEnds(E, o, tokened)
  PROVE  ClientType'
<1> DEFINE ended == {c \in Session : slotOf[c] \in E}
           quiet == Disarmed(ended, tokened)
<1>1. PICK over \in SUBSET ended, lost \in SUBSET (IF late THEN ended ELSE {}) :
        LET next(c) == AfterEnd(sess[c], o, c \in over, c \in lost)
            again   == {c \in ended : next(c).st = "pending"}
            evOf(c) == <<c, next(c).turn, next(c).attempt>>
        IN  /\ sess' = [c \in Session |-> IF c \in ended THEN next(c) ELSE sess[c]]
            /\ slotOf' = [c \in Session |-> IF c \in ended THEN None ELSE slotOf[c]]
            /\ timeoutEv' = [c \in Session |-> IF c \in quiet THEN NoEvent ELSE timeoutEv[c]]
            /\ timeouts' = timeouts \ {timeoutEv[c] : c \in quiet}
            /\ sessEv' = [c \in Session |-> IF c \in again THEN evOf(c) ELSE sessEv[c]]
            /\ sends' = sends \cup {evOf(c) : c \in again}
  BY Zenon DEF ClientEnds
<1> DEFINE next(c) == AfterEnd(sess[c], o, c \in over, c \in lost)
           evOf(c) == <<c, next(c).turn, next(c).attempt>>
           again == {c \in ended : next(c).st = "pending"}
<1>2. \A c \in Session : next(c) \in SessionRec
  BY AfterEndType DEF ClientType
<1>3. \A c \in Session : evOf(c) \in ReqId
  BY <1>2, ReqIdOfRec
<1> HIDE DEF next, evOf
<1>4. sess' = [c \in Session |-> IF c \in ended THEN next(c) ELSE sess[c]]
  BY <1>1 DEF next
<1>5. sessEv' = [c \in Session |-> IF c \in again THEN evOf(c) ELSE sessEv[c]]
  BY <1>1 DEF next, evOf
<1>6. sends' = sends \cup {evOf(c) : c \in again}
  BY <1>1 DEF next, evOf
<1>7. sess' \in [Session -> SessionRec]
  BY <1>2, <1>4 DEF ClientType
<1>8. slotOf' \in [Session -> Slot \cup {None}] /\ timeoutEv' \in [Session -> TimeoutEvent \cup {NoEvent}]
  BY <1>1 DEF ClientType
<1>9. sessEv' \in [Session -> ReqId \cup {NoEvent}] /\ sends' \subseteq ReqId
  BY <1>3, <1>5, <1>6 DEF ClientType
<1>10. timeouts' \subseteq TimeoutEvent
  BY <1>1 DEF ClientType
<1> QED BY <1>7, <1>8, <1>9, <1>10 DEF ClientType

LEMMA TableEndsType ==
  ASSUME TableType, NEW E, NEW o \in Outcome, TableEnds(E, o), first' \in [Slot -> BOOLEAN]
  PROVE  TableType'
BY DEF TableType, TableEnds, Outcome

(* What ended requests take off the outstanding counts are numbers. *)
LEMMA OutstandingType ==
  ASSUME RouterType, NEW E \in SUBSET Slot,
         outstanding' = [r \in Replica |->
                           outstanding[r] - Cardinality({s \in E : dispatched[s] = r})]
  PROVE  outstanding' \in [Replica -> Int]
<1>1. \A r \in Replica : Cardinality({s \in E : dispatched[s] = r}) \in Int
  <2> TAKE r \in Replica
  <2>1. IsFiniteSet({s \in E : dispatched[s] = r})
    BY FS_Subset, FleetAssumption DEF FleetAssumption
  <2> QED BY <2>1, FS_CardinalityType
<1> DEFINE n(r) == Cardinality({s \in E : dispatched[s] = r})
<1>2. outstanding' = [r \in Replica |-> outstanding[r] - n(r)]
  OBVIOUS
<1>3. \A r \in Replica : n(r) \in Int
  BY <1>1
<1> HIDE DEF n
<1> QED BY <1>2, <1>3 DEF RouterType

LEMMA RouterEndsType ==
  ASSUME RouterType, NEW E \in SUBSET Slot, RouterEnds(E)
  PROVE  RouterType'
<1>1. outstanding' \in [Replica -> Int]
  BY OutstandingType DEF RouterEnds
<1> QED BY <1>1 DEF RouterType, RouterEnds

LEMMA AllocRequestType ==
  ASSUME TableType, NEW s \in Allocatable, NEW id \in ReqId, NEW code \in 0..2,
         NEW o \in Outcome \cup {None}, AllocRequest(s, id, code, o)
  PROVE  TableType'
<1>1. s \in Slot /\ freeSlots[s] + pendingFree[s] > 0
  BY DEF Allocatable
<1>2. freeSlots' \in [Slot -> Nat] /\ pendingFree' \in [Slot -> Nat]
  BY <1>1 DEF TableType, AllocRequest, Emptied
<1> QED BY <1>2 DEF TableType, AllocRequest

LEMMA MakeEligibleType ==
  ASSUME EngineType, NEW s \in Slot, NEW r \in Replica, MakeEligible(s, r)
  PROVE  /\ phase' \in [Slot -> Phase] /\ mode' \in [Replica -> Mode]
         /\ stepEv' \in [Replica -> StepEvent \cup {NoEvent}] /\ steps' \subseteq StepEvent
BY DEF EngineType, MakeEligible, Kicks, Phase, Mode, StepEvent

LEMMA FinishAndComposeType ==
  ASSUME EngineType, NEW r \in Replica, NEW E, FinishAndCompose(r, E)
  PROVE  EngineType'
<1> DEFINE run == Held(r, "running") \ E
           wait == Held(r, "waiting")
<1>1. PICK pre \in SUBSET run, adm \in SUBSET wait, lost \in Lossy :
        LET busy == (run \ pre) \cup adm # {} IN
        /\ pre # {} => adm = {}
        /\ run \cup wait # {} => busy
        /\ phase' = [s \in Slot |-> IF s \in E THEN "none"
                                    ELSE IF s \in pre THEN "waiting"
                                    ELSE IF s \in adm THEN "running" ELSE phase[s]]
        /\ at' = [s \in Slot |-> IF s \in E THEN None ELSE at[s]]
        /\ mode' = [mode EXCEPT ![r] = IF busy THEN "step" ELSE "idle"]
        /\ stepEv' = [stepEv EXCEPT ![r] = Handle(<<r, "step">>, ~busy \/ lost)]
        /\ steps' = (steps \ {stepEv[r]}) \cup Queued(<<r, "step">>, ~busy \/ lost)
  BY Zenon DEF FinishAndCompose
<1>2. <<r, "step">> \in StepEvent
  BY DEF StepEvent
<1>3. phase' \in [Slot -> Phase] /\ at' \in [Slot -> Replica \cup {None}]
  BY <1>1 DEF EngineType, Phase
<1>4. mode' \in [Replica -> Mode]
  BY <1>1 DEF EngineType, Mode
<1>5. stepEv' \in [Replica -> StepEvent \cup {NoEvent}] /\ steps' \subseteq StepEvent
  BY <1>1, <1>2 DEF EngineType, Handle, Queued
<1>6. UNCHANGED <<eligibleEv, eligibles>>
  BY DEF FinishAndCompose
<1> QED BY <1>3, <1>4, <1>5, <1>6 DEF EngineType

(* A session record stays one when only its phase changes. *)
LEMMA RecPhaseType ==
  ASSUME ClientType, NEW c \in Session, NEW st \in SessionPhase
  PROVE  /\ [sess EXCEPT ![c].st = st] \in [Session -> SessionRec]
         /\ IdOf(c) \in ReqId
<1>1. sess[c] \in SessionRec
  BY DEF ClientType
<1>2. [sess[c] EXCEPT !.st = st] \in SessionRec
  BY <1>1 DEF SessionRec
<1>3. [sess EXCEPT ![c].st = st] \in [Session -> SessionRec]
  BY <1>2 DEF ClientType
<1> QED BY <1>1, <1>3, ReqIdOfRec DEF IdOf

LEMMA SendAdmittedType ==
  ASSUME TypeOK, NEW c \in Session, NEW s \in Allocatable, NEW fired, SendAdmitted(c, s, fired)
  PROVE  TypeOK'
<1>0. /\ ClientType /\ TableType /\ RouterType /\ EngineType /\ FailureType /\ DayType
      /\ s \in Slot
  BY TypeParts DEF Allocatable
<1> DEFINE id == IdOf(c)
<1>1. id \in ReqId /\ [sess EXCEPT ![c].st = "inFlight"] \in [Session -> SessionRec]
  BY <1>0, RecPhaseType DEF SessionPhase
<1>2. TableType'
  <2>1. AllocRequest(s, id, 1, None)
    BY DEF SendAdmitted
  <2> QED BY <2>1, <1>0, <1>1, AllocRequestType
<1>3. ClientType'
  <2>1. PICK arm \in BOOLEAN :
          /\ timeoutEv' = [timeoutEv EXCEPT ![c] = Handle(<<s, id>>, ~arm)]
          /\ timeouts' = timeouts \cup Queued(<<s, id>>, ~arm)
    BY DEF SendAdmitted, DayType
  <2>2. <<s, id>> \in TimeoutEvent
    BY <1>0, <1>1 DEF TimeoutEvent
  <2>3. timeoutEv' \in [Session -> TimeoutEvent \cup {NoEvent}] /\ timeouts' \subseteq TimeoutEvent
    BY <1>0, <2>1, <2>2 DEF ClientType, Handle, Queued
  <2>4. /\ sess' = [sess EXCEPT ![c].st = "inFlight"]
        /\ slotOf' = [slotOf EXCEPT ![c] = s]
        /\ sessEv' = [sessEv EXCEPT ![c] = NoEvent] /\ sends' = sends \ fired
    BY DEF SendAdmitted
  <2> QED BY <1>0, <1>1, <2>3, <2>4 DEF ClientType
<1>4. RouterType'
  <2>1. PICK r \in routable, lost \in Lossy :
          /\ pending' = [pending EXCEPT ![s] = Handle(<<s, id, r>>, lost)]
          /\ dispatches' = dispatches \cup Queued(<<s, id, r>>, lost)
    BY DEF SendAdmitted
  <2>2. <<s, id, r>> \in DispatchEvent
    BY <1>0, <1>1 DEF DispatchEvent, RouterType
  <2>3. UNCHANGED <<routable, dispatched, outstanding>>
    BY DEF SendAdmitted
  <2> QED BY <1>0, <2>1, <2>2, <2>3 DEF RouterType, Handle, Queued
<1>5. UNCHANGED <<engine, failure, day>>
  BY DEF SendAdmitted
<1>6. EngineType' /\ FailureType' /\ DayType'
  BY <1>0, <1>5, UnchangedTypes
<1> QED BY <1>2, <1>3, <1>4, <1>6, TypeParts

LEMMA SendRejectedType ==
  ASSUME TypeOK, NEW c \in Session, NEW s \in Allocatable, NEW fired, SendRejected(c, s, fired)
  PROVE  TypeOK'
<1>0. ClientType /\ TableType /\ RouterType /\ EngineType /\ FailureType /\ DayType
  BY TypeParts
<1>1. PICK lost \in Lossy :
       LET next == AfterEnd(sess[c], "rejected", FALSE, lost)
           ev   == <<c, next.turn, next.attempt>>
           again == next.st = "pending"
       IN  /\ sess' = [sess EXCEPT ![c] = next]
           /\ sessEv' = [sessEv EXCEPT ![c] = Handle(ev, ~again)]
           /\ sends' = (sends \ fired) \cup Queued(ev, ~again)
  BY DEF SendRejected
<1> DEFINE next == AfterEnd(sess[c], "rejected", FALSE, lost)
           ev   == <<c, next.turn, next.attempt>>
<1>2. next \in SessionRec
  BY <1>0, AfterEndType DEF ClientType
<1>3. ev \in ReqId
  BY <1>2, ReqIdOfRec
<1> HIDE DEF next
<1>4. /\ sess' = [sess EXCEPT ![c] = next]
      /\ sessEv' = [sessEv EXCEPT ![c] = Handle(ev, next.st # "pending")]
      /\ sends' = (sends \ fired) \cup Queued(ev, next.st # "pending")
  BY <1>1 DEF next
<1>5. UNCHANGED <<slotOf, timeoutEv, timeouts, router, engine, failure, day>>
  BY DEF SendRejected
<1>6. ClientType'
  BY <1>0, <1>2, <1>3, <1>4, <1>5 DEF ClientType, Handle, Queued
<1>7. TableType'
  <2>1. IdOf(c) \in ReqId
    BY <1>0, RecPhaseType DEF SessionPhase
  <2>2. AllocRequest(s, IdOf(c), 2, "rejected")
    BY DEF SendRejected
  <2>3. "rejected" \in Outcome
    BY DEF Outcome
  <2> QED BY <1>0, <2>1, <2>2, <2>3, AllocRequestType
<1>8. RouterType' /\ EngineType' /\ FailureType' /\ DayType'
  BY <1>0, <1>5, UnchangedTypes
<1> QED BY <1>6, <1>7, <1>8, TypeParts

LEMMA InjectExtraType ==
  ASSUME TypeOK, NEW c \in Session, InjectExtra(c)
  PROVE  TypeOK'
<1>0. ClientType /\ TableType /\ RouterType /\ EngineType /\ FailureType /\ DayType
  BY TypeParts
<1>1. IdOf(c) \in ReqId /\ [sess EXCEPT ![c].st = "pending"] \in [Session -> SessionRec]
  BY <1>0, RecPhaseType DEF SessionPhase
<1>2. ClientType'
  BY <1>0, <1>1 DEF InjectExtra, ClientType
<1>3. UNCHANGED <<table, router, engine, failure, day>>
  BY DEF InjectExtra
<1>4. TableType' /\ RouterType' /\ EngineType' /\ FailureType' /\ DayType'
  BY <1>0, <1>3, UnchangedTypes
<1> QED BY <1>2, <1>4, TypeParts

LEMMA DispatchToType ==
  ASSUME TypeOK, NEW e \in dispatches, NEW r \in Replica, DispatchTo(e, r),
         reqId[e[1]] \in ReqId
  PROVE  TypeOK'
<1>0. ClientType /\ TableType /\ RouterType /\ EngineType /\ FailureType /\ DayType
  BY TypeParts
<1> DEFINE s == e[1]
<1>1. s \in Slot
  BY <1>0 DEF RouterType, DispatchEvent
<1>2. RouterType'
  <2>1. /\ dispatches' = dispatches \ {e} /\ UNCHANGED routable
        /\ pending' = [pending EXCEPT ![s] = None]
        /\ dispatched' = [dispatched EXCEPT ![s] = r]
        /\ outstanding' = [outstanding EXCEPT ![r] = @ + 1]
    BY DEF DispatchTo
  <2>2. pending' \in [Slot -> DispatchEvent \cup {None, NoEvent}]
    BY <1>0, <2>1 DEF RouterType
  <2>3. dispatched' \in [Slot -> Replica \cup {None}]
    BY <1>0, <2>1 DEF RouterType
  <2>4. outstanding' \in [Replica -> Int]
    BY <1>0, <2>1 DEF RouterType
  <2> QED BY <1>0, <2>1, <2>2, <2>3, <2>4 DEF RouterType
<1>3. at' = [at EXCEPT ![s] = r]
  BY DEF DispatchTo
<1>4. EngineType'
  <2>1. at' \in [Slot -> Replica \cup {None}]
    BY <1>0, <1>3 DEF EngineType
  <2>2. CASE HasOverhead
    <3>1. PICK lost \in Lossy :
              /\ phase' = [phase EXCEPT ![s] = "arriving"]
              /\ eligibleEv' = [eligibleEv EXCEPT ![s] = Handle(<<s, reqId[s], r>>, lost)]
              /\ eligibles' = eligibles \cup Queued(<<s, reqId[s], r>>, lost)
              /\ UNCHANGED <<mode, stepEv, steps>>
      BY <2>2 DEF DispatchTo
    <3>2. <<s, reqId[s], r>> \in DispatchEvent
      BY <1>1 DEF DispatchEvent
    <3>3. eligibleEv' \in [Slot -> DispatchEvent \cup {NoEvent}] /\ eligibles' \subseteq DispatchEvent
      BY <1>0, <3>1, <3>2 DEF EngineType, Handle, Queued
    <3> QED BY <1>0, <2>1, <3>1, <3>3 DEF EngineType, Phase
  <2>3. CASE ~HasOverhead
    <3>1. MakeEligible(s, r) /\ UNCHANGED <<eligibleEv, eligibles>>
      BY <2>3 DEF DispatchTo
    <3>2. /\ phase' \in [Slot -> Phase] /\ mode' \in [Replica -> Mode]
          /\ stepEv' \in [Replica -> StepEvent \cup {NoEvent}] /\ steps' \subseteq StepEvent
      BY <1>0, <1>1, <3>1, MakeEligibleType
    <3> QED BY <1>0, <2>1, <3>1, <3>2 DEF EngineType
  <2> QED BY <2>2, <2>3
<1>5. ClientType' /\ TableType' /\ FailureType' /\ DayType'
  BY <1>0, UnchangedTypes DEF DispatchTo
<1> QED BY <1>2, <1>4, <1>5, TypeParts

LEMMA DispatchEndsType ==
  ASSUME TypeOK, NEW e \in dispatches, NEW o \in Outcome, DispatchEnds(e, o)
  PROVE  TypeOK'
<1>0. ClientType /\ TableType /\ RouterType /\ EngineType /\ FailureType /\ DayType
  BY TypeParts
<1>1. {e[1]} \in SUBSET Slot
  BY <1>0 DEF RouterType, DispatchEvent
<1>2. /\ ClientEnds({e[1]}, o, {}) /\ TableEnds({e[1]}, o) /\ RouterEnds({e[1]})
      /\ UNCHANGED <<first, engine, failure, day>>
  BY DEF DispatchEnds
<1>3. ClientType'
  BY <1>0, <1>2, ClientEndsType
<1>4. TableType'
  BY <1>0, <1>2, TableEndsType DEF TableType
<1>5. RouterType'
  BY <1>0, <1>1, <1>2, RouterEndsType
<1>6. EngineType' /\ FailureType' /\ DayType'
  BY <1>0, <1>2, UnchangedTypes
<1> QED BY <1>3, <1>4, <1>5, <1>6, TypeParts

LEMMA EligibleDueType ==
  ASSUME TypeOK, NEW e \in eligibles, EligibleDue(e)
  PROVE  TypeOK'
<1>0. ClientType /\ TableType /\ RouterType /\ EngineType /\ FailureType /\ DayType
  BY TypeParts
<1>1. e[1] \in Slot /\ e[3] \in Replica
  BY <1>0 DEF EngineType, DispatchEvent
<1>2. /\ eligibles' = eligibles \ {e} /\ eligibleEv' = [eligibleEv EXCEPT ![e[1]] = NoEvent]
      /\ MakeEligible(e[1], e[3]) /\ UNCHANGED <<at, client, table, router, failure, day>>
  BY DEF EligibleDue
<1>3. /\ phase' \in [Slot -> Phase] /\ mode' \in [Replica -> Mode]
      /\ stepEv' \in [Replica -> StepEvent \cup {NoEvent}] /\ steps' \subseteq StepEvent
  BY <1>0, <1>1, <1>2, MakeEligibleType
<1>4. EngineType'
  BY <1>0, <1>2, <1>3 DEF EngineType
<1>5. ClientType' /\ TableType' /\ RouterType' /\ FailureType' /\ DayType'
  BY <1>0, <1>2, UnchangedTypes
<1> QED BY <1>4, <1>5, TypeParts

LEMMA TimeoutDueType ==
  ASSUME TypeOK, NEW e \in timeouts, TimeoutDue(e)
  PROVE  TypeOK'
<1>0. ClientType /\ TableType /\ RouterType /\ EngineType /\ FailureType /\ DayType
  BY TypeParts
<1> DEFINE s == e[1]
           E == IF pending[s] # None \/ phase[s] # "none" THEN {s} ELSE {}
<1>1. E \in SUBSET Slot
  BY <1>0 DEF ClientType, TimeoutEvent
<1>2. /\ ClientEnds(E, "timedOut", {e[2][1]}) /\ TableEnds(E, "timedOut") /\ RouterEnds(E)
      /\ phase' = [phase EXCEPT ![s] = "none"]
      /\ at' = [at EXCEPT ![s] = None]
      /\ eligibleEv' = [eligibleEv EXCEPT ![s] = NoEvent]
      /\ eligibles' = eligibles \ {eligibleEv[s]}
      /\ mode' \in {[mode EXCEPT ![at[s]] = "idle"], mode}
      /\ stepEv' \in {[stepEv EXCEPT ![at[s]] = NoEvent], stepEv}
      /\ steps' \in {steps \ {stepEv[at[s]]}, steps}
      /\ UNCHANGED <<first, failure, day>>
  BY DEF TimeoutDue
<1> HIDE DEF E
<1>3. ClientType'
  BY <1>0, <1>2, ClientEndsType
<1>4. TableType'
  BY <1>0, <1>2, TableEndsType DEF TableType, Outcome
<1>5. RouterType'
  BY <1>0, <1>1, <1>2, RouterEndsType
<1>6. EngineType'
  BY <1>0, <1>2 DEF EngineType, Phase, Mode
<1>7. FailureType' /\ DayType'
  BY <1>0, <1>2, UnchangedTypes
<1> QED BY <1>3, <1>4, <1>5, <1>6, <1>7, TypeParts

LEMMA KickDueType ==
  ASSUME TypeOK, NEW r \in Replica, KickDue(r)
  PROVE  TypeOK'
<1>0. ClientType /\ TableType /\ RouterType /\ EngineType /\ FailureType /\ DayType
  BY TypeParts
<1>1. EngineType'
  BY <1>0, FinishAndComposeType DEF KickDue
<1>2. ClientType' /\ TableType' /\ RouterType' /\ FailureType' /\ DayType'
  BY <1>0, UnchangedTypes DEF KickDue
<1> QED BY <1>1, <1>2, TypeParts

LEMMA StepEndDueType ==
  ASSUME TypeOK, NEW r \in Replica, StepEndDue(r)
  PROVE  TypeOK'
<1>0. ClientType /\ TableType /\ RouterType /\ EngineType /\ FailureType /\ DayType
  BY TypeParts
<1>1. PICK tokened \in SUBSET {s \in Held(r, "running") : ~first[s]},
           done \in SUBSET Held(r, "running") :
        /\ first' = [s \in Slot |-> first[s] \/ s \in tokened]
        /\ FinishAndCompose(r, done)
        /\ ClientEnds(done, "finished", {c \in Session : slotOf[c] \in tokened})
        /\ TableEnds(done, "finished")
        /\ RouterEnds(done)
  BY DEF StepEndDue
<1>2. done \in SUBSET Slot
  BY <1>1 DEF Held
<1>3. EngineType'
  BY <1>0, <1>1, FinishAndComposeType
<1>4. ClientType'
  BY <1>0, <1>1, ClientEndsType
<1>5. TableType'
  BY <1>0, <1>1, TableEndsType DEF TableType, Outcome
<1>6. RouterType'
  BY <1>0, <1>1, <1>2, RouterEndsType
<1>7. FailureType' /\ DayType'
  BY <1>0, UnchangedTypes DEF StepEndDue
<1> QED BY <1>3, <1>4, <1>5, <1>6, <1>7, TypeParts

LEMMA EnterType ==
  ASSUME TypeOK, NEW r \in Replica, NEW code \in ReplicaState, NEW gone, Enter(r, code, gone)
  PROVE  /\ ClientType' /\ TableType' /\ RouterType' /\ EngineType' /\ DayType'
         /\ fstate' \in [Replica -> ReplicaState]
         /\ phaseEv' \in [Replica -> PhaseEvent \cup {NoEvent}] /\ phaseEnds' \subseteq PhaseEvent
<1>0. ClientType /\ TableType /\ RouterType /\ EngineType /\ FailureType /\ DayType
  BY TypeParts
<1>1. PICK E \in SUBSET Slot :
        /\ phase' = [s \in Slot |-> IF s \in E THEN "none" ELSE phase[s]]
        /\ at' = [s \in Slot |-> IF s \in E THEN None ELSE at[s]]
        /\ eligibleEv' = [s \in Slot |-> IF s \in E THEN NoEvent ELSE eligibleEv[s]]
        /\ eligibles' = eligibles \ {eligibleEv[s] : s \in E}
        /\ ClientEnds(E, "failed", {}) /\ TableEnds(E, "failed")
        /\ dispatched' = [s \in Slot |-> IF s \in E THEN None ELSE dispatched[s]]
        /\ outstanding' = [q \in Replica |->
                             outstanding[q] - Cardinality({s \in E : dispatched[s] = q})]
  <2> DEFINE work == Held(r, "waiting") \cup Held(r, "running")
             fails == code # "ready" /\ (fstate[r] = "ready" \/ work # {} \/ mode[r] # "idle")
             E == IF fails THEN work \cup Held(r, "arriving") ELSE {}
  <2>1. E \in SUBSET Slot
    BY DEF Held
  <2>2. /\ phase' = [s \in Slot |-> IF s \in E THEN "none" ELSE phase[s]]
        /\ at' = [s \in Slot |-> IF s \in E THEN None ELSE at[s]]
        /\ eligibleEv' = [s \in Slot |-> IF s \in E THEN NoEvent ELSE eligibleEv[s]]
        /\ eligibles' = eligibles \ {eligibleEv[s] : s \in E}
        /\ ClientEnds(E, "failed", {}) /\ TableEnds(E, "failed")
        /\ dispatched' = [s \in Slot |-> IF s \in E THEN None ELSE dispatched[s]]
        /\ outstanding' = [q \in Replica |->
                             outstanding[q] - Cardinality({s \in E : dispatched[s] = q})]
    BY Zenon DEF Enter
  <2> HIDE DEF E
  <2> QED BY <2>1, <2>2
<1>2. /\ UNCHANGED <<first, pending, dispatches, day>>
      /\ fstate' = [fstate EXCEPT ![r] = code]
      /\ routable' \subseteq routable \cup {r}
      /\ mode' \in {[mode EXCEPT ![r] = "idle"], mode}
      /\ stepEv' \in {[stepEv EXCEPT ![r] = NoEvent], stepEv}
      /\ steps' \in {steps \ {stepEv[r]}, steps}
  BY DEF Enter, Rotation
<1>3. ClientType' /\ TableType'
  BY <1>0, <1>1, <1>2, ClientEndsType, TableEndsType DEF Outcome, TableType
<1>4. outstanding' \in [Replica -> Int]
  BY <1>0, <1>1, OutstandingType
<1>5. RouterType'
  BY <1>0, <1>1, <1>2, <1>4 DEF RouterType
<1>6. EngineType'
  BY <1>0, <1>1, <1>2 DEF EngineType, Phase, Mode
<1>7. fstate' \in [Replica -> ReplicaState]
  BY <1>0, <1>2 DEF FailureType
<1>8. phaseEv' \in [Replica -> PhaseEvent \cup {NoEvent}] /\ phaseEnds' \subseteq PhaseEvent
  <2>1. code # "ready" => <<r, code>> \in PhaseEvent
    BY DEF PhaseEvent
  <2>2. PICK lost \in BOOLEAN :
          /\ phaseEv' = [phaseEv EXCEPT ![r] = Handle(<<r, code>>, code = "ready" \/ lost)]
          /\ phaseEnds' = (phaseEnds \ {gone}) \cup Queued(<<r, code>>, code = "ready" \/ lost)
    BY DEF Enter, Lossy
  <2> QED BY <1>0, <2>1, <2>2 DEF FailureType, Handle, Queued
<1>9. DayType'
  BY <1>0, <1>2, UnchangedTypes
<1> QED BY <1>3, <1>5, <1>6, <1>7, <1>8, <1>9

LEMMA CrashType ==
  ASSUME TypeOK, NEW r \in Replica, Crash(r)
  PROVE  TypeOK'
<1>1. Enter(r, "crashed", phaseEv[r]) /\ crashes' = crashes + 1 /\ "crashed" \in ReplicaState
  BY DEF Crash, ReplicaState
<1> QED BY <1>1, EnterType, TypeParts DEF FailureType

LEMMA PhaseEndDueType ==
  ASSUME TypeOK, NEW e \in phaseEnds, PhaseEndDue(e)
  PROVE  TypeOK'
<1>1. e[1] \in Replica /\ e[2] \in ReplicaState
  BY TypeParts DEF FailureType, PhaseEvent
<1>2. Enter(e[1], NextPhase[e[2]], e) /\ crashes' = crashes
  BY DEF PhaseEndDue
<1>3. e[2] # "ready"
  BY TypeParts DEF FailureType, PhaseEvent
<1>4. NextPhase[e[2]] \in ReplicaState
  BY <1>1, <1>3 DEF NextPhase, ReplicaState
<1> QED BY <1>1, <1>2, <1>4, EnterType, TypeParts DEF FailureType

-----------------------------------------------------------------------------
(* A request is held exactly once.  HeldOnce is inductive once the slots in  *)
(* use are known to carry an identity, which a dispatch event copies, and    *)
(* the free list and the queue of ended slots to list a slot exactly when it *)
(* is free or has ended: only then is no slot allocated whose request lives. *)

Named == \A s \in Slot : live[s] # 0 => reqId[s] \in ReqId

HeldInv == TypeOK /\ HeldOnce /\ Named /\ AssertRequestTable

(* What allocRequest clears has ended, and what it may pop does not live. *)
LEMMA Reusable ==
  ASSUME HeldInv
  PROVE  /\ Freed = {s \in Slot : live[s] = 2}
         /\ Allocatable = {s \in Slot : live[s] # 1}
<1>1. \A s \in Slot : live[s] \in 0..2
  BY TypeParts DEF HeldInv, TableType
<1>2. \A s \in Slot : /\ freeSlots[s] = IF live[s] = 0 THEN 1 ELSE 0
                      /\ pendingFree[s] = IF live[s] = 2 THEN 1 ELSE 0
  BY DEF HeldInv, AssertRequestTable
<1> QED BY <1>1, <1>2 DEF Freed, Allocatable

(* What allocRequest takes off the lists, and puts back for a request that   *)
(* is rejected as it arrives, keeps them right.                              *)
LEMMA AllocLists ==
  ASSUME HeldInv, NEW s \in Allocatable, NEW id, NEW code \in {1, 2}, NEW o,
         AllocRequest(s, id, code, o)
  PROVE  AssertRequestTable'
<1>1. \A t \in Slot : /\ live'[t] = IF t = s THEN code ELSE IF live[t] = 2 THEN 0 ELSE live[t]
                      /\ freeSlots'[t] = freeSlots[t] + pendingFree[t] - (IF t = s THEN 1 ELSE 0)
                      /\ pendingFree'[t] = IF t = s /\ code = 2 THEN 1 ELSE 0
  BY Reusable DEF AllocRequest, Emptied
<1>2. \A t \in Slot : /\ freeSlots[t] = IF live[t] = 0 THEN 1 ELSE 0
                      /\ pendingFree[t] = IF live[t] = 2 THEN 1 ELSE 0
                      /\ live[t] \in 0..2
  BY TypeParts DEF HeldInv, AssertRequestTable, TableType
<1>3. s \in Slot /\ live[s] # 1
  BY Reusable
<1> QED BY <1>1, <1>2, <1>3 DEF AssertRequestTable

(* Requests E end, wherever they are; every other one stays where it is. *)
LEMMA EndsHeld ==
  ASSUME HeldInv, NEW E \in SUBSET Slot, NEW o, TableEnds(E, o),
         \A s \in E : /\ live[s] = 1 /\ pending'[s] = None /\ dispatched'[s] = None
                      /\ at'[s] = None /\ phase'[s] = "none",
         \A s \in Slot \ E :
                      /\ pending'[s] = pending[s] /\ dispatched'[s] = dispatched[s]
                      /\ at'[s] = at[s] /\ (phase'[s] = "none" <=> phase[s] = "none")
  PROVE  HeldOnce' /\ Named' /\ AssertRequestTable'
<1>1. \A s \in Slot : live'[s] = IF s \in E THEN 2 ELSE live[s]
  BY DEF TableEnds
<1>2. reqId' = reqId
  BY DEF TableEnds
<1>3. HeldOnce'
  BY <1>1 DEF HeldInv, HeldOnce
<1>4. Named'
  BY <1>1, <1>2 DEF HeldInv, Named
<1>5. AssertRequestTable'
  <2>1. \A s \in Slot : /\ freeSlots'[s] = freeSlots[s]
                        /\ pendingFree'[s] = IF s \in E THEN pendingFree[s] + 1 ELSE pendingFree[s]
    BY DEF TableEnds
  <2> QED BY <1>1, <2>1 DEF HeldInv, AssertRequestTable
<1> QED BY <1>3, <1>4, <1>5

(* Nothing a request's holder depends on changes. *)
LEMMA SameHeld ==
  ASSUME HeldInv, UNCHANGED <<live, freeSlots, pendingFree, reqId, pending, dispatched, at>>,
         \A s \in Slot : phase'[s] = "none" <=> phase[s] = "none"
  PROVE  HeldOnce' /\ Named' /\ AssertRequestTable'
BY DEF HeldInv, HeldOnce, Named, AssertRequestTable

LEMMA SendAdmittedHeld ==
  ASSUME HeldInv, NEW c \in Session, NEW s \in Allocatable, NEW fired, SendAdmitted(c, s, fired)
  PROVE  HeldOnce' /\ Named' /\ AssertRequestTable'
<1>1. s \in Slot /\ live[s] # 1 /\ IdOf(c) \in ReqId
  BY TypeParts, RecPhaseType, Reusable DEF HeldInv, SessionPhase
<1>2. \A t \in Slot : /\ live'[t] = IF t = s THEN 1 ELSE IF t \in Freed THEN 0 ELSE live[t]
                      /\ reqId'[t] = IF t = s THEN IdOf(c) ELSE IF t \in Freed THEN None ELSE reqId[t]
  BY DEF SendAdmitted, AllocRequest
<1>3. PICK r \in routable, lost \in Lossy :
        pending' = [pending EXCEPT ![s] = Handle(<<s, IdOf(c), r>>, lost)]
  BY DEF SendAdmitted
<1>4. Handle(<<s, IdOf(c), r>>, lost) # None
  <2>1. r \in Replica
    BY TypeParts DEF HeldInv, RouterType
  <2> QED BY <1>1, <2>1, FleetAssumption DEF FleetAssumption, Handle, ReqId
<1>5. \A t \in Slot : (pending'[t] # None) <=> (t = s \/ pending[t] # None)
  BY <1>1, <1>3, <1>4, TypeParts DEF HeldInv, RouterType
<1>6. UNCHANGED <<dispatched, at, phase>>
  BY DEF SendAdmitted, engine
<1>7. HeldOnce'
  BY <1>1, <1>2, <1>5, <1>6, Reusable DEF HeldInv, HeldOnce
<1>8. Named'
  BY <1>1, <1>2 DEF HeldInv, Named
<1>9. AllocRequest(s, IdOf(c), 1, None)
  BY DEF SendAdmitted
<1> QED BY <1>7, <1>8, <1>9, AllocLists

LEMMA SendRejectedHeld ==
  ASSUME HeldInv, NEW c \in Session, NEW s \in Allocatable, NEW fired, SendRejected(c, s, fired)
  PROVE  HeldOnce' /\ Named' /\ AssertRequestTable'
<1>1. s \in Slot /\ live[s] # 1 /\ IdOf(c) \in ReqId
  BY TypeParts, RecPhaseType, Reusable DEF HeldInv, SessionPhase
<1>2. \A t \in Slot : /\ live'[t] = IF t = s THEN 2 ELSE IF t \in Freed THEN 0 ELSE live[t]
                      /\ reqId'[t] = IF t = s THEN IdOf(c) ELSE IF t \in Freed THEN None ELSE reqId[t]
  BY DEF SendRejected, AllocRequest
<1>3. UNCHANGED <<pending, dispatched, at, phase>>
  BY DEF SendRejected, engine, router
<1>4. HeldOnce'
  BY <1>1, <1>2, <1>3, Reusable DEF HeldInv, HeldOnce
<1>5. Named'
  BY <1>1, <1>2 DEF HeldInv, Named
<1>6. AllocRequest(s, IdOf(c), 2, "rejected")
  BY DEF SendRejected
<1> QED BY <1>4, <1>5, <1>6, AllocLists

LEMMA DispatchDueHeld ==
  ASSUME HeldInv, NEW e \in dispatches, DispatchDue(e)
  PROVE  HeldOnce' /\ Named' /\ AssertRequestTable'
<1> DEFINE s == e[1]
<1>1. s \in Slot /\ pending[s] # None
  BY TypeParts DEF HeldInv, RouterType, DispatchEvent, DispatchDue
<1>2. live[s] = 1 /\ dispatched[s] = None /\ at[s] = None /\ phase[s] = "none"
  <2>1. dispatched[s] = None
    BY <1>1 DEF HeldInv, HeldOnce
  <2> QED BY <1>1, <2>1 DEF HeldInv, HeldOnce
<1>3. ASSUME NEW r \in Replica, DispatchTo(e, r)
      PROVE  HeldOnce' /\ Named' /\ AssertRequestTable'
  <2>1. /\ pending' = [pending EXCEPT ![s] = None]
        /\ dispatched' = [dispatched EXCEPT ![s] = r]
        /\ at' = [at EXCEPT ![s] = r]
        /\ UNCHANGED <<live, freeSlots, pendingFree, reqId>>
    BY <1>3 DEF DispatchTo, table
  <2>2. PICK p \in Phase \ {"none"} : phase' = [phase EXCEPT ![s] = p]
    BY <1>3 DEF DispatchTo, MakeEligible, Phase
  <2>3. r # None
    BY FleetAssumption DEF FleetAssumption
  <2>4. \A t \in Slot : /\ pending'[t] = IF t = s THEN None ELSE pending[t]
                        /\ dispatched'[t] = IF t = s THEN r ELSE dispatched[t]
                        /\ at'[t] = IF t = s THEN r ELSE at[t]
                        /\ phase'[t] = IF t = s THEN p ELSE phase[t]
    BY <1>1, <2>1, <2>2, TypeParts DEF HeldInv, RouterType, EngineType
  <2>5. HeldOnce'
    BY <1>1, <1>2, <2>1, <2>2, <2>3, <2>4 DEF HeldInv, HeldOnce
  <2> QED BY <2>1, <2>5 DEF HeldInv, Named, AssertRequestTable
<1>4. ASSUME NEW o, DispatchEnds(e, o)
      PROVE  HeldOnce' /\ Named' /\ AssertRequestTable'
  <2>1. TableEnds({s}, o) /\ RouterEnds({s}) /\ UNCHANGED <<at, phase>>
    BY <1>4 DEF DispatchEnds, engine
  <2>2. \A t \in Slot : /\ pending'[t] = IF t = s THEN None ELSE pending[t]
                        /\ dispatched'[t] = IF t = s THEN None ELSE dispatched[t]
    BY <2>1 DEF RouterEnds
  <2> QED BY <1>1, <1>2, <2>1, <2>2, EndsHeld
<1>5. \/ \E r \in Replica : DispatchTo(e, r)
      \/ \E o \in Outcome : DispatchEnds(e, o)
  BY <1>1, TypeParts DEF DispatchDue, HeldInv, RouterType, DispatchEvent, Outcome
<1> QED BY <1>3, <1>4, <1>5

LEMMA EligibleDueHeld ==
  ASSUME HeldInv, NEW e \in eligibles, EligibleDue(e)
  PROVE  HeldOnce' /\ Named' /\ AssertRequestTable'
<1>1. phase[e[1]] = "arriving" /\ phase' = [phase EXCEPT ![e[1]] = "waiting"]
  BY DEF EligibleDue, MakeEligible
<1>2. \A s \in Slot : phase'[s] = "none" <=> phase[s] = "none"
  BY <1>1, TypeParts DEF HeldInv, EngineType
<1>3. UNCHANGED <<live, freeSlots, pendingFree, reqId, pending, dispatched, at>>
  BY DEF EligibleDue, table, router
<1> QED BY <1>2, <1>3, SameHeld

LEMMA TimeoutDueHeld ==
  ASSUME HeldInv, NEW e \in timeouts, TimeoutDue(e)
  PROVE  HeldOnce' /\ Named' /\ AssertRequestTable'
<1> DEFINE s == e[1]
           E == IF pending[s] # None \/ phase[s] # "none" THEN {s} ELSE {}
<1>1. s \in Slot
  BY TypeParts DEF HeldInv, ClientType, TimeoutEvent
<1>2. /\ TableEnds(E, "timedOut") /\ RouterEnds(E)
      /\ phase' = [phase EXCEPT ![s] = "none"]
      /\ at' = [at EXCEPT ![s] = None]
  BY DEF TimeoutDue
<1>3. \A t \in Slot : /\ pending'[t] = IF t \in E THEN None ELSE pending[t]
                      /\ dispatched'[t] = IF t \in E THEN None ELSE dispatched[t]
  BY <1>2 DEF RouterEnds
<1>4. \A t \in Slot : /\ phase'[t] = IF t = s THEN "none" ELSE phase[t]
                      /\ at'[t] = IF t = s THEN None ELSE at[t]
  BY <1>1, <1>2, TypeParts DEF HeldInv, EngineType
<1>5. CASE pending[s] # None \/ phase[s] # "none"
  <2>1. E = {s}
    BY <1>5
  <2>2. live[s] = 1
    BY <1>1, <1>5 DEF HeldInv, HeldOnce
  <2> QED BY <1>1, <1>2, <1>3, <1>4, <2>1, <2>2, EndsHeld
<1>6. CASE ~(pending[s] # None \/ phase[s] # "none")
  <2>1. E = {}
    BY <1>6
  <2>2. at[s] = None
    BY <1>1, <1>6 DEF HeldInv, HeldOnce
  <2> QED BY <1>2, <1>3, <1>4, <1>6, <2>1, <2>2, EndsHeld
<1> QED BY <1>5, <1>6

(* What a step does to the requests: those in E leave, the others stay on    *)
(* their replica in some phase.                                              *)
LEMMA FinishAndComposeHolds ==
  ASSUME TypeOK, NEW r \in Replica, NEW E \in SUBSET Held(r, "running"), FinishAndCompose(r, E)
  PROVE  \A s \in Slot :
           /\ s \in E => at'[s] = None /\ phase'[s] = "none"
           /\ s \notin E => at'[s] = at[s] /\ (phase'[s] = "none" <=> phase[s] = "none")
<1> DEFINE run == Held(r, "running") \ E
           wait == Held(r, "waiting")
<1>1. PICK pre \in SUBSET run, adm \in SUBSET wait, lost \in Lossy :
        LET busy == (run \ pre) \cup adm # {} IN
        /\ pre # {} => adm = {}
        /\ run \cup wait # {} => busy
        /\ phase' = [s \in Slot |-> IF s \in E THEN "none"
                                    ELSE IF s \in pre THEN "waiting"
                                    ELSE IF s \in adm THEN "running" ELSE phase[s]]
        /\ at' = [s \in Slot |-> IF s \in E THEN None ELSE at[s]]
        /\ mode' = [mode EXCEPT ![r] = IF busy THEN "step" ELSE "idle"]
        /\ stepEv' = [stepEv EXCEPT ![r] = Handle(<<r, "step">>, ~busy \/ lost)]
        /\ steps' = (steps \ {stepEv[r]}) \cup Queued(<<r, "step">>, ~busy \/ lost)
  BY Zenon DEF FinishAndCompose
<1>2. \A s \in pre \cup adm : phase[s] \in {"running", "waiting"}
  BY DEF Held
<1> HIDE DEF run, wait
<1> QED BY <1>1, <1>2

LEMMA KickDueHeld ==
  ASSUME HeldInv, NEW r \in Replica, KickDue(r)
  PROVE  HeldOnce' /\ Named' /\ AssertRequestTable'
<1>1. /\ FinishAndCompose(r, {})
      /\ UNCHANGED <<live, freeSlots, pendingFree, reqId, pending, dispatched>>
  BY DEF KickDue, table, router
<1>2. \A s \in Slot : at'[s] = at[s] /\ (phase'[s] = "none" <=> phase[s] = "none")
  BY <1>1, FinishAndComposeHolds DEF HeldInv
<1> QED BY <1>1, <1>2 DEF HeldInv, HeldOnce, Named, AssertRequestTable

LEMMA StepEndDueHeld ==
  ASSUME HeldInv, NEW r \in Replica, StepEndDue(r)
  PROVE  HeldOnce' /\ Named' /\ AssertRequestTable'
<1>1. PICK done \in SUBSET Held(r, "running") :
        FinishAndCompose(r, done) /\ TableEnds(done, "finished") /\ RouterEnds(done)
  BY DEF StepEndDue
<1>2. \A s \in Slot :
        /\ s \in done => at'[s] = None /\ phase'[s] = "none"
        /\ s \notin done => at'[s] = at[s] /\ (phase'[s] = "none" <=> phase[s] = "none")
  BY <1>1, FinishAndComposeHolds DEF HeldInv
<1>3. \A s \in Slot : /\ pending'[s] = IF s \in done THEN None ELSE pending[s]
                      /\ dispatched'[s] = IF s \in done THEN None ELSE dispatched[s]
  BY <1>1 DEF RouterEnds
<1>4. done \in SUBSET Slot /\ \A s \in done : phase[s] # "none"
  BY <1>1 DEF Held
<1>5. \A s \in done : live[s] = 1
  BY <1>4 DEF HeldInv, HeldOnce
<1> QED BY <1>1, <1>2, <1>3, <1>4, <1>5, EndsHeld

(* The requests a replica loses when it enters phase `code`. *)
FailedBy(r, code) ==
  LET work == Held(r, "waiting") \cup Held(r, "running") IN
  IF code # "ready" /\ (fstate[r] = "ready" \/ work # {} \/ mode[r] # "idle")
  THEN work \cup Held(r, "arriving") ELSE {}

LEMMA EnterHeld ==
  ASSUME HeldInv, NEW r \in Replica, NEW code, NEW gone, Enter(r, code, gone)
  PROVE  HeldOnce' /\ Named' /\ AssertRequestTable'
<1> DEFINE E == FailedBy(r, code)
<1>1. E \in SUBSET Slot /\ \A s \in E : phase[s] # "none"
  BY DEF FailedBy, Held
<1>2. /\ phase' = [s \in Slot |-> IF s \in E THEN "none" ELSE phase[s]]
      /\ at' = [s \in Slot |-> IF s \in E THEN None ELSE at[s]]
      /\ TableEnds(E, "failed")
      /\ dispatched' = [s \in Slot |-> IF s \in E THEN None ELSE dispatched[s]]
      /\ UNCHANGED pending
  BY Zenon DEF Enter, FailedBy
<1> HIDE DEF E
<1>3. \A s \in E : live[s] = 1 /\ pending[s] = None
  BY <1>1 DEF HeldInv, HeldOnce
<1> QED BY <1>1, <1>2, <1>3, EndsHeld

(* Every action preserves the type and the holding of requests. *)
LEMMA HeldStep == HeldInv /\ [Next]_vars => HeldInv'
<1> SUFFICES ASSUME HeldInv, [Next]_vars PROVE TypeOK' /\ HeldOnce' /\ Named' /\ AssertRequestTable'
  BY DEF HeldInv
<1>0. TypeOK
  BY DEF HeldInv
<1>1. ASSUME NEW c \in Session, StartSession(c)
      PROVE  TypeOK' /\ HeldOnce' /\ Named' /\ AssertRequestTable'
  <2>1. PICK s \in Allocatable : SendAdmitted(c, s, {}) \/ SendRejected(c, s, {})
    BY <1>1 DEF StartSession, SendRequest
  <2>2. s \in Slot
    BY DEF Allocatable
  <2> QED BY <1>0, <2>1, <2>2, SendAdmittedType, SendRejectedType, SendAdmittedHeld, SendRejectedHeld
<1>2. ASSUME NEW c \in Session, InjectExtra(c)
      PROVE  TypeOK' /\ HeldOnce' /\ Named' /\ AssertRequestTable'
  <2>1. UNCHANGED <<live, freeSlots, pendingFree, reqId, pending, dispatched, at, phase>>
    BY <1>2 DEF InjectExtra, table, router, engine
  <2> QED BY <1>0, <1>2, <2>1, InjectExtraType, SameHeld
<1>3. ASSUME NEW e \in sends, SendDue(e)
      PROVE  TypeOK' /\ HeldOnce' /\ Named' /\ AssertRequestTable'
  <2>1. PICK s \in Allocatable : SendAdmitted(e[1], s, {e}) \/ SendRejected(e[1], s, {e})
    BY <1>3 DEF SendDue, SendRequest
  <2>2. s \in Slot /\ e[1] \in Session
    BY <1>0, TypeParts DEF Allocatable, ClientType, ReqId
  <2> QED BY <1>0, <2>1, <2>2, SendAdmittedType, SendRejectedType, SendAdmittedHeld, SendRejectedHeld
<1>4. ASSUME NEW e \in dispatches, DispatchDue(e)
      PROVE  TypeOK' /\ HeldOnce' /\ Named' /\ AssertRequestTable'
  <2>1. e[1] \in Slot /\ routable \subseteq Replica /\ e[3] \in Replica
    BY <1>0, TypeParts DEF RouterType, DispatchEvent
  <2>2. reqId[e[1]] \in ReqId
    BY <1>4, <2>1 DEF DispatchDue, HeldInv, HeldOnce, Named
  <2>3. \/ \E r \in Replica : DispatchTo(e, r)
        \/ \E o \in Outcome : DispatchEnds(e, o)
    BY <1>4, <2>1 DEF DispatchDue, Outcome
  <2>4. TypeOK'
    BY <1>0, <2>2, <2>3, DispatchToType, DispatchEndsType
  <2> QED BY <1>4, <2>4, DispatchDueHeld
<1>5. ASSUME NEW e \in eligibles, EligibleDue(e)
      PROVE  TypeOK' /\ HeldOnce' /\ Named' /\ AssertRequestTable'
  BY <1>0, <1>5, EligibleDueType, EligibleDueHeld
<1>6. ASSUME NEW e \in timeouts, TimeoutDue(e)
      PROVE  TypeOK' /\ HeldOnce' /\ Named' /\ AssertRequestTable'
  BY <1>0, <1>6, TimeoutDueType, TimeoutDueHeld
<1>7. ASSUME NEW r \in Replica, KickDue(r)
      PROVE  TypeOK' /\ HeldOnce' /\ Named' /\ AssertRequestTable'
  BY <1>0, <1>7, KickDueType, KickDueHeld
<1>8. ASSUME NEW r \in Replica, StepEndDue(r)
      PROVE  TypeOK' /\ HeldOnce' /\ Named' /\ AssertRequestTable'
  BY <1>0, <1>8, StepEndDueType, StepEndDueHeld
<1>9. ASSUME NEW r \in Replica, Crash(r)
      PROVE  TypeOK' /\ HeldOnce' /\ Named' /\ AssertRequestTable'
  BY <1>0, <1>9, CrashType, EnterHeld DEF Crash
<1>10. ASSUME NEW e \in phaseEnds, PhaseEndDue(e)
       PROVE  TypeOK' /\ HeldOnce' /\ Named' /\ AssertRequestTable'
  <2>1. e[1] \in Replica
    BY <1>0, TypeParts DEF FailureType, PhaseEvent
  <2> QED BY <1>0, <1>10, <2>1, PhaseEndDueType, EnterHeld DEF PhaseEndDue
<1>11. ASSUME NEW p \in Params, SetParams(p)
       PROVE  TypeOK' /\ HeldOnce' /\ Named' /\ AssertRequestTable'
  <2>1. UNCHANGED <<client, table, router, engine, failure>>
    BY <1>11 DEF SetParams
  <2>2. DayType'
    BY <1>0, <1>11, TypeParts DEF SetParams, DayType
  <2>3. TypeOK'
    BY <1>0, <2>1, <2>2, TypeParts, UnchangedTypes
  <2> QED BY <2>1, <2>3, SameHeld DEF table, router, engine
<1>12. ASSUME RunLate
       PROVE  TypeOK' /\ HeldOnce' /\ Named' /\ AssertRequestTable'
  <2>1. UNCHANGED <<client, table, router, engine, failure>>
    BY <1>12 DEF RunLate
  <2>2. DayType'
    BY <1>0, <1>12, TypeParts DEF RunLate, DayType
  <2>3. TypeOK'
    BY <1>0, <2>1, <2>2, TypeParts, UnchangedTypes
  <2> QED BY <2>1, <2>3, SameHeld DEF table, router, engine
<1>13. CASE UNCHANGED vars
  <2>1. UNCHANGED <<client, table, router, engine, failure, day>>
    BY <1>13 DEF vars
  <2>2. TypeOK'
    BY <1>0, <2>1, TypeParts, UnchangedTypes
  <2> QED BY <2>1, <2>2, SameHeld DEF table, router, engine
<1> QED BY <1>1, <1>2, <1>3, <1>4, <1>5, <1>6, <1>7, <1>8, <1>9, <1>10, <1>11, <1>12, <1>13 DEF Next

LEMMA HeldInit == Init => HeldInv
<1> SUFFICES ASSUME Init PROVE HeldInv
  OBVIOUS
<1>1. ClientType
  BY DEF Init, LoadInit, ClientType
<1>2. TypeOK
  <2>1. TableType /\ RouterType
    BY DEF Init, TableInit, RouterInit, TableType, RouterType
  <2>2. EngineType
    BY DEF Init, ReplicaInit, EngineType, Phase, Mode
  <2>3. FailureType /\ DayType
    BY DEF Init, FailureInit, FailureType, DayType, ReplicaState
  <2> QED BY <1>1, <2>1, <2>2, <2>3, TypeParts
<1>3. HeldOnce /\ Named /\ AssertRequestTable
  BY DEF Init, TableInit, RouterInit, ReplicaInit, HeldOnce, Named, AssertRequestTable
<1> QED BY <1>2, <1>3 DEF HeldInv

(* In every reachable state of a day with any number of sessions, replicas   *)
(* and slots, the slices have their types.                                   *)
THEOREM TypeCorrect == Spec => []TypeOK
<1>1. HeldInv => TypeOK
  BY DEF HeldInv
<1> QED BY <1>1, HeldInit, HeldStep, PTL DEF Spec

(* Every live request is held by exactly one module, and the router and the  *)
(* replicas agree on who holds it.                                           *)
THEOREM HeldExactlyOnce == Spec => []HeldOnce
<1>1. HeldInv => HeldOnce
  BY DEF HeldInv
<1> QED BY <1>1, HeldInit, HeldStep, PTL DEF Spec

-----------------------------------------------------------------------------
(* Rotation.  Only Enter touches the router's view and the failure states.   *)

LEMMA EnterRoutable ==
  ASSUME TypeOK, RoutableView, NEW r \in Replica, NEW gone,
         NEW code \in ReplicaState, Enter(r, code, gone)
  PROVE  RoutableView'
<1>1. /\ fstate' = [fstate EXCEPT ![r] = code]
      /\ routable' = CASE code = "ready" -> routable \cup {r}
                       [] code = "crashed" -> routable
                       [] OTHER -> routable \ {r}
  BY DEF Enter, Rotation
<1>2. \A q \in Replica : fstate'[q] = IF q = r THEN code ELSE fstate[q]
  BY <1>1, TypeParts DEF FailureType
<1> QED BY <1>1, <1>2 DEF RoutableView

LEMMA RoutableStep == TypeOK /\ RoutableView /\ [Next]_vars => RoutableView'
<1> SUFFICES ASSUME TypeOK, RoutableView, [Next]_vars PROVE RoutableView'
  OBVIOUS
<1> DEFINE Same == UNCHANGED <<fstate, routable>>
<1>0. Same => RoutableView'
  BY DEF RoutableView
<1>1. ASSUME NEW r \in Replica, Crash(r) PROVE RoutableView'
  BY <1>1, EnterRoutable DEF Crash, ReplicaState
<1>2. ASSUME NEW e \in phaseEnds, PhaseEndDue(e) PROVE RoutableView'
  <2>1. e[1] \in Replica /\ e[2] \in ReplicaState \ {"ready"}
    BY TypeParts DEF FailureType, PhaseEvent
  <2>2. NextPhase[e[2]] \in ReplicaState
    BY <2>1 DEF NextPhase, ReplicaState
  <2> QED BY <1>2, <2>1, <2>2, EnterRoutable DEF PhaseEndDue
<1>3. ASSUME NEW c \in Session, NEW s, NEW fired, SendAdmitted(c, s, fired) \/ SendRejected(c, s, fired)
      PROVE  Same
  BY <1>3 DEF SendAdmitted, SendRejected, router, failure
<1>4. ASSUME NEW c \in Session, StartSession(c) \/ InjectExtra(c) PROVE Same
  <2>1. CASE StartSession(c)
    BY <1>3, <2>1 DEF StartSession, SendRequest
  <2>2. CASE InjectExtra(c)
    BY <2>2 DEF InjectExtra, router, failure
  <2> QED BY <1>4, <2>1, <2>2
<1>5. ASSUME NEW e \in sends, SendDue(e) PROVE Same
  <2>1. e[1] \in Session
    BY TypeParts DEF ClientType, ReqId
  <2> QED BY <1>3, <1>5, <2>1 DEF SendDue, SendRequest
<1>6. ASSUME NEW e \in dispatches, DispatchDue(e) PROVE Same
  BY <1>6 DEF DispatchDue, DispatchTo, DispatchEnds, RouterEnds, failure
<1>7. ASSUME NEW e, EligibleDue(e) \/ TimeoutDue(e) PROVE Same
  BY <1>7 DEF EligibleDue, TimeoutDue, RouterEnds, router, failure
<1>8. ASSUME NEW r \in Replica, KickDue(r) \/ StepEndDue(r) PROVE Same
  BY <1>8 DEF KickDue, StepEndDue, RouterEnds, router, failure
<1>9. ASSUME NEW p, SetParams(p) \/ RunLate \/ UNCHANGED vars PROVE Same
  BY <1>9 DEF SetParams, RunLate, vars, router, failure
<1> QED BY <1>0, <1>1, <1>2, <1>4, <1>5, <1>6, <1>7, <1>8, <1>9 DEF Next

(* Whatever the order of crashes and recoveries, a ready replica is in       *)
(* rotation and nothing but ready and freshly crashed replicas are.          *)
THEOREM RotationCorrect == Spec => []RoutableView
<1>1. Init => RoutableView
  BY DEF Init, RouterInit, FailureInit, RoutableView
<1> QED BY <1>1, RoutableStep, TypeCorrect, PTL DEF Spec

-----------------------------------------------------------------------------
(* Slots.                                                                    *)

LEMMA EndsKeepSlots ==
  ASSUME NEW E, NEW o, TableEnds(E, o)
  PROVE  \A s \in Slot : live[s] = 1 => live'[s] # 0 /\ reqId'[s] = reqId[s]
BY DEF TableEnds

LEMMA SendKeepsSlots ==
  ASSUME HeldInv, NEW c, NEW fired, SendRequest(c, fired)
  PROVE  \A s \in Slot : live[s] = 1 => live'[s] # 0 /\ reqId'[s] = reqId[s]
<1>1. PICK s \in Allocatable : \E id, code, o : AllocRequest(s, id, code, o)
  BY DEF SendRequest, SendAdmitted, SendRejected
<1>2. \A t \in Slot : live[t] = 1 => t # s /\ t \notin Freed
  BY Reusable
<1> QED BY <1>1, <1>2 DEF AllocRequest

(* However often requests come and end, the free list never hands out the    *)
(* slot of a live one, and what is queued for reuse has ended: a slot goes   *)
(* to another request only after its own request ended.                      *)
THEOREM SlotsNotReused == Spec => SlotNotReused
<1> DEFINE Kept == \A s \in Slot : live[s] = 1 => live'[s] # 0 /\ reqId'[s] = reqId[s]
<1>1. ASSUME HeldInv, Next PROVE Kept
  <2>1. (live' = live /\ reqId' = reqId) => Kept
    OBVIOUS
  <2>2. ASSUME NEW c \in Session, StartSession(c) PROVE Kept
    BY <1>1, <2>2, SendKeepsSlots DEF StartSession
  <2>3. ASSUME NEW e \in sends, SendDue(e) PROVE Kept
    BY <1>1, <2>3, SendKeepsSlots DEF SendDue
  <2>4. ASSUME NEW e, DispatchDue(e) PROVE Kept
    BY <2>1, <2>4, EndsKeepSlots DEF DispatchDue, DispatchTo, DispatchEnds, table
  <2>5. ASSUME NEW e, TimeoutDue(e) PROVE Kept
    BY <2>5, EndsKeepSlots DEF TimeoutDue
  <2>6. ASSUME NEW r, StepEndDue(r) PROVE Kept
    BY <2>6, EndsKeepSlots DEF StepEndDue
  <2>7. ASSUME NEW r, Crash(r) PROVE Kept
    BY <2>7, EndsKeepSlots DEF Crash, Enter
  <2>8. ASSUME NEW e, PhaseEndDue(e) PROVE Kept
    BY <2>8, EndsKeepSlots DEF PhaseEndDue, Enter
  <2>9. ASSUME NEW x, InjectExtra(x) \/ EligibleDue(x) \/ KickDue(x) \/ SetParams(x) \/ RunLate
        PROVE  Kept
    BY <2>1, <2>9 DEF InjectExtra, EligibleDue, KickDue, SetParams, RunLate, table
  <2> QED BY <1>1, <2>2, <2>3, <2>4, <2>5, <2>6, <2>7, <2>8, <2>9 DEF Next
<1>2. HeldInv /\ [Next]_vars => [Kept]_vars
  BY <1>1
<1>3. Spec => [][Kept]_vars
  BY <1>2, HeldInit, HeldStep, PTL DEF Spec
<1> QED BY <1>3 DEF SlotNotReused

-----------------------------------------------------------------------------
(* A replica that is not ready holds nothing.  The proof needs to know which *)
(* handle names each engine event, and that a held slot has a replica.       *)

StepHandles == \A e \in steps : stepEv[e[1]] = e /\ mode[e[1]] = e[2]

DeadInv == DeadHoldsNothing /\ StepHandles

LEMMA SameDead ==
  ASSUME DeadInv, UNCHANGED <<fstate, mode, stepEv, steps>>,
         \A s \in Slot : at'[s] \in {None, at[s]}
  PROVE  DeadInv'
BY FleetAssumption DEF DeadInv, DeadHoldsNothing, StepHandles, FleetAssumption

(* A kick of a ready replica. *)
LEMMA MakeEligibleDead ==
  ASSUME TypeOK, DeadInv, NEW s \in Slot, NEW r \in Replica, MakeEligible(s, r),
         fstate[r] = "ready", UNCHANGED fstate,
         \A t \in Slot : at'[t] = IF t = s THEN r ELSE at[t]
  PROVE  DeadInv'
<1>0. EngineType
  BY TypeParts
<1>1. CASE mode[r] = "idle"
  <2>1. /\ mode' = [mode EXCEPT ![r] = "kick"]
        /\ stepEv' = [stepEv EXCEPT ![r] = <<r, "kick">>]
        /\ steps' = steps \cup {<<r, "kick">>}
    BY <1>1 DEF MakeEligible, Kicks
  <2>2. \A e \in steps : e[1] \in Replica \ {r}
    BY <1>0, <1>1 DEF DeadInv, StepHandles, EngineType, StepEvent
  <2>3. DeadHoldsNothing'
    BY <1>0, <2>1, <2>2 DEF DeadInv, DeadHoldsNothing, EngineType
  <2>4. StepHandles'
    BY <1>0, <2>1, <2>2 DEF DeadInv, StepHandles, EngineType
  <2> QED BY <2>3, <2>4 DEF DeadInv
<1>2. CASE mode[r] # "idle"
  BY <1>2 DEF MakeEligible, Kicks, DeadInv, DeadHoldsNothing, StepHandles
<1> QED BY <1>1, <1>2

LEMMA FinishAndComposeDead ==
  ASSUME TypeOK, DeadInv, NEW r \in Replica, NEW E \in SUBSET Held(r, "running"),
         FinishAndCompose(r, E), mode[r] # "idle", UNCHANGED fstate
  PROVE  DeadInv'
<1>0. EngineType
  BY TypeParts
<1>1. fstate[r] = "ready"
  BY DEF DeadInv, DeadHoldsNothing
<1>2. PICK busy \in BOOLEAN, lost \in BOOLEAN :
        /\ mode' = [mode EXCEPT ![r] = IF busy THEN "step" ELSE "idle"]
        /\ stepEv' = [stepEv EXCEPT ![r] = Handle(<<r, "step">>, ~busy \/ lost)]
        /\ steps' = (steps \ {stepEv[r]}) \cup Queued(<<r, "step">>, ~busy \/ lost)
  BY DEF FinishAndCompose, Lossy
<1>3. \A s \in Slot : at'[s] \in {None, at[s]}
  BY FinishAndComposeHolds
<1>4. \A e \in steps \ {stepEv[r]} : e[1] \in Replica \ {r}
  BY <1>0 DEF DeadInv, StepHandles, EngineType, StepEvent
<1>5. DeadHoldsNothing'
  BY <1>0, <1>1, <1>2, <1>3, <1>4, FleetAssumption
     DEF DeadInv, DeadHoldsNothing, EngineType, FleetAssumption, Queued
<1>6. StepHandles'
  BY <1>0, <1>2, <1>4 DEF DeadInv, StepHandles, EngineType, Queued, Handle
<1> QED BY <1>5, <1>6 DEF DeadInv

LEMMA EnterDead ==
  ASSUME HeldInv, DeadInv, NEW r \in Replica, NEW code, NEW gone, Enter(r, code, gone)
  PROVE  DeadInv'
<1>0. EngineType /\ FailureType
  BY TypeParts DEF HeldInv
<1> DEFINE E == FailedBy(r, code)
           fails == code # "ready" /\ (fstate[r] = "ready" \/ mode[r] # "idle"
                     \/ Held(r, "waiting") \cup Held(r, "running") # {})
<1>1. /\ at' = [s \in Slot |-> IF s \in E THEN None ELSE at[s]]
      /\ fstate' = [fstate EXCEPT ![r] = code]
      /\ mode' = IF fails THEN [mode EXCEPT ![r] = "idle"] ELSE mode
      /\ stepEv' = IF fails THEN [stepEv EXCEPT ![r] = NoEvent] ELSE stepEv
      /\ steps' = IF fails THEN steps \ {stepEv[r]} ELSE steps
  BY DEF Enter, FailedBy
<1>2. \A s \in Slot : at[s] = r => phase[s] \in {"arriving", "waiting", "running"}
  BY <1>0, FleetAssumption DEF HeldInv, HeldOnce, EngineType, Phase, FleetAssumption
<1>3. \A s \in Slot : at'[s] \in {None, at[s]}
  BY <1>1
<1>4. CASE ~fails
  <2>1. code = "ready" \/ fstate[r] # "ready"
    BY <1>4
  <2>2. UNCHANGED <<mode, stepEv, steps>>
    BY <1>1, <1>4
  <2>3. DeadHoldsNothing'
    BY <1>0, <1>1, <1>3, <2>1, <2>2, FleetAssumption
       DEF DeadInv, DeadHoldsNothing, FailureType, FleetAssumption
  <2>4. StepHandles'
    BY <2>2 DEF DeadInv, StepHandles
  <2> QED BY <2>3, <2>4 DEF DeadInv
<1>5. CASE fails
  <2>1. E = Held(r, "waiting") \cup Held(r, "running") \cup Held(r, "arriving")
    BY <1>5 DEF FailedBy
  <2>2. \A s \in Slot : at[s] = r => s \in E
    BY <1>2, <2>1 DEF Held
  <2>3. \A e \in steps \ {stepEv[r]} : e[1] \in Replica \ {r}
    BY <1>0 DEF DeadInv, StepHandles, EngineType, StepEvent
  <2>4. /\ mode' = [mode EXCEPT ![r] = "idle"]
        /\ stepEv' = [stepEv EXCEPT ![r] = NoEvent]
        /\ steps' = steps \ {stepEv[r]}
    BY <1>1, <1>5
  <2>5. \A s \in Slot : at'[s] # r
    BY <1>1, <2>2, FleetAssumption DEF FleetAssumption
  <2>6. DeadHoldsNothing'
    BY <1>0, <1>1, <1>3, <2>3, <2>4, <2>5, FleetAssumption
       DEF DeadInv, DeadHoldsNothing, EngineType, FailureType, FleetAssumption
  <2>7. StepHandles'
    BY <1>0, <2>3, <2>4 DEF DeadInv, StepHandles, EngineType
  <2> QED BY <2>6, <2>7 DEF DeadInv
<1> QED BY <1>4, <1>5

LEMMA DeadStep == HeldInv /\ DeadInv /\ [Next]_vars => DeadInv'
<1> SUFFICES ASSUME HeldInv, DeadInv, [Next]_vars PROVE DeadInv'
  OBVIOUS
<1>0. TypeOK /\ EngineType /\ RouterType /\ ClientType /\ FailureType
  BY TypeParts DEF HeldInv
<1> DEFINE Same == UNCHANGED <<fstate, mode, stepEv, steps, at>>
<1>1. Same => DeadInv'
  BY SameDead
<1>2. ASSUME NEW c, NEW fired, SendRequest(c, fired) PROVE Same
  BY <1>2 DEF SendRequest, SendAdmitted, SendRejected, engine, failure
<1>3. ASSUME NEW x, \/ StartSession(x) \/ InjectExtra(x) \/ SendDue(x)
                    \/ SetParams(x) \/ RunLate \/ UNCHANGED vars
      PROVE  Same
  BY <1>2, <1>3 DEF StartSession, InjectExtra, SendDue, SetParams, RunLate, vars, engine, failure
<1>4. ASSUME NEW e \in dispatches, DispatchDue(e) PROVE DeadInv'
  <2>1. e[1] \in Slot /\ routable \subseteq Replica /\ e[3] \in Replica
    BY <1>0 DEF RouterType, DispatchEvent
  <2>2. ASSUME NEW r \in Replica, DispatchTo(e, r) PROVE DeadInv'
    <3>1. fstate[r] = "ready" /\ UNCHANGED fstate
      BY <2>2 DEF DispatchTo, Serves, failure
    <3>2. \A t \in Slot : at'[t] = IF t = e[1] THEN r ELSE at[t]
      BY <1>0, <2>1, <2>2 DEF DispatchTo, EngineType
    <3>3. CASE HasOverhead
      <4>1. UNCHANGED <<mode, stepEv, steps>>
        BY <2>2, <3>3 DEF DispatchTo
      <4> QED BY <3>1, <3>2, <4>1 DEF DeadInv, DeadHoldsNothing, StepHandles
    <3>4. CASE ~HasOverhead
      <4>1. MakeEligible(e[1], r)
        BY <2>2, <3>4 DEF DispatchTo
      <4> QED BY <1>0, <2>1, <3>1, <3>2, <4>1, MakeEligibleDead
    <3> QED BY <3>3, <3>4
  <2>3. ASSUME NEW o, DispatchEnds(e, o) PROVE Same
    BY <2>3 DEF DispatchEnds, engine, failure
  <2>4. \/ \E r \in Replica : DispatchTo(e, r)
        \/ \E o : DispatchEnds(e, o)
    BY <1>4, <2>1 DEF DispatchDue
  <2> QED BY <1>1, <2>2, <2>3, <2>4
<1>5. ASSUME NEW e \in eligibles, EligibleDue(e) PROVE DeadInv'
  <2>1. e[1] \in Slot /\ e[3] \in Replica
    BY <1>0 DEF EngineType, DispatchEvent
  <2>2. /\ at[e[1]] = e[3] /\ MakeEligible(e[1], e[3]) /\ UNCHANGED <<at, fstate>>
    BY <1>5 DEF EligibleDue, failure
  <2>3. fstate[e[3]] = "ready"
    BY <2>1, <2>2 DEF DeadInv, DeadHoldsNothing
  <2> QED BY <1>0, <2>1, <2>2, <2>3, MakeEligibleDead
<1>6. ASSUME NEW e \in timeouts, TimeoutDue(e) PROVE DeadInv'
  <2> DEFINE s == e[1]
             r == at[s]
             unkick == phase[s] = "waiting" /\ mode[r] = "kick" /\ Alone(s, r)
  <2>1. s \in Slot
    BY <1>0 DEF ClientType, TimeoutEvent
  <2>2. /\ at' = [at EXCEPT ![s] = None]
        /\ mode' = IF unkick THEN [mode EXCEPT ![r] = "idle"] ELSE mode
        /\ stepEv' = IF unkick THEN [stepEv EXCEPT ![r] = NoEvent] ELSE stepEv
        /\ steps' = IF unkick THEN steps \ {stepEv[r]} ELSE steps
        /\ UNCHANGED fstate
    BY <1>6 DEF TimeoutDue, failure
  <2>3. \A t \in Slot : at'[t] \in {None, at[t]}
    BY <1>0, <2>1, <2>2 DEF EngineType
  <2>4. CASE ~unkick
    BY <2>2, <2>3, <2>4, SameDead
  <2>5. CASE unkick
    <3>1. r \in Replica
      BY <1>0, <2>1, <2>5 DEF HeldInv, HeldOnce, EngineType
    <3>2. \A x \in steps \ {stepEv[r]} : x[1] \in Replica \ {r}
      BY <1>0 DEF DeadInv, StepHandles, EngineType, StepEvent
    <3>3. DeadHoldsNothing'
      BY <1>0, <2>2, <2>3, <2>5, <3>1, <3>2, FleetAssumption
         DEF DeadInv, DeadHoldsNothing, EngineType, FleetAssumption
    <3>4. StepHandles'
      BY <1>0, <2>2, <2>5, <3>1, <3>2 DEF DeadInv, StepHandles, EngineType
    <3> QED BY <3>3, <3>4 DEF DeadInv
  <2> QED BY <2>4, <2>5
<1>7. ASSUME NEW r \in Replica, KickDue(r) PROVE DeadInv'
  BY <1>0, <1>7, FinishAndComposeDead DEF KickDue, failure
<1>8. ASSUME NEW r \in Replica, StepEndDue(r) PROVE DeadInv'
  <2>1. PICK done \in SUBSET Held(r, "running") : FinishAndCompose(r, done)
    BY <1>8 DEF StepEndDue
  <2>2. mode[r] # "idle" /\ UNCHANGED fstate
    BY <1>8 DEF StepEndDue, failure
  <2> QED BY <1>0, <2>1, <2>2, FinishAndComposeDead
<1>9. ASSUME NEW r \in Replica, Crash(r) PROVE DeadInv'
  BY <1>9, EnterDead DEF Crash
<1>10. ASSUME NEW e \in phaseEnds, PhaseEndDue(e) PROVE DeadInv'
  <2>1. e[1] \in Replica
    BY <1>0 DEF FailureType, PhaseEvent
  <2> QED BY <1>10, <2>1, EnterDead DEF PhaseEndDue
<1> QED BY <1>1, <1>3, <1>4, <1>5, <1>6, <1>7, <1>8, <1>9, <1>10 DEF Next

(* A replica that is crashed, down or starting holds no request and has no   *)
(* step under way, however crashes interleave with dispatches and steps.     *)
THEOREM DeadReplicasEmpty == Spec => []DeadHoldsNothing
<1>1. Init => HeldInv /\ DeadInv
  <2>1. Init => DeadInv
    BY FleetAssumption DEF Init, ReplicaInit, DeadInv, DeadHoldsNothing, StepHandles, FleetAssumption
  <2> QED BY <2>1, HeldInit
<1>2. HeldInv /\ DeadInv /\ [Next]_vars => (HeldInv /\ DeadInv)'
  BY HeldStep, DeadStep
<1>3. HeldInv /\ DeadInv => DeadHoldsNothing
  BY DEF DeadInv
<1> QED BY <1>1, <1>2, <1>3, PTL DEF Spec

-----------------------------------------------------------------------------
(* The pending events are exact: none is stale, and a session and its        *)
(* request name each other.  Every handle is a copy of the event it names,   *)
(* so one induction over sessions, slots and handles suffices, on top of who *)
(* holds a request (HeldInv).  After that, what Fleet counts: the router's   *)
(* outstanding counts, the admitted requests the cap is compared with, and   *)
(* the requests for which a replica must not idle.                           *)

(* NoStaleEvent by kind of event; StepHandles is the one of the steps. *)
TimeoutsTrue ==
  \A e \in timeouts : timeoutEv[e[2][1]] = e /\ slotOf[e[2][1]] = e[1] /\ reqId[e[1]] = e[2]
DispatchesTrue == \A e \in dispatches : pending[e[1]] = e /\ reqId[e[1]] = e[2]
EligiblesTrue ==
  \A e \in eligibles : eligibleEv[e[1]] = e /\ phase[e[1]] = "arriving" /\ at[e[1]] = e[3]
SendsTrue ==
  \A e \in sends : sessEv[e[1]] = e /\ sess[e[1]].st = "pending" /\ IdOf(e[1]) = e
PhaseEndsTrue == \A e \in phaseEnds : phaseEv[e[1]] = e /\ fstate[e[1]] = e[2]

LEMMA StaleParts ==
  NoStaleEvent <=> TimeoutsTrue /\ DispatchesTrue /\ EligiblesTrue /\ SendsTrue /\ StepHandles /\ PhaseEndsTrue
BY DEF NoStaleEvent, TimeoutsTrue, DispatchesTrue, EligiblesTrue, SendsTrue, StepHandles, PhaseEndsTrue

(* A live request has no outcome yet: without it, a first token could be     *)
(* noted for a request that timed out.                                       *)
Unended == \A s \in Slot : live[s] = 1 => outcome[s] = None

(* What the client's and the table's records say of each other. *)
SessionInv == OneRequestPerSession /\ TimeoutsTrue /\ SendsTrue /\ TimeoutBeforeToken /\ Unended

EventInv == SessionInv /\ DispatchesTrue /\ EligiblesTrue /\ PhaseEndsTrue

(* Where a session is after its request ended. *)
LEMMA AfterEndPhase ==
  ASSUME NEW x \in SessionRec, NEW o, NEW over, NEW lost
  PROVE  AfterEnd(x, o, over, lost).st \in {"closed", "pending"}
<1>1. x = [st |-> x.st, turns |-> x.turns, turn |-> x.turn, attempt |-> x.attempt]
  BY DEF SessionRec
<1> QED BY <1>1 DEF AfterEnd

(* The kinds of events, and the special values no event is. *)
LEMMA EventTypes ==
  ASSUME TypeOK
  PROVE  /\ \A e \in timeouts : e[1] \in Slot /\ e[2] \in ReqId /\ e[2][1] \in Session /\ e = <<e[1], e[2]>>
         /\ \A e \in dispatches \cup eligibles :
              e[1] \in Slot /\ e[2] \in ReqId /\ e[3] \in Replica /\ e \notin {None, NoEvent}
         /\ \A e \in sends : e[1] \in Session
         /\ \A e \in phaseEnds : e[1] \in Replica /\ e[2] \in ReplicaState
<1>1. ClientType /\ RouterType /\ EngineType /\ FailureType
  BY TypeParts
<1>2. \A e \in timeouts : e[1] \in Slot /\ e[2] \in ReqId /\ e[2][1] \in Session /\ e = <<e[1], e[2]>>
  BY <1>1 DEF ClientType, TimeoutEvent, ReqId
<1>3. \A e \in dispatches \cup eligibles :
        e[1] \in Slot /\ e[2] \in ReqId /\ e[3] \in Replica /\ e \notin {None, NoEvent}
  BY <1>1, FleetAssumption DEF RouterType, EngineType, DispatchEvent, ReqId, FleetAssumption
<1>4. \A e \in sends : e[1] \in Session
  BY <1>1 DEF ClientType, ReqId
<1>5. \A e \in phaseEnds : e[1] \in Replica /\ e[2] \in ReplicaState
  BY <1>1 DEF FailureType, PhaseEvent
<1> QED BY <1>2, <1>3, <1>4, <1>5

(* A slot's identity names a session while its request lives. *)
LEMMA LiveNamed ==
  ASSUME HeldInv, NEW s \in Slot, live[s] = 1
  PROVE  reqId[s] \in ReqId /\ reqId[s][1] \in Session
BY DEF HeldInv, Named, ReqId

-----------------------------------------------------------------------------
(* The end of a set of requests, as the client and the table hear of it. *)
LEMMA EndsSessions ==
  ASSUME HeldInv, SessionInv, NEW E \in SUBSET Slot, NEW o, NEW tokened,
         ClientEnds(E, o, tokened), TableEnds(E, o)
  PROVE  /\ OneRequestPerSession' /\ TimeoutsTrue' /\ SendsTrue' /\ Unended'
         /\ \A e \in timeouts' : e \in timeouts /\ slotOf[e[2][1]] \notin E /\ e[2][1] \notin tokened
<1>0. TypeOK /\ ClientType
  BY TypeParts DEF HeldInv
<1> DEFINE ended == {c \in Session : slotOf[c] \in E}
           quiet == ended \cup tokened
<1>1. PICK over \in SUBSET ended, lost \in SUBSET (IF late THEN ended ELSE {}) :
        LET next(c) == AfterEnd(sess[c], o, c \in over, c \in lost)
            again   == {c \in ended : next(c).st = "pending"}
            evOf(c) == <<c, next(c).turn, next(c).attempt>>
        IN  /\ sess' = [c \in Session |-> IF c \in ended THEN next(c) ELSE sess[c]]
            /\ slotOf' = [c \in Session |-> IF c \in ended THEN None ELSE slotOf[c]]
            /\ timeoutEv' = [c \in Session |-> IF c \in quiet THEN NoEvent ELSE timeoutEv[c]]
            /\ timeouts' = timeouts \ {timeoutEv[c] : c \in quiet}
            /\ sessEv' = [c \in Session |-> IF c \in again THEN evOf(c) ELSE sessEv[c]]
            /\ sends' = sends \cup {evOf(c) : c \in again}
  BY Zenon DEF ClientEnds, Disarmed
<1> DEFINE next(c) == AfterEnd(sess[c], o, c \in over, c \in lost)
           evOf(c) == <<c, next(c).turn, next(c).attempt>>
           again == {c \in ended : next(c).st = "pending"}
<1>2. \A c \in Session : next(c).st \in {"closed", "pending"}
  BY <1>0, AfterEndPhase DEF ClientType
<1> HIDE DEF next
<1>3. /\ sess' = [c \in Session |-> IF c \in ended THEN next(c) ELSE sess[c]]
      /\ slotOf' = [c \in Session |-> IF c \in ended THEN None ELSE slotOf[c]]
      /\ timeoutEv' = [c \in Session |-> IF c \in quiet THEN NoEvent ELSE timeoutEv[c]]
      /\ timeouts' = timeouts \ {timeoutEv[c] : c \in quiet}
      /\ sessEv' = [c \in Session |-> IF c \in again THEN evOf(c) ELSE sessEv[c]]
      /\ sends' = sends \cup {evOf(c) : c \in again}
  BY <1>1 DEF next
<1>4. \A s \in Slot : live'[s] = (IF s \in E THEN 2 ELSE live[s])
                      /\ outcome'[s] = (IF s \in E THEN o ELSE outcome[s])
  BY DEF TableEnds
<1>5. reqId' = reqId
  BY DEF TableEnds
<1>6. None \notin E
  BY FleetAssumption DEF FleetAssumption
<1>7. \A c \in Session \ ended : IdOf(c)' = IdOf(c) /\ sess'[c] = sess[c] /\ slotOf'[c] = slotOf[c]
  BY <1>3 DEF IdOf
<1>8. \A c \in ended : /\ sess'[c] = next(c) /\ slotOf'[c] = None /\ IdOf(c)' = evOf(c)
                       /\ sess[c].st = "inFlight"
  <2>1. \A c \in ended : slotOf[c] # None
    BY <1>6
  <2> QED BY <1>3, <2>1 DEF IdOf, SessionInv, OneRequestPerSession
<1>9. OneRequestPerSession'
  <2>1. ASSUME NEW c \in Session
        PROVE  /\ sess'[c].st = "inFlight" <=> slotOf'[c] # None
               /\ slotOf'[c] # None => live'[slotOf'[c]] = 1 /\ reqId'[slotOf'[c]] = IdOf(c)'
    <3>1. CASE c \in ended
      <4>1. sess'[c].st # "inFlight"
        BY <1>2, <1>8, <3>1
      <4> QED BY <1>8, <3>1, <4>1
    <3>2. CASE c \notin ended
      <4>1. slotOf[c] # None => slotOf[c] \in Slot \ E
        BY <1>0, <3>2 DEF ClientType
      <4> QED BY <1>4, <1>5, <1>7, <3>2, <4>1 DEF SessionInv, OneRequestPerSession
    <3> QED BY <3>1, <3>2
  <2>2. ASSUME NEW s \in Slot, live'[s] = 1 PROVE slotOf'[reqId'[s][1]] = s
    <3>1. s \notin E /\ live[s] = 1
      BY <1>4, <2>2
    <3>2. reqId[s][1] \in Session /\ slotOf[reqId[s][1]] = s
      BY <3>1, LiveNamed DEF SessionInv, OneRequestPerSession
    <3> QED BY <1>5, <1>7, <3>1, <3>2
  <2> QED BY <2>1, <2>2 DEF OneRequestPerSession
<1>10. \A e \in timeouts' : e \in timeouts /\ slotOf[e[2][1]] \notin E /\ e[2][1] \notin tokened
  <2> TAKE e \in timeouts'
  <2>1. e \in timeouts /\ \A c \in quiet : e # timeoutEv[c]
    BY <1>3
  <2>2. e[2][1] \in Session /\ timeoutEv[e[2][1]] = e
    BY <1>0, <2>1, EventTypes DEF SessionInv, TimeoutsTrue
  <2>3. e[2][1] \notin quiet
    BY <2>1, <2>2
  <2> QED BY <2>1, <2>2, <2>3
<1>11. TimeoutsTrue'
  <2>1. ASSUME NEW e \in timeouts'
        PROVE  timeoutEv'[e[2][1]] = e /\ slotOf'[e[2][1]] = e[1] /\ reqId'[e[1]] = e[2]
    <3>1. e \in timeouts /\ e[2][1] \in Session /\ e[2][1] \notin quiet
      BY <1>0, <1>10, <2>1, EventTypes
    <3> QED BY <1>3, <1>5, <3>1 DEF SessionInv, TimeoutsTrue
  <2> QED BY <2>1 DEF TimeoutsTrue
<1>12. SendsTrue'
  <2>1. ASSUME NEW e \in sends'
        PROVE  sessEv'[e[1]] = e /\ sess'[e[1]].st = "pending" /\ IdOf(e[1])' = e
    <3>1. CASE e \in sends
      <4>1. e[1] \in Session /\ sess[e[1]].st = "pending" /\ sessEv[e[1]] = e /\ IdOf(e[1]) = e
        BY <1>0, <3>1, EventTypes DEF SessionInv, SendsTrue
      <4>2. e[1] \notin ended
        BY <1>8, <4>1
      <4> QED BY <1>3, <1>7, <4>1, <4>2
    <3>2. CASE e \notin sends
      <4>1. PICK c \in again : e = evOf(c)
        BY <1>3, <2>1, <3>2
      <4>2. e[1] = c /\ c \in ended /\ next(c).st = "pending" /\ c \in Session
        BY <4>1
      <4> QED BY <1>3, <1>8, <4>1, <4>2
    <3> QED BY <3>1, <3>2
  <2> QED BY <2>1 DEF SendsTrue
<1>13. Unended'
  BY <1>4 DEF SessionInv, Unended
<1> QED BY <1>9, <1>10, <1>11, <1>12, <1>13

(* Nothing ends, and the client and the table stay as they are. *)
LEMMA SameSessions ==
  ASSUME SessionInv, UNCHANGED <<client, table>>
  PROVE  SessionInv'
BY DEF SessionInv, OneRequestPerSession, TimeoutsTrue, SendsTrue, TimeoutBeforeToken, Unended,
       IdOf, client, table

(* Requests end and no token is sampled: only what was waiting for its first *)
(* token times out.                                                          *)
LEMMA EndsQuietly ==
  ASSUME HeldInv, SessionInv, NEW E \in SUBSET Slot, NEW o, NEW tokened,
         ClientEnds(E, o, tokened), TableEnds(E, o), UNCHANGED first,
         o = "timedOut" => \A s \in E : ~first[s]
  PROVE  SessionInv'
<1>1. /\ OneRequestPerSession' /\ TimeoutsTrue' /\ SendsTrue' /\ Unended'
      /\ timeouts' \subseteq timeouts
  BY EndsSessions
<1>2. \A s \in Slot : outcome'[s] = IF s \in E THEN o ELSE outcome[s]
  BY DEF TableEnds
<1>3. TimeoutBeforeToken'
  BY <1>1, <1>2 DEF SessionInv, TimeoutBeforeToken
<1> QED BY <1>1, <1>3 DEF SessionInv

-----------------------------------------------------------------------------
(* Arrivals. *)

(* What allocating a slot leaves alone: every live request's record. *)
LEMMA AllocLeaves ==
  ASSUME HeldInv, NEW s \in Allocatable, NEW id, NEW code, NEW o, AllocRequest(s, id, code, o)
  PROVE  /\ s \in Slot /\ live[s] # 1
         /\ live'[s] = code /\ reqId'[s] = id /\ outcome'[s] = o /\ ~first'[s]
         /\ \A t \in Slot \ {s} :
              /\ live[t] = 1 => reqId'[t] = reqId[t]
              /\ live'[t] = 1 <=> live[t] = 1
              /\ outcome'[t] \in {None, outcome[t]}
              /\ first'[t] => first[t] /\ outcome'[t] = outcome[t]
<1>1. s \in Slot /\ live[s] # 1
  BY Reusable
<1>2. \A t \in Slot :
        /\ live'[t] = IF t = s THEN code ELSE IF t \in Freed THEN 0 ELSE live[t]
        /\ reqId'[t] = IF t = s THEN id ELSE IF t \in Freed THEN None ELSE reqId[t]
        /\ outcome'[t] = IF t = s THEN o ELSE IF t \in Freed THEN None ELSE outcome[t]
  BY DEF AllocRequest
<1>3. \A t \in Slot : first'[t] <=> (first[t] /\ t # s /\ t \notin Freed)
  BY DEF AllocRequest
<1>4. \A t \in Freed : live[t] = 2
  BY Reusable
<1> QED BY <1>1, <1>2, <1>3, <1>4

(* The session of an arriving request has none, and no timeout either. *)
LEMMA NoneOutstanding ==
  ASSUME HeldInv, SessionInv, NEW c \in Session, sess[c].st # "inFlight"
  PROVE  slotOf[c] = None /\ (\A e \in timeouts : e[2][1] # c)
         /\ \A s \in Slot : live[s] = 1 => reqId[s][1] # c
<1>1. slotOf[c] = None
  BY DEF SessionInv, OneRequestPerSession
<1>2. None \notin Slot
  BY FleetAssumption DEF FleetAssumption
<1>3. \A e \in timeouts : e[2][1] # c
  BY <1>1, <1>2, EventTypes DEF HeldInv, SessionInv, TimeoutsTrue
<1>4. \A s \in Slot : live[s] = 1 => reqId[s][1] # c
  BY <1>1, <1>2 DEF SessionInv, OneRequestPerSession
<1> QED BY <1>1, <1>3, <1>4

(* The sends that may fire for session c: it is new, or `fired` is its own. *)
Arrives(c, fired) ==
  \/ sess[c].st = "new" /\ fired = {}
  \/ \E e \in sends : sess[c].st = "pending" /\ e[1] = c /\ fired = {e}

LEMMA OthersSend ==
  ASSUME SessionInv, NEW c \in Session, NEW fired, Arrives(c, fired)
  PROVE  \A e \in sends \ fired : e[1] # c
BY DEF SessionInv, SendsTrue, Arrives

LEMMA SendAdmittedSessions ==
  ASSUME HeldInv, SessionInv, NEW c \in Session, NEW s \in Allocatable, NEW fired,
         Arrives(c, fired), SendAdmitted(c, s, fired)
  PROVE  SessionInv'
<1>0. TypeOK /\ ClientType /\ sess[c].st # "inFlight"
  BY TypeParts DEF HeldInv, Arrives
<1> DEFINE id == IdOf(c)
<1>1. AllocRequest(s, id, 1, None)
  BY DEF SendAdmitted
<1>2. /\ s \in Slot /\ live[s] # 1
      /\ live'[s] = 1 /\ reqId'[s] = id /\ outcome'[s] = None /\ ~first'[s]
      /\ \A t \in Slot \ {s} :
           /\ live[t] = 1 => reqId'[t] = reqId[t]
           /\ live'[t] = 1 <=> live[t] = 1
           /\ outcome'[t] \in {None, outcome[t]}
           /\ first'[t] => first[t] /\ outcome'[t] = outcome[t]
  BY <1>0, <1>1, AllocLeaves
<1>3. /\ sess' = [sess EXCEPT ![c].st = "inFlight"]
      /\ slotOf' = [slotOf EXCEPT ![c] = s]
      /\ sessEv' = [sessEv EXCEPT ![c] = NoEvent]
      /\ sends' = sends \ fired
  BY DEF SendAdmitted
<1>4. PICK arm \in BOOLEAN :
        /\ timeoutEv' = [timeoutEv EXCEPT ![c] = Handle(<<s, id>>, ~arm)]
        /\ timeouts' = timeouts \cup Queued(<<s, id>>, ~arm)
  BY DEF SendAdmitted, Lossy
<1>5. id \in ReqId /\ id[1] = c
  BY <1>0, RecPhaseType DEF SessionPhase, IdOf
<1>6. /\ slotOf[c] = None /\ (\A e \in timeouts : e[2][1] # c)
      /\ \A t \in Slot : live[t] = 1 => reqId[t][1] # c
  BY <1>0, NoneOutstanding
<1>7. /\ \A d \in Session \ {c} : sess'[d] = sess[d] /\ slotOf'[d] = slotOf[d] /\ IdOf(d)' = IdOf(d)
      /\ sess'[c].st = "inFlight" /\ slotOf'[c] = s /\ IdOf(c)' = id
  <2>1. \A d \in Session \ {c} : sess'[d] = sess[d] /\ slotOf'[d] = slotOf[d]
    BY <1>0, <1>3 DEF ClientType
  <2>2. sess'[c] = [sess[c] EXCEPT !.st = "inFlight"] /\ slotOf'[c] = s
    BY <1>0, <1>3 DEF ClientType
  <2>3. sess[c] \in SessionRec
    BY <1>0 DEF ClientType
  <2>4. /\ sess'[c].st = "inFlight" /\ sess'[c].turn = sess[c].turn
        /\ sess'[c].attempt = sess[c].attempt
    BY <2>2, <2>3 DEF SessionRec
  <2> QED BY <2>1, <2>2, <2>4 DEF IdOf
<1>8. s # None
  BY <1>2, FleetAssumption DEF FleetAssumption
<1>9. OneRequestPerSession'
  <2>1. ASSUME NEW d \in Session
        PROVE  /\ sess'[d].st = "inFlight" <=> slotOf'[d] # None
               /\ slotOf'[d] # None => live'[slotOf'[d]] = 1 /\ reqId'[slotOf'[d]] = IdOf(d)'
    <3>1. CASE d = c
      BY <1>2, <1>7, <1>8, <3>1
    <3>2. CASE d # c
      <4>1. slotOf[d] # None => slotOf[d] \in Slot \ {s} /\ live[slotOf[d]] = 1
        BY <1>0, <1>2 DEF ClientType, SessionInv, OneRequestPerSession
      <4> QED BY <1>2, <1>7, <3>2, <4>1 DEF SessionInv, OneRequestPerSession
    <3> QED BY <3>1, <3>2
  <2>2. ASSUME NEW t \in Slot, live'[t] = 1 PROVE slotOf'[reqId'[t][1]] = t
    <3>1. CASE t = s
      BY <1>2, <1>5, <1>7, <3>1
    <3>2. CASE t # s
      <4>1. live[t] = 1 /\ reqId'[t] = reqId[t]
        BY <1>2, <2>2, <3>2
      <4>2. reqId[t][1] \in Session \ {c}
        BY <1>6, <4>1, LiveNamed
      <4> QED BY <1>7, <4>1, <4>2 DEF SessionInv, OneRequestPerSession
    <3> QED BY <3>1, <3>2
  <2> QED BY <2>1, <2>2 DEF OneRequestPerSession
<1>10. \A e \in timeouts' : e \in timeouts \/ (e = <<s, id>> /\ timeoutEv'[c] = e)
  BY <1>0, <1>4 DEF Queued, Handle, ClientType
<1>11. \A e \in timeouts : /\ e[1] \in Slot \ {s} /\ e[2][1] \in Session \ {c} /\ live[e[1]] = 1
                           /\ timeoutEv'[e[2][1]] = e
  <2> TAKE e \in timeouts
  <2>1. e[1] \in Slot /\ e[2][1] \in Session \ {c}
    BY <1>0, <1>6, EventTypes
  <2>2. timeoutEv[e[2][1]] = e /\ live[e[1]] = 1
    BY <2>1, FleetAssumption DEF SessionInv, TimeoutsTrue, OneRequestPerSession, FleetAssumption
  <2>3. e[1] # s
    BY <1>2, <2>2
  <2> QED BY <1>0, <1>4, <2>1, <2>2, <2>3 DEF ClientType
<1>12. TimeoutsTrue'
  <2>1. ASSUME NEW e \in timeouts'
        PROVE  timeoutEv'[e[2][1]] = e /\ slotOf'[e[2][1]] = e[1] /\ reqId'[e[1]] = e[2]
    <3>1. CASE e \in timeouts
      BY <1>2, <1>7, <1>11, <3>1 DEF SessionInv, TimeoutsTrue
    <3>2. CASE e \notin timeouts
      BY <1>2, <1>5, <1>7, <1>10, <3>2
    <3> QED BY <3>1, <3>2
  <2> QED BY <2>1 DEF TimeoutsTrue
<1>13. SendsTrue'
  <2>1. ASSUME NEW e \in sends'
        PROVE  sessEv'[e[1]] = e /\ sess'[e[1]].st = "pending" /\ IdOf(e[1])' = e
    <3>1. e \in sends /\ e[1] \in Session \ {c}
      BY <1>0, <1>3, <2>1, EventTypes, OthersSend
    <3> QED BY <1>0, <1>3, <1>7, <3>1 DEF SessionInv, SendsTrue, ClientType
  <2> QED BY <2>1 DEF SendsTrue
<1>14. TimeoutBeforeToken'
  <2>1. \A e \in timeouts' : ~first'[e[1]]
    BY <1>2, <1>10, <1>11 DEF SessionInv, TimeoutBeforeToken
  <2>2. \A t \in Slot : outcome'[t] = "timedOut" => ~first'[t]
    BY <1>2 DEF SessionInv, TimeoutBeforeToken
  <2> QED BY <2>1, <2>2 DEF TimeoutBeforeToken
<1>15. Unended'
  BY <1>2 DEF SessionInv, Unended
<1> QED BY <1>9, <1>12, <1>13, <1>14, <1>15 DEF SessionInv

LEMMA SendRejectedSessions ==
  ASSUME HeldInv, SessionInv, NEW c \in Session, NEW s \in Allocatable, NEW fired,
         Arrives(c, fired), SendRejected(c, s, fired)
  PROVE  SessionInv'
<1>0. TypeOK /\ ClientType /\ sess[c].st # "inFlight"
  BY TypeParts DEF HeldInv, Arrives
<1>1. AllocRequest(s, IdOf(c), 2, "rejected")
  BY DEF SendRejected
<1>2. /\ s \in Slot /\ live[s] # 1
      /\ live'[s] = 2 /\ outcome'[s] = "rejected" /\ ~first'[s]
      /\ \A t \in Slot \ {s} :
           /\ live[t] = 1 => reqId'[t] = reqId[t]
           /\ live'[t] = 1 <=> live[t] = 1
           /\ outcome'[t] \in {None, outcome[t]}
           /\ first'[t] => first[t] /\ outcome'[t] = outcome[t]
  BY <1>0, <1>1, AllocLeaves
<1>3. PICK lost \in Lossy :
        LET next == AfterEnd(sess[c], "rejected", FALSE, lost)
            ev   == <<c, next.turn, next.attempt>>
            again == next.st = "pending"
        IN  /\ sess' = [sess EXCEPT ![c] = next]
            /\ sessEv' = [sessEv EXCEPT ![c] = Handle(ev, ~again)]
            /\ sends' = (sends \ fired) \cup Queued(ev, ~again)
  BY DEF SendRejected
<1> DEFINE next == AfterEnd(sess[c], "rejected", FALSE, lost)
           ev   == <<c, next.turn, next.attempt>>
<1>4. next.st \in {"closed", "pending"}
  BY <1>0, AfterEndPhase DEF ClientType
<1> HIDE DEF next
<1>5. /\ sess' = [sess EXCEPT ![c] = next]
      /\ sessEv' = [sessEv EXCEPT ![c] = Handle(ev, next.st # "pending")]
      /\ sends' = (sends \ fired) \cup Queued(ev, next.st # "pending")
  BY <1>3 DEF next
<1>6. UNCHANGED <<slotOf, timeoutEv, timeouts>>
  BY DEF SendRejected
<1>7. /\ \A d \in Session \ {c} : sess'[d] = sess[d] /\ IdOf(d)' = IdOf(d)
      /\ sess'[c] = next /\ IdOf(c)' = ev
  BY <1>0, <1>5 DEF ClientType, IdOf
<1>8. /\ slotOf[c] = None /\ (\A e \in timeouts : e[2][1] # c)
      /\ \A t \in Slot : live[t] = 1 => reqId[t][1] # c
  BY <1>0, NoneOutstanding
<1>9. OneRequestPerSession'
  <2>1. ASSUME NEW d \in Session
        PROVE  /\ sess'[d].st = "inFlight" <=> slotOf'[d] # None
               /\ slotOf'[d] # None => live'[slotOf'[d]] = 1 /\ reqId'[slotOf'[d]] = IdOf(d)'
    <3>1. CASE d = c
      BY <1>4, <1>6, <1>7, <1>8, <3>1
    <3>2. CASE d # c
      <4>1. slotOf[d] # None => slotOf[d] \in Slot \ {s} /\ live[slotOf[d]] = 1
        BY <1>0, <1>2 DEF ClientType, SessionInv, OneRequestPerSession
      <4> QED BY <1>2, <1>6, <1>7, <3>2, <4>1 DEF SessionInv, OneRequestPerSession
    <3> QED BY <3>1, <3>2
  <2>2. ASSUME NEW t \in Slot, live'[t] = 1 PROVE slotOf'[reqId'[t][1]] = t
    <3>1. t # s /\ live[t] = 1 /\ reqId'[t] = reqId[t]
      BY <1>2, <2>2
    <3> QED BY <1>6, <3>1 DEF SessionInv, OneRequestPerSession
  <2> QED BY <2>1, <2>2 DEF OneRequestPerSession
<1>10. \A e \in timeouts : e[1] \in Slot \ {s} /\ live[e[1]] = 1
  <2> TAKE e \in timeouts
  <2>1. e[1] \in Slot /\ e[2][1] \in Session
    BY <1>0, EventTypes
  <2>2. live[e[1]] = 1
    BY <2>1, FleetAssumption DEF SessionInv, TimeoutsTrue, OneRequestPerSession, FleetAssumption
  <2> QED BY <1>2, <2>1, <2>2
<1>11. TimeoutsTrue' /\ TimeoutBeforeToken' /\ Unended'
  <2>1. TimeoutsTrue'
    BY <1>2, <1>6, <1>10 DEF SessionInv, TimeoutsTrue
  <2>2. TimeoutBeforeToken'
    BY <1>2, <1>6, <1>10 DEF SessionInv, TimeoutBeforeToken
  <2>3. Unended'
    BY <1>2 DEF SessionInv, Unended
  <2> QED BY <2>1, <2>2, <2>3
<1>12. SendsTrue'
  <2>1. ASSUME NEW e \in sends'
        PROVE  sessEv'[e[1]] = e /\ sess'[e[1]].st = "pending" /\ IdOf(e[1])' = e
    <3>1. CASE e \in sends \ fired
      <4>1. e[1] \in Session \ {c}
        BY <1>0, <3>1, EventTypes, OthersSend
      <4> QED BY <1>0, <1>5, <1>7, <3>1, <4>1 DEF SessionInv, SendsTrue, ClientType
    <3>2. CASE e \notin sends \ fired
      <4>1. e = ev /\ next.st = "pending"
        BY <1>5, <2>1, <3>2 DEF Queued
      <4> QED BY <1>0, <1>5, <1>7, <4>1 DEF Handle, ClientType
    <3> QED BY <3>1, <3>2
  <2> QED BY <2>1 DEF SendsTrue
<1> QED BY <1>9, <1>11, <1>12 DEF SessionInv

LEMMA InjectExtraSessions ==
  ASSUME HeldInv, SessionInv, NEW c \in Session, InjectExtra(c)
  PROVE  SessionInv'
<1>0. TypeOK /\ ClientType /\ sess[c].st = "new"
  BY TypeParts DEF HeldInv, InjectExtra
<1>1. /\ sess' = [sess EXCEPT ![c].st = "pending"]
      /\ sessEv' = [sessEv EXCEPT ![c] = IdOf(c)]
      /\ sends' = sends \cup {IdOf(c)}
      /\ UNCHANGED <<slotOf, timeoutEv, timeouts, live, reqId, outcome, first>>
  BY DEF InjectExtra, table
<1>2. /\ \A d \in Session \ {c} : sess'[d] = sess[d] /\ IdOf(d)' = IdOf(d)
      /\ sess'[c].st = "pending" /\ IdOf(c)' = IdOf(c)
  <2>1. \A d \in Session \ {c} : sess'[d] = sess[d]
    BY <1>0, <1>1 DEF ClientType
  <2>2. sess'[c] = [sess[c] EXCEPT !.st = "pending"] /\ sess[c] \in SessionRec
    BY <1>0, <1>1 DEF ClientType
  <2>3. /\ sess'[c].st = "pending" /\ sess'[c].turn = sess[c].turn
        /\ sess'[c].attempt = sess[c].attempt
    BY <2>2 DEF SessionRec
  <2> QED BY <2>1, <2>3 DEF IdOf
<1>3. slotOf[c] = None
  BY <1>0, NoneOutstanding
<1>4. OneRequestPerSession'
  <2>1. ASSUME NEW d \in Session
        PROVE  /\ sess'[d].st = "inFlight" <=> slotOf'[d] # None
               /\ slotOf'[d] # None => live'[slotOf'[d]] = 1 /\ reqId'[slotOf'[d]] = IdOf(d)'
    <3>1. CASE d = c
      BY <1>1, <1>2, <1>3, <3>1
    <3>2. CASE d # c
      BY <1>1, <1>2, <3>2 DEF SessionInv, OneRequestPerSession
    <3> QED BY <3>1, <3>2
  <2> QED BY <1>1, <2>1 DEF SessionInv, OneRequestPerSession
<1>5. TimeoutsTrue' /\ TimeoutBeforeToken' /\ Unended'
  BY <1>1 DEF SessionInv, TimeoutsTrue, TimeoutBeforeToken, Unended
<1>6. SendsTrue'
  <2>1. ASSUME NEW e \in sends'
        PROVE  sessEv'[e[1]] = e /\ sess'[e[1]].st = "pending" /\ IdOf(e[1])' = e
    <3>1. CASE e \in sends
      <4>1. e[1] \in Session \ {c}
        BY <1>0, <3>1, EventTypes DEF SessionInv, SendsTrue
      <4> QED BY <1>0, <1>1, <1>2, <3>1, <4>1 DEF SessionInv, SendsTrue, ClientType
    <3>2. CASE e = IdOf(c)
      <4>1. e[1] = c
        BY <3>2 DEF IdOf
      <4> QED BY <1>0, <1>1, <1>2, <3>2, <4>1 DEF ClientType
    <3> QED BY <1>1, <2>1, <3>1, <3>2
  <2> QED BY <2>1 DEF SendsTrue
<1> QED BY <1>4, <1>5, <1>6 DEF SessionInv

-----------------------------------------------------------------------------
(* Timeouts and first tokens. *)

LEMMA TimeoutDueSessions ==
  ASSUME HeldInv, SessionInv, NEW e \in timeouts, TimeoutDue(e)
  PROVE  SessionInv'
<1> DEFINE s == e[1]
           E == IF pending[s] # None \/ phase[s] # "none" THEN {s} ELSE {}
<1>1. s \in Slot /\ ~first[s]
  BY EventTypes DEF HeldInv, SessionInv, TimeoutBeforeToken
<1>2. /\ ClientEnds(E, "timedOut", {e[2][1]}) /\ TableEnds(E, "timedOut") /\ UNCHANGED first
  BY DEF TimeoutDue
<1>3. E \in SUBSET Slot /\ \A t \in E : ~first[t]
  BY <1>1
<1> HIDE DEF E
<1> QED BY <1>2, <1>3, EndsQuietly

(* A first token disarms the timeout of the request that samples it. *)
LEMMA StepEndDueSessions ==
  ASSUME HeldInv, SessionInv, NEW r \in Replica, StepEndDue(r)
  PROVE  SessionInv'
<1>0. TypeOK /\ ClientType
  BY TypeParts DEF HeldInv
<1>1. PICK tokened \in SUBSET Held(r, "running"), done \in SUBSET Held(r, "running") :
        /\ first' = [s \in Slot |-> first[s] \/ s \in tokened]
        /\ ClientEnds(done, "finished", {c \in Session : slotOf[c] \in tokened})
        /\ TableEnds(done, "finished")
  BY DEF StepEndDue
<1>2. done \in SUBSET Slot /\ \A s \in tokened : s \in Slot /\ live[s] = 1
  BY <1>1 DEF Held, HeldInv, HeldOnce
<1>3. /\ OneRequestPerSession' /\ TimeoutsTrue' /\ SendsTrue' /\ Unended'
      /\ \A e \in timeouts' : e \in timeouts /\ e[2][1] \notin {c \in Session : slotOf[c] \in tokened}
  BY <1>1, <1>2, EndsSessions
<1>4. \A e \in timeouts' : ~first'[e[1]]
  <2> TAKE e \in timeouts'
  <2>1. e \in timeouts /\ e[1] \in Slot /\ e[2][1] \in Session /\ slotOf[e[2][1]] = e[1]
    BY <1>0, <1>3, EventTypes DEF SessionInv, TimeoutsTrue
  <2>2. e[1] \notin tokened /\ ~first[e[1]]
    BY <1>3, <2>1 DEF SessionInv, TimeoutBeforeToken
  <2> QED BY <1>1, <2>1, <2>2
<1>5. \A s \in Slot : outcome'[s] = "timedOut" => ~first'[s]
  <2> TAKE s \in Slot
  <2>1. outcome'[s] = IF s \in done THEN "finished" ELSE outcome[s]
    BY <1>1 DEF TableEnds
  <2>2. CASE s \in tokened
    BY <1>2, <2>1, <2>2, FleetAssumption DEF SessionInv, Unended, FleetAssumption, Outcome
  <2>3. CASE s \notin tokened
    BY <1>1, <2>1, <2>3 DEF SessionInv, TimeoutBeforeToken
  <2> QED BY <2>2, <2>3
<1> QED BY <1>3, <1>4, <1>5 DEF SessionInv, TimeoutBeforeToken

-----------------------------------------------------------------------------
(* Dispatch, eligibility and phase-end events. *)

(* A dispatch event's request is live: nobody else has its slot. *)
LEMMA PendingLives ==
  ASSUME HeldInv, EventInv, NEW e \in dispatches
  PROVE  e[1] \in Slot /\ pending[e[1]] = e /\ live[e[1]] = 1
         /\ dispatched[e[1]] = None /\ phase[e[1]] = "none"
<1>1. e[1] \in Slot /\ e # None /\ pending[e[1]] = e
  BY EventTypes DEF HeldInv, EventInv, DispatchesTrue
<1> QED BY <1>1 DEF HeldInv, HeldOnce

LEMMA RouterEndsDispatches ==
  ASSUME HeldInv, EventInv, NEW E, RouterEnds(E), UNCHANGED reqId
  PROVE  DispatchesTrue'
<1>1. dispatches' = dispatches \ {pending[s] : s \in E}
  BY DEF RouterEnds
<1>2. \A s \in Slot : pending'[s] = IF s \in E THEN None ELSE pending[s]
  BY DEF RouterEnds
<1>3. ASSUME NEW e \in dispatches' PROVE pending'[e[1]] = e /\ reqId'[e[1]] = e[2]
  <2>1. e \in dispatches /\ \A s \in E : e # pending[s]
    BY <1>1
  <2>2. e[1] \in Slot /\ pending[e[1]] = e
    BY <2>1, PendingLives
  <2>3. e[1] \notin E
    BY <2>1, <2>2
  <2> QED BY <1>2, <2>1, <2>2, <2>3 DEF EventInv, DispatchesTrue
<1> QED BY <1>3 DEF DispatchesTrue

LEMMA SendDispatches ==
  ASSUME HeldInv, EventInv, NEW c \in Session, NEW s \in Allocatable, NEW fired,
         SendAdmitted(c, s, fired) \/ SendRejected(c, s, fired)
  PROVE  DispatchesTrue'
<1>0. TypeOK /\ RouterType /\ s \in Slot /\ live[s] # 1
  BY TypeParts, Reusable DEF HeldInv
<1>1. \E code, o : AllocRequest(s, IdOf(c), code, o)
  BY DEF SendAdmitted, SendRejected
<1>2. reqId'[s] = IdOf(c) /\ \A t \in Slot \ {s} : live[t] = 1 => reqId'[t] = reqId[t]
  BY <1>0, <1>1, AllocLeaves
<1>3. \A e \in dispatches : e[1] \in Slot \ {s} /\ reqId'[e[1]] = e[2] /\ pending[e[1]] = e
  <2> TAKE e \in dispatches
  <2>1. e[1] \in Slot /\ pending[e[1]] = e /\ live[e[1]] = 1
    BY PendingLives
  <2> QED BY <1>0, <1>2, <2>1 DEF EventInv, DispatchesTrue
<1>4. CASE SendAdmitted(c, s, fired)
  <2>1. PICK r \in routable, lost \in Lossy :
          /\ pending' = [pending EXCEPT ![s] = Handle(<<s, IdOf(c), r>>, lost)]
          /\ dispatches' = dispatches \cup Queued(<<s, IdOf(c), r>>, lost)
    BY <1>4 DEF SendAdmitted
  <2>2. ASSUME NEW e \in dispatches' PROVE pending'[e[1]] = e /\ reqId'[e[1]] = e[2]
    <3>1. CASE e \in dispatches
      BY <1>0, <1>3, <2>1, <3>1 DEF RouterType
    <3>2. CASE e \notin dispatches
      <4>1. e = <<s, IdOf(c), r>> /\ ~lost
        BY <2>1, <2>2, <3>2 DEF Queued
      <4> QED BY <1>0, <1>2, <2>1, <4>1 DEF Handle, RouterType
    <3> QED BY <3>1, <3>2
  <2> QED BY <2>2 DEF DispatchesTrue
<1>5. CASE SendRejected(c, s, fired)
  BY <1>3, <1>5 DEF SendRejected, DispatchesTrue, router
<1> QED BY <1>4, <1>5

(* A dispatched request leaves its dispatch event behind for good, and takes *)
(* an eligibility event with it when the replica has overhead.               *)
LEMMA DispatchToEvents ==
  ASSUME HeldInv, EventInv, NEW e \in dispatches, NEW r \in Replica, DispatchTo(e, r)
  PROVE  DispatchesTrue' /\ EligiblesTrue'
<1>0. TypeOK /\ RouterType /\ EngineType
  BY TypeParts DEF HeldInv
<1> DEFINE s == e[1]
<1>1. s \in Slot /\ pending[s] = e /\ phase[s] = "none"
  BY PendingLives
<1>2. /\ dispatches' = dispatches \ {e} /\ pending' = [pending EXCEPT ![s] = None]
      /\ at' = [at EXCEPT ![s] = r] /\ UNCHANGED reqId
  BY DEF DispatchTo, table
<1>3. DispatchesTrue'
  <2>1. ASSUME NEW d \in dispatches' PROVE pending'[d[1]] = d /\ reqId'[d[1]] = d[2]
    <3>1. d \in dispatches /\ d # e
      BY <1>2
    <3>2. d[1] \in Slot \ {s} /\ pending[d[1]] = d
      BY <1>1, <3>1, PendingLives
    <3> QED BY <1>0, <1>2, <3>1, <3>2 DEF EventInv, DispatchesTrue, RouterType
  <2> QED BY <2>1 DEF DispatchesTrue
<1>4. \A d \in eligibles : /\ d[1] \in Slot \ {s} /\ at'[d[1]] = d[3]
                           /\ eligibleEv[d[1]] = d /\ phase[d[1]] = "arriving"
  <2> TAKE d \in eligibles
  <2>1. d[1] \in Slot /\ eligibleEv[d[1]] = d /\ phase[d[1]] = "arriving" /\ at[d[1]] = d[3]
    BY <1>0, EventTypes DEF EventInv, EligiblesTrue
  <2> QED BY <1>0, <1>1, <1>2, <2>1 DEF EngineType
<1>5. CASE HasOverhead
  <2>1. PICK lost \in Lossy :
            /\ phase' = [phase EXCEPT ![s] = "arriving"]
            /\ eligibleEv' = [eligibleEv EXCEPT ![s] = Handle(<<s, reqId[s], r>>, lost)]
            /\ eligibles' = eligibles \cup Queued(<<s, reqId[s], r>>, lost)
    BY <1>5 DEF DispatchTo
  <2>2. ASSUME NEW d \in eligibles'
        PROVE  eligibleEv'[d[1]] = d /\ phase'[d[1]] = "arriving" /\ at'[d[1]] = d[3]
    <3>1. CASE d \in eligibles
      BY <1>0, <1>4, <2>1, <3>1 DEF EngineType
    <3>2. CASE d \notin eligibles
      <4>1. d = <<s, reqId[s], r>> /\ ~lost
        BY <2>1, <2>2, <3>2 DEF Queued
      <4> QED BY <1>0, <1>1, <1>2, <2>1, <4>1 DEF Handle, EngineType
    <3> QED BY <3>1, <3>2
  <2> QED BY <1>3, <2>2 DEF EligiblesTrue
<1>6. CASE ~HasOverhead
  <2>1. phase' = [phase EXCEPT ![s] = "waiting"] /\ UNCHANGED <<eligibleEv, eligibles>>
    BY <1>6 DEF DispatchTo, MakeEligible
  <2> QED BY <1>0, <1>3, <1>4, <2>1 DEF EligiblesTrue, EngineType
<1> QED BY <1>5, <1>6

(* Slots that leave a replica take their eligibility events along. *)
LEMMA LeavesEligibles ==
  ASSUME HeldInv, EventInv, NEW E \in SUBSET Slot,
         eligibles' = eligibles \ {eligibleEv[s] : s \in E},
         \A s \in Slot \ E : eligibleEv'[s] = eligibleEv[s] /\ phase'[s] = phase[s] /\ at'[s] = at[s]
  PROVE  EligiblesTrue'
<1>1. ASSUME NEW d \in eligibles'
      PROVE  eligibleEv'[d[1]] = d /\ phase'[d[1]] = "arriving" /\ at'[d[1]] = d[3]
  <2>1. d \in eligibles /\ \A s \in E : d # eligibleEv[s]
    OBVIOUS
  <2>2. d[1] \in Slot /\ eligibleEv[d[1]] = d /\ phase[d[1]] = "arriving" /\ at[d[1]] = d[3]
    BY <2>1, EventTypes DEF HeldInv, EventInv, EligiblesTrue
  <2> QED BY <2>1, <2>2
<1> QED BY <1>1 DEF EligiblesTrue

LEMMA EligibleDueEvents ==
  ASSUME HeldInv, EventInv, NEW e \in eligibles, EligibleDue(e)
  PROVE  EligiblesTrue'
<1>0. TypeOK /\ EngineType /\ e[1] \in Slot
  BY TypeParts, EventTypes DEF HeldInv
<1>1. /\ eligibles' = eligibles \ {eligibleEv[s] : s \in {e[1]}}
      /\ eligibleEv' = [eligibleEv EXCEPT ![e[1]] = NoEvent]
      /\ phase' = [phase EXCEPT ![e[1]] = "waiting"] /\ at' = at
  BY DEF EligibleDue, MakeEligible
<1>2. \A s \in Slot \ {e[1]} :
        eligibleEv'[s] = eligibleEv[s] /\ phase'[s] = phase[s] /\ at'[s] = at[s]
  BY <1>0, <1>1 DEF EngineType
<1>3. {e[1]} \in SUBSET Slot
  BY <1>0
<1> QED BY <1>1, <1>2, <1>3, LeavesEligibles

(* What starts, finishes or is preempted was not arriving. *)
LEMMA FinishAndComposeEligibles ==
  ASSUME HeldInv, EventInv, NEW r \in Replica, NEW E \in SUBSET Held(r, "running"),
         FinishAndCompose(r, E)
  PROVE  EligiblesTrue'
<1>1. PICK pre \in SUBSET (Held(r, "running") \ E), adm \in SUBSET Held(r, "waiting") :
        /\ phase' = [s \in Slot |-> IF s \in E THEN "none"
                                    ELSE IF s \in pre THEN "waiting"
                                    ELSE IF s \in adm THEN "running" ELSE phase[s]]
        /\ at' = [s \in Slot |-> IF s \in E THEN None ELSE at[s]]
  BY DEF FinishAndCompose
<1>2. UNCHANGED <<eligibleEv, eligibles>>
  BY DEF FinishAndCompose
<1>3. \A s \in Slot : phase[s] = "arriving" => phase'[s] = "arriving" /\ at'[s] = at[s]
  BY <1>1 DEF Held
<1> QED BY <1>2, <1>3, EventTypes DEF HeldInv, EventInv, EligiblesTrue

LEMMA EnterEvents ==
  ASSUME HeldInv, EventInv, NEW r \in Replica, NEW code, Enter(r, code, phaseEv[r])
  PROVE  DispatchesTrue' /\ EligiblesTrue' /\ PhaseEndsTrue'
<1>0. TypeOK /\ FailureType
  BY TypeParts DEF HeldInv
<1>1. DispatchesTrue'
  BY DEF Enter, TableEnds, EventInv, DispatchesTrue
<1>2. EligiblesTrue'
  <2>1. /\ phase' = [s \in Slot |-> IF s \in FailedBy(r, code) THEN "none" ELSE phase[s]]
        /\ at' = [s \in Slot |-> IF s \in FailedBy(r, code) THEN None ELSE at[s]]
        /\ eligibleEv' = [s \in Slot |-> IF s \in FailedBy(r, code) THEN NoEvent ELSE eligibleEv[s]]
        /\ eligibles' = eligibles \ {eligibleEv[s] : s \in FailedBy(r, code)}
    BY DEF Enter, FailedBy
  <2>2. FailedBy(r, code) \in SUBSET Slot
    BY DEF FailedBy, Held
  <2> QED BY <2>1, <2>2, LeavesEligibles
<1>3. PICK lost \in BOOLEAN :
        /\ fstate' = [fstate EXCEPT ![r] = code]
        /\ phaseEv' = [phaseEv EXCEPT ![r] = Handle(<<r, code>>, code = "ready" \/ lost)]
        /\ phaseEnds' = (phaseEnds \ {phaseEv[r]}) \cup Queued(<<r, code>>, code = "ready" \/ lost)
  BY DEF Enter, Lossy
<1>4. ASSUME NEW e \in phaseEnds' PROVE phaseEv'[e[1]] = e /\ fstate'[e[1]] = e[2]
  <2>1. CASE e \in phaseEnds \ {phaseEv[r]}
    <3>1. e[1] \in Replica /\ phaseEv[e[1]] = e /\ fstate[e[1]] = e[2]
      BY <1>0, <2>1, EventTypes DEF EventInv, PhaseEndsTrue
    <3>2. e[1] # r
      BY <2>1, <3>1
    <3> QED BY <1>0, <1>3, <3>1, <3>2 DEF FailureType
  <2>2. CASE e \notin phaseEnds \ {phaseEv[r]}
    <3>1. e = <<r, code>> /\ ~(code = "ready" \/ lost)
      BY <1>3, <1>4, <2>2 DEF Queued
    <3> QED BY <1>0, <1>3, <3>1 DEF Handle, FailureType
  <2> QED BY <2>1, <2>2
<1> QED BY <1>1, <1>2, <1>4 DEF PhaseEndsTrue

-----------------------------------------------------------------------------
(* The induction. *)

LEMMA SessionsStep ==
  ASSUME HeldInv, EventInv, Next
  PROVE  SessionInv'
<1>0. TypeOK /\ ClientType /\ RouterType /\ SessionInv
  BY TypeParts DEF HeldInv, EventInv
<1> DEFINE Same == UNCHANGED <<client, table>>
<1>1. Same => SessionInv'
  BY <1>0, SameSessions
<1>2. ASSUME NEW c \in Session, NEW fired, Arrives(c, fired), SendRequest(c, fired)
      PROVE  SessionInv'
  BY <1>0, <1>2, SendAdmittedSessions, SendRejectedSessions DEF SendRequest
<1>3. ASSUME NEW c \in Session, StartSession(c) PROVE SessionInv'
  BY <1>2, <1>3 DEF StartSession, Arrives
<1>4. ASSUME NEW c \in Session, InjectExtra(c) PROVE SessionInv'
  BY <1>0, <1>4, InjectExtraSessions
<1>5. ASSUME NEW e \in sends, SendDue(e) PROVE SessionInv'
  <2>1. e[1] \in Session
    BY <1>0, EventTypes
  <2>2. Arrives(e[1], {e})
    BY <1>5 DEF SendDue, Arrives
  <2> QED BY <1>2, <1>5, <2>1, <2>2 DEF SendDue
<1>6. ASSUME NEW e \in dispatches, DispatchDue(e) PROVE SessionInv'
  <2>1. {e[1]} \in SUBSET Slot
    BY PendingLives
  <2>2. ASSUME NEW r, DispatchTo(e, r) PROVE Same
    BY <2>2 DEF DispatchTo
  <2>3. ASSUME NEW o \in {"failed", "rejected"}, DispatchEnds(e, o) PROVE SessionInv'
    <3>1. /\ ClientEnds({e[1]}, o, {}) /\ TableEnds({e[1]}, o) /\ UNCHANGED first
          /\ o # "timedOut"
      BY <2>3 DEF DispatchEnds
    <3> QED BY <1>0, <2>1, <3>1, EndsQuietly
  <2> QED BY <1>1, <1>6, <2>2, <2>3 DEF DispatchDue
<1>7. ASSUME NEW e \in timeouts, TimeoutDue(e) PROVE SessionInv'
  BY <1>0, <1>7, TimeoutDueSessions
<1>8. ASSUME NEW r \in Replica, StepEndDue(r) PROVE SessionInv'
  BY <1>0, <1>8, StepEndDueSessions
<1>9. ASSUME NEW r, NEW code, NEW gone, Enter(r, code, gone) PROVE SessionInv'
  <2>1. /\ ClientEnds(FailedBy(r, code), "failed", {}) /\ TableEnds(FailedBy(r, code), "failed")
        /\ UNCHANGED first
    BY <1>9 DEF Enter, FailedBy
  <2>2. FailedBy(r, code) \in SUBSET Slot
    BY DEF FailedBy, Held
  <2> QED BY <1>0, <2>1, <2>2, EndsQuietly
<1>10. ASSUME NEW x, Crash(x) \/ PhaseEndDue(x) PROVE SessionInv'
  BY <1>9, <1>10 DEF Crash, PhaseEndDue
<1>11. ASSUME NEW x, EligibleDue(x) \/ KickDue(x) \/ SetParams(x) \/ RunLate PROVE Same
  BY <1>11 DEF EligibleDue, KickDue, SetParams, RunLate
<1> QED BY <1>1, <1>3, <1>4, <1>5, <1>6, <1>7, <1>8, <1>10, <1>11 DEF Next

LEMMA SameEvents ==
  ASSUME EventInv
  PROVE  /\ UNCHANGED <<pending, dispatches, reqId>> => DispatchesTrue'
         /\ UNCHANGED <<phase, at, eligibleEv, eligibles>> => EligiblesTrue'
         /\ UNCHANGED <<fstate, phaseEv, phaseEnds>> => PhaseEndsTrue'
BY DEF EventInv, DispatchesTrue, EligiblesTrue, PhaseEndsTrue

LEMMA QueuesStep ==
  ASSUME HeldInv, EventInv, Next
  PROVE  DispatchesTrue' /\ EligiblesTrue' /\ PhaseEndsTrue'
<1>0. TypeOK /\ RouterType
  BY TypeParts DEF HeldInv
<1> DEFINE Goal == DispatchesTrue' /\ EligiblesTrue' /\ PhaseEndsTrue'
           RouterSame == UNCHANGED <<pending, dispatches, reqId>>
           EngineSame == UNCHANGED <<phase, at, eligibleEv, eligibles>>
           FailureSame == UNCHANGED <<fstate, phaseEv, phaseEnds>>
<1>1. ASSUME NEW c \in Session, NEW fired, SendRequest(c, fired) PROVE Goal
  <2>1. PICK s \in Allocatable : SendAdmitted(c, s, fired) \/ SendRejected(c, s, fired)
    BY <1>1 DEF SendRequest
  <2>2. EngineSame /\ FailureSame
    BY <2>1 DEF SendAdmitted, SendRejected, engine, failure
  <2> QED BY <2>1, <2>2, SendDispatches, SameEvents
<1>2. ASSUME NEW c \in Session, StartSession(c) PROVE Goal
  BY <1>1, <1>2 DEF StartSession
<1>3. ASSUME NEW e \in sends, SendDue(e) PROVE Goal
  BY <1>0, <1>1, <1>3, EventTypes DEF SendDue
<1>4. ASSUME NEW e \in dispatches, DispatchDue(e) PROVE Goal
  <2>1. ASSUME NEW r \in Replica, DispatchTo(e, r) PROVE Goal
    <3>1. FailureSame
      BY <2>1 DEF DispatchTo, failure
    <3> QED BY <2>1, <3>1, DispatchToEvents, SameEvents
  <2>2. ASSUME NEW o, DispatchEnds(e, o) PROVE Goal
    <3>1. EngineSame /\ FailureSame /\ RouterEnds({e[1]}) /\ UNCHANGED reqId
      BY <2>2 DEF DispatchEnds, TableEnds, engine, failure
    <3> QED BY <3>1, RouterEndsDispatches, SameEvents
  <2>3. e[3] \in Replica /\ routable \subseteq Replica
    BY <1>0, EventTypes DEF RouterType
  <2> QED BY <1>4, <2>1, <2>2, <2>3 DEF DispatchDue
<1>5. ASSUME NEW e \in eligibles, EligibleDue(e) PROVE Goal
  <2>1. RouterSame /\ FailureSame
    BY <1>5 DEF EligibleDue, router, table, failure
  <2> QED BY <1>5, <2>1, EligibleDueEvents, SameEvents
<1>6. ASSUME NEW e \in timeouts, TimeoutDue(e) PROVE Goal
  <2> DEFINE s == e[1]
             E == IF pending[s] # None \/ phase[s] # "none" THEN {s} ELSE {}
  <2>1. s \in Slot
    BY <1>0, EventTypes
  <2>2. FailureSame /\ RouterEnds(E) /\ UNCHANGED reqId
    BY <1>6 DEF TimeoutDue, TableEnds, failure
  <2>3. /\ phase' = [phase EXCEPT ![s] = "none"] /\ at' = [at EXCEPT ![s] = None]
        /\ eligibleEv' = [eligibleEv EXCEPT ![s] = NoEvent]
        /\ eligibles' = eligibles \ {eligibleEv[t] : t \in {s}}
    BY <1>6 DEF TimeoutDue
  <2>4. \A t \in Slot \ {s} : eligibleEv'[t] = eligibleEv[t] /\ phase'[t] = phase[t] /\ at'[t] = at[t]
    BY <1>0, <2>1, <2>3, TypeParts DEF EngineType
  <2>5. {s} \in SUBSET Slot
    BY <2>1
  <2>6. EligiblesTrue'
    BY <2>3, <2>4, <2>5, LeavesEligibles
  <2>7. DispatchesTrue'
    BY <2>2, RouterEndsDispatches
  <2> QED BY <2>2, <2>6, <2>7, SameEvents
<1>7. ASSUME NEW r \in Replica, KickDue(r) PROVE Goal
  <2>1. RouterSame /\ FailureSame /\ FinishAndCompose(r, {})
    BY <1>7 DEF KickDue, router, table, failure
  <2> QED BY <2>1, FinishAndComposeEligibles, SameEvents
<1>8. ASSUME NEW r \in Replica, StepEndDue(r) PROVE Goal
  <2>1. PICK done \in SUBSET Held(r, "running") :
          FinishAndCompose(r, done) /\ RouterEnds(done) /\ UNCHANGED reqId
    BY <1>8 DEF StepEndDue, TableEnds
  <2>2. FailureSame
    BY <1>8 DEF StepEndDue, failure
  <2> QED BY <2>1, <2>2, FinishAndComposeEligibles, RouterEndsDispatches, SameEvents
<1>9. ASSUME NEW r \in Replica, Crash(r) PROVE Goal
  BY <1>9, EnterEvents DEF Crash
<1>10. ASSUME NEW e \in phaseEnds, PhaseEndDue(e) PROVE Goal
  <2>1. e[1] \in Replica
    BY <1>0, EventTypes
  <2> QED BY <1>10, <2>1, EnterEvents DEF PhaseEndDue
<1>11. ASSUME NEW x, InjectExtra(x) \/ SetParams(x) \/ RunLate PROVE Goal
  <2>1. RouterSame /\ EngineSame /\ FailureSame
    BY <1>11 DEF InjectExtra, SetParams, RunLate, router, table, engine, failure
  <2> QED BY <2>1, SameEvents
<1> QED BY <1>2, <1>3, <1>4, <1>5, <1>6, <1>7, <1>8, <1>9, <1>10, <1>11 DEF Next

LEMMA EventStep == HeldInv /\ EventInv /\ [Next]_vars => EventInv'
<1> SUFFICES ASSUME HeldInv, EventInv, [Next]_vars PROVE EventInv'
  OBVIOUS
<1>1. CASE Next
  BY <1>1, SessionsStep, QueuesStep DEF EventInv
<1>2. CASE UNCHANGED vars
  <2>1. UNCHANGED <<client, table, pending, dispatches, reqId, phase, at, eligibleEv, eligibles,
                    fstate, phaseEv, phaseEnds>>
    BY <1>2 DEF vars, table, router, engine, failure
  <2>2. SessionInv'
    BY <2>1, SameSessions DEF EventInv
  <2> QED BY <2>1, <2>2, SameEvents DEF EventInv
<1> QED BY <1>1, <1>2

LEMMA EventInit == Init => EventInv
<1> SUFFICES ASSUME Init PROVE EventInv
  OBVIOUS
<1>1. OneRequestPerSession
  BY DEF Init, LoadInit, TableInit, OneRequestPerSession
<1>2. TimeoutsTrue /\ SendsTrue /\ DispatchesTrue /\ EligiblesTrue /\ PhaseEndsTrue
  BY DEF Init, TimeoutsTrue, SendsTrue, DispatchesTrue, EligiblesTrue, PhaseEndsTrue
<1>3. TimeoutBeforeToken /\ Unended
  BY DEF Init, LoadInit, TableInit, TimeoutBeforeToken, Unended
<1> QED BY <1>1, <1>2, <1>3 DEF EventInv, SessionInv

(* The inductive invariant the three theorems below draw on. *)
LEMMA EventsInductive == Spec => [](HeldInv /\ EventInv /\ DeadInv)
<1>1. Init => HeldInv /\ EventInv /\ DeadInv
  <2>1. Init => DeadInv
    BY FleetAssumption DEF Init, ReplicaInit, DeadInv, DeadHoldsNothing, StepHandles, FleetAssumption
  <2> QED BY <2>1, HeldInit, EventInit
<1>2. HeldInv /\ EventInv /\ DeadInv /\ [Next]_vars => (HeldInv /\ EventInv /\ DeadInv)'
  BY HeldStep, EventStep, DeadStep
<1> QED BY <1>1, <1>2, PTL DEF Spec

(* Every pending event of the day is the one its holder's handle names and   *)
(* finds the state it was scheduled for, whatever crashes, timeouts, retries *)
(* and dispatches came in between; and a session in flight and its live      *)
(* request name each other.  None of the handlers' throws is reachable.      *)
THEOREM EventsAreExact == Spec => []EventsExact
<1>1. HeldInv /\ EventInv /\ DeadInv => EventsExact
  BY StaleParts DEF EventInv, SessionInv, DeadInv, EventsExact
<1> QED BY <1>1, EventsInductive, PTL

(* A request that has sampled its first token is never cancelled by the      *)
(* client's timeout: none is armed any more, and none has ended that way.    *)
THEOREM TokensDisarm == Spec => []TimeoutBeforeToken
<1>1. EventInv => TimeoutBeforeToken
  BY DEF EventInv, SessionInv
<1> QED BY <1>1, EventsInductive, PTL

-----------------------------------------------------------------------------
(* Outstanding counts. *)

(* The requests the router has dispatched to replica r. *)
DispatchedTo(r) == {s \in Slot : dispatched[s] = r}

LEMMA FiniteSlots ==
  ASSUME NEW S \in SUBSET Slot
  PROVE  IsFiniteSet(S) /\ Cardinality(S) \in Nat
BY FS_Subset, FS_CardinalityType, FleetAssumption DEF FleetAssumption

(* Ended requests come off the counts of the replicas that held them. *)
LEMMA EndsCount ==
  ASSUME OutstandingExact, NEW E \in SUBSET Slot,
         dispatched' = [s \in Slot |-> IF s \in E THEN None ELSE dispatched[s]],
         outstanding' = [r \in Replica |->
                           outstanding[r] - Cardinality({s \in E : dispatched[s] = r})]
  PROVE  OutstandingExact'
<1>1. ASSUME NEW r \in Replica
      PROVE  outstanding'[r] = Cardinality({s \in Slot : dispatched'[s] = r})
  <2> DEFINE ended == {s \in E : dispatched[s] = r}
             before == DispatchedTo(r)
  <2>1. {s \in Slot : dispatched'[s] = r} = before \ ended
    BY FleetAssumption DEF DispatchedTo, FleetAssumption
  <2>2. before \cap ended = ended
    BY DEF DispatchedTo
  <2>3. before \in SUBSET Slot
    BY DEF DispatchedTo
  <2>4. IsFiniteSet(before)
    BY <2>3, FiniteSlots
  <2>5. Cardinality(before \ ended) = Cardinality(before) - Cardinality(before \cap ended)
    BY <2>4, FS_Difference
  <2>6. outstanding'[r] = outstanding[r] - Cardinality(ended)
    OBVIOUS
  <2>7. outstanding[r] = Cardinality(before)
    BY DEF OutstandingExact, DispatchedTo
  <2> QED BY <2>1, <2>2, <2>5, <2>6, <2>7
<1> QED BY <1>1 DEF OutstandingExact

(* A dispatch adds one request that was counted nowhere. *)
LEMMA DispatchCounts ==
  ASSUME HeldInv, OutstandingExact, NEW e \in dispatches, NEW r \in Replica,
         pending[e[1]] # None, DispatchTo(e, r)
  PROVE  OutstandingExact'
<1> DEFINE s == e[1]
<1>0. RouterType /\ s \in Slot
  BY TypeParts DEF HeldInv, RouterType, DispatchEvent
<1>1. dispatched[s] = None
  BY <1>0 DEF HeldInv, HeldOnce
<1>2. /\ dispatched' = [dispatched EXCEPT ![s] = r]
      /\ outstanding' = [outstanding EXCEPT ![r] = @ + 1]
  BY DEF DispatchTo
<1>3. ASSUME NEW q \in Replica
      PROVE  outstanding'[q] = Cardinality({t \in Slot : dispatched'[t] = q})
  <2> DEFINE before == DispatchedTo(q)
  <2>1. outstanding[q] = Cardinality(before)
    BY DEF OutstandingExact, DispatchedTo
  <2>2. q # None
    BY FleetAssumption DEF FleetAssumption
  <2>3. CASE q = r
    <3>1. {t \in Slot : dispatched'[t] = q} = before \cup {s}
      BY <1>0, <1>2, <2>3 DEF RouterType, DispatchedTo
    <3>2. s \notin before
      BY <1>1, <2>2 DEF DispatchedTo
    <3>3. before \in SUBSET Slot
      BY DEF DispatchedTo
    <3>4. IsFiniteSet(before)
      BY <3>3, FiniteSlots
    <3>5. Cardinality(before \cup {s}) = Cardinality(before) + 1
      BY <3>2, <3>4, FS_AddElement
    <3>6. outstanding'[q] = outstanding[q] + 1
      BY <1>0, <1>2, <2>3 DEF RouterType
    <3> QED BY <2>1, <3>1, <3>5, <3>6
  <2>4. CASE q # r
    <3>1. {t \in Slot : dispatched'[t] = q} = before
      BY <1>0, <1>1, <1>2, <2>2, <2>4 DEF RouterType, DispatchedTo
    <3>2. outstanding'[q] = outstanding[q]
      BY <1>0, <1>2, <2>4 DEF RouterType
    <3> QED BY <2>1, <3>1, <3>2
  <2> QED BY <2>3, <2>4
<1> QED BY <1>3 DEF OutstandingExact

LEMMA CountStep == HeldInv /\ OutstandingExact /\ [Next]_vars => OutstandingExact'
<1> SUFFICES ASSUME HeldInv, OutstandingExact, [Next]_vars PROVE OutstandingExact'
  OBVIOUS
<1>0. ClientType /\ RouterType
  BY TypeParts DEF HeldInv
<1> DEFINE Same == UNCHANGED <<dispatched, outstanding>>
<1>1. Same => OutstandingExact'
  BY DEF OutstandingExact
<1>2. ASSUME NEW E \in SUBSET Slot, RouterEnds(E) PROVE OutstandingExact'
  BY <1>2, EndsCount DEF RouterEnds
<1>3. ASSUME NEW c, NEW fired, SendRequest(c, fired) PROVE Same
  BY <1>3 DEF SendRequest, SendAdmitted, SendRejected, router
<1>4. ASSUME NEW e \in dispatches, DispatchDue(e) PROVE OutstandingExact'
  <2>1. e[1] \in Slot /\ e[3] \in Replica /\ routable \subseteq Replica
    BY <1>0 DEF RouterType, DispatchEvent
  <2>2. ASSUME NEW o, DispatchEnds(e, o) PROVE OutstandingExact'
    <3>1. {e[1]} \in SUBSET Slot /\ RouterEnds({e[1]})
      BY <2>1, <2>2 DEF DispatchEnds
    <3> QED BY <3>1, <1>2
  <2> QED BY <1>4, <2>1, <2>2, DispatchCounts DEF DispatchDue
<1>5. ASSUME NEW e \in timeouts, TimeoutDue(e) PROVE OutstandingExact'
  <2>1. e[1] \in Slot
    BY <1>0 DEF ClientType, TimeoutEvent
  <2>2. \E E \in SUBSET {e[1]} : RouterEnds(E)
    BY <1>5 DEF TimeoutDue
  <2> QED BY <1>2, <2>1, <2>2
<1>6. ASSUME NEW r, StepEndDue(r) PROVE OutstandingExact'
  <2>1. \E E \in SUBSET Held(r, "running") : RouterEnds(E)
    BY <1>6 DEF StepEndDue
  <2>2. Held(r, "running") \subseteq Slot
    BY DEF Held
  <2> QED BY <1>2, <2>1, <2>2
<1>7. ASSUME NEW r, NEW code, NEW gone, Enter(r, code, gone) PROVE OutstandingExact'
  <2>1. /\ dispatched' = [s \in Slot |-> IF s \in FailedBy(r, code) THEN None ELSE dispatched[s]]
        /\ outstanding' = [q \in Replica |->
             outstanding[q] - Cardinality({s \in FailedBy(r, code) : dispatched[s] = q})]
    BY <1>7 DEF Enter, FailedBy
  <2>2. FailedBy(r, code) \in SUBSET Slot
    BY DEF FailedBy, Held
  <2> QED BY <2>1, <2>2, EndsCount
<1>8. ASSUME NEW x, Crash(x) \/ PhaseEndDue(x) PROVE OutstandingExact'
  BY <1>7, <1>8 DEF Crash, PhaseEndDue
<1>9. ASSUME NEW x, \/ StartSession(x) \/ InjectExtra(x) \/ SendDue(x) \/ EligibleDue(x)
                    \/ KickDue(x) \/ SetParams(x) \/ RunLate \/ UNCHANGED vars
      PROVE  Same
  BY <1>3, <1>9 DEF StartSession, InjectExtra, SendDue, EligibleDue, KickDue, SetParams, RunLate,
                    vars, router
<1> QED BY <1>1, <1>4, <1>5, <1>6, <1>8, <1>9 DEF Next

LEMMA CountInit == Init => OutstandingExact
<1> SUFFICES ASSUME Init, NEW r \in Replica
             PROVE  outstanding[r] = Cardinality({s \in Slot : dispatched[s] = r})
  BY DEF OutstandingExact
<1>1. {s \in Slot : dispatched[s] = r} = {} /\ outstanding[r] = 0
  BY FleetAssumption DEF Init, RouterInit, FleetAssumption
<1> QED BY <1>1, FS_EmptySet

(* The router's rotation follows the replicas' states and its counts are the *)
(* numbers of requests they hold, through every reroute, refusal, timeout,   *)
(* finish and crash: nothing is counted twice or taken off twice.            *)
THEOREM RouterIsRight == Spec => []RouterTrue
<1>1. Init => HeldInv /\ OutstandingExact
  BY HeldInit, CountInit
<1>2. HeldInv /\ OutstandingExact /\ [Next]_vars => (HeldInv /\ OutstandingExact)'
  BY HeldStep, CountStep
<1>3. Spec => []OutstandingExact
  BY <1>1, <1>2, PTL DEF Spec
<1>4. RoutableView /\ OutstandingExact => RouterTrue
  BY DEF RouterTrue
<1> QED BY <1>3, <1>4, RotationCorrect, PTL

-----------------------------------------------------------------------------
(* Work and the replicas that must not idle. *)

(* Slot s is work for replica r: it waits there or runs. *)
Work(s, r) == at[s] = r /\ phase[s] \in {"waiting", "running"}

LEMMA NoIdleParts ==
  NoIdleWithWork <=> \A r \in Replica, s \in Slot : Work(s, r) => mode[r] # "idle"
BY DEF NoIdleWithWork, Work

(* Nothing becomes work, and nobody goes idle. *)
LEMMA SameWork ==
  ASSUME NoIdleWithWork, UNCHANGED mode,
         \A r \in Replica, s \in Slot : Work(s, r)' => Work(s, r)
  PROVE  NoIdleWithWork'
BY DEF NoIdleWithWork, Work

LEMMA MakeEligibleWork ==
  ASSUME TypeOK, NoIdleWithWork, NEW s \in Slot, NEW r \in Replica, MakeEligible(s, r),
         \A t \in Slot : at'[t] = IF t = s THEN r ELSE at[t]
  PROVE  NoIdleWithWork'
<1>0. EngineType
  BY TypeParts
<1>1. \A t \in Slot \ {s} : phase'[t] = phase[t]
  BY <1>0 DEF MakeEligible, EngineType
<1>2. mode'[r] # "idle" /\ \A q \in Replica : mode[q] # "idle" => mode'[q] # "idle"
  BY <1>0 DEF MakeEligible, Kicks, EngineType
<1> QED BY <1>1, <1>2 DEF NoIdleWithWork

(* A step that leaves its replica idle leaves no work behind. *)
LEMMA FinishAndComposeWork ==
  ASSUME TypeOK, NoIdleWithWork, NEW r \in Replica, NEW E \in SUBSET Held(r, "running"),
         FinishAndCompose(r, E)
  PROVE  NoIdleWithWork'
<1>0. EngineType
  BY TypeParts
<1> DEFINE run == Held(r, "running") \ E
           wait == Held(r, "waiting")
<1>1. PICK pre \in SUBSET run, adm \in SUBSET wait :
        /\ run \cup wait # {} => (run \ pre) \cup adm # {}
        /\ phase' = [s \in Slot |-> IF s \in E THEN "none"
                                    ELSE IF s \in pre THEN "waiting"
                                    ELSE IF s \in adm THEN "running" ELSE phase[s]]
        /\ at' = [s \in Slot |-> IF s \in E THEN None ELSE at[s]]
        /\ mode' = [mode EXCEPT ![r] = IF (run \ pre) \cup adm # {} THEN "step" ELSE "idle"]
  BY Zenon DEF FinishAndCompose
<1>2. \A s \in Slot, q \in Replica : Work(s, q)' => Work(s, q) /\ s \notin E
  <2> TAKE s \in Slot, q \in Replica
  <2>1. CASE s \in E
    BY <1>1, <2>1 DEF Work
  <2>2. CASE s \notin E
    BY <1>1, <2>2 DEF Work, Held
  <2> QED BY <2>1, <2>2
<1>3. \A s \in Slot : Work(s, r) /\ s \notin E => s \in run \cup wait
  BY DEF Work, Held
<1>4. ASSUME NEW q \in Replica, NEW s \in Slot, Work(s, q)' PROVE mode'[q] # "idle"
  <2>1. CASE q = r
    BY <1>0, <1>1, <1>2, <1>3, <1>4, <2>1 DEF EngineType
  <2>2. CASE q # r
    <3>1. mode[q] # "idle"
      BY <1>2, <1>4, NoIdleParts
    <3> QED BY <1>0, <1>1, <2>2, <3>1 DEF EngineType
  <2> QED BY <2>1, <2>2
<1> QED BY <1>4 DEF NoIdleWithWork, Work

LEMMA EnterWork ==
  ASSUME TypeOK, NoIdleWithWork, NEW r \in Replica, NEW code, NEW gone, Enter(r, code, gone)
  PROVE  NoIdleWithWork'
<1>0. EngineType
  BY TypeParts
<1> DEFINE E == FailedBy(r, code)
           fails == code # "ready" /\ (fstate[r] = "ready" \/ mode[r] # "idle"
                     \/ Held(r, "waiting") \cup Held(r, "running") # {})
<1>1. /\ phase' = [s \in Slot |-> IF s \in E THEN "none" ELSE phase[s]]
      /\ at' = [s \in Slot |-> IF s \in E THEN None ELSE at[s]]
      /\ mode' = IF fails THEN [mode EXCEPT ![r] = "idle"] ELSE mode
  BY DEF Enter, FailedBy
<1>2. \A s \in Slot, q \in Replica : Work(s, q)' => Work(s, q) /\ s \notin E
  BY <1>1, FleetAssumption DEF Work, FleetAssumption
<1>3. CASE ~fails
  BY <1>1, <1>2, <1>3, SameWork
<1>4. CASE fails
  <2>1. E = Held(r, "waiting") \cup Held(r, "running") \cup Held(r, "arriving")
    BY <1>4 DEF FailedBy
  <2>2. \A s \in Slot : Work(s, r) => s \in E
    BY <2>1 DEF Work, Held
  <2>3. \A q \in Replica : q # r => mode'[q] = mode[q]
    BY <1>0, <1>1, <1>4 DEF EngineType
  <2>4. \A q \in Replica, s \in Slot : Work(s, q)' => mode'[q] # "idle"
    BY <1>2, <2>2, <2>3, NoIdleParts
  <2> QED BY <2>4 DEF NoIdleWithWork, Work
<1> QED BY <1>3, <1>4

LEMMA TimeoutDueWork ==
  ASSUME HeldInv, NoIdleWithWork, NEW e \in timeouts, TimeoutDue(e)
  PROVE  NoIdleWithWork'
<1> DEFINE s == e[1]
           r == at[s]
           unkick == phase[s] = "waiting" /\ mode[r] = "kick" /\ Alone(s, r)
<1>0. EngineType /\ s \in Slot
  BY TypeParts DEF HeldInv, ClientType, TimeoutEvent
<1>1. /\ phase' = [phase EXCEPT ![s] = "none"]
      /\ at' = [at EXCEPT ![s] = None]
      /\ mode' = IF unkick THEN [mode EXCEPT ![r] = "idle"] ELSE mode
  BY DEF TimeoutDue
<1>2. \A t \in Slot, q \in Replica : Work(t, q)' => Work(t, q) /\ t # s
  BY <1>0, <1>1, FleetAssumption DEF Work, EngineType, FleetAssumption
<1>3. CASE ~unkick
  BY <1>1, <1>2, <1>3, SameWork
<1>4. CASE unkick
  <2>1. \A t \in Slot : Work(t, r) => t = s
    BY <1>4 DEF Alone, Work, Held
  <2>2. \A q \in Replica : q # r => mode'[q] = mode[q]
    BY <1>0, <1>1, <1>4 DEF EngineType
  <2>3. \A q \in Replica, t \in Slot : Work(t, q)' => mode'[q] # "idle"
    BY <1>2, <2>1, <2>2, NoIdleParts
  <2> QED BY <2>3 DEF NoIdleWithWork, Work
<1> QED BY <1>3, <1>4

LEMMA WorkStep == HeldInv /\ NoIdleWithWork /\ [Next]_vars => NoIdleWithWork'
<1> SUFFICES ASSUME HeldInv, NoIdleWithWork, [Next]_vars PROVE NoIdleWithWork'
  OBVIOUS
<1>0. TypeOK /\ RouterType /\ EngineType /\ FailureType
  BY TypeParts DEF HeldInv
<1> DEFINE Same == UNCHANGED <<mode, at, phase>>
<1>1. Same => NoIdleWithWork'
  BY DEF NoIdleWithWork
<1>2. ASSUME NEW c, NEW fired, SendRequest(c, fired) PROVE Same
  BY <1>2 DEF SendRequest, SendAdmitted, SendRejected, engine
<1>3. ASSUME NEW e \in dispatches, DispatchDue(e) PROVE NoIdleWithWork'
  <2>1. e[1] \in Slot /\ e[3] \in Replica /\ routable \subseteq Replica
    BY <1>0 DEF RouterType, DispatchEvent
  <2>2. ASSUME NEW r \in Replica, DispatchTo(e, r) PROVE NoIdleWithWork'
    <3>1. \A t \in Slot : at'[t] = IF t = e[1] THEN r ELSE at[t]
      BY <1>0, <2>1, <2>2 DEF DispatchTo, EngineType
    <3>2. CASE HasOverhead
      <4>1. UNCHANGED mode /\ phase' = [phase EXCEPT ![e[1]] = "arriving"]
        BY <2>2, <3>2 DEF DispatchTo
      <4>2. \A q \in Replica, t \in Slot : Work(t, q)' => Work(t, q)
        BY <1>0, <3>1, <4>1 DEF Work, EngineType
      <4> QED BY <4>1, <4>2, SameWork
    <3>3. CASE ~HasOverhead
      <4>1. MakeEligible(e[1], r)
        BY <2>2, <3>3 DEF DispatchTo
      <4> QED BY <1>0, <2>1, <3>1, <4>1, MakeEligibleWork
    <3> QED BY <3>2, <3>3
  <2>3. ASSUME NEW o, DispatchEnds(e, o) PROVE Same
    BY <2>3 DEF DispatchEnds, engine
  <2> QED BY <1>1, <1>3, <2>1, <2>2, <2>3 DEF DispatchDue
<1>4. ASSUME NEW e \in eligibles, EligibleDue(e) PROVE NoIdleWithWork'
  <2>1. e[1] \in Slot /\ e[3] \in Replica
    BY <1>0 DEF EngineType, DispatchEvent
  <2>2. at[e[1]] = e[3] /\ at' = at /\ MakeEligible(e[1], e[3])
    BY <1>4 DEF EligibleDue
  <2> QED BY <1>0, <2>1, <2>2, MakeEligibleWork
<1>5. ASSUME NEW r \in Replica, KickDue(r) PROVE NoIdleWithWork'
  BY <1>0, <1>5, FinishAndComposeWork DEF KickDue
<1>6. ASSUME NEW r \in Replica, StepEndDue(r) PROVE NoIdleWithWork'
  <2>1. PICK done \in SUBSET Held(r, "running") : FinishAndCompose(r, done)
    BY <1>6 DEF StepEndDue
  <2> QED BY <1>0, <2>1, FinishAndComposeWork
<1>7. ASSUME NEW r \in Replica, Crash(r) PROVE NoIdleWithWork'
  BY <1>0, <1>7, EnterWork DEF Crash
<1>8. ASSUME NEW e \in phaseEnds, PhaseEndDue(e) PROVE NoIdleWithWork'
  <2>1. e[1] \in Replica
    BY <1>0 DEF FailureType, PhaseEvent
  <2> QED BY <1>0, <1>8, <2>1, EnterWork DEF PhaseEndDue
<1>9. ASSUME NEW x, \/ StartSession(x) \/ InjectExtra(x) \/ SendDue(x)
                    \/ SetParams(x) \/ RunLate \/ UNCHANGED vars
      PROVE  Same
  BY <1>2, <1>9 DEF StartSession, InjectExtra, SendDue, SetParams, RunLate, vars, engine
<1> QED BY <1>1, <1>3, <1>4, <1>5, <1>6, <1>7, <1>8, <1>9, TimeoutDueWork DEF Next

(* A replica that is not ready holds nothing, and one that has work waiting  *)
(* or running has a kick or a step under way: no interleaving of arrivals,   *)
(* cancellations, preemptions and crashes leaves work with a sleeping one.   *)
THEOREM ReplicasAreRight == Spec => []ReplicasTrue
<1>1. Init => HeldInv /\ NoIdleWithWork
  BY HeldInit DEF Init, ReplicaInit, NoIdleWithWork
<1>2. HeldInv /\ NoIdleWithWork /\ [Next]_vars => (HeldInv /\ NoIdleWithWork)'
  BY HeldStep, WorkStep
<1>3. Spec => []NoIdleWithWork
  BY <1>1, <1>2, PTL DEF Spec
<1>4. DeadHoldsNothing /\ NoIdleWithWork => ReplicasTrue
  BY DEF ReplicasTrue
<1> QED BY <1>3, <1>4, DeadReplicasEmpty, PTL

-----------------------------------------------------------------------------
(* Admission. *)

LEMMA CapIsNat ==
  ASSUME TypeOK, params.limit # None
  PROVE  params.limit * Cardinality(routable) \in Nat
<1>1. params.limit \in Nat
  BY FleetAssumption, TypeParts DEF DayType, Params, FleetAssumption
<1>2. IsFiniteSet(routable)
  BY FS_Subset, FleetAssumption, TypeParts DEF RouterType, FleetAssumption
<1>3. Cardinality(routable) \in Nat
  BY <1>2, FS_CardinalityType
<1> QED BY <1>1, <1>3

(* The requests that have not ended are the ones the router counts.  *)
LEMMA LiveAreAdmitted ==
  ASSUME HeldInv
  PROVE  LiveSlots = AdmittedSlots
BY DEF HeldInv, HeldOnce, LiveSlots, AdmittedSlots

(* An arrival takes one slot, and only below the cap. *)
LEMMA SendWithinCap ==
  ASSUME HeldInv, params.limit # None, NEW c \in Session, NEW fired, SendRequest(c, fired),
         LiveSlots' \ LiveSlots # {}
  PROVE  Cardinality(LiveSlots') <= params.limit * Cardinality(routable)
<1>1. PICK s \in Allocatable : SendAdmitted(c, s, fired) \/ SendRejected(c, s, fired)
  BY DEF SendRequest
<1>2. PICK code \in {1, 2} :
        /\ \E id, o : AllocRequest(s, id, code, o)
        /\ code = 1 => Admits
  <2>1. CASE SendAdmitted(c, s, fired)
    <3>1. Admits /\ AllocRequest(s, IdOf(c), 1, None)
      BY <2>1 DEF SendAdmitted
    <3> QED BY <3>1
  <2>2. CASE SendRejected(c, s, fired)
    <3>1. AllocRequest(s, IdOf(c), 2, "rejected")
      BY <2>2 DEF SendRejected
    <3> QED BY <3>1
  <2> QED BY <1>1, <2>1, <2>2
<1>3. \A t \in Slot : live'[t] = 1 => live[t] = 1 \/ (t = s /\ code = 1)
  BY <1>2, AllocLeaves
<1>4. s \in Slot /\ code = 1 /\ LiveSlots' \subseteq LiveSlots \cup {s}
  BY <1>3, Reusable DEF LiveSlots
<1>5. LiveSlots \in SUBSET Slot /\ LiveSlots \cup {s} \in SUBSET Slot
  BY <1>4 DEF LiveSlots
<1>6. /\ IsFiniteSet(LiveSlots) /\ Cardinality(LiveSlots) \in Nat
      /\ IsFiniteSet(LiveSlots \cup {s})
  BY <1>5, FiniteSlots
<1>7. Cardinality(LiveSlots \cup {s}) <= Cardinality(LiveSlots) + 1
  BY <1>6, FS_AddElement
<1>8. /\ Cardinality(LiveSlots') <= Cardinality(LiveSlots \cup {s})
      /\ Cardinality(LiveSlots') \in Nat /\ Cardinality(LiveSlots \cup {s}) \in Nat
  BY <1>4, <1>6, FS_Subset, FS_CardinalityType
<1>9. Cardinality(LiveSlots) < params.limit * Cardinality(routable)
  BY <1>2, <1>4, LiveAreAdmitted DEF Admits
<1>10. TypeOK
  BY DEF HeldInv
<1> QED BY <1>6, <1>7, <1>8, <1>9, <1>10, CapIsNat

LEMMA AdmissionStep ==
  ASSUME HeldInv, Next, LiveSlots' \ LiveSlots # {}, params.limit # None
  PROVE  Cardinality(LiveSlots') <= params.limit * Cardinality(routable)
<1> DEFINE Fewer == \A s \in Slot : live'[s] = 1 => live[s] = 1
<1>1. ~Fewer
  BY DEF LiveSlots
<1>2. ASSUME NEW E, NEW o, TableEnds(E, o) PROVE Fewer
  BY <1>2 DEF TableEnds
<1>3. ASSUME NEW e, DispatchDue(e) PROVE Fewer
  BY <1>2, <1>3 DEF DispatchDue, DispatchTo, DispatchEnds, table
<1>4. ASSUME NEW x, TimeoutDue(x) \/ StepEndDue(x) \/ Crash(x) \/ PhaseEndDue(x) PROVE Fewer
  <2>1. \E E, o : TableEnds(E, o)
    BY <1>4, Zenon DEF TimeoutDue, StepEndDue, Crash, PhaseEndDue, Enter
  <2> QED BY <1>2, <2>1
<1>5. ASSUME NEW x, \/ InjectExtra(x) \/ EligibleDue(x) \/ KickDue(x) \/ SetParams(x) \/ RunLate
      PROVE  Fewer
  BY <1>5 DEF InjectExtra, EligibleDue, KickDue, SetParams, RunLate, table
<1>6. PICK c, fired : c \in Session /\ SendRequest(c, fired)
  <2>1. \A e \in sends : e[1] \in Session
    BY TypeParts DEF HeldInv, ClientType, ReqId
  <2> QED BY <1>1, <1>3, <1>4, <1>5, <2>1 DEF Next, StartSession, SendDue
<1> QED BY <1>6, SendWithinCap

(* When a request is taken in, no more requests live than the cap in force   *)
(* allows, however parameter changes and crashes moved the cap before: what  *)
(* the router counts (Admits) is what the table holds.  And no step takes a  *)
(* live request's slot.                                                      *)
THEOREM StepsAreLegal == Spec => StepsLegal
<1> DEFINE Gate == (LiveSlots' \ LiveSlots # {} /\ params.limit # None) =>
                     Cardinality(LiveSlots') <= params.limit * Cardinality(routable)
<1>1. HeldInv /\ [Next]_vars => [Gate]_vars
  BY AdmissionStep
<1>2. Spec => []HeldInv
  BY HeldInit, HeldStep, PTL DEF Spec
<1>3. Spec => [][Gate]_vars
  BY <1>1, <1>2, PTL DEF Spec
<1>4. Spec => AdmissionGate
  BY <1>3 DEF AdmissionGate
<1> QED BY <1>4, SlotsNotReused DEF StepsLegal

-----------------------------------------------------------------------------
(* The checks the modules ship.  EventsExact says that no queued event is    *)
(* stale; they also say the converse, that no handle dangles: the event it   *)
(* names is still queued, unless the day ran out for it.  That is an         *)
(* invariant of each holder, on top of those above.                          *)

SessKept ==
  \A c \in Session : IF sess[c].st = "pending" THEN sessEv[c] \in sends /\ sessEv[c][1] = c
                                               ELSE sessEv[c] = NoEvent
TimeoutKept ==
  \A c \in Session : timeoutEv[c] # NoEvent => timeoutEv[c] \in timeouts /\ timeoutEv[c][2][1] = c
ClientKept == SessKept /\ TimeoutKept
TurnsKept == \A c \in Session : sess[c].turn <= sess[c].turns
PendingKept ==
  \A s \in Slot : pending[s] # None =>
    \/ pending[s] = NoEvent /\ late
    \/ pending[s] \in dispatches /\ pending[s][1] = s
EligibleKept ==
  \A s \in Slot :
    /\ eligibleEv[s] # NoEvent => eligibleEv[s][1] = s
    /\ phase[s] = "arriving" => \/ eligibleEv[s] = NoEvent /\ late
                                \/ eligibleEv[s] \in eligibles
PhaseKept ==
  \A r \in Replica :
    IF fstate[r] = "ready" THEN phaseEv[r] = NoEvent
    ELSE IF phaseEv[r] = NoEvent THEN late
    ELSE phaseEv[r] = <<r, fstate[r]>> /\ phaseEv[r] \in phaseEnds
StepKept ==
  \A r \in Replica :
    /\ mode[r] = "idle" => stepEv[r] = NoEvent
    /\ mode[r] = "kick" => /\ Held(r, "waiting") # {} /\ Held(r, "running") = {}
                           /\ stepEv[r] = <<r, "kick">> /\ stepEv[r] \in steps
    /\ mode[r] = "step" => \/ stepEv[r] = <<r, "step">> /\ stepEv[r] \in steps
                           \/ stepEv[r] = NoEvent /\ late

LEMMA NoSuchEvents ==
  /\ NoEvent \notin ReqId /\ NoEvent \notin StepEvent /\ NoEvent \notin PhaseEvent
  /\ None # NoEvent /\ None \notin Slot /\ None \notin Replica
BY FleetAssumption DEF FleetAssumption, ReqId, StepEvent, PhaseEvent, ReplicaState

(* Requests end. *)
LEMMA EndsClientKept ==
  ASSUME HeldInv, SessionInv, ClientKept, NEW E \in SUBSET Slot, NEW o,
         NEW tokened \in SUBSET Session, ClientEnds(E, o, tokened)
  PROVE  ClientKept'
<1>0. TypeOK /\ ClientType
  BY TypeParts DEF HeldInv
<1> DEFINE ended == {c \in Session : slotOf[c] \in E}
           quiet == ended \cup tokened
<1>1. PICK over \in SUBSET ended, lost \in SUBSET (IF late THEN ended ELSE {}) :
        LET next(c) == AfterEnd(sess[c], o, c \in over, c \in lost)
            again   == {c \in ended : next(c).st = "pending"}
            evOf(c) == <<c, next(c).turn, next(c).attempt>>
        IN  /\ sess' = [c \in Session |-> IF c \in ended THEN next(c) ELSE sess[c]]
            /\ slotOf' = [c \in Session |-> IF c \in ended THEN None ELSE slotOf[c]]
            /\ timeoutEv' = [c \in Session |-> IF c \in quiet THEN NoEvent ELSE timeoutEv[c]]
            /\ timeouts' = timeouts \ {timeoutEv[c] : c \in quiet}
            /\ sessEv' = [c \in Session |-> IF c \in again THEN evOf(c) ELSE sessEv[c]]
            /\ sends' = sends \cup {evOf(c) : c \in again}
  BY Zenon DEF ClientEnds, Disarmed
<1> DEFINE next(c) == AfterEnd(sess[c], o, c \in over, c \in lost)
           evOf(c) == <<c, next(c).turn, next(c).attempt>>
           again == {c \in ended : next(c).st = "pending"}
<1>2. \A c \in Session : next(c).st \in {"closed", "pending"}
  BY <1>0, AfterEndPhase DEF ClientType
<1> HIDE DEF next
<1>3. /\ sess' = [c \in Session |-> IF c \in ended THEN next(c) ELSE sess[c]]
      /\ timeoutEv' = [c \in Session |-> IF c \in quiet THEN NoEvent ELSE timeoutEv[c]]
      /\ timeouts' = timeouts \ {timeoutEv[c] : c \in quiet}
      /\ sessEv' = [c \in Session |-> IF c \in again THEN evOf(c) ELSE sessEv[c]]
      /\ sends' = sends \cup {evOf(c) : c \in again}
  BY <1>1 DEF next
<1>4. \A c \in ended : sess[c].st = "inFlight"
  BY NoSuchEvents DEF SessionInv, OneRequestPerSession
<1>5. ASSUME NEW c \in Session
      PROVE  IF sess'[c].st = "pending" THEN sessEv'[c] \in sends' /\ sessEv'[c][1] = c
                                        ELSE sessEv'[c] = NoEvent
  <2>1. CASE c \in again
    BY <1>3, <2>1
  <2>2. CASE c \in ended \ again
    <3>1. sess'[c].st # "pending" /\ sessEv'[c] = sessEv[c]
      BY <1>3, <2>2
    <3>2. sessEv[c] = NoEvent
      BY <1>4, <2>2 DEF ClientKept, SessKept
    <3> QED BY <3>1, <3>2
  <2>3. CASE c \notin ended
    BY <1>3, <2>3 DEF ClientKept, SessKept
  <2> QED BY <2>1, <2>2, <2>3
<1>6. ASSUME NEW c \in Session, timeoutEv'[c] # NoEvent
      PROVE  timeoutEv'[c] \in timeouts' /\ timeoutEv'[c][2][1] = c
  <2>1. c \notin quiet /\ timeoutEv'[c] = timeoutEv[c]
    BY <1>3, <1>6
  <2>2. timeoutEv[c] \in timeouts /\ timeoutEv[c][2][1] = c
    BY <1>6, <2>1 DEF ClientKept, TimeoutKept
  <2>3. ASSUME NEW d \in quiet, timeoutEv[c] = timeoutEv[d] PROVE FALSE
    <3>1. d \in Session /\ timeoutEv[d] # NoEvent
      BY <1>6, <2>1, <2>3
    <3>2. timeoutEv[d][2][1] = d
      BY <3>1 DEF ClientKept, TimeoutKept
    <3> QED BY <2>1, <2>2, <2>3, <3>2
  <2> QED BY <1>3, <2>1, <2>2, <2>3
<1>7. SessKept'
  BY <1>5 DEF SessKept
<1>8. TimeoutKept'
  BY <1>6 DEF TimeoutKept
<1> QED BY <1>7, <1>8 DEF ClientKept

(* A session sends, or is given an extra request to send. *)
LEMMA SendAdmittedClientKept ==
  ASSUME HeldInv, SessionInv, ClientKept, NEW c \in Session, NEW s \in Slot, NEW fired,
         Arrives(c, fired), SendAdmitted(c, s, fired)
  PROVE  ClientKept'
<1>0. ClientType
  BY TypeParts DEF HeldInv
<1>1. PICK lost \in Lossy :
        LET arm == params.timeout /\ ~lost IN
        /\ timeoutEv' = [timeoutEv EXCEPT ![c] = Handle(<<s, IdOf(c)>>, ~arm)]
        /\ timeouts' = timeouts \cup Queued(<<s, IdOf(c)>>, ~arm)
  BY DEF SendAdmitted
<1>2. /\ sess' = [sess EXCEPT ![c].st = "inFlight"]
      /\ sessEv' = [sessEv EXCEPT ![c] = NoEvent]
      /\ sends' = sends \ fired
  BY DEF SendAdmitted
<1>3. sess'[c].st = "inFlight" /\ sessEv'[c] = NoEvent
  <2>1. sess[c] \in SessionRec /\ sess'[c] = [sess[c] EXCEPT !.st = "inFlight"]
    BY <1>0, <1>2 DEF ClientType
  <2> QED BY <1>0, <1>2, <2>1 DEF SessionRec, ClientType
<1>4. \A d \in Session \ {c} : sess'[d] = sess[d] /\ sessEv'[d] = sessEv[d]
  BY <1>0, <1>2 DEF ClientType
<1>5. \A d \in Session \ {c} : sess[d].st = "pending" => sessEv[d] \in sends' /\ sessEv[d][1] = d
  BY <1>2 DEF ClientKept, SessKept, Arrives
<1>6. SessKept'
  BY <1>3, <1>4, <1>5 DEF ClientKept, SessKept
<1>7. TimeoutKept'
  <2> SUFFICES ASSUME NEW d \in Session, timeoutEv'[d] # NoEvent
               PROVE  timeoutEv'[d] \in timeouts' /\ timeoutEv'[d][2][1] = d
    BY DEF TimeoutKept
  <2>1. CASE d = c
    BY <1>0, <1>1, <2>1 DEF Handle, Queued, IdOf, ClientType
  <2>2. CASE d # c
    <3>1. timeoutEv'[d] = timeoutEv[d] /\ timeouts \subseteq timeouts'
      BY <1>0, <1>1, <2>2 DEF ClientType
    <3> QED BY <3>1 DEF ClientKept, TimeoutKept
  <2> QED BY <2>1, <2>2
<1> QED BY <1>6, <1>7 DEF ClientKept

LEMMA SendRejectedClientKept ==
  ASSUME HeldInv, SessionInv, ClientKept, NEW c \in Session, NEW s \in Slot, NEW fired,
         Arrives(c, fired), SendRejected(c, s, fired)
  PROVE  ClientKept'
<1>0. ClientType
  BY TypeParts DEF HeldInv
<1>1. PICK lost \in Lossy :
        LET next == AfterEnd(sess[c], "rejected", FALSE, lost)
            ev   == <<c, next.turn, next.attempt>>
            again == next.st = "pending"
        IN  /\ sess' = [sess EXCEPT ![c] = next]
            /\ sessEv' = [sessEv EXCEPT ![c] = Handle(ev, ~again)]
            /\ sends' = (sends \ fired) \cup Queued(ev, ~again)
  BY DEF SendRejected
<1> DEFINE next == AfterEnd(sess[c], "rejected", FALSE, lost)
           ev   == <<c, next.turn, next.attempt>>
<1> HIDE DEF next
<1>2. /\ sess' = [sess EXCEPT ![c] = next]
      /\ sessEv' = [sessEv EXCEPT ![c] = Handle(ev, next.st # "pending")]
      /\ sends' = (sends \ fired) \cup Queued(ev, next.st # "pending")
      /\ UNCHANGED <<timeoutEv, timeouts>>
  BY <1>1 DEF next, SendRejected
<1>3. IF sess'[c].st = "pending" THEN sessEv'[c] \in sends' /\ sessEv'[c][1] = c
                                 ELSE sessEv'[c] = NoEvent
  BY <1>0, <1>2 DEF Handle, Queued, ClientType
<1>4. \A d \in Session \ {c} : sess'[d] = sess[d] /\ sessEv'[d] = sessEv[d]
  BY <1>0, <1>2 DEF ClientType
<1>5. \A d \in Session \ {c} : sess[d].st = "pending" => sessEv[d] \in sends' /\ sessEv[d][1] = d
  BY <1>2 DEF ClientKept, SessKept, Arrives
<1>6. SessKept'
  BY <1>3, <1>4, <1>5 DEF ClientKept, SessKept
<1> QED BY <1>2, <1>6 DEF ClientKept, TimeoutKept

LEMMA InjectExtraClientKept ==
  ASSUME HeldInv, ClientKept, NEW c \in Session, InjectExtra(c)
  PROVE  ClientKept'
<1>0. ClientType
  BY TypeParts DEF HeldInv
<1>1. /\ sessEv' = [sessEv EXCEPT ![c] = IdOf(c)] /\ sends' = sends \cup {IdOf(c)}
      /\ sess' = [sess EXCEPT ![c].st = "pending"]
      /\ UNCHANGED <<timeoutEv, timeouts>>
  BY DEF InjectExtra
<1>2. \A d \in Session \ {c} : sess'[d] = sess[d] /\ sessEv'[d] = sessEv[d]
  BY <1>0, <1>1 DEF ClientType
<1>3. sessEv'[c] \in sends' /\ sessEv'[c][1] = c
  BY <1>0, <1>1 DEF IdOf, ClientType
<1>4. sess'[c].st = "pending"
  <2>1. sess[c] \in SessionRec /\ sess'[c] = [sess[c] EXCEPT !.st = "pending"]
    BY <1>0, <1>1 DEF ClientType
  <2> QED BY <2>1 DEF SessionRec
<1>5. SessKept'
  BY <1>1, <1>2, <1>3, <1>4 DEF ClientKept, SessKept
<1> QED BY <1>1, <1>5 DEF ClientKept, TimeoutKept

LEMMA ClientKeptStep ==
  ASSUME HeldInv, EventInv, ClientKept, Next
  PROVE  ClientKept'
<1>0. TypeOK /\ ClientType /\ SessionInv
  BY TypeParts DEF HeldInv, EventInv
<1>1. UNCHANGED client => ClientKept'
  BY DEF client, ClientKept, SessKept, TimeoutKept
<1>2. ASSUME NEW c \in Session, NEW fired, Arrives(c, fired), SendRequest(c, fired)
      PROVE  ClientKept'
  BY <1>0, <1>2, SendAdmittedClientKept, SendRejectedClientKept DEF SendRequest, Allocatable
<1>3. ASSUME NEW c \in Session, StartSession(c) PROVE ClientKept'
  BY <1>2, <1>3 DEF StartSession, Arrives
<1>4. ASSUME NEW e \in sends, SendDue(e) PROVE ClientKept'
  <2>1. e[1] \in Session /\ Arrives(e[1], {e})
    BY <1>0, <1>4, EventTypes DEF SendDue, Arrives
  <2> QED BY <1>2, <1>4, <2>1 DEF SendDue
<1>5. ASSUME NEW e \in dispatches, DispatchDue(e) PROVE ClientKept'
  <2>1. {e[1]} \in SUBSET Slot
    BY PendingLives
  <2>2. ASSUME NEW r, DispatchTo(e, r) PROVE UNCHANGED client
    BY <2>2 DEF DispatchTo
  <2>3. ASSUME NEW o, DispatchEnds(e, o) PROVE ClientKept'
    <3>1. ClientEnds({e[1]}, o, {})
      BY <2>3 DEF DispatchEnds
    <3> QED BY <1>0, <2>1, <3>1, EndsClientKept
  <2> QED BY <1>1, <1>5, <2>2, <2>3 DEF DispatchDue
<1>6. ASSUME NEW e \in timeouts, TimeoutDue(e) PROVE ClientKept'
  <2> DEFINE E == IF pending[e[1]] # None \/ phase[e[1]] # "none" THEN {e[1]} ELSE {}
  <2>1. E \in SUBSET Slot /\ {e[2][1]} \in SUBSET Session
    BY <1>0, EventTypes
  <2>2. ClientEnds(E, "timedOut", {e[2][1]})
    BY <1>6 DEF TimeoutDue
  <2> HIDE DEF E
  <2> QED BY <1>0, <2>1, <2>2, EndsClientKept
<1>7. ASSUME NEW r \in Replica, StepEndDue(r) PROVE ClientKept'
  <2>1. PICK tokened, done \in SUBSET Held(r, "running") :
          ClientEnds(done, "finished", {c \in Session : slotOf[c] \in tokened})
    BY <1>7 DEF StepEndDue
  <2>2. done \in SUBSET Slot /\ {c \in Session : slotOf[c] \in tokened} \in SUBSET Session
    BY DEF Held
  <2> QED BY <1>0, <2>1, <2>2, EndsClientKept
<1>8. ASSUME NEW r, NEW code, NEW gone, Enter(r, code, gone) PROVE ClientKept'
  <2>1. ClientEnds(FailedBy(r, code), "failed", {})
    BY <1>8 DEF Enter, FailedBy
  <2>2. FailedBy(r, code) \in SUBSET Slot
    BY DEF FailedBy, Held
  <2> QED BY <1>0, <2>1, <2>2, EndsClientKept
<1>9. ASSUME NEW x, Crash(x) \/ PhaseEndDue(x) PROVE ClientKept'
  BY <1>8, <1>9 DEF Crash, PhaseEndDue
<1>10. ASSUME NEW x, EligibleDue(x) \/ KickDue(x) \/ SetParams(x) \/ RunLate PROVE UNCHANGED client
  BY <1>10 DEF EligibleDue, KickDue, SetParams, RunLate
<1> QED BY <1>0, <1>1, <1>3, <1>4, <1>5, <1>6, <1>7, <1>9, <1>10, InjectExtraClientKept DEF Next

(* The router's and the replicas' handles.  The day never stops being late. *)
LEMMA LateStays == Next /\ late => late'
<1> SUFFICES ASSUME Next, late PROVE late'
  OBVIOUS
<1>1. UNCHANGED day => late'
  BY DEF day
<1>2. ASSUME NEW c, NEW fired, SendRequest(c, fired) PROVE UNCHANGED day
  BY <1>2 DEF SendRequest, SendAdmitted, SendRejected
<1>3. ASSUME NEW e, DispatchDue(e) PROVE UNCHANGED day
  BY <1>3 DEF DispatchDue, DispatchTo, DispatchEnds
<1>4. ASSUME NEW x, \/ InjectExtra(x) \/ EligibleDue(x) \/ TimeoutDue(x) \/ KickDue(x)
                    \/ StepEndDue(x) \/ Crash(x) \/ PhaseEndDue(x)
      PROVE  UNCHANGED day
  BY <1>4 DEF InjectExtra, EligibleDue, TimeoutDue, KickDue, StepEndDue, Crash, PhaseEndDue, Enter
<1>5. ASSUME NEW x, SetParams(x) \/ RunLate PROVE late'
  BY <1>5 DEF SetParams, RunLate
<1> QED BY <1>1, <1>2, <1>3, <1>4, <1>5 DEF Next, StartSession, SendDue

LEMMA RouterEndsKept ==
  ASSUME HeldInv, PendingKept, late => late', NEW E \in SUBSET Slot, RouterEnds(E)
  PROVE  PendingKept'
<1>1. /\ pending' = [s \in Slot |-> IF s \in E THEN None ELSE pending[s]]
      /\ dispatches' = dispatches \ {pending[s] : s \in E}
  BY DEF RouterEnds
<1> SUFFICES ASSUME NEW t \in Slot, pending'[t] # None
             PROVE  \/ pending'[t] = NoEvent /\ late'
                    \/ pending'[t] \in dispatches' /\ pending'[t][1] = t
  BY DEF PendingKept
<1>2. t \notin E /\ pending'[t] = pending[t]
  BY <1>1
<1>3. CASE pending[t] = NoEvent /\ late
  BY <1>2, <1>3
<1>4. CASE pending[t] \in dispatches /\ pending[t][1] = t
  <2>1. pending[t] \notin {None, NoEvent}
    BY <1>4, EventTypes DEF HeldInv
  <2>2. ASSUME NEW s \in E, pending[s] = pending[t] PROVE FALSE
    BY <1>2, <1>4, <2>1, <2>2 DEF PendingKept
  <2> QED BY <1>1, <1>2, <1>4, <2>2
<1> QED BY <1>2, <1>3, <1>4 DEF PendingKept

LEMMA PendingKeptStep ==
  ASSUME HeldInv, EventInv, PendingKept, Next
  PROVE  PendingKept'
<1>0. TypeOK /\ RouterType /\ (late => late')
  BY TypeParts, LateStays DEF HeldInv
<1>1. UNCHANGED <<pending, dispatches>> => PendingKept'
  BY <1>0 DEF PendingKept
<1>2. ASSUME NEW c \in Session, NEW fired, SendRequest(c, fired) PROVE PendingKept'
  <2>1. PICK s \in Slot : SendAdmitted(c, s, fired) \/ SendRejected(c, s, fired)
    BY <1>2 DEF SendRequest, Allocatable
  <2>2. CASE SendRejected(c, s, fired)
    BY <1>1, <2>2 DEF SendRejected, router
  <2>3. CASE SendAdmitted(c, s, fired)
    <3>1. PICK r \in routable, lost \in Lossy :
            /\ pending' = [pending EXCEPT ![s] = Handle(<<s, IdOf(c), r>>, lost)]
            /\ dispatches' = dispatches \cup Queued(<<s, IdOf(c), r>>, lost)
      BY <2>3 DEF SendAdmitted
    <3>2. IF lost THEN pending'[s] = NoEvent /\ late
                  ELSE pending'[s] = <<s, IdOf(c), r>> /\ pending'[s] \in dispatches'
      BY <1>0, <3>1 DEF Handle, Queued, Lossy, RouterType
    <3>3. \A t \in Slot \ {s} : pending'[t] = pending[t]
      BY <1>0, <3>1 DEF RouterType
    <3>4. dispatches \subseteq dispatches'
      BY <3>1
    <3>5. \A t \in Slot \ {s} : pending'[t] # None =>
            \/ pending'[t] = NoEvent /\ late'
            \/ pending'[t] \in dispatches' /\ pending'[t][1] = t
      BY <1>0, <3>3, <3>4 DEF PendingKept
    <3>6. pending'[s] # None =>
            \/ pending'[s] = NoEvent /\ late'
            \/ pending'[s] \in dispatches' /\ pending'[s][1] = s
      BY <1>0, <3>2
    <3> QED BY <3>5, <3>6 DEF PendingKept
  <2> QED BY <2>1, <2>2, <2>3
<1>3. /\ \A c \in Session : StartSession(c) => PendingKept'
      /\ \A e \in sends : SendDue(e) => PendingKept'
  <2>1. \A e \in sends : e[1] \in Session
    BY <1>0, EventTypes
  <2> QED BY <1>2, <2>1 DEF StartSession, SendDue
<1>4. ASSUME NEW e \in dispatches, DispatchDue(e) PROVE PendingKept'
  <2>1. e[1] \in Slot /\ pending[e[1]] = e /\ {e[1]} \in SUBSET Slot
    BY PendingLives
  <2>2. ASSUME NEW r, DispatchTo(e, r) PROVE PendingKept'
    <3>1. dispatches' = dispatches \ {e} /\ pending' = [pending EXCEPT ![e[1]] = None]
      BY <2>2 DEF DispatchTo
    <3>2. \A t \in Slot : pending'[t] = IF t = e[1] THEN None ELSE pending[t]
      BY <1>0, <2>1, <3>1 DEF RouterType
    <3> QED BY <1>0, <2>1, <3>1, <3>2 DEF PendingKept
  <2>3. ASSUME NEW o, DispatchEnds(e, o) PROVE PendingKept'
    <3>1. RouterEnds({e[1]})
      BY <2>3 DEF DispatchEnds
    <3> QED BY <1>0, <2>1, <3>1, RouterEndsKept
  <2> QED BY <1>4, <2>2, <2>3 DEF DispatchDue
<1>5. ASSUME NEW e \in timeouts, TimeoutDue(e) PROVE PendingKept'
  <2> DEFINE E == IF pending[e[1]] # None \/ phase[e[1]] # "none" THEN {e[1]} ELSE {}
  <2>1. E \in SUBSET Slot
    BY <1>0, EventTypes
  <2>2. RouterEnds(E)
    BY <1>5 DEF TimeoutDue
  <2> HIDE DEF E
  <2> QED BY <1>0, <2>1, <2>2, RouterEndsKept
<1>6. ASSUME NEW r \in Replica, StepEndDue(r) PROVE PendingKept'
  <2>1. PICK done \in SUBSET Held(r, "running") : RouterEnds(done)
    BY <1>6 DEF StepEndDue
  <2>2. done \in SUBSET Slot
    BY DEF Held
  <2> QED BY <1>0, <2>1, <2>2, RouterEndsKept
<1>7. ASSUME NEW x, Crash(x) \/ PhaseEndDue(x) PROVE PendingKept'
  BY <1>1, <1>7 DEF Crash, PhaseEndDue, Enter
<1>8. ASSUME NEW x, InjectExtra(x) \/ EligibleDue(x) \/ KickDue(x) \/ SetParams(x) \/ RunLate
      PROVE  PendingKept'
  BY <1>1, <1>8 DEF InjectExtra, EligibleDue, KickDue, SetParams, RunLate, router
<1> QED BY <1>3, <1>4, <1>5, <1>6, <1>7, <1>8 DEF Next

LEMMA LeavesKept ==
  ASSUME TypeOK, EligibleKept, late => late', NEW E \in SUBSET Slot,
         eligibles' = eligibles \ {eligibleEv[s] : s \in E},
         \A s \in E : phase'[s] # "arriving" /\ eligibleEv'[s] = NoEvent,
         \A s \in Slot \ E : eligibleEv'[s] = eligibleEv[s] /\ phase'[s] = phase[s]
  PROVE  EligibleKept'
<1>1. \A t \in Slot : eligibleEv'[t] # NoEvent => eligibleEv'[t][1] = t
  BY DEF EligibleKept
<1>2. ASSUME NEW t \in Slot, phase'[t] = "arriving"
      PROVE  (eligibleEv'[t] = NoEvent /\ late') \/ eligibleEv'[t] \in eligibles'
  <2>1. t \notin E /\ eligibleEv'[t] = eligibleEv[t] /\ phase[t] = "arriving"
    BY <1>2
  <2>2. (eligibleEv[t] = NoEvent /\ late) \/ eligibleEv[t] \in eligibles
    BY <2>1 DEF EligibleKept
  <2>3. ASSUME NEW s \in E, eligibleEv[s] = eligibleEv[t] PROVE eligibleEv[t] = NoEvent
    BY <2>1, <2>3 DEF EligibleKept
  <2>4. CASE eligibleEv[t] = NoEvent /\ late
    BY <2>1, <2>4
  <2>5. CASE eligibleEv[t] # NoEvent /\ eligibleEv[t] \in eligibles
    BY <2>1, <2>3, <2>5
  <2>6. CASE eligibleEv[t] = NoEvent /\ eligibleEv[t] \in eligibles
    BY <2>6, EventTypes
  <2> QED BY <2>2, <2>4, <2>5, <2>6
<1> QED BY <1>1, <1>2 DEF EligibleKept

LEMMA EligibleKeptStep ==
  ASSUME HeldInv, EventInv, EligibleKept, Next
  PROVE  EligibleKept'
<1>0. TypeOK /\ EngineType /\ RouterType /\ (late => late')
  BY TypeParts, LateStays DEF HeldInv
<1>1. UNCHANGED <<phase, eligibleEv, eligibles>> => EligibleKept'
  BY <1>0 DEF EligibleKept
<1>2. ASSUME NEW e \in dispatches, DispatchDue(e) PROVE EligibleKept'
  <2>1. e[1] \in Slot /\ phase[e[1]] = "none"
    BY PendingLives
  <2>2. ASSUME NEW o, DispatchEnds(e, o) PROVE EligibleKept'
    BY <1>1, <2>2 DEF DispatchEnds, engine
  <2>3. ASSUME NEW r, DispatchTo(e, r) PROVE EligibleKept'
    <3>1. CASE HasOverhead
      <4>1. PICK lost \in Lossy :
                /\ phase' = [phase EXCEPT ![e[1]] = "arriving"]
                /\ eligibleEv' = [eligibleEv EXCEPT ![e[1]] = Handle(<<e[1], reqId[e[1]], r>>, lost)]
                /\ eligibles' = eligibles \cup Queued(<<e[1], reqId[e[1]], r>>, lost)
        BY <2>3, <3>1 DEF DispatchTo
      <4>2. \A t \in Slot \ {e[1]} : phase'[t] = phase[t] /\ eligibleEv'[t] = eligibleEv[t]
        BY <1>0, <4>1 DEF EngineType
      <4>3. IF lost THEN eligibleEv'[e[1]] = NoEvent /\ late
                    ELSE eligibleEv'[e[1]] = <<e[1], reqId[e[1]], r>> /\ eligibleEv'[e[1]] \in eligibles'
        BY <1>0, <2>1, <4>1 DEF Handle, Queued, Lossy, EngineType
      <4>4. eligibles \subseteq eligibles'
        BY <4>1
      <4> QED BY <1>0, <4>2, <4>3, <4>4 DEF EligibleKept
    <3>2. CASE ~HasOverhead
      <4>1. phase' = [phase EXCEPT ![e[1]] = "waiting"] /\ UNCHANGED <<eligibleEv, eligibles>>
        BY <2>3, <3>2 DEF DispatchTo, MakeEligible
      <4> QED BY <1>0, <4>1 DEF EligibleKept, EngineType
    <3> QED BY <3>1, <3>2
  <2> QED BY <1>2, <2>2, <2>3 DEF DispatchDue
<1>3. ASSUME NEW e \in eligibles, EligibleDue(e) PROVE EligibleKept'
  <2>1. e[1] \in Slot /\ eligibleEv[e[1]] = e
    BY <1>0, <1>3, EventTypes DEF EligibleDue
  <2>2. /\ eligibles' = eligibles \ {eligibleEv[s] : s \in {e[1]}}
        /\ eligibleEv' = [eligibleEv EXCEPT ![e[1]] = NoEvent]
        /\ phase' = [phase EXCEPT ![e[1]] = "waiting"]
    BY <1>3, <2>1 DEF EligibleDue, MakeEligible
  <2>3. /\ \A t \in Slot \ {e[1]} : eligibleEv'[t] = eligibleEv[t] /\ phase'[t] = phase[t]
        /\ \A t \in {e[1]} : eligibleEv'[t] = NoEvent /\ phase'[t] # "arriving"
    BY <1>0, <2>1, <2>2 DEF EngineType
  <2>4. {e[1]} \in SUBSET Slot
    BY <2>1
  <2> QED BY <1>0, <2>2, <2>3, <2>4, LeavesKept
<1>4. ASSUME NEW e \in timeouts, TimeoutDue(e) PROVE EligibleKept'
  <2>1. e[1] \in Slot /\ {e[1]} \in SUBSET Slot
    BY <1>0, EventTypes
  <2>2. /\ eligibles' = eligibles \ {eligibleEv[s] : s \in {e[1]}}
        /\ eligibleEv' = [eligibleEv EXCEPT ![e[1]] = NoEvent]
        /\ phase' = [phase EXCEPT ![e[1]] = "none"]
    BY <1>4 DEF TimeoutDue
  <2>3. /\ \A t \in Slot \ {e[1]} : eligibleEv'[t] = eligibleEv[t] /\ phase'[t] = phase[t]
        /\ \A t \in {e[1]} : eligibleEv'[t] = NoEvent /\ phase'[t] # "arriving"
    BY <1>0, <2>1, <2>2 DEF EngineType
  <2> QED BY <1>0, <2>1, <2>2, <2>3, LeavesKept
<1>5. ASSUME NEW r \in Replica, NEW E \in SUBSET Held(r, "running"), FinishAndCompose(r, E)
      PROVE  EligibleKept'
  <2>1. PICK pre \in SUBSET (Held(r, "running") \ E), adm \in SUBSET Held(r, "waiting") :
          phase' = [s \in Slot |-> IF s \in E THEN "none"
                                   ELSE IF s \in pre THEN "waiting"
                                   ELSE IF s \in adm THEN "running" ELSE phase[s]]
    BY <1>5 DEF FinishAndCompose
  <2>2. UNCHANGED <<eligibleEv, eligibles>>
    BY <1>5 DEF FinishAndCompose
  <2>3. \A s \in Slot : phase'[s] = "arriving" => phase[s] = "arriving"
    BY <2>1
  <2> QED BY <1>0, <2>2, <2>3 DEF EligibleKept
<1>6. ASSUME NEW r \in Replica, KickDue(r) \/ StepEndDue(r) PROVE EligibleKept'
  BY <1>5, <1>6 DEF KickDue, StepEndDue
<1>7. ASSUME NEW r, NEW code, NEW gone, Enter(r, code, gone) PROVE EligibleKept'
  <2> DEFINE E == FailedBy(r, code)
  <2>1. /\ phase' = [s \in Slot |-> IF s \in E THEN "none" ELSE phase[s]]
        /\ eligibleEv' = [s \in Slot |-> IF s \in E THEN NoEvent ELSE eligibleEv[s]]
        /\ eligibles' = eligibles \ {eligibleEv[s] : s \in E}
    BY <1>7 DEF Enter, FailedBy
  <2>2. E \in SUBSET Slot
    BY DEF FailedBy, Held
  <2> HIDE DEF E
  <2> QED BY <1>0, <2>1, <2>2, LeavesKept
<1>8. ASSUME NEW x, Crash(x) \/ PhaseEndDue(x) PROVE EligibleKept'
  BY <1>7, <1>8 DEF Crash, PhaseEndDue
<1>9. ASSUME NEW c, NEW fired, SendRequest(c, fired) PROVE EligibleKept'
  BY <1>1, <1>9 DEF SendRequest, SendAdmitted, SendRejected, engine
<1>10. ASSUME NEW x, StartSession(x) \/ SendDue(x) \/ InjectExtra(x) \/ SetParams(x) \/ RunLate
       PROVE  EligibleKept'
  BY <1>1, <1>9, <1>10 DEF StartSession, SendDue, InjectExtra, SetParams, RunLate, engine
<1> QED BY <1>2, <1>3, <1>4, <1>6, <1>8, <1>10 DEF Next

(* A phase entered ends by its own event, or not on this day. *)
LEMMA PhaseKeptStep ==
  ASSUME HeldInv, PhaseKept, Next
  PROVE  PhaseKept'
<1>0. TypeOK /\ FailureType /\ (late => late')
  BY TypeParts, LateStays DEF HeldInv
<1>1. UNCHANGED <<fstate, phaseEv, phaseEnds>> => PhaseKept'
  BY <1>0 DEF PhaseKept
<1>2. ASSUME NEW r \in Replica, NEW code \in ReplicaState, Enter(r, code, phaseEv[r])
      PROVE  PhaseKept'
  <2>1. PICK lost \in (IF code = "down" THEN {FALSE} ELSE Lossy) :
          /\ phaseEv' = [phaseEv EXCEPT ![r] = Handle(<<r, code>>, code = "ready" \/ lost)]
          /\ phaseEnds' = (phaseEnds \ {phaseEv[r]}) \cup Queued(<<r, code>>, code = "ready" \/ lost)
    BY <1>2 DEF Enter
  <2>2. fstate' = [fstate EXCEPT ![r] = code] /\ (lost => late)
    BY <1>2, <2>1 DEF Enter, Lossy
  <2>3. /\ fstate'[r] = code
        /\ IF code = "ready" \/ lost THEN phaseEv'[r] = NoEvent
           ELSE phaseEv'[r] = <<r, code>> /\ phaseEv'[r] \in phaseEnds'
    BY <1>0, <2>1, <2>2 DEF Handle, Queued, FailureType
  <2>4. ASSUME NEW q \in Replica \ {r}
        PROVE  IF fstate'[q] = "ready" THEN phaseEv'[q] = NoEvent
               ELSE IF phaseEv'[q] = NoEvent THEN late'
               ELSE phaseEv'[q] = <<q, fstate'[q]>> /\ phaseEv'[q] \in phaseEnds'
    <3>1. fstate'[q] = fstate[q] /\ phaseEv'[q] = phaseEv[q]
      BY <1>0, <2>1, <2>2 DEF FailureType
    <3>2. CASE fstate[q] = "ready" \/ phaseEv[q] = NoEvent
      BY <1>0, <3>1, <3>2 DEF PhaseKept
    <3>3. CASE fstate[q] # "ready" /\ phaseEv[q] # NoEvent
      <4>1. phaseEv[q] = <<q, fstate[q]>> /\ phaseEv[q] \in phaseEnds
        BY <3>3 DEF PhaseKept
      <4>2. phaseEv[q] # phaseEv[r]
        BY <3>3, <4>1 DEF PhaseKept
      <4>3. phaseEv[q] \in phaseEnds'
        BY <2>1, <4>1, <4>2
      <4>4. fstate'[q] = fstate[q] /\ phaseEv'[q] = phaseEv[q]
        BY <3>1
      <4> QED BY <3>3, <4>1, <4>3, <4>4
    <3> QED BY <3>2, <3>3
  <2>5. IF fstate'[r] = "ready" THEN phaseEv'[r] = NoEvent
        ELSE IF phaseEv'[r] = NoEvent THEN late'
        ELSE phaseEv'[r] = <<r, fstate'[r]>> /\ phaseEv'[r] \in phaseEnds'
    <3>1. code # "ready" => <<r, code>> # NoEvent
      BY NoSuchEvents DEF PhaseEvent
    <3> QED BY <1>0, <2>2, <2>3, <3>1
  <2> QED BY <2>4, <2>5 DEF PhaseKept
<1>3. ASSUME NEW r \in Replica, Crash(r) PROVE PhaseKept'
  BY <1>2, <1>3 DEF Crash, ReplicaState
<1>4. ASSUME NEW e \in phaseEnds, PhaseEndDue(e) PROVE PhaseKept'
  <2>1. e[1] \in Replica /\ e[2] \in ReplicaState \ {"ready"}
    BY <1>0 DEF FailureType, PhaseEvent
  <2>2. NextPhase[e[2]] \in ReplicaState
    BY <2>1 DEF NextPhase, ReplicaState
  <2> QED BY <1>2, <1>4, <2>1, <2>2 DEF PhaseEndDue
<1>5. ASSUME NEW c, NEW fired, SendRequest(c, fired) PROVE PhaseKept'
  BY <1>1, <1>5 DEF SendRequest, SendAdmitted, SendRejected, failure
<1>6. ASSUME NEW e, DispatchDue(e) PROVE PhaseKept'
  BY <1>1, <1>6 DEF DispatchDue, DispatchTo, DispatchEnds, failure
<1>7. ASSUME NEW x, \/ StartSession(x) \/ SendDue(x) \/ InjectExtra(x) \/ EligibleDue(x)
                    \/ TimeoutDue(x) \/ KickDue(x) \/ StepEndDue(x) \/ SetParams(x) \/ RunLate
      PROVE  PhaseKept'
  BY <1>1, <1>5, <1>7 DEF StartSession, SendDue, InjectExtra, EligibleDue, TimeoutDue, KickDue,
     StepEndDue, SetParams, RunLate, failure
<1> QED BY <1>3, <1>4, <1>6, <1>7 DEF Next

(* A kick is under way exactly for a replica that holds waiting requests and *)
(* runs none; what arrives, leaves or is cancelled keeps it so.              *)
StepKeptAt(r) ==
  /\ mode[r] = "idle" => stepEv[r] = NoEvent
  /\ mode[r] = "kick" => /\ Held(r, "waiting") # {} /\ Held(r, "running") = {}
                         /\ stepEv[r] = <<r, "kick">> /\ stepEv[r] \in steps
  /\ mode[r] = "step" => \/ stepEv[r] = <<r, "step">> /\ stepEv[r] \in steps
                         \/ stepEv[r] = NoEvent /\ late

LEMMA StepKeptParts == (StepKept <=> \A r \in Replica : StepKeptAt(r))
                       /\ (StepKept' <=> \A r \in Replica : StepKeptAt(r)')
BY DEF StepKept, StepKeptAt

(* A replica whose mode, handle and held requests stay keeps its event. *)
LEMMA SameReplica ==
  ASSUME StepKept, late => late', NEW q \in Replica,
         mode'[q] = mode[q], stepEv'[q] = stepEv[q],
         stepEv[q] \in steps => stepEv[q] \in steps',
         Held(q, "waiting")' = Held(q, "waiting"), Held(q, "running")' = Held(q, "running")
  PROVE  StepKeptAt(q)'
BY StepKeptParts DEF StepKeptAt

LEMMA OtherSlots ==
  ASSUME NEW q, NEW ph, \A s \in Slot : at[s] = q \/ at'[s] = q => at'[s] = at[s] /\ phase'[s] = phase[s]
  PROVE  Held(q, ph)' = Held(q, ph)
BY DEF Held

LEMMA MakeEligibleKept ==
  ASSUME HeldInv, StepKept, NoIdleWithWork, late => late', NEW s \in Slot, NEW r \in Replica,
         MakeEligible(s, r), phase[s] \in {"none", "arriving"}, at'[s] = r,
         \A t \in Slot \ {s} : at'[t] = at[t], at[s] \in {None, r}
  PROVE  StepKept'
<1>0. TypeOK /\ EngineType
  BY TypeParts DEF HeldInv
<1>1. /\ phase' = [phase EXCEPT ![s] = "waiting"]
      /\ mode' = IF mode[r] = "idle" THEN [mode EXCEPT ![r] = "kick"] ELSE mode
      /\ stepEv' = IF mode[r] = "idle" THEN [stepEv EXCEPT ![r] = <<r, "kick">>] ELSE stepEv
      /\ steps' = IF mode[r] = "idle" THEN steps \cup {<<r, "kick">>} ELSE steps
  BY DEF MakeEligible, Kicks
<1>2. phase'[s] = "waiting" /\ \A t \in Slot \ {s} : phase'[t] = phase[t]
  BY <1>0, <1>1 DEF EngineType
<1>3. s \in Held(r, "waiting")' /\ Held(r, "running")' = Held(r, "running")
  BY <1>2 DEF Held
<1>4. StepKeptAt(r)'
  <2>1. CASE mode[r] = "idle"
    <3>1. Held(r, "running") = {}
      BY <2>1 DEF NoIdleWithWork, Held
    <3>2. mode'[r] = "kick" /\ stepEv'[r] = <<r, "kick">> /\ stepEv'[r] \in steps'
      BY <1>0, <1>1, <2>1 DEF EngineType
    <3> QED BY <1>3, <3>1, <3>2 DEF StepKeptAt
  <2>2. CASE mode[r] # "idle"
    BY <1>1, <1>3, <2>2, StepKeptParts DEF StepKeptAt
  <2> QED BY <2>1, <2>2
<1>5. ASSUME NEW q \in Replica \ {r} PROVE StepKeptAt(q)'
  <2>1. \A t \in Slot : at[t] = q \/ at'[t] = q => at'[t] = at[t] /\ phase'[t] = phase[t]
    BY <1>2, NoSuchEvents
  <2>2. Held(q, "waiting")' = Held(q, "waiting") /\ Held(q, "running")' = Held(q, "running")
    BY <2>1, OtherSlots
  <2>3. mode'[q] = mode[q] /\ stepEv'[q] = stepEv[q] /\ steps \subseteq steps'
    BY <1>0, <1>1 DEF EngineType
  <2> QED BY <2>2, <2>3, SameReplica
<1> QED BY <1>4, <1>5, StepKeptParts

(* Replica r changes its own slots and its own event; it is left idle, or    *)
(* with a step under way.                                                    *)
LEMMA OwnChangesKept ==
  ASSUME HeldInv, StepKept, late => late', NEW r \in Replica, NEW gone,
         steps \ {gone} \subseteq steps', gone = stepEv[r],
         \A q \in Replica \ {r} : mode'[q] = mode[q] /\ stepEv'[q] = stepEv[q],
         \A s \in Slot : at[s] # r => at'[s] = at[s] /\ phase'[s] = phase[s],
         \A s \in Slot : at'[s] # at[s] => at'[s] = None,
         StepKeptAt(r)'
  PROVE  StepKept'
<1>1. ASSUME NEW q \in Replica \ {r} PROVE StepKeptAt(q)'
  <2>1. \A t \in Slot : at[t] = q \/ at'[t] = q => at'[t] = at[t] /\ phase'[t] = phase[t]
    BY NoSuchEvents
  <2>2. Held(q, "waiting")' = Held(q, "waiting") /\ Held(q, "running")' = Held(q, "running")
    BY <2>1, OtherSlots
  <2>3. stepEv[q] = <<q, mode[q]>> /\ stepEv[q] \in steps => stepEv[q] \in steps'
    BY StepKeptParts, NoSuchEvents, TypeParts DEF StepKeptAt, HeldInv, EngineType, Mode
  <2> QED BY <2>2, <2>3, StepKeptParts DEF StepKeptAt
<1> QED BY <1>1, StepKeptParts

LEMMA FinishAndComposeKept ==
  ASSUME HeldInv, StepKept, late => late', NEW r \in Replica, NEW E \in SUBSET Held(r, "running"),
         FinishAndCompose(r, E)
  PROVE  StepKept'
<1>0. TypeOK /\ EngineType
  BY TypeParts DEF HeldInv
<1> DEFINE run == Held(r, "running") \ E
           wait == Held(r, "waiting")
<1>1. PICK pre \in SUBSET run, adm \in SUBSET wait :
        /\ phase' = [s \in Slot |-> IF s \in E THEN "none"
                                    ELSE IF s \in pre THEN "waiting"
                                    ELSE IF s \in adm THEN "running" ELSE phase[s]]
        /\ at' = [s \in Slot |-> IF s \in E THEN None ELSE at[s]]
  BY Zenon DEF FinishAndCompose
<1>2. \A s \in Slot : at[s] # r => at'[s] = at[s] /\ phase'[s] = phase[s]
  BY <1>1 DEF Held
<1>3. PICK busy \in BOOLEAN, lost \in BOOLEAN :
        /\ lost => late
        /\ mode' = [mode EXCEPT ![r] = IF busy THEN "step" ELSE "idle"]
        /\ stepEv' = [stepEv EXCEPT ![r] = Handle(<<r, "step">>, ~busy \/ lost)]
        /\ steps' = (steps \ {stepEv[r]}) \cup Queued(<<r, "step">>, ~busy \/ lost)
  BY DEF FinishAndCompose, Lossy
<1>4. \A q \in Replica \ {r} : mode'[q] = mode[q] /\ stepEv'[q] = stepEv[q]
  BY <1>0, <1>3 DEF EngineType
<1>5. \A s \in Slot : at'[s] # at[s] => at'[s] = None
  BY <1>1
<1>6. mode'[r] = (IF busy THEN "step" ELSE "idle")
  BY <1>0, <1>3 DEF EngineType
<1>7. IF ~busy \/ lost THEN stepEv'[r] = NoEvent
                       ELSE stepEv'[r] = <<r, "step">> /\ stepEv'[r] \in steps'
  BY <1>0, <1>3 DEF EngineType, Handle, Queued
<1>8. StepKeptAt(r)'
  BY <1>3, <1>6, <1>7 DEF StepKeptAt
<1>9. steps \ {stepEv[r]} \subseteq steps'
  BY <1>3
<1> QED BY <1>2, <1>4, <1>5, <1>8, <1>9, OwnChangesKept

LEMMA EnterKept ==
  ASSUME HeldInv, StepKept, late => late', NEW r \in Replica, NEW code, NEW gone, Enter(r, code, gone)
  PROVE  StepKept'
<1>0. TypeOK /\ EngineType
  BY TypeParts DEF HeldInv
<1> DEFINE work == Held(r, "waiting") \cup Held(r, "running")
           fails == code # "ready" /\ (fstate[r] = "ready" \/ work # {} \/ mode[r] # "idle")
           E == IF fails THEN work \cup Held(r, "arriving") ELSE {}
<1>1. /\ phase' = [s \in Slot |-> IF s \in E THEN "none" ELSE phase[s]]
      /\ at' = [s \in Slot |-> IF s \in E THEN None ELSE at[s]]
      /\ mode' = IF fails THEN [mode EXCEPT ![r] = "idle"] ELSE mode
      /\ stepEv' = IF fails THEN [stepEv EXCEPT ![r] = NoEvent] ELSE stepEv
      /\ steps' = IF fails THEN steps \ {stepEv[r]} ELSE steps
  BY DEF Enter
<1>2. CASE fails
  <2>1. \A s \in Slot : at[s] # r => at'[s] = at[s] /\ phase'[s] = phase[s]
    BY <1>1 DEF Held
  <2>2. \A s \in Slot : at'[s] # at[s] => at'[s] = None
    BY <1>1
  <2>3. mode'[r] = "idle" /\ stepEv'[r] = NoEvent
    BY <1>0, <1>1, <1>2 DEF EngineType
  <2>4. \A q \in Replica \ {r} : mode'[q] = mode[q] /\ stepEv'[q] = stepEv[q]
    BY <1>0, <1>1, <1>2 DEF EngineType
  <2>5. StepKeptAt(r)'
    BY <2>3 DEF StepKeptAt
  <2>6. steps \ {stepEv[r]} \subseteq steps'
    BY <1>1, <1>2
  <2> QED BY <2>1, <2>2, <2>4, <2>5, <2>6, OwnChangesKept
<1>3. CASE ~fails
  <2>1. \A s \in Slot : at'[s] = at[s] /\ phase'[s] = phase[s]
    BY <1>1, <1>3
  <2>2. UNCHANGED <<mode, stepEv, steps>>
    BY <1>1, <1>3
  <2>3. ASSUME NEW q \in Replica PROVE StepKeptAt(q)'
    <3>1. Held(q, "waiting")' = Held(q, "waiting") /\ Held(q, "running")' = Held(q, "running")
      BY <2>1 DEF Held
    <3> QED BY <2>2, <3>1, SameReplica
  <2> QED BY <2>3, StepKeptParts
<1> QED BY <1>2, <1>3

LEMMA TimeoutDueKept ==
  ASSUME HeldInv, StepKept, late => late', NEW e \in timeouts, TimeoutDue(e)
  PROVE  StepKept'
<1>0. TypeOK /\ EngineType
  BY TypeParts DEF HeldInv
<1> DEFINE s == e[1]
<1>a. PICK r : r = at[s]
  OBVIOUS
<1> DEFINE unkick == phase[s] = "waiting" /\ mode[r] = "kick" /\ Alone(s, r)
<1>1. s \in Slot
  BY <1>0, EventTypes
<1>2. /\ phase' = [phase EXCEPT ![s] = "none"] /\ at' = [at EXCEPT ![s] = None]
      /\ mode' = IF unkick THEN [mode EXCEPT ![r] = "idle"] ELSE mode
      /\ stepEv' = IF unkick THEN [stepEv EXCEPT ![r] = NoEvent] ELSE stepEv
      /\ steps' = IF unkick THEN steps \ {stepEv[r]} ELSE steps
  BY <1>a DEF TimeoutDue
<1>3. /\ at'[s] = None /\ phase'[s] = "none"
      /\ \A t \in Slot \ {s} : at'[t] = at[t] /\ phase'[t] = phase[t]
  BY <1>0, <1>1, <1>2 DEF EngineType
<1>4. ASSUME NEW q \in Replica, q # r
      PROVE  Held(q, "waiting")' = Held(q, "waiting") /\ Held(q, "running")' = Held(q, "running")
  <2>1. \A t \in Slot : at[t] = q \/ at'[t] = q => at'[t] = at[t] /\ phase'[t] = phase[t]
    BY <1>a, <1>3, <1>4, NoSuchEvents
  <2> QED BY <2>1, OtherSlots
<1>5. CASE unkick
  <2>1. r \in Replica
    BY <1>0, <1>1, <1>a, <1>5 DEF HeldInv, HeldOnce, EngineType
  <2>2. mode'[r] = "idle" /\ stepEv'[r] = NoEvent
        /\ \A q \in Replica \ {r} : mode'[q] = mode[q] /\ stepEv'[q] = stepEv[q]
    BY <1>0, <1>2, <1>5, <2>1 DEF EngineType
  <2>3. StepKeptAt(r)'
    BY <2>2 DEF StepKeptAt
  <2>4. \A t \in Slot : at[t] # r => at'[t] = at[t] /\ phase'[t] = phase[t]
    BY <1>a, <1>3
  <2>5. (\A t \in Slot : at'[t] # at[t] => at'[t] = None) /\ steps \ {stepEv[r]} \subseteq steps'
    BY <1>2, <1>3, <1>5
  <2> QED BY <2>1, <2>2, <2>3, <2>4, <2>5, OwnChangesKept
<1>6. CASE ~unkick
  <2>1. UNCHANGED <<mode, stepEv, steps>>
    BY <1>2, <1>6
  <2>2. ASSUME NEW q \in Replica, q # r PROVE StepKeptAt(q)'
    BY <1>4, <2>1, <2>2, SameReplica
  <2>3. ASSUME r \in Replica, mode[r] = "kick"
        PROVE  Held(r, "waiting")' # {} /\ Held(r, "running")' = {}
    <3>1. Held(r, "waiting") # {} /\ Held(r, "running") = {}
      BY <2>3, StepKeptParts DEF StepKeptAt
    <3>2. Held(r, "running")' = {}
      BY <1>3, <3>1 DEF Held
    <3>3. \E t \in Held(r, "waiting") : t # s
      BY <1>1, <1>6, <2>3, <3>1 DEF Alone, Held
    <3>4. \A t \in Held(r, "waiting") : t # s => t \in Held(r, "waiting")'
      BY <1>3 DEF Held
    <3> QED BY <3>2, <3>3, <3>4
  <2>4. r \in Replica => StepKeptAt(r)'
    BY <2>1, <2>3, StepKeptParts DEF StepKeptAt
  <2> QED BY <2>2, <2>4, StepKeptParts
<1> QED BY <1>5, <1>6

LEMMA StepKeptStep ==
  ASSUME HeldInv, EventInv, NoIdleWithWork, StepKept, Next
  PROVE  StepKept'
<1>0. TypeOK /\ EngineType /\ RouterType /\ (late => late')
  BY TypeParts, LateStays DEF HeldInv
<1>1. UNCHANGED <<phase, at, mode, stepEv, steps>> => StepKept'
  BY <1>0 DEF StepKept, Held
<1>2. ASSUME NEW e \in dispatches, DispatchDue(e) PROVE StepKept'
  <2>1. e[1] \in Slot /\ phase[e[1]] = "none" /\ at[e[1]] = None
    BY PendingLives DEF HeldInv, HeldOnce
  <2>2. e[3] \in Replica /\ routable \subseteq Replica
    BY <1>0, EventTypes DEF RouterType
  <2>3. ASSUME NEW o, DispatchEnds(e, o) PROVE StepKept'
    BY <1>1, <2>3 DEF DispatchEnds, engine
  <2>4. ASSUME NEW r \in Replica, DispatchTo(e, r) PROVE StepKept'
    <3>1. at' = [at EXCEPT ![e[1]] = r]
      BY <2>4 DEF DispatchTo
    <3>2. at'[e[1]] = r /\ \A t \in Slot \ {e[1]} : at'[t] = at[t]
      BY <1>0, <2>1, <3>1 DEF EngineType
    <3>3. CASE HasOverhead
      <4>1. phase' = [phase EXCEPT ![e[1]] = "arriving"] /\ UNCHANGED <<mode, stepEv, steps>>
        BY <2>4, <3>3 DEF DispatchTo
      <4>2. ASSUME NEW q \in Replica PROVE StepKeptAt(q)'
        <5>1. Held(q, "waiting")' = Held(q, "waiting") /\ Held(q, "running")' = Held(q, "running")
          BY <1>0, <2>1, <3>2, <4>1, NoSuchEvents DEF Held, EngineType
        <5> QED BY <1>0, <4>1, <5>1, SameReplica
      <4> QED BY <4>2, StepKeptParts
    <3>4. CASE ~HasOverhead
      <4>1. MakeEligible(e[1], r)
        BY <2>4, <3>4 DEF DispatchTo
      <4> QED BY <1>0, <2>1, <3>2, <4>1, MakeEligibleKept
    <3> QED BY <3>3, <3>4
  <2> QED BY <1>2, <2>2, <2>3, <2>4 DEF DispatchDue
<1>3. ASSUME NEW e \in eligibles, EligibleDue(e) PROVE StepKept'
  <2>1. e[1] \in Slot /\ e[3] \in Replica
    BY <1>0, EventTypes
  <2>2. /\ phase[e[1]] = "arriving" /\ at[e[1]] = e[3] /\ at' = at
        /\ MakeEligible(e[1], e[3])
    BY <1>3 DEF EligibleDue
  <2> QED BY <1>0, <2>1, <2>2, MakeEligibleKept
<1>4. ASSUME NEW r \in Replica, KickDue(r) \/ StepEndDue(r) PROVE StepKept'
  <2>1. \E E \in SUBSET Held(r, "running") : FinishAndCompose(r, E)
    BY <1>4 DEF KickDue, StepEndDue
  <2> QED BY <1>0, <2>1, FinishAndComposeKept
<1>5. ASSUME NEW r \in Replica, Crash(r) PROVE StepKept'
  BY <1>0, <1>5, EnterKept DEF Crash
<1>6. ASSUME NEW e \in phaseEnds, PhaseEndDue(e) PROVE StepKept'
  BY <1>0, <1>6, EnterKept, EventTypes DEF PhaseEndDue
<1>7. ASSUME NEW e \in timeouts, TimeoutDue(e) PROVE StepKept'
  BY <1>0, <1>7, TimeoutDueKept
<1>8. ASSUME NEW c, NEW fired, SendRequest(c, fired) PROVE StepKept'
  BY <1>1, <1>8 DEF SendRequest, SendAdmitted, SendRejected, engine
<1>9. ASSUME NEW x, StartSession(x) \/ SendDue(x) \/ InjectExtra(x) \/ SetParams(x) \/ RunLate
      PROVE  StepKept'
  BY <1>1, <1>8, <1>9 DEF StartSession, SendDue, InjectExtra, SetParams, RunLate, engine
<1> QED BY <1>2, <1>3, <1>4, <1>5, <1>6, <1>7, <1>9 DEF Next

(* No session is past the last of its turns. *)
LEMMA AfterEndTurns ==
  ASSUME NEW x \in SessionRec, x.turn <= x.turns, NEW o, NEW over, NEW lost
  PROVE  AfterEnd(x, o, over, lost).turn <= AfterEnd(x, o, over, lost).turns
<1>1. x = [st |-> x.st, turns |-> x.turns, turn |-> x.turn, attempt |-> x.attempt]
      /\ x.turn \in 1..MaxTurns /\ x.turns \in 1..MaxTurns /\ MaxTurns \in Nat
  BY FleetAssumption DEF SessionRec, FleetAssumption
<1> QED BY <1>1 DEF AfterEnd

LEMMA TurnsKeptStep ==
  ASSUME HeldInv, TurnsKept, Next
  PROVE  TurnsKept'
<1>0. TypeOK /\ ClientType
  BY TypeParts DEF HeldInv
<1>1. UNCHANGED sess => TurnsKept'
  BY DEF TurnsKept
<1>2. ASSUME NEW c \in Session, NEW st, sess' = [sess EXCEPT ![c].st = st] PROVE TurnsKept'
  <2> SUFFICES ASSUME NEW d \in Session PROVE sess'[d].turn <= sess'[d].turns
    BY DEF TurnsKept
  <2>1. sess'[d].turn = sess[d].turn /\ sess'[d].turns = sess[d].turns
    BY <1>0, <1>2 DEF ClientType, SessionRec
  <2> QED BY <2>1 DEF TurnsKept
<1>3. ASSUME NEW E, NEW o, NEW tokened, ClientEnds(E, o, tokened) PROVE TurnsKept'
  <2> DEFINE ended == {c \in Session : slotOf[c] \in E}
  <2>1. PICK over \in SUBSET ended, lost \in SUBSET (IF late THEN ended ELSE {}) :
          LET next(c) == AfterEnd(sess[c], o, c \in over, c \in lost)
          IN  sess' = [c \in Session |-> IF c \in ended THEN next(c) ELSE sess[c]]
    BY <1>3, Zenon DEF ClientEnds
  <2> QED BY <1>0, <2>1, AfterEndTurns DEF TurnsKept, ClientType
<1>4. ASSUME NEW c \in Session, NEW s, NEW fired, SendRejected(c, s, fired) PROVE TurnsKept'
  <2>1. PICK lost \in Lossy :
          LET next == AfterEnd(sess[c], "rejected", FALSE, lost) IN sess' = [sess EXCEPT ![c] = next]
    BY <1>4, Zenon DEF SendRejected
  <2> DEFINE next == AfterEnd(sess[c], "rejected", FALSE, lost)
  <2>2. next.turn <= next.turns
    BY <1>0, AfterEndTurns DEF TurnsKept, ClientType
  <2> HIDE DEF next
  <2>3. sess' = [sess EXCEPT ![c] = next]
    BY <2>1 DEF next
  <2> QED BY <1>0, <2>2, <2>3 DEF TurnsKept, ClientType
<1>5. ASSUME NEW c \in Session, NEW fired, SendRequest(c, fired) PROVE TurnsKept'
  BY <1>2, <1>4, <1>5 DEF SendRequest, SendAdmitted
<1>6. ASSUME NEW e \in sends, SendDue(e) PROVE TurnsKept'
  BY <1>0, <1>5, <1>6, EventTypes DEF SendDue
<1>7. ASSUME NEW c \in Session, StartSession(c) \/ InjectExtra(c) PROVE TurnsKept'
  BY <1>2, <1>5, <1>7 DEF StartSession, InjectExtra
<1>8. ASSUME NEW e \in dispatches, DispatchDue(e) PROVE TurnsKept'
  BY <1>1, <1>3, <1>8 DEF DispatchDue, DispatchTo, DispatchEnds, client
<1>9. ASSUME NEW x, TimeoutDue(x) \/ StepEndDue(x) \/ Crash(x) \/ PhaseEndDue(x) PROVE TurnsKept'
  <2>1. \E E, o, tokened : ClientEnds(E, o, tokened)
    BY <1>9, Zenon DEF TimeoutDue, StepEndDue, Crash, PhaseEndDue, Enter
  <2> QED BY <1>3, <2>1
<1>10. ASSUME NEW x, EligibleDue(x) \/ KickDue(x) \/ SetParams(x) \/ RunLate PROVE UNCHANGED sess
  BY <1>10 DEF EligibleDue, KickDue, SetParams, RunLate, client
<1> QED BY <1>1, <1>6, <1>7, <1>8, <1>9, <1>10 DEF Next

-----------------------------------------------------------------------------
HandlesKept == ClientKept /\ TurnsKept /\ PendingKept /\ EligibleKept /\ PhaseKept /\ StepKept

LEMMA HandlesStep ==
  HeldInv /\ EventInv /\ NoIdleWithWork /\ HandlesKept /\ [Next]_vars => HandlesKept'
<1> SUFFICES ASSUME HeldInv, EventInv, NoIdleWithWork, HandlesKept, [Next]_vars PROVE HandlesKept'
  OBVIOUS
<1>1. CASE Next
  BY <1>1, ClientKeptStep, TurnsKeptStep, PendingKeptStep, EligibleKeptStep, PhaseKeptStep, StepKeptStep
  DEF HandlesKept
<1>2. CASE UNCHANGED vars
  BY <1>2 DEF HandlesKept, ClientKept, SessKept, TimeoutKept, TurnsKept, PendingKept, EligibleKept,
     PhaseKept, StepKept, Held, vars, client, router, engine, failure, day
<1> QED BY <1>1, <1>2

LEMMA HandlesInit == Init => HandlesKept
<1> SUFFICES ASSUME Init PROVE HandlesKept
  OBVIOUS
<1>1. TurnsKept
  BY FleetAssumption DEF Init, LoadInit, TurnsKept, SessionRec, FleetAssumption
<1>2. ClientKept
  BY DEF Init, LoadInit, ClientKept, SessKept, TimeoutKept
<1>3. PendingKept /\ EligibleKept /\ PhaseKept /\ StepKept
  BY DEF Init, RouterInit, ReplicaInit, FailureInit, PendingKept, EligibleKept, PhaseKept, StepKept
<1> QED BY <1>1, <1>2, <1>3 DEF HandlesKept

(* The checks of the five modules follow from what is known of the queues,   *)
(* the counts and the handles together.                                      *)
LEMMA LoadAsserts ==
  ASSUME HeldInv, EventInv, HandlesKept
  PROVE  AssertLoadInvariants
<1>0. TypeOK /\ ClientType
  BY TypeParts DEF HeldInv
<1>1. ASSUME NEW c \in Session, ~IsOpen(c)
      PROVE  sessEv[c] = NoEvent /\ timeoutEv[c] = NoEvent /\ slotOf[c] = None
  <2>1. sess[c].st \notin {"inFlight", "pending"}
    BY <1>1 DEF IsOpen
  <2>2. slotOf[c] = None /\ \A e \in timeouts : e[2][1] # c
    BY <2>1, NoneOutstanding DEF EventInv
  <2>3. timeoutEv[c] = NoEvent
    BY <2>2 DEF HandlesKept, ClientKept, TimeoutKept
  <2> QED BY <2>1, <2>2, <2>3 DEF HandlesKept, ClientKept, SessKept
<1>2. ASSUME NEW c \in Session, IsOpen(c)
      PROVE  /\ slotOf[c] # None <=> sessEv[c] = NoEvent
             /\ sessEv[c] # NoEvent => sessEv[c] \in sends
             /\ timeoutEv[c] # NoEvent => slotOf[c] # None /\ timeoutEv[c] \in timeouts
             /\ slotOf[c] # None => live[slotOf[c]] = 1 /\ reqId[slotOf[c]] = IdOf(c)
  <2>1. slotOf[c] # None <=> sess[c].st = "inFlight"
    BY DEF EventInv, SessionInv, OneRequestPerSession
  <2>2. sess[c].st = "pending" => sessEv[c] # NoEvent
    BY <1>0, NoSuchEvents DEF HandlesKept, ClientKept, SessKept, ClientType
  <2>3. slotOf[c] # None <=> sessEv[c] = NoEvent
    BY <1>2, <2>1, <2>2 DEF IsOpen, HandlesKept, ClientKept, SessKept
  <2>4. sessEv[c] # NoEvent => sessEv[c] \in sends
    BY DEF HandlesKept, ClientKept, SessKept
  <2>5. timeoutEv[c] # NoEvent => slotOf[c] # None /\ timeoutEv[c] \in timeouts
    BY <2>1, NoneOutstanding DEF HandlesKept, ClientKept, TimeoutKept, EventInv
  <2> QED BY <2>3, <2>4, <2>5 DEF EventInv, SessionInv, OneRequestPerSession
<1>3. ASSUME NEW s \in Slot, live[s] = 1
      PROVE  IsOpen(reqId[s][1]) /\ slotOf[reqId[s][1]] = s
  BY <1>3, LiveNamed, NoSuchEvents DEF IsOpen, EventInv, SessionInv, OneRequestPerSession
<1>4. \A c \in Session : sess[c].turn <= sess[c].turns
  BY DEF HandlesKept, TurnsKept
<1> QED BY <1>1, <1>2, <1>3, <1>4 DEF AssertLoadInvariants

LEMMA RouterAsserts ==
  ASSUME HeldInv, HandlesKept, OutstandingExact, RoutableView
  PROVE  AssertRouterInvariants
<1>1. ASSUME NEW s \in Slot, pending[s] # None
      PROVE  /\ dispatched[s] = None /\ live[s] = 1 /\ phase[s] = "none"
             /\ IF pending[s] = NoEvent THEN late ELSE pending[s] \in dispatches
  <2>1. dispatched[s] = None /\ live[s] = 1 /\ phase[s] = "none"
    BY <1>1 DEF HeldInv, HeldOnce
  <2>2. IF pending[s] = NoEvent THEN late ELSE pending[s] \in dispatches
    BY <1>1, EventTypes DEF HandlesKept, PendingKept, HeldInv
  <2> QED BY <2>1, <2>2
<1>2. \A r \in Replica : /\ fstate[r] = "ready" => r \in routable
                         /\ fstate[r] \notin {"ready", "crashed"} => r \notin routable
  BY DEF RoutableView
<1>3. \A s \in Slot : dispatched[s] # None => live[s] = 1
  BY DEF HeldInv, HeldOnce
<1> QED BY <1>1, <1>2, <1>3 DEF AssertRouterInvariants, OutstandingExact

LEMMA QueueAsserts ==
  ASSUME HeldInv, HandlesKept
  PROVE  AssertQueues
<1>1. ASSUME NEW s \in Slot, phase[s] = "arriving"
      PROVE  IF eligibleEv[s] = NoEvent THEN late ELSE eligibleEv[s] \in eligibles
  BY <1>1, EventTypes DEF HandlesKept, EligibleKept, HeldInv
<1> QED BY <1>1 DEF AssertQueues, HeldInv, HeldOnce

LEMMA ScheduleAsserts ==
  ASSUME HeldInv, HandlesKept, DeadHoldsNothing, NoIdleWithWork
  PROVE  AssertSchedule
<1> SUFFICES ASSUME NEW r \in Replica
             PROVE  LET running == Held(r, "running")
                        work    == running \cup Held(r, "waiting")
                    IN  /\ fstate[r] # "ready" => work \cup Held(r, "arriving") = {} /\ mode[r] = "idle"
                        /\ mode[r] = "idle" => work = {} /\ stepEv[r] \notin steps
                        /\ mode[r] = "kick" => work # {} /\ running = {} /\ stepEv[r] \in steps
                        /\ mode[r] = "step" => stepEv[r] \in steps \/ (stepEv[r] = NoEvent /\ late)
  BY DEF AssertSchedule
<1>1. fstate[r] # "ready" => mode[r] = "idle" /\ \A ph : Held(r, ph) = {}
  BY DEF DeadHoldsNothing, Held
<1>2. mode[r] = "idle" => Held(r, "running") = {} /\ Held(r, "waiting") = {}
  BY DEF NoIdleWithWork, Held
<1>3. mode[r] = "idle" => stepEv[r] \notin steps
  <2>1. EngineType
    BY TypeParts DEF HeldInv
  <2> QED BY <2>1, NoSuchEvents DEF HandlesKept, StepKept, EngineType
<1> QED BY <1>1, <1>2, <1>3 DEF HandlesKept, StepKept

(* The checks that the load, router, failure and replica modules make of     *)
(* themselves after every event never fail: no handle dangles, a pending     *)
(* dispatch and an open session have their events, and a replica that has    *)
(* work has a step or a kick queued for it.                                  *)
THEOREM AssertionsHold == Spec => []AssertsHold
<1>1. Init => HeldInv /\ NoIdleWithWork /\ OutstandingExact /\ HandlesKept
  BY HeldInit, CountInit, HandlesInit DEF Init, ReplicaInit, NoIdleWithWork
<1>2. HeldInv /\ EventInv /\ NoIdleWithWork /\ OutstandingExact /\ HandlesKept /\ [Next]_vars
        => (NoIdleWithWork /\ OutstandingExact /\ HandlesKept)'
  BY WorkStep, CountStep, HandlesStep
<1>3. Spec => [](NoIdleWithWork /\ OutstandingExact /\ HandlesKept)
  BY <1>1, <1>2, EventsInductive, PTL DEF Spec
<1>4. HeldInv /\ EventInv /\ DeadInv /\ NoIdleWithWork /\ OutstandingExact /\ HandlesKept
        /\ RoutableView => AssertsHold
  <2>1. PhaseKept => AssertFailureInvariants
    BY DEF PhaseKept, AssertFailureInvariants
  <2> QED BY <2>1, LoadAsserts, RouterAsserts, QueueAsserts, ScheduleAsserts
          DEF AssertsHold, HandlesKept, DeadInv, HeldInv
<1> QED BY <1>3, <1>4, EventsInductive, RotationCorrect, PTL
=============================================================================
