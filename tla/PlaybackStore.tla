---------------------------- MODULE PlaybackStore ----------------------------
(***************************************************************************)
(* The main thread's engine client (playback/store.ts, forks.ts,           *)
(* detail.ts) and the results it keeps (playback/index): what the user     *)
(* does becomes messages to the worker, and what the worker sends is kept  *)
(* unless a fork the worker had not seen has made it stale.                *)
(*                                                                         *)
(* The playhead is left out: the user can seek anywhere, and playback      *)
(* moves through computed time, so a fork may be dated anywhere and a      *)
(* detail window be due wherever time is computed.                         *)
(***************************************************************************)
EXTENDS WorkerProtocol, Functions

VARIABLES
  client,  \* run, revision, cuts, computed, tracked analyst, focus, detail tracker
  results, \* the results store
  used     \* how often the user has done each thing, for the bounds

(* What the store may show of a bucket, a traced day and a detail window. *)
Shown == [deps : Revs, analyst : Analyst]
ShownTraces == [analyst : Analyst, results : ResultSets]
ShownDetails == [day : Day, results : ResultSets]
ASSUME StoreAssumption ==
  None \notin Shown \cup ShownTraces \cup ShownDetails /\ \A r \in Revs : r # None

NewClient(id, at) ==
  [run |-> id, rev |-> 0, cuts |-> {}, computed |-> [d \in Day |-> 0],
   tracked |-> None, userTracked |-> FALSE, focusDay |-> at[1], prefetchDay |-> None,
   received |-> {}, pending |-> {}]

(* The results store: per bucket of the main stream the revisions and the    *)
(* analyst, per day a trace and a rollup, and the detail windows.            *)
NoData == [main |-> [a \in Day \X Bucket |-> None], trace |-> [d \in Day |-> None],
           rollup |-> [d \in Day |-> None], details |-> {}]

(* Which results the cuts of P discard, and the fork cut rule on the store.  *)
Gone(P, d, b) == \E p \in P : Affects(p, d, b)
Kept(P, d, f) == [b \in {x \in DOMAIN f : ~Gone(P, d, x)} |-> f[b]]
CutResults(r, P) ==
  LET keep(x, d) == IF x = None \/ Kept(P, d, x.results) = <<>> THEN None
                    ELSE [x EXCEPT !.results = Kept(P, d, @)]
  IN  [main |-> [a \in Day \X Bucket |-> IF Gone(P, a[1], a[2]) THEN None ELSE r.main[a]],
       trace |-> [d \in Day |-> keep(r.trace[d], d)],
       rollup |-> [d \in Day |-> IF Gone(P, d, Buckets - 1) THEN None ELSE r.rollup[d]],
       details |-> {keep(e, e.day) : e \in r.details} \ {None}]

AddChunk(r, m) ==
  [r EXCEPT !.main = [a \in Day \X Bucket |->
     IF a[1] = m.day /\ a[2] \in m.from..(m.to - 1)
     THEN [deps |-> m.results[a[2]], analyst |-> m.analyst] ELSE r.main[a]]]
AddTrace(r, m) == [r EXCEPT !.trace[m.day] = [analyst |-> m.analyst, results |-> m.results]]
AddDetail(r, m) ==
  IF m.results = <<>> THEN r
  ELSE [r EXCEPT !.details = @ \cup {[day |-> m.day, results |-> m.results]}]

-----------------------------------------------------------------------------
(* What the user does.                                                       *)
Post(m) == toWorker' = Append(toWorker, m)
ActionsUsed == FoldFunction(+, 0, used)
Uses(what, limit) ==
  /\ used[what] < limit /\ ActionsUsed < MaxActions
  /\ used' = [used EXCEPT ![what] = @ + 1]

StartRun(id, at, type) ==
  /\ client' = NewClient(id, at)
  /\ results' = NoData
  /\ Post([type |-> type, run |-> id, at |-> at])

ResetRun(at) ==
  /\ Uses("resets", MaxResets)
  /\ StartRun(client.run + 1, at, "reset")
  /\ UNCHANGED toMain

(* A fork at the playhead: the stale results go at once. *)
CutComputed(p, d) ==
  IF p.lasting /\ d > p.day THEN 0
  ELSE IF d = p.day /\ p.at < client.computed[d] THEN p.at ELSE client.computed[d]

(* The worker restarts on the fork's day, so that is its focus now. *)
FocusKept(d) == client.focusDay  \* mutation: the focus stays where it was
FocusAfterFork(d) == d

UserFork(d, at, lasting) ==
  LET p == [rev |-> client.rev + 1, day |-> d, at |-> at, lasting |-> lasting] IN
  /\ Uses("forks", MaxForks) /\ p.rev <= MaxForks
  /\ client' = [client EXCEPT
       !.rev = p.rev, !.cuts = @ \cup {p},
       !.computed = [e \in Day |-> CutComputed(p, e)],
       !.received = {w \in @ : ~((w[1] = d /\ WindowEnd(w) > at) \/ (lasting /\ w[1] > d))},
       !.pending = {}, !.focusDay = FocusAfterFork(d), !.prefetchDay = None]
  /\ results' = CutResults(results, {p})
  /\ Post([type |-> "fork", run |-> client.run, patch |-> p])
  /\ UNCHANGED toMain

(* A seek, or the playhead playing into another day. *)
UserSeek(at) ==
  /\ Uses("seeks", MaxSeeks)
  /\ client' = [client EXCEPT !.focusDay = at[1], !.prefetchDay = None]
  /\ Post([type |-> "focus", run |-> client.run, at |-> at, prefetch |-> FALSE])
  /\ UNCHANGED <<results, toMain>>

(* Playback nears the uncomputed part of a later day. *)
Prefetch(d) ==
  /\ d > client.focusDay /\ d # client.prefetchDay
  /\ client.computed[d] < Buckets /\ \A e \in client.focusDay..(d - 1) : client.computed[e] = Buckets
  /\ client' = [client EXCEPT !.prefetchDay = d]
  /\ Post([type |-> "focus", run |-> client.run, at |-> <<d, client.computed[d]>>, prefetch |-> TRUE])
  /\ UNCHANGED <<results, used, toMain>>

UserTrack(a) ==
  /\ Uses("tracks", MaxTracks)
  /\ client' = [client EXCEPT !.userTracked = TRUE, !.tracked = a]
  /\ IF a = client.tracked THEN UNCHANGED toWorker
     ELSE Post([type |-> "track", run |-> client.run, analyst |-> a])
  /\ UNCHANGED <<results, toMain>>

(* maybeRequestDetail: a window of the playhead's day is asked for once,     *)
(* when it is computed.                                                      *)
AskDetail(w) ==
  LET tag == used["details"] IN
  /\ Uses("details", MaxDetails)
  /\ w[1] = client.focusDay
  /\ w \notin client.received /\ \A q \in client.pending : q[2] # w
  /\ client.computed[w[1]] >= WindowEnd(w)
  /\ client' = [client EXCEPT !.pending = @ \cup {<<tag, w>>}]
  /\ Post([type |-> "requestDetail", run |-> client.run, tag |-> tag, window |-> w])
  /\ UNCHANGED <<results, toMain>>

User ==
  \/ \E d \in Day, at \in Bucket, lasting \in BOOLEAN : UserFork(d, at, lasting)
  \/ \E at \in Day \X Bucket : UserSeek(at) \/ ResetRun(at)
  \/ \E d \in Day : Prefetch(d)
  \/ \E a \in Analyst : UserTrack(a)
  \/ \E w \in Window : AskDetail(w)

-----------------------------------------------------------------------------
(* Messages from the worker.                                                 *)

(* classifyOlderChunk: what was computed under an older revision is dropped  *)
(* if a newer cut invalidates all of it, and otherwise kept, with the cuts   *)
(* it straddles applied to it again: the worker never sends it again.        *)
Newer(rev) == {p \in client.cuts : p.rev > rev}
DropsNone(m, from) == FALSE  \* mutation: an older revision is never dropped
Drops(m, from) == \E p \in Newer(m.rev) : Affects(p, m.day, from)
RecutsNone(m, to) == {}  \* mutation: straddled cuts are not applied again
Recuts(m, to) == {p \in Newer(m.rev) : p.day = m.day /\ to > p.at}
Accept(m, from, to, added) ==
  results' = IF m.rev > client.rev \/ Drops(m, from) THEN results
             ELSE CutResults(added, Recuts(m, to))

OnReady(m) ==
  /\ m.type = "ready"
  /\ client' = IF client.userTracked THEN client ELSE [client EXCEPT !.tracked = m.analyst]
  /\ UNCHANGED results

(* Older progress is always dropped. *)
IsOlderProgressNever(m) == FALSE  \* mutation: progress of an older revision counts
IsOlderProgressOrSame(m) == m.rev <= client.rev  \* mutation: progress of the same revision is dropped too
IsOlderProgress(m) == m.rev # client.rev
OnProgress(m) ==
  /\ m.type = "progress"
  /\ client' = IF IsOlderProgress(m) THEN client ELSE [client EXCEPT !.computed = m.computed]
  /\ UNCHANGED results

OnChunk(m) ==
  /\ m.type = "chunk"
  /\ Accept(m, m.from, m.to, AddChunk(results, m))
  /\ UNCHANGED client

OnTrace(m) ==
  /\ m.type = "trace"
  /\ IF m.analyst # client.tracked THEN UNCHANGED results
     ELSE Accept(m, 0, m.to, AddTrace(results, m))
  /\ UNCHANGED client

(* The first answer of a tag counts, unless a fork has come between. *)
OnDetail(m) ==
  /\ m.type = "detail"
  /\ Accept(m, m.from, m.to, AddDetail(results, m))
  /\ client' = [client EXCEPT
       !.received = @ \cup {q[2] : q \in {x \in client.pending :
                              x[1] = m.tag /\ m.rev = client.rev /\ ~Drops(m, m.from)}},
       !.pending = {q \in @ : q[1] # m.tag}]

DayInvalidated(m) == \E p \in Newer(m.rev) : Affects(p, m.day, Buckets - 1)
OnDayComplete(m) ==
  /\ m.type = "dayComplete"
  /\ results' = IF m.rev > client.rev \/ DayInvalidated(m) THEN results
                ELSE [results EXCEPT !.rollup[m.day] = m.results]
  /\ UNCHANGED client

OnError(m) ==
  /\ m.type = "error"
  /\ UNCHANGED <<client, results>>

Receive ==
  /\ toMain # <<>>
  /\ LET m == Head(toMain) IN
     IF m.run # client.run THEN UNCHANGED <<client, results>>
     ELSE \/ OnReady(m) \/ OnProgress(m) \/ OnChunk(m)
          \/ OnTrace(m) \/ OnDetail(m) \/ OnDayComplete(m) \/ OnError(m)
  /\ toMain' = Tail(toMain)
  /\ UNCHANGED <<used, toWorker>>

-----------------------------------------------------------------------------
(* What the store shows, whichever engine answers it.                        *)

(* Everything the store shows was computed with exactly the forks that       *)
(* change it: no answer computed before a fork outlives it, and none is      *)
(* missing an earlier one (playback/forks.ts, worker/protocol.ts).           *)
ResultsCurrent ==
  /\ \A a \in DOMAIN results.main : results.main[a] # None =>
       results.main[a].deps = Deps(client.cuts, a[1], a[2])
  /\ \A d \in Day :
       /\ results.trace[d] # None =>
            \A b \in DOMAIN results.trace[d].results :
              results.trace[d].results[b] = Deps(client.cuts, d, b)
       /\ results.rollup[d] # None => results.rollup[d] = Deps(client.cuts, d, Buckets - 1)

(* The same of the detail windows. *)
DetailsCurrent ==
  \A e \in results.details : \A b \in DOMAIN e.results :
    e.results[b] = Deps(client.cuts, e.day, b)

(* Time is shown as computed only when its results are there: the playhead   *)
(* never plays over a hole (progress follows the chunks it covers).          *)
ComputedHeld ==
  \A d \in Day : \A b \in Bucket : b < client.computed[d] => results.main[<<d, b>>] # None

(* The whole week, every rollup, every record of the tracked analyst, and an *)
(* answer to every detail request.                                           *)
StoreComplete ==
  /\ client.computed = [d \in Day |-> Buckets]
  /\ \A d \in Day :
       /\ results.rollup[d] # None
       /\ \A b \in Bucket :
            /\ results.main[<<d, b>>] # None
            /\ \/ results.main[<<d, b>>].analyst = client.tracked
               \/ /\ results.trace[d] # None /\ results.trace[d].analyst = client.tracked
                  /\ b \in DOMAIN results.trace[d].results
  /\ client.pending = {}
  /\ \A w \in client.received :
       \E e \in results.details : e.day = w[1] /\ DOMAIN e.results = w[2]..(WindowEnd(w) - 1)
=============================================================================
