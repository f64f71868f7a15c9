------------------------------- MODULE EventSet -------------------------------
(***************************************************************************)
(* What the engine's event queue promises (engine/core/queue.ts): a set of *)
(* pending events taken in the order of time, then priority, then          *)
(* scheduling, from which an event can be cancelled by the handle its      *)
(* scheduling returned, harmlessly so when it is no longer pending.        *)
(* An event is named by the number of its scheduling.  The answer to a     *)
(* cancel names the event it was asked for, so that an implementation has  *)
(* to cancel that one or none.                                             *)
(***************************************************************************)
EXTENDS Integers

CONSTANTS
  Ranks,     \* the times and priorities of events
  MaxEvents  \* bound on the events scheduled

VARIABLES pending, \* events scheduled, not taken and not cancelled
          pushed,  \* events ever scheduled
          answer   \* what the last call returned, with what it was asked

Before(e, f) ==
  \/ e.at < f.at
  \/ e.at = f.at /\ (e.ord[1] < f.ord[1] \/ (e.ord[1] = f.ord[1] /\ e.ord[2] < f.ord[2]))

Init == pending = {} /\ pushed = 0 /\ answer = <<>>

Push(at, priority) ==
  /\ pushed < MaxEvents
  /\ pending' = pending \cup {[at |-> at, ord |-> <<priority, pushed>>]}
  /\ pushed' = pushed + 1
  /\ answer' = [scheduled |-> pushed]

Earliest(e) == e \in pending /\ \A f \in pending \ {e} : Before(e, f)

Take ==
  /\ pending' = {e \in pending : ~Earliest(e)}
  /\ answer' = [taken |-> {e \in pending : Earliest(e)}]
  /\ UNCHANGED pushed

Cancel(n) ==
  /\ answer' = [cancelled |-> n, was |-> \E e \in pending : e.ord[2] = n]
  /\ pending' = {e \in pending : e.ord[2] # n}
  /\ UNCHANGED pushed

Next ==
  \/ \E rank \in Ranks : Push(rank[1], rank[2])
  \/ Take
  \/ \E n \in 0..(pushed - 1) : Cancel(n)

Spec == Init /\ [][Next]_<<pending, pushed, answer>>
=============================================================================
