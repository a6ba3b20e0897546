---------------------------- MODULE EventLanes ----------------------------
(***************************************************************************)
(* What linkd's lifecycle stage promises whoever hands it events: a lane   *)
(* is a queue, an event joins its lane once, and the results of a lane are *)
(* decided one by one from its front and never taken back.  It knows no    *)
(* signals, leases, handlers, retries, redeliveries or trimming; that they *)
(* cannot be observed is what LifecycleScheduler is shown to achieve.      *)
(***************************************************************************)
EXTENDS Integers, Sequences

CONSTANTS Lanes, Events, LaneOf

VARIABLES
  queue,     \* queue[l]: the events of lane l in the order they arrived
  decided    \* the events that have a result

vars == <<queue, decided>>

Init ==
  /\ queue = [l \in Lanes |-> <<>>]
  /\ decided = {}

Waiting(e) == \E k \in 1..Len(queue[LaneOf[e]]) : queue[LaneOf[e]][k] = e

(* An event joins the end of its lane; handing it over again is no step. *)
Arrive(e) ==
  /\ ~Waiting(e)
  /\ queue' = [queue EXCEPT ![LaneOf[e]] = Append(@, e)]
  /\ UNCHANGED decided

(* The oldest event of a lane that has no result gets one. *)
Decide(e) ==
  /\ e \notin decided
  /\ \E k \in 1..Len(queue[LaneOf[e]]) :
       /\ queue[LaneOf[e]][k] = e
       /\ \A j \in 1..(k - 1) : queue[LaneOf[e]][j] \in decided
  /\ decided' = decided \cup {e}
  /\ UNCHANGED queue

Next == \E e \in Events : Arrive(e) \/ Decide(e)

Spec == Init /\ [][Next]_vars
=============================================================================
