------------------------- MODULE AlertSerialProofs -------------------------
(***************************************************************************)
(* Proofs that the processor decides a lane as its decision table says,    *)
(* one event after the other, although an invocation may end between any   *)
(* two of its writes and be resumed: for every lane, every number of       *)
(* workers and every number of faults, as long as no lease is lost and no  *)
(* operator closes an alert.                                               *)
(*                                                                         *)
(* The lease then makes the running worker the only one.  The invariant    *)
(* says how much of the first event without a result is already stored     *)
(* (LaneState): nothing, half a rotation, or every alert write; and that   *)
(* the running worker has drawn the right conclusion from it (Knows).      *)
(***************************************************************************)
EXTENDS AlertProcessorProofs, SequenceFacts

(* The first e - 1 events have results, the others have not. *)
Frontier(e) == \A d \in Ids : Done(d) <=> d < e

(* The lane after its first n events: the active alert is the table's, and *)
(* nothing of a later event is stored.                                     *)
Decided(n) ==
  /\ ActiveIds = {ActiveAfter[n]} \ {0}
  /\ \A a \in Ids : alert[a] # NoAlert => a <= n /\ alert[a].latest <= n

ActiveBefore(e) == ActiveAfter[e - 1]

(* Event e has closed the alert before it and not opened its own yet. *)
Upgraded(e) ==
  LET a == ActiveBefore(e) IN
  /\ a \in Ids /\ alert[a] # NoAlert
  /\ alert[a].status = "closed" /\ alert[a].endType = "severity_upgrade"
  /\ alert[a].latest = e

HalfRotated(e) ==
  /\ TableResult(e).outcome = "rotated"
  /\ Upgraded(e) /\ ActiveIds = {} /\ EndedByEvent(e) = {ActiveBefore(e)}
  /\ \A b \in Ids : alert[b] # NoAlert => b < e /\ alert[b].latest <= e

(* Every alert write of event e is stored. *)
Written(e) ==
  LET a == ActiveBefore(e)
      out == TableResult(e).outcome
  IN
  /\ Decided(e)
  /\ out \in {"created", "rotated", "updated", "recovered", "closed"}
  /\ out \in {"created", "rotated"} => alert[e] = newAlert(e)
  /\ out = "created" => EndedByEvent(e) = {}
  /\ out = "updated" => alert[a].latest = e /\ a # e
  /\ out \in {"recovered", "closed", "rotated"} => EndedByEvent(e) = {a}
  /\ out = "rotated" => Upgraded(e)

LaneState ==
  \A e \in 1..(N + 1) : Frontier(e) =>
    Decided(e - 1) \/ (e \in Ids /\ (HalfRotated(e) \/ Written(e)))

(* What an invocation with the locals r has concluded from what it read. *)
Concluded(r) ==
  LET e == r.ev
      a == ActiveBefore(e)
      out == TableResult(e).outcome
      read == r.id = a /\ a \in Ids /\ r.snap = alert[a]
  IN
  /\ r.pc \notin {"conflict", "rotate_conflict"}
  /\ r.pc = "ended" => ActiveIds = {}
  /\ r.pc = "create" => Decided(e - 1) /\ out = "created"
  /\ r.pc = "update" => Decided(e - 1) /\ read /\ out = "updated"
  /\ r.pc = "terminate" => Decided(e - 1) /\ read /\ out \in {"recovered", "closed"}
  /\ r.pc = "rotate" => Decided(e - 1) /\ read /\ out = "rotated"
  /\ r.pc = "rotate_create" => HalfRotated(e) /\ r.oldId = a
  /\ r.pc = "resume" => Written(e) /\ out \in {"created", "rotated"} /\ r.snap = alert[e]
  /\ r.pc \in {"hooks", "logs", "finish"} => Decided(e) /\ r.fin = TableResult(e)

(* A running worker has the lease, and its event has no result. *)
Knows(w) ==
  proc[w].pc # "idle" =>
    holder = w /\ ~Done(proc[w].ev) /\ Concluded(proc[w])

(* A log that another attempt would write again in the same way. *)
LogFixed(l) ==
  /\ l.op = "trigger" => l.at = 1
  /\ l.op = "suppress" => l.at = 0
  /\ l.op \in {"recover", "close"} =>
       alert[l.alert] # NoAlert /\ alert[l.alert].status # "active" /\ l.at = alert[l.alert].rev

(* Logs that are stored or about to be have the time their alert has for   *)
(* good, so that a repeated log is equal to the first one.                 *)
LogState ==
  /\ \A l \in logs : LogFixed(l)
  /\ \A w \in Workers : \A l \in proc[w].todo : LogFixed(l)

ResultsState ==
  /\ \A d, e \in Ids : Done(e) /\ d < e => Done(d)
  /\ \A e \in Ids : Done(e) => event[e] = TableResult(e)

SeverityState == \A a \in Ids : alert[a] # NoAlert => alert[a].sev = kind[a].sev

SerialInv ==
  /\ ProcInv
  /\ ResultsState /\ SeverityState /\ LaneState /\ LogState
  /\ \A w \in Workers : Knows(w)

-----------------------------------------------------------------------------
(* The table. *)

(* lane is the function that ActiveAfter unfolds, up to n, for the kinds k. *)
LaneUpTo(lane, k, n) ==
  lane = [i \in 0..n |->
            IF i = 0 THEN 0
            ELSE IF k[i].action # "triggered" THEN 0
            ELSE IF lane[i - 1] = 0 THEN i
            ELSE IF k[i].sev < k[lane[i - 1]].sev THEN i ELSE lane[i - 1]]

LEMMA LanesExist ==
  ASSUME NEW k
  PROVE  \A n \in Nat : \E f : LaneUpTo(f, k, n)
<1> DEFINE T == {n \in Nat : \E f : LaneUpTo(f, k, n)}
           next(i, b) == IF k[i].action # "triggered" THEN 0
                         ELSE IF b = 0 THEN i
                         ELSE IF k[i].sev < k[b].sev THEN i ELSE b
<1>1. 0 \in T
  <2> DEFINE f == [i \in 0..0 |-> 0]
  <2>1. LaneUpTo(f, k, 0)
    BY DEF LaneUpTo
  <2> QED BY <2>1
<1>2. ASSUME NEW n \in Nat, n \in T PROVE n + 1 \in T
  <2>1. PICK f : LaneUpTo(f, k, n)
    BY <1>2
  <2> DEFINE g == [i \in 0..(n + 1) |-> IF i <= n THEN f[i] ELSE next(n + 1, f[n])]
  <2>2. \A i \in 0..n : f[i] = IF i = 0 THEN 0 ELSE next(i, f[i - 1])
    BY <2>1 DEF LaneUpTo
  <2> HIDE DEF next
  <2>3. \A i \in 0..(n + 1) : g[i] = IF i = 0 THEN 0 ELSE next(i, g[i - 1])
    <3> SUFFICES ASSUME NEW i \in 0..(n + 1)
                 PROVE  g[i] = IF i = 0 THEN 0 ELSE next(i, g[i - 1])
      OBVIOUS
    <3>1. CASE i <= n
      BY <2>2, <3>1
    <3>2. CASE i = n + 1
      BY <3>2
    <3> QED BY <3>1, <3>2
  <2>4. g = [i \in 0..(n + 1) |-> g[i]]
    OBVIOUS
  <2> HIDE DEF g
  <2>5. LaneUpTo(g, k, n + 1)
    BY <2>3, <2>4 DEF LaneUpTo, next
  <2> QED BY <2>5
<1>3. Nat \subseteq T
  <2> HIDE DEF T
  <2> QED BY <1>1, <1>2, NatSetInduction
<1> QED BY <1>3

(* ActiveAfter, one event at a time. *)
LEMMA ActiveUnfold ==
  /\ ActiveAfter[0] = 0
  /\ \A e \in Ids :
       LET a == ActiveBefore(e) IN
       ActiveAfter[e] = IF kind[e].action # "triggered" THEN 0
                        ELSE IF a = 0 THEN e
                        ELSE IF kind[e].sev < kind[a].sev THEN e ELSE a
<1> DEFINE f == CHOOSE f : LaneUpTo(f, kind, N)
<1>1. LaneUpTo(f, kind, N)
  BY LanesExist, LaneType
<1>2. ActiveAfter = f
  BY Zenon DEF ActiveAfter, LaneUpTo
<1> HIDE DEF f
<1>3. \A i \in 0..N : f[i] = IF i = 0 THEN 0
                              ELSE IF kind[i].action # "triggered" THEN 0
                              ELSE IF f[i - 1] = 0 THEN i
                              ELSE IF kind[i].sev < kind[f[i - 1]].sev THEN i ELSE f[i - 1]
  BY <1>1 DEF LaneUpTo
<1> QED BY <1>2, <1>3, LaneType DEF ActiveBefore, Ids

(* The table is about the events, which nothing changes. *)
LEMMA TableStays ==
  ASSUME kind' = kind
  PROVE  /\ \A n : ActiveAfter'[n] = ActiveAfter[n]
         /\ \A e : ActiveBefore(e)' = ActiveBefore(e) /\ TableResult(e)' = TableResult(e)
<1>1. ActiveAfter' = ActiveAfter
  BY DEF ActiveAfter
<1> QED BY <1>1 DEF ActiveBefore, TableResult, Accepted

(* The active alert was opened by one of the events before. *)
LEMMA ActiveRange == \A n \in 0..N : ActiveAfter[n] \in 0..n
<1> DEFINE T == {n \in Nat : n <= N => ActiveAfter[n] \in 0..n}
<1>1. 0 \in T
  BY ActiveUnfold
<1>2. ASSUME NEW n \in Nat, n \in T PROVE n + 1 \in T
  <2> SUFFICES ASSUME n + 1 <= N PROVE ActiveAfter[n + 1] \in 0..(n + 1)
    OBVIOUS
  <2>1. n + 1 \in Ids /\ (n + 1) - 1 = n /\ ActiveAfter[n] \in 0..n
    BY <1>2, LaneType DEF Ids
  <2>2. ActiveAfter[n + 1] \in {0, n + 1, ActiveAfter[n]}
    BY <2>1, ActiveUnfold DEF ActiveBefore
  <2> QED BY <2>1, <2>2
<1>3. Nat \subseteq T
  <2> HIDE DEF T
  <2> QED BY <1>1, <1>2, NatSetInduction
<1> QED BY <1>3, LaneType

LEMMA BeforeRange ==
  ASSUME NEW e \in Ids
  PROVE  /\ e \in 0..N /\ e - 1 \in 0..N /\ e + 1 \in 1..(N + 1) /\ e \in 1..(N + 1)
         /\ ActiveBefore(e) \in 0..N
         /\ ActiveBefore(e) < e
         /\ ActiveBefore(e) # 0 => ActiveBefore(e) \in Ids
<1>1. /\ e \in 0..N /\ e - 1 \in 0..N /\ e + 1 \in 1..(N + 1) /\ e \in 1..(N + 1)
  BY LaneType DEF Ids
<1>2. ActiveBefore(e) \in 0..(e - 1)
  BY <1>1, ActiveRange DEF ActiveBefore
<1> QED BY <1>1, <1>2, LaneType DEF Ids

(* The outcomes, and what the table goes on with. *)
Outcomes(e, a, out) ==
  /\ out = "created" => kind[e].action = "triggered" /\ a = 0
  /\ out = "updated" => kind[e].action = "triggered" /\ a # 0 /\ kind[e].sev = kind[a].sev
  /\ out = "rotated" => kind[e].action = "triggered" /\ a # 0 /\ kind[e].sev < kind[a].sev
  /\ out = "suppressed" => kind[e].action = "triggered" /\ a # 0 /\ kind[e].sev > kind[a].sev
  /\ out = "recovered" => kind[e].action = "resolved" /\ a # 0
  /\ out = "closed" => kind[e].action = "closed" /\ a # 0
  /\ out = "orphaned" => kind[e].action # "triggered" /\ a = 0

LEMMA OutcomeMeans ==
  ASSUME kind \in [Ids -> Kinds], NEW e \in Ids, NEW a, a = ActiveBefore(e),
         NEW t, t = TableResult(e)
  PROVE  /\ Outcomes(e, a, t.outcome)
         /\ \/ t = Accepted(e, "created") /\ t.outcome = "created" /\ ActiveAfter[e] = e
            \/ t = Accepted(a, "updated") /\ t.outcome = "updated" /\ ActiveAfter[e] = a
            \/ t = Accepted(e, "rotated") /\ t.outcome = "rotated" /\ ActiveAfter[e] = e
            \/ /\ t = [state |-> "suppressed", alert |-> a, outcome |-> "suppressed"]
               /\ t.outcome = "suppressed" /\ ActiveAfter[e] = a
            \/ t = Accepted(a, "recovered") /\ t.outcome = "recovered" /\ ActiveAfter[e] = 0
            \/ t = Accepted(a, "closed") /\ t.outcome = "closed" /\ ActiveAfter[e] = 0
            \/ /\ t = [state |-> "orphaned", alert |-> 0, outcome |-> "orphaned"]
               /\ t.outcome = "orphaned" /\ ActiveAfter[e] = 0
<1>1. /\ kind[e] \in [action : {"triggered", "resolved", "closed"}, sev : Nat]
      /\ a # 0 => kind[a] \in [action : {"triggered", "resolved", "closed"}, sev : Nat]
      /\ a < e
  BY BeforeRange, KindsType
<1>2. /\ kind[e].action \in {"triggered", "resolved", "closed"} /\ kind[e].sev \in Nat
      /\ a # 0 => kind[a].sev \in Nat
  BY <1>1
<1>3. ActiveAfter[e] = IF kind[e].action # "triggered" THEN 0
                       ELSE IF a = 0 THEN e
                       ELSE IF kind[e].sev < kind[a].sev THEN e ELSE a
  BY ActiveUnfold
<1>4. t = IF kind[e].action # "triggered"
          THEN IF a = 0 THEN [state |-> "orphaned", alert |-> 0, outcome |-> "orphaned"]
               ELSE Accepted(a, IF kind[e].action = "resolved" THEN "recovered" ELSE "closed")
          ELSE IF a = 0 THEN Accepted(e, "created")
          ELSE IF kind[e].sev = kind[a].sev THEN Accepted(a, "updated")
          ELSE IF kind[e].sev < kind[a].sev THEN Accepted(e, "rotated")
          ELSE [state |-> "suppressed", alert |-> a, outcome |-> "suppressed"]
  BY DEF TableResult, ActiveBefore
<1>5. \A b, out : Accepted(b, out).outcome = out
  BY DEF Accepted
<1>6. CASE kind[e].action # "triggered" /\ a = 0
  BY <1>3, <1>4, <1>6 DEF Outcomes
<1>7. CASE kind[e].action # "triggered" /\ a # 0
  BY <1>2, <1>3, <1>4, <1>5, <1>7 DEF Outcomes
<1>8. CASE kind[e].action = "triggered" /\ a = 0
  BY <1>3, <1>4, <1>5, <1>8 DEF Outcomes
<1>9. CASE kind[e].action = "triggered" /\ a # 0
  BY <1>2, <1>3, <1>4, <1>5, <1>9 DEF Outcomes
<1> QED BY <1>6, <1>7, <1>8, <1>9

-----------------------------------------------------------------------------
(* The running worker is alone. *)

LanePoint(e) == Decided(e - 1) \/ HalfRotated(e) \/ Written(e)

LEMMA Alone ==
  ASSUME SerialInv, NEW w \in Workers, proc[w].pc # "idle", NEW e, e = proc[w].ev
  PROVE  /\ w \in Procs /\ proc[w] \in ProcRecords /\ e \in Ids
         /\ kind \in [Ids -> Kinds]
         /\ alert \in [Ids -> AlertRecords \cup {NoAlert}]
         /\ holder = w /\ ~Done(e) /\ Frontier(e) /\ LanePoint(e)
         /\ \A v \in Workers \ {w} : proc[v].pc = "idle"
<1>1. /\ w \in Procs /\ proc[w] \in ProcRecords /\ e \in Ids
      /\ \A d \in 1..(e - 1) : Done(d)
      /\ kind \in [Ids -> Kinds] /\ alert \in [Ids -> AlertRecords \cup {NoAlert}]
  BY Running DEF SerialInv, ProcInv, Types, TypeOK
<1>2. holder = w /\ ~Done(e) /\ \A v \in Workers \ {w} : proc[v].pc = "idle"
  BY DEF SerialInv, Knows
<1>3. Frontier(e)
  <2> SUFFICES ASSUME NEW d \in Ids PROVE Done(d) <=> d < e
    BY DEF Frontier
  <2>1. d < e => Done(d)
    BY <1>1, LaneType DEF Ids
  <2>2. d > e => ~Done(d)
    BY <1>1, <1>2 DEF SerialInv, ResultsState
  <2>3. d < e \/ d = e \/ d > e
    BY <1>1, LaneType DEF Ids
  <2> QED BY <1>2, <2>1, <2>2, <2>3
<1>4. LanePoint(e)
  BY <1>1, <1>3, BeforeRange DEF SerialInv, LaneState, LanePoint
<1> QED BY <1>1, <1>2, <1>3, <1>4

(* Only one event can be the next. *)
LEMMA OneFrontier ==
  ASSUME NEW e \in Ids, Frontier(e), NEW d \in 1..(N + 1), Frontier(d)
  PROVE  d = e
<1>1. ~(e < d)
  BY LaneType DEF Frontier, Ids
<1>2. ~(d < e)
  <2> SUFFICES ASSUME d < e PROVE FALSE
    OBVIOUS
  <2>1. d \in Ids
    BY LaneType DEF Ids
  <2> QED BY <2>1, LaneType DEF Frontier, Ids
<1> QED BY <1>1, <1>2, LaneType DEF Ids

LEMMA LogStays ==
  ASSUME Types, Grows, NEW l \in LogRecords, LogFixed(l)
  PROVE  LogFixed(l)'
<1>1. l.alert \in Ids
  BY DEF LogRecords
<1> QED BY <1>1, AlertsStay DEF LogFixed

(* Logs after a step of w that writes what it owes. *)
LEMMA LogsKept ==
  ASSUME SerialInv, Grows, NEW w \in Workers,
         \A v \in Workers \ {w} : proc'[v] = proc[v],
         logs' \subseteq logs \cup proc[w].todo,
         \A l \in proc'[w].todo : LogFixed(l)'
  PROVE  LogState'
<1>1. /\ Types /\ logs \subseteq LogRecords
      /\ \A v \in Workers : proc[v].todo \subseteq LogRecords
  BY DEF SerialInv, ProcInv, Types, TypeOK, Procs
<1>2. \A l \in LogRecords : LogFixed(l) => LogFixed(l)'
  BY <1>1, LogStays
<1>3. \A l \in logs' : LogFixed(l)'
  BY <1>1, <1>2 DEF SerialInv, LogState
<1>4. \A v \in Workers \ {w} : \A l \in proc'[v].todo : LogFixed(l)'
  BY <1>1, <1>2 DEF SerialInv, LogState
<1> QED BY <1>3, <1>4 DEF LogState

(* The invariant after a step of w that stores no result. *)
LEMMA SerialStep ==
  ASSUME SerialInv, ProcInv', Grows, NEW w \in Workers, proc[w].pc # "idle",
         \A v \in Workers \ {w} : proc'[v] = proc[v],
         NEW e, e = proc[w].ev, UNCHANGED event,
         SeverityState', LanePoint(e)', Knows(w)', LogState'
  PROVE  SerialInv'
<1>1. /\ e \in Ids /\ Frontier(e)
      /\ \A v \in Workers \ {w} : proc[v].pc = "idle"
  BY Alone
<1>2. \A d : Done(d)' <=> Done(d)
  BY DEF Done
<1>3. \A d : Frontier(d)' <=> Frontier(d)
  BY <1>2 DEF Frontier
<1>4. kind' = kind
  BY DEF Grows
<1>5. ResultsState'
  BY <1>2, <1>4, TableStays DEF SerialInv, ResultsState
<1>6. LaneState'
  BY <1>1, <1>3, OneFrontier DEF LaneState, LanePoint
<1>7. \A v \in Workers : Knows(v)'
  BY <1>1 DEF Knows
<1> QED BY <1>5, <1>6, <1>7 DEF SerialInv

(* What is said of the lane stays while no alert is written. *)
LEMMA LaneStays ==
  ASSUME UNCHANGED <<kind, alert>>
  PROVE  /\ ActiveIds' = ActiveIds
         /\ \A e : EndedByEvent(e)' = EndedByEvent(e)
         /\ \A n : Decided(n)' <=> Decided(n)
         /\ \A e : HalfRotated(e)' <=> HalfRotated(e)
         /\ \A e : Written(e)' <=> Written(e)
         /\ \A e : LanePoint(e)' <=> LanePoint(e)
<1>1. ActiveIds' = ActiveIds /\ \A e : EndedByEvent(e)' = EndedByEvent(e)
  BY DEF ActiveIds, EndedByEvent
<1>2. \A n : ActiveAfter'[n] = ActiveAfter[n]
  BY TableStays
<1>3. \A e : ActiveBefore(e)' = ActiveBefore(e) /\ TableResult(e)' = TableResult(e)
  BY TableStays
<1>4. \A n : Decided(n)' <=> Decided(n)
  BY <1>1, <1>2 DEF Decided
<1>5. \A e : Upgraded(e)' <=> Upgraded(e)
  BY <1>3 DEF Upgraded
<1>6. \A e : HalfRotated(e)' <=> HalfRotated(e)
  BY <1>1, <1>3, <1>5 DEF HalfRotated
<1>7. \A e : newAlert(e)' = newAlert(e)
  BY DEF newAlert
<1>8. \A e : Written(e)' <=> Written(e)
  BY <1>1, <1>3, <1>4, <1>5, <1>7 DEF Written
<1> QED BY <1>1, <1>4, <1>6, <1>8 DEF LanePoint

(* A step to m that writes no alert and no result. *)
LEMMA SerialQuiet ==
  ASSUME SerialInv, ProcInv', Grows, NEW w \in Workers, proc[w].pc # "idle",
         NEW m, Step(w, m), UNCHANGED <<kind, event, alert>>,
         logs' \subseteq logs \cup proc[w].todo,
         \A l \in m.todo : LogFixed(l)', proc'[w] = m => Knows(w)'
  PROVE  SerialInv'
<1> SUFFICES ASSUME NEW e, e = proc[w].ev PROVE SerialInv'
  OBVIOUS
<1>1. w \in Procs /\ LanePoint(e)
  BY Alone
<1>2. proc'[w] = m /\ \A v \in Workers \ {w} : proc'[v] = proc[v]
  BY <1>1 DEF Step, SerialInv, ProcInv, Types, Procs
<1>3. LanePoint(e)'
  BY <1>1, LaneStays
<1>4. SeverityState'
  BY DEF SerialInv, SeverityState
<1>5. LogState'
  BY <1>2, LogsKept
<1> QED BY <1>2, <1>3, <1>4, <1>5, SerialStep

(* Whatever the worker has done, it may return. *)
LEMMA SerialReturn ==
  ASSUME SerialInv, ProcInv', Grows, NEW w \in Workers, proc[w].pc # "idle",
         Step(w, NotRunning), UNCHANGED <<kind, event, alert>>,
         logs' \subseteq logs \cup proc[w].todo
  PROVE  SerialInv'
<1>1. NotRunning.pc = "idle" /\ NotRunning.todo = {}
  BY DEF NotRunning
<1>2. proc'[w] = NotRunning => Knows(w)'
  BY <1>1 DEF Knows
<1> HIDE DEF NotRunning
<1> QED BY <1>1, <1>2, SerialQuiet

(* A worker that goes on keeps the lease. *)
LEMMA LeaseKept ==
  ASSUME SerialInv, NEW w \in Workers, proc[w].pc # "idle", NEW m, Step(w, m),
         m.pc # "idle"
  PROVE  holder' = w
<1>1. holder = w
  BY Alone
<1>2. m # Return
  BY DEF Return, NotRunning
<1> QED BY <1>1, <1>2 DEF Step

(* A step to m that only concludes, or appends logs. *)
LEMMA SerialAppends ==
  ASSUME SerialInv, ProcInv', Grows, NEW w \in Workers, proc[w].pc # "idle",
         NEW m, Step(w, m), UNCHANGED <<kind, event, alert>>,
         logs' \subseteq logs \cup proc[w].todo,
         m.pc # "idle", m.ev = proc[w].ev, Concluded(m), \A l \in m.todo : LogFixed(l)
  PROVE  SerialInv'
<1>1. holder' = w /\ ~Done(proc[w].ev)
  BY LeaseKept, Alone
<1>2. ASSUME NEW r, r = m PROVE Concluded(r)'
  <2>1. Concluded(r)
    BY <1>2
  <2>2. /\ ActiveIds' = ActiveIds
        /\ \A n : Decided(n)' <=> Decided(n)
        /\ \A e : HalfRotated(e)' <=> HalfRotated(e)
        /\ \A e : Written(e)' <=> Written(e)
    BY LaneStays
  <2>3. \A e : ActiveBefore(e)' = ActiveBefore(e) /\ TableResult(e)' = TableResult(e)
    BY TableStays
  <2> QED BY <2>1, <2>2, <2>3 DEF Concluded
<1>3. proc'[w] = m => Concluded(proc[w])'
  <2> SUFFICES ASSUME proc'[w] = m, NEW r, r = m, Concluded(r)' PROVE Concluded(proc[w])'
    BY <1>2
  <2>1. proc'[w] = r
    OBVIOUS
  <2> QED BY <2>1 DEF Concluded
<1>4. proc'[w] = m => ~Done(proc[w].ev)'
  BY <1>1 DEF Done
<1>5. proc'[w] = m => Knows(w)'
  BY <1>1, <1>3, <1>4 DEF Knows
<1>6. \A l \in m.todo : LogFixed(l)'
  BY DEF LogFixed
<1> QED BY <1>5, <1>6, SerialQuiet

LEMMA SerialGoes ==
  ASSUME SerialInv, ProcInv', Grows, NEW w \in Workers, proc[w].pc # "idle",
         NEW m, Step(w, m), UNCHANGED <<kind, event, alert, logs>>,
         m.pc # "idle", m.ev = proc[w].ev, Concluded(m), \A l \in m.todo : LogFixed(l)
  PROVE  SerialInv'
<1>1. logs' \subseteq logs \cup proc[w].todo
  OBVIOUS
<1> QED BY <1>1, SerialAppends

(* A step to m that may write an alert. *)
LEMMA SerialWrite ==
  ASSUME SerialInv, ProcInv', Grows, NEW w \in Workers, proc[w].pc # "idle",
         NEW e, e = proc[w].ev, NEW m, Step(w, m), UNCHANGED <<event, logs>>,
         m.pc # "idle", m.ev = e, proc'[w] = m => Concluded(proc[w])',
         \A l \in m.todo : LogFixed(l)', LanePoint(e)', SeverityState'
  PROVE  SerialInv'
<1>1. holder' = w /\ ~Done(e) /\ w \in Procs
  BY LeaseKept, Alone
<1>2. proc'[w] = m /\ \A v \in Workers \ {w} : proc'[v] = proc[v]
  BY <1>1 DEF Step, SerialInv, ProcInv, Types, Procs
<1>3. Knows(w)'
  BY <1>1, <1>2 DEF Knows, Done
<1>4. LogState'
  BY <1>2, LogsKept
<1> QED BY <1>2, <1>3, <1>4, SerialStep

LEMMA JobShape ==
  ASSUME NEW r \in ProcRecords, NEW hooks, NEW todo, NEW fin
  PROVE  /\ Job(r, hooks, todo, fin).pc \in {"hooks", "logs"}
         /\ Job(r, hooks, todo, fin).todo = todo
         /\ Job(r, hooks, todo, fin).fin = fin
         /\ Job(r, hooks, todo, fin).ev = r.ev
BY DEF Job, ProcRecords

(* A step to a job: the result is the table's, and all writes are stored. *)
LEMMA SerialJob ==
  ASSUME SerialInv, ProcInv', Grows, NEW w \in Workers, proc[w].pc # "idle",
         NEW e, e = proc[w].ev, NEW hooks, NEW todo, NEW fin,
         Step(w, Job(proc[w], hooks, todo, fin)), UNCHANGED <<event, logs>>,
         fin = TableResult(e), \A l \in todo : LogFixed(l)',
         Decided(e)', LanePoint(e)', SeverityState'
  PROVE  SerialInv'
<1> DEFINE m == Job(proc[w], hooks, todo, fin)
<1>1. m.pc \in {"hooks", "logs"} /\ m.todo = todo /\ m.fin = fin /\ m.ev = e
  BY Alone, JobShape
<1> HIDE DEF m
<1>2. ASSUME proc'[w] = m PROVE Concluded(proc[w])'
  <2>1. TableResult(e)' = TableResult(e)
    BY TableStays DEF Grows
  <2>2. /\ proc'[w].pc \in {"hooks", "logs"} /\ proc'[w].fin = TableResult(e)'
        /\ proc'[w].ev = e
    BY <1>1, <1>2, <2>1
  <2> QED BY <2>2 DEF Concluded
<1> QED BY <1>1, <1>2, SerialWrite DEF m

(* The same for a job that finds everything stored. *)
LEMMA SerialResume ==
  ASSUME SerialInv, ProcInv', Grows, NEW w \in Workers, proc[w].pc # "idle",
         NEW e, e = proc[w].ev, NEW hooks, NEW todo, NEW fin,
         Step(w, Job(proc[w], hooks, todo, fin)), UNCHANGED <<kind, event, alert, logs>>,
         fin = TableResult(e), Decided(e), \A l \in todo : LogFixed(l)
  PROVE  SerialInv'
<1>1. LanePoint(e)
  BY Alone
<1>2. Decided(e)' /\ LanePoint(e)'
  BY <1>1, LaneStays
<1>3. SeverityState' /\ \A l \in todo : LogFixed(l)'
  BY DEF SerialInv, SeverityState, LogFixed
<1> QED BY <1>2, <1>3, SerialJob

-----------------------------------------------------------------------------
(* Steps that only read. *)

LEMMA BeginSerial ==
  ASSUME SerialInv, ProcInv', Grows, NEW w \in Workers, NEW e \in Ids, Begin(w, e)
  PROVE  SerialInv'
<1> DEFINE m == [NotRunning EXCEPT !.pc = "read", !.ev = e, !.try = 1]
<1>1. m.pc = "read" /\ m.ev = e /\ m.todo = {}
  BY DEF NotRunning
<1> HIDE DEF m
<1>2. /\ proc' = [proc EXCEPT ![w] = m] /\ holder = Nobody /\ holder' = w /\ ~Done(e)
      /\ UNCHANGED <<kind, event, alert, logs>>
  BY DEF Begin, m, repository, Done
<1>3. \A v \in Workers : proc[v].pc = "idle"
  BY <1>2, NobodyType DEF SerialInv, Knows
<1>4. proc'[w] = m /\ \A v \in Workers \ {w} : proc'[v] = proc[v]
  BY <1>2 DEF SerialInv, ProcInv, Types, Procs
<1>5. ResultsState'
  BY <1>2, TableStays DEF SerialInv, ResultsState, Done
<1>6. SeverityState'
  BY <1>2 DEF SerialInv, SeverityState
<1>7. LaneState'
  <2>1. \A d : Frontier(d)' <=> Frontier(d)
    BY <1>2 DEF Frontier, Done
  <2>2. /\ \A n : Decided(n)' <=> Decided(n)
        /\ \A d : HalfRotated(d)' <=> HalfRotated(d)
        /\ \A d : Written(d)' <=> Written(d)
    BY <1>2, LaneStays
  <2> QED BY <2>1, <2>2 DEF SerialInv, LaneState
<1>8. LogState'
  BY <1>1, <1>2, <1>4, LogsKept
<1>9. Concluded(proc[w])'
  BY <1>1, <1>4 DEF Concluded
<1>10. \A v \in Workers : Knows(v)'
  BY <1>1, <1>2, <1>3, <1>4, <1>9 DEF Knows, Done
<1> QED BY <1>5, <1>6, <1>7, <1>8, <1>10 DEF SerialInv

(* A running worker that has nothing to write yet moves on. *)
LEMMA MoveSerial ==
  ASSUME SerialInv, ProcInv', Grows, NEW w \in Workers,
         proc[w].pc \notin {"idle", "hooks", "logs"},
         UNCHANGED <<kind, event, alert, logs>>,
         NEW x, x # "idle", Step(w, [proc[w] EXCEPT !.pc = x]),
         Concluded([proc[w] EXCEPT !.pc = x])
  PROVE  SerialInv'
<1> DEFINE m == [proc[w] EXCEPT !.pc = x]
<1>1. proc[w] \in ProcRecords /\ proc[w].todo = {}
  BY Running DEF SerialInv
<1>2. m.pc # "idle" /\ m.ev = proc[w].ev /\ m.todo = {}
  BY <1>1 DEF ProcRecords
<1> HIDE DEF m
<1> QED BY <1>2, SerialGoes DEF m

LEMMA ReadEventSerial ==
  ASSUME SerialInv, ProcInv', Grows, NEW w \in Workers, ReadEvent(w)
  PROVE  SerialInv'
<1>1. proc[w].pc = "read" /\ UNCHANGED <<kind, event, alert, logs>>
  BY DEF ReadEvent, repository
<1>2. ~Done(proc[w].ev) /\ proc[w] \in ProcRecords
  BY <1>1, Alone
<1>3. Step(w, [proc[w] EXCEPT !.pc = "find"])
  BY <1>2 DEF ReadEvent, Done
<1>4. Concluded([proc[w] EXCEPT !.pc = "find"])
  BY <1>2 DEF Concluded, ProcRecords
<1> QED BY <1>1, <1>3, <1>4, MoveSerial

(* When nothing of an event is stored, the active alert is the one before. *)
LEMMA FreshFacts ==
  ASSUME SerialInv, NEW e \in Ids, Decided(e - 1), NEW a \in ActiveIds
  PROVE  /\ a = ActiveBefore(e) /\ a # 0 /\ a \in Ids
         /\ alert[a] # NoAlert /\ alert[a] \in AlertRecords
         /\ alert[a].latest # e /\ alert[a].sev = kind[a].sev
<1>1. a \in Ids /\ alert[a] # NoAlert /\ alert[a] \in AlertRecords
  BY DEF ActiveIds, SerialInv, ProcInv, Types
<1>2. a = ActiveBefore(e) /\ a # 0
  BY DEF Decided, ActiveBefore
<1>3. alert[a].latest \in Ids /\ alert[a].latest <= e - 1
  BY <1>1 DEF Decided, AlertRecords
<1>4. alert[a].latest # e
  BY <1>3, LaneType DEF Ids
<1> QED BY <1>1, <1>2, <1>4 DEF SerialInv, SeverityState

(* Outcomes that need no alert write. *)
LEMMA NothingToWrite ==
  ASSUME SerialInv, NEW e \in Ids, Decided(e - 1), ActiveAfter[e] = ActiveBefore(e)
  PROVE  Decided(e)
<1>1. \A a \in Ids : alert[a] # NoAlert => alert[a].latest \in Ids
  BY DEF SerialInv, ProcInv, Types, AlertRecords
<1> QED BY <1>1, LaneType DEF Decided, ActiveBefore, Ids

(* processUnprocessed decides as the table does. *)
LEMMA FreshDecision ==
  ASSUME SerialInv, ProcInv', Grows, NEW w \in Workers, proc[w].pc = "find",
         NEW e, e = proc[w].ev, Decided(e - 1), NEW a \in ActiveIds,
         Step(w, decide(proc[w], a, alert[a])), UNCHANGED <<kind, event, alert, logs>>
  PROVE  SerialInv'
<1> SUFFICES ASSUME NEW r, r = proc[w], NEW s, s = alert[a] PROVE SerialInv'
  OBVIOUS
<1>1. /\ r \in ProcRecords /\ e \in Ids /\ r.ev = e /\ r.todo = {}
      /\ kind \in [Ids -> Kinds]
  BY Alone, Running DEF SerialInv
<1>2. /\ a = ActiveBefore(e) /\ a # 0 /\ a \in Ids
      /\ s.latest # e /\ s.sev = kind[a].sev
  BY <1>1, FreshFacts
<1> DEFINE go(step) == [r EXCEPT !.pc = step, !.id = a, !.snap = s]
           out == TableResult(e).outcome
<1>3. \A x \in {"terminate", "update", "rotate"} :
        /\ go(x).pc = x /\ go(x).ev = e /\ go(x).todo = {}
        /\ go(x).id = a /\ go(x).snap = alert[a]
  BY <1>1 DEF ProcRecords
<1>4. decide(r, a, s) =
        IF kind[e].action # "triggered" THEN go("terminate")
        ELSE IF kind[e].sev = s.sev THEN go("update")
        ELSE IF kind[e].sev < s.sev THEN go("rotate")
        ELSE SuppressedJob(r, a)
  BY <1>1, <1>2 DEF decide
<1>5. /\ kind[e].sev \in Nat /\ kind[a].sev \in Nat
      /\ kind[e].action \in {"triggered", "resolved", "closed"}
  BY <1>1, <1>2, KindsType
<1> HIDE DEF go
<1>6. ASSUME NEW x \in {"terminate", "update", "rotate"}, decide(r, a, s) = go(x),
             Concluded(go(x))
      PROVE  SerialInv'
  BY <1>1, <1>3, <1>6, SerialGoes
<1>7. CASE kind[e].action # "triggered"
  <2>1. out \in {"recovered", "closed"}
    BY <1>1, <1>2, <1>7, OutcomeMeans DEF Outcomes
  <2>2. Concluded(go("terminate"))
    BY <1>2, <1>3, <2>1 DEF Concluded
  <2> QED BY <1>4, <1>6, <1>7, <2>2
<1>8. CASE kind[e].action = "triggered" /\ kind[e].sev = s.sev
  <2>1. out = "updated"
    BY <1>1, <1>2, <1>5, <1>8, OutcomeMeans DEF Outcomes
  <2>2. Concluded(go("update"))
    BY <1>2, <1>3, <2>1 DEF Concluded
  <2> QED BY <1>4, <1>6, <1>8, <2>2
<1>9. CASE kind[e].action = "triggered" /\ kind[e].sev < s.sev
  <2>1. out = "rotated"
    BY <1>1, <1>2, <1>5, <1>9, OutcomeMeans DEF Outcomes
  <2>2. Concluded(go("rotate"))
    BY <1>2, <1>3, <2>1 DEF Concluded
  <2> QED BY <1>2, <1>4, <1>5, <1>6, <1>9, <2>2
<1>10. CASE kind[e].action = "triggered" /\ kind[e].sev > s.sev
  <2>1. /\ TableResult(e) = [state |-> "suppressed", alert |-> a, outcome |-> "suppressed"]
        /\ ActiveAfter[e] = a
    BY <1>1, <1>2, <1>5, <1>10, OutcomeMeans DEF Outcomes
  <2>2. Decided(e)
    BY <1>1, <1>2, <2>1, NothingToWrite
  <2>3. decide(r, a, s) = SuppressedJob(r, a)
    BY <1>2, <1>4, <1>5, <1>10
  <2> DEFINE todo == {eventAlertLog(e, a, "suppress", 0)}
  <2>4. \A l \in todo : LogFixed(l)
    BY DEF LogFixed, eventAlertLog
  <2>5. Step(w, Job(proc[w], <<>>, todo, TableResult(e)))
    BY <1>1, <2>1, <2>3 DEF SuppressedJob
  <2> HIDE DEF todo
  <2> QED BY <2>2, <2>4, <2>5, SerialResume
<1> QED BY <1>2, <1>5, <1>7, <1>8, <1>9, <1>10

(* resumeActiveEvent finds what an earlier attempt wrote. *)
LEMMA ResumedDecision ==
  ASSUME SerialInv, ProcInv', Grows, NEW w \in Workers, proc[w].pc = "find",
         NEW e, e = proc[w].ev, Written(e), NEW a \in ActiveIds,
         Step(w, decide(proc[w], a, alert[a])), UNCHANGED <<kind, event, alert, logs>>
  PROVE  SerialInv'
<1> SUFFICES ASSUME NEW r, r = proc[w], NEW s, s = alert[a], NEW out,
                    out = TableResult(e).outcome
             PROVE SerialInv'
  OBVIOUS
<1>1. /\ r \in ProcRecords /\ e \in Ids /\ r.ev = e /\ r.todo = {}
      /\ kind \in [Ids -> Kinds] /\ ActiveBefore(e) # e
  BY Alone, Running, BeforeRange DEF SerialInv
<1>2. a = ActiveAfter[e] /\ a # 0 /\ a \in Ids /\ Decided(e)
  BY DEF Written, Decided, ActiveIds
<1>3. CASE out \in {"created", "rotated"}
  <2> DEFINE m == [r EXCEPT !.pc = "resume", !.id = a, !.snap = s]
  <2>1. a = e /\ s = newAlert(e) /\ s.latest = e
    BY <1>1, <1>2, <1>3, OutcomeMeans DEF Written, newAlert
  <2>2. decide(r, a, s) = m
    BY <1>1, <2>1 DEF decide, resumeActiveEvent
  <2>3. m.pc = "resume" /\ m.ev = e /\ m.todo = {} /\ m.snap = alert[e]
    BY <1>1, <2>1 DEF ProcRecords
  <2> HIDE DEF m
  <2>4. Concluded(m)
    BY <1>3, <2>3 DEF Concluded
  <2> QED BY <2>2, <2>3, <2>4, SerialGoes
<1>4. CASE out = "updated"
  <2>0. /\ ActiveAfter[e] = ActiveBefore(e)
        /\ TableResult(e) = Accepted(ActiveBefore(e), "updated")
    BY <1>1, <1>4, OutcomeMeans
  <2>1. a = ActiveBefore(e) /\ s.latest = e /\ TableResult(e) = Accepted(a, "updated")
    BY <1>2, <1>4, <2>0 DEF Written
  <2>2. decide(r, a, s) = UpdatedJob(r, a, s)
    BY <1>1, <2>1 DEF decide, resumeActiveEvent
  <2>3. Step(w, Job(proc[w], <<Hook(a, s)>>, {}, TableResult(e)))
    BY <2>1, <2>2 DEF UpdatedJob
  <2> QED BY <1>2, <2>3, SerialResume
<1>5. CASE out \in {"recovered", "closed"}
  BY <1>1, <1>2, <1>5, OutcomeMeans
<1> QED BY <1>3, <1>4, <1>5 DEF Written

LEMMA FindActiveSerial ==
  ASSUME SerialInv, ProcInv', Grows, NEW w \in Workers, FindActiveAlert(w)
  PROVE  SerialInv'
<1>1. proc[w].pc = "find" /\ UNCHANGED <<kind, event, alert, logs>>
  BY DEF FindActiveAlert, repository
<1>2. proc[w] \in ProcRecords
  BY <1>1, Alone
<1>3. CASE ActiveIds = {} /\ Step(w, [proc[w] EXCEPT !.pc = "ended"])
  <2>1. Concluded([proc[w] EXCEPT !.pc = "ended"])
    BY <1>2, <1>3 DEF Concluded, ProcRecords
  <2> QED BY <1>1, <1>3, <2>1, MoveSerial
<1>4. ASSUME NEW a \in ActiveIds, Step(w, decide(proc[w], a, alert[a]))
      PROVE  SerialInv'
  <2> SUFFICES ASSUME NEW e, e = proc[w].ev PROVE SerialInv'
    OBVIOUS
  <2>1. LanePoint(e)
    BY <1>1, Alone
  <2>2. ~HalfRotated(e)
    BY DEF HalfRotated
  <2> QED BY <1>1, <1>4, <2>1, <2>2, FreshDecision, ResumedDecision DEF LanePoint
<1> QED BY <1>3, <1>4 DEF FindActiveAlert

(* What a terminated event still has to write does not depend on which     *)
(* attempt ended the alert.                                                *)
LEMMA TerminatedLogs ==
  ASSUME NEW e, NEW a, NEW s, s = alert[a], s # NoAlert, s.status # "active",
         NEW op \in {"recover", "close"}
  PROVE  LogFixed(eventAlertLog(e, a, op, s.rev))
BY DEF LogFixed, eventAlertLog

LEMMA FreshEnded ==
  ASSUME SerialInv, NEW e \in Ids, Decided(e - 1)
  PROVE  EndedByEvent(e) = {}
<1>1. \A a \in Ids : alert[a] # NoAlert => alert[a].latest \in Ids
  BY DEF SerialInv, ProcInv, Types, AlertRecords
<1> QED BY <1>1, LaneType DEF Decided, EndedByEvent, Ids

LEMMA EndedOnce ==
  ASSUME NEW e, NEW a, EndedByEvent(e) = {a}
  PROVE  ~EndedTwice(e)
<1>1. Cardinality({a}) = 1
  BY FS_Singleton
<1> QED BY <1>1 DEF EndedTwice

(* Nothing is stored and nothing is active: open an alert, or an orphan. *)
LEMMA FreshOpening ==
  ASSUME SerialInv, ProcInv', Grows, NEW w \in Workers, proc[w].pc = "ended",
         NEW e, e = proc[w].ev, Decided(e - 1), FindAlertEndedByEvent(w),
         UNCHANGED <<kind, event, alert, logs>>
  PROVE  SerialInv'
<1> SUFFICES ASSUME NEW r, r = proc[w] PROVE SerialInv'
  OBVIOUS
<1>1. /\ r \in ProcRecords /\ e \in Ids /\ r.ev = e /\ r.todo = {}
      /\ kind \in [Ids -> Kinds] /\ EndedByEvent(e) = {} /\ ActiveIds = {}
  BY Alone, Running, FreshEnded DEF SerialInv, Knows, Concluded
<1>2. ActiveBefore(e) = 0
  BY <1>1 DEF Decided, ActiveBefore
<1>3. Step(w, IF kind[e].action = "triggered" THEN [r EXCEPT !.pc = "create"]
              ELSE Orphaned(r))
  BY <1>1 DEF FindAlertEndedByEvent
<1>4. CASE kind[e].action = "triggered"
  <2>1. TableResult(e).outcome = "created"
    BY <1>1, <1>2, <1>4, OutcomeMeans DEF Outcomes
  <2> DEFINE m == [r EXCEPT !.pc = "create"]
  <2>2. m.pc = "create" /\ m.ev = e
    BY <1>1 DEF ProcRecords
  <2> HIDE DEF m
  <2>3. Concluded(m)
    BY <2>1, <2>2 DEF Concluded
  <2> QED BY <1>3, <1>4, <2>3, MoveSerial DEF m
<1>5. CASE kind[e].action # "triggered"
  <2>1. /\ TableResult(e) = [state |-> "orphaned", alert |-> 0, outcome |-> "orphaned"]
        /\ ActiveAfter[e] = 0
    BY <1>1, <1>2, <1>5, OutcomeMeans DEF Outcomes
  <2>2. Decided(e)
    BY <1>1, <1>2, <2>1, NothingToWrite
  <2>3. /\ Orphaned(r).pc = "finish" /\ Orphaned(r).ev = e /\ Orphaned(r).todo = {}
        /\ Orphaned(r).fin = TableResult(e)
    BY <1>1, <2>1 DEF Orphaned, ProcRecords
  <2>4. Concluded(Orphaned(r))
    BY <2>2, <2>3 DEF Concluded
  <2> QED BY <1>3, <1>5, <2>3, <2>4, SerialGoes
<1> QED BY <1>4, <1>5

(* resumeEndedEvent finds the alert that an earlier attempt ended. *)
LEMMA ResumedEnding ==
  ASSUME SerialInv, ProcInv', Grows, NEW w \in Workers, proc[w].pc = "ended",
         NEW e, e = proc[w].ev, HalfRotated(e) \/ Written(e), FindAlertEndedByEvent(w),
         UNCHANGED <<kind, event, alert, logs>>
  PROVE  SerialInv'
<1> SUFFICES ASSUME NEW r, r = proc[w], NEW a, a = ActiveBefore(e), NEW s, s = alert[a]
             PROVE SerialInv'
  OBVIOUS
<1>1. /\ r \in ProcRecords /\ e \in Ids /\ r.ev = e /\ r.todo = {}
      /\ kind \in [Ids -> Kinds] /\ ActiveIds = {} /\ (a # 0 => a \in Ids)
  BY Alone, Running, BeforeRange DEF SerialInv, Knows, Concluded
<1>2. ASSUME EndedByEvent(e) = {a}
      PROVE  /\ Step(w, resumeEndedEvent(r, a, s))
             /\ a \in Ids /\ s # NoAlert /\ s.status # "active"
  <2>1. ~EndedTwice(e)
    BY <1>2, EndedOnce
  <2>2. Step(w, resumeEndedEvent(r, a, s))
    BY <1>1, <1>2, <2>1 DEF FindAlertEndedByEvent
  <2> QED BY <1>2, <2>2 DEF EndedByEvent
<1>3. CASE HalfRotated(e)
  <2> DEFINE m == [r EXCEPT !.pc = "rotate_create", !.oldId = a, !.old = s]
  <2>1. /\ EndedByEvent(e) = {a} /\ s.endType = "severity_upgrade"
        /\ TableResult(e).outcome = "rotated"
    BY <1>3 DEF HalfRotated, Upgraded
  <2>2. kind[e].action = "triggered"
    BY <1>1, <2>1, OutcomeMeans DEF Outcomes
  <2>3. Step(w, m)
    BY <1>1, <1>2, <2>1, <2>2 DEF resumeEndedEvent
  <2>4. m.pc = "rotate_create" /\ m.ev = e /\ m.todo = {} /\ m.oldId = a
    BY <1>1 DEF ProcRecords
  <2> HIDE DEF m
  <2>5. Concluded(m)
    BY <1>3, <2>4 DEF Concluded
  <2> QED BY <2>3, <2>4, <2>5, SerialGoes
<1>4. CASE Written(e)
  <2>1. Decided(e) /\ ActiveAfter[e] = 0
    BY <1>1, <1>4 DEF Written, Decided
  <2>2. TableResult(e).outcome \in {"recovered", "closed", "orphaned"}
    BY <1>1, <2>1, OutcomeMeans, LaneType DEF Outcomes, Ids
  <2>3. TableResult(e).outcome \in {"recovered", "closed"}
    BY <1>4, <2>2 DEF Written
  <2>4. EndedByEvent(e) = {a} /\ kind[e].action # "triggered"
    BY <1>1, <1>4, <2>3, OutcomeMeans DEF Written, Outcomes
  <2>5. Step(w, TerminatedJob(r, a, s)) /\ s # NoAlert /\ s.status # "active"
    BY <1>1, <1>2, <2>4 DEF resumeEndedEvent
  <2>6. TableResult(e) =
          Accepted(a, IF kind[e].action = "resolved" THEN "recovered" ELSE "closed")
    BY <1>1, <2>3, OutcomeMeans DEF Outcomes
  <2> DEFINE op == IF kind[e].action = "resolved" THEN "recover" ELSE "close"
             todo == {eventAlertLog(e, a, op, s.rev)}
  <2>7. Step(w, Job(proc[w], <<Hook(a, s)>>, todo, TableResult(e)))
    BY <1>1, <2>5, <2>6 DEF TerminatedJob
  <2>8. op \in {"recover", "close"}
    OBVIOUS
  <2>9. \A l \in todo : LogFixed(l)
    BY <2>5, <2>8, TerminatedLogs
  <2> HIDE DEF todo
  <2> QED BY <2>1, <2>7, <2>9, SerialResume
<1> QED BY <1>3, <1>4

LEMMA FindEndedSerial ==
  ASSUME SerialInv, ProcInv', Grows, NEW w \in Workers, FindAlertEndedByEvent(w)
  PROVE  SerialInv'
<1> SUFFICES ASSUME NEW e, e = proc[w].ev PROVE SerialInv'
  OBVIOUS
<1>1. proc[w].pc = "ended" /\ UNCHANGED <<kind, event, alert, logs>>
  BY DEF FindAlertEndedByEvent, repository
<1>2. LanePoint(e)
  BY <1>1, Alone
<1> QED BY <1>1, <1>2, FreshOpening, ResumedEnding DEF LanePoint

(* The outcome "rotated" once both alerts are stored. *)
RotationLogs(e, a, os, ns) ==
  {eventAlertLog(e, a, "close", os.rev), eventAlertLog(e, e, "trigger", ns.rev)}

LEMMA RotationJob ==
  ASSUME NEW r, NEW e, r.ev = e, NEW a, NEW os, NEW ns,
         os.status = "closed", os.endType = "severity_upgrade", os.latest = e,
         ns = newAlert(e)
  PROVE  finishRotation(r, a, os, e, ns) =
           Job(r, <<Hook(a, os), Hook(e, ns)>>, RotationLogs(e, a, os, ns),
               Accepted(e, "rotated"))
<1>1. ns.status = "active" /\ ns.latest = e
  BY DEF newAlert
<1> QED BY <1>1 DEF finishRotation, RotationLogs

LEMMA NewAlertFields ==
  \A e : /\ newAlert(e).rev = 1 /\ newAlert(e).status = "active"
         /\ newAlert(e).latest = e /\ newAlert(e).sev = kind[e].sev
BY DEF newAlert

(* resumeActiveEvent on the alert this event opened finishes as the first  *)
(* attempt would have.                                                     *)
LEMMA ResumeOpenedSerial ==
  ASSUME SerialInv, ProcInv', Grows, NEW w \in Workers, ResumeOpened(w)
  PROVE  SerialInv'
<1> SUFFICES ASSUME NEW r, r = proc[w], NEW e, e = r.ev, NEW a, a = ActiveBefore(e),
                    NEW os, os = alert[a], NEW ns, ns = newAlert(e)
             PROVE SerialInv'
  OBVIOUS
<1>1. r.pc = "resume" /\ UNCHANGED <<kind, event, alert, logs>>
  BY DEF ResumeOpened, repository
<1>2. /\ r \in ProcRecords /\ e \in Ids /\ r.id = e /\ kind \in [Ids -> Kinds]
  BY <1>1, Alone, Running DEF SerialInv, Reads
<1>3. /\ Written(e) /\ Decided(e) /\ alert[e] = ns /\ r.snap = ns
      /\ TableResult(e).outcome \in {"created", "rotated"}
  BY <1>1 DEF SerialInv, Knows, Concluded, Written
<1>4. CASE TableResult(e).outcome = "created"
  <2> DEFINE todo == {eventAlertLog(e, e, "trigger", ns.rev)}
  <2>1. EndedByEvent(e) = {} /\ TableResult(e) = Accepted(e, "created")
    BY <1>2, <1>3, <1>4, OutcomeMeans DEF Written
  <2>2. Step(w, CreatedJob(r, e, ns))
    BY <1>2, <1>3, <2>1 DEF ResumeOpened
  <2>3. Step(w, Job(proc[w], <<Hook(e, ns)>>, todo, TableResult(e)))
    BY <2>1, <2>2 DEF CreatedJob
  <2>4. \A l \in todo : LogFixed(l)
    BY NewAlertFields DEF LogFixed, eventAlertLog
  <2> HIDE DEF todo
  <2> QED BY <1>1, <1>3, <2>3, <2>4, SerialResume
<1>5. CASE TableResult(e).outcome = "rotated"
  <2>1. /\ EndedByEvent(e) = {a} /\ TableResult(e) = Accepted(e, "rotated") /\ Upgraded(e)
    BY <1>2, <1>3, <1>5, OutcomeMeans DEF Written
  <2>2. /\ os # NoAlert /\ os.status = "closed" /\ os.endType = "severity_upgrade"
        /\ os.latest = e
    BY <2>1 DEF Upgraded
  <2>3. Step(w, finishRotation(r, a, os, e, ns))
    BY <1>2, <1>3, <2>1, EndedOnce DEF ResumeOpened
  <2>4. Step(w, Job(proc[w], <<Hook(a, os), Hook(e, ns)>>, RotationLogs(e, a, os, ns),
                    TableResult(e)))
    BY <2>1, <2>2, <2>3, RotationJob
  <2>5. \A l \in RotationLogs(e, a, os, ns) : LogFixed(l)
    BY <2>2, NewAlertFields DEF LogFixed, eventAlertLog, RotationLogs
  <2> QED BY <1>1, <1>3, <2>4, <2>5, SerialResume
<1> QED BY <1>3, <1>4, <1>5

-----------------------------------------------------------------------------
(* Steps that write an alert. *)

(* The lane after event e has opened its alert. *)
LEMMA OpenedLane ==
  ASSUME SerialInv, Grows, NEW e \in Ids, alert[e] = NoAlert, ActiveIds = {},
         alert' = [alert EXCEPT ![e] = newAlert(e)]
  PROVE  /\ ActiveIds' = {e} /\ EndedByEvent(e)' = EndedByEvent(e) /\ SeverityState'
         /\ alert'[e] = newAlert(e) /\ newAlert(e)' = newAlert(e)
         /\ \A b \in Ids \ {e} : alert'[b] = alert[b]
<1>1. /\ alert \in [Ids -> AlertRecords \cup {NoAlert}] /\ kind' = kind
      /\ kind \in [Ids -> Kinds]
  BY DEF SerialInv, ProcInv, Types, TypeOK, Grows
<1>2. newAlert(e) \in AlertRecords /\ newAlert(e) # NoAlert
  BY NewAlertType DEF SerialInv, ProcInv
<1>3. alert'[e] = newAlert(e) /\ \A b \in Ids \ {e} : alert'[b] = alert[b]
  BY <1>1
<1>4. ActiveIds' = {e}
  BY <1>2, <1>3, NewAlertFields DEF ActiveIds
<1>5. EndedByEvent(e)' = EndedByEvent(e)
  BY <1>3, NewAlertFields DEF EndedByEvent
<1>6. SeverityState'
  BY <1>1, <1>3, NewAlertFields DEF SerialInv, SeverityState
<1> QED BY <1>1, <1>3, <1>4, <1>5, <1>6 DEF newAlert

LEMMA CreateAlertSerial ==
  ASSUME SerialInv, ProcInv', Grows, NEW w \in Workers, CreateAlert(w)
  PROVE  SerialInv'
<1> SUFFICES ASSUME NEW r, r = proc[w], NEW e, e = r.ev, NEW ns, ns = newAlert(e)
             PROVE SerialInv'
  OBVIOUS
<1>1. r.pc = "create" /\ UNCHANGED <<event, logs>>
  BY DEF CreateAlert
<1>2. /\ r \in ProcRecords /\ e \in Ids /\ kind \in [Ids -> Kinds]
      /\ Decided(e - 1) /\ TableResult(e).outcome = "created"
  BY <1>1, Alone DEF SerialInv, Knows, Concluded
<1>3. /\ ActiveBefore(e) = 0 /\ ActiveAfter[e] = e /\ TableResult(e) = Accepted(e, "created")
  BY <1>2, OutcomeMeans DEF Outcomes
<1>4. ActiveIds = {} /\ alert[e] = NoAlert
  BY <1>2, <1>3, LaneType DEF Decided, ActiveBefore, Ids
<1>5. CanCreate(e) /\ ~CreateIsRepeated(e)
  BY <1>4 DEF CanCreate, CreateIsRepeated
<1>6. alert' = [alert EXCEPT ![e] = ns] /\ Step(w, CreatedJob(r, e, ns))
  BY <1>5 DEF CreateAlert
<1>7. /\ ActiveIds' = {e} /\ EndedByEvent(e)' = EndedByEvent(e) /\ SeverityState'
      /\ alert'[e] = ns /\ newAlert(e)' = ns
      /\ \A b \in Ids \ {e} : alert'[b] = alert[b]
  BY <1>2, <1>4, <1>6, OpenedLane
<1>8. ActiveAfter'[e] = e /\ TableResult(e)' = TableResult(e)
  BY <1>3, TableStays DEF Grows
<1>9. ns.latest = e /\ ns.rev = 1
  BY NewAlertFields
<1>10. Decided(e)'
  <2>1. ActiveIds' = {ActiveAfter'[e]} \ {0}
    BY <1>2, <1>7, <1>8, LaneType DEF Ids
  <2>2. \A b \in Ids : alert[b] # NoAlert => alert[b].latest \in Ids
    BY DEF SerialInv, ProcInv, Types, AlertRecords
  <2>3. \A b \in Ids : alert'[b] # NoAlert => b <= e /\ alert'[b].latest <= e
    BY <1>2, <1>7, <1>9, <2>2, LaneType DEF Decided, Ids
  <2> QED BY <2>1, <2>3 DEF Decided
<1>11. EndedByEvent(e)' = {}
  BY <1>2, <1>7, FreshEnded
<1>12. Written(e)'
  BY <1>2, <1>7, <1>8, <1>10, <1>11 DEF Written
<1> DEFINE todo == {eventAlertLog(e, e, "trigger", ns.rev)}
<1>13. Step(w, Job(proc[w], <<Hook(e, ns)>>, todo, TableResult(e)))
  BY <1>3, <1>6 DEF CreatedJob
<1>14. \A l \in todo : LogFixed(l)'
  BY <1>9 DEF LogFixed, eventAlertLog
<1>15. LanePoint(e)'
  BY <1>12 DEF LanePoint
<1> HIDE DEF todo
<1> QED BY <1>1, <1>7, <1>10, <1>13, <1>14, <1>15, SerialJob

LEMMA CreateRotatedSerial ==
  ASSUME SerialInv, ProcInv', Grows, NEW w \in Workers, CreateRotated(w)
  PROVE  SerialInv'
<1> SUFFICES ASSUME NEW r, r = proc[w], NEW e, e = r.ev, NEW ns, ns = newAlert(e),
                    NEW a, a = ActiveBefore(e), NEW os, os = alert[a]
             PROVE SerialInv'
  OBVIOUS
<1>1. r.pc = "rotate_create" /\ UNCHANGED <<event, logs>>
  BY DEF CreateRotated
<1>2. /\ r \in ProcRecords /\ e \in Ids /\ kind \in [Ids -> Kinds] /\ a < e
      /\ HalfRotated(e) /\ r.oldId = a /\ r.old = os
  BY <1>1, Alone, Running, BeforeRange DEF SerialInv, Knows, Concluded, Reads
<1>3. /\ TableResult(e).outcome = "rotated" /\ Upgraded(e) /\ ActiveIds = {}
      /\ EndedByEvent(e) = {a}
      /\ \A b \in Ids : alert[b] # NoAlert => b < e /\ alert[b].latest <= e
  BY <1>2 DEF HalfRotated
<1>4. /\ ActiveAfter[e] = e /\ TableResult(e) = Accepted(e, "rotated")
  BY <1>2, <1>3, OutcomeMeans
<1>5. alert[e] = NoAlert
  BY <1>2, <1>3, LaneType DEF Ids
<1>6. CanCreate(e) /\ ~CreateIsRepeated(e)
  BY <1>3, <1>5 DEF CanCreate, CreateIsRepeated
<1>7. alert' = [alert EXCEPT ![e] = ns] /\ Step(w, finishRotation(r, a, os, e, ns))
  BY <1>2, <1>6 DEF CreateRotated
<1>8. /\ ActiveIds' = {e} /\ EndedByEvent(e)' = EndedByEvent(e) /\ SeverityState'
      /\ alert'[e] = ns /\ newAlert(e)' = ns
      /\ \A b \in Ids \ {e} : alert'[b] = alert[b]
  BY <1>2, <1>3, <1>5, <1>7, OpenedLane
<1>9. /\ ActiveAfter'[e] = e /\ TableResult(e)' = TableResult(e)
      /\ ActiveBefore(e)' = a
  BY <1>4, TableStays DEF Grows
<1>10. ns.latest = e /\ ns.rev = 1
  BY NewAlertFields
<1>11. /\ a \in Ids /\ os # NoAlert /\ os.status = "closed"
       /\ os.endType = "severity_upgrade" /\ os.latest = e /\ alert'[a] = os
  BY <1>2, <1>3, <1>8, LaneType DEF Upgraded, Ids
<1>12. Decided(e)'
  <2>1. ActiveIds' = {ActiveAfter'[e]} \ {0}
    BY <1>2, <1>8, <1>9, LaneType DEF Ids
  <2>2. \A b \in Ids : alert'[b] # NoAlert => b <= e /\ alert'[b].latest <= e
    BY <1>2, <1>3, <1>8, <1>10, LaneType DEF Ids
  <2> QED BY <2>1, <2>2 DEF Decided
<1>13. Upgraded(e)'
  BY <1>9, <1>11 DEF Upgraded
<1>14. Written(e)'
  BY <1>3, <1>8, <1>9, <1>12, <1>13 DEF Written
<1>15. LanePoint(e)'
  BY <1>14 DEF LanePoint
<1>16. Step(w, Job(proc[w], <<Hook(a, os), Hook(e, ns)>>, RotationLogs(e, a, os, ns),
                   TableResult(e)))
  BY <1>4, <1>7, <1>11, RotationJob
<1>17. \A l \in RotationLogs(e, a, os, ns) : LogFixed(l)'
  BY <1>10, <1>11 DEF LogFixed, eventAlertLog, RotationLogs
<1> QED BY <1>1, <1>8, <1>12, <1>15, <1>16, <1>17, SerialJob

(* Nobody else creates alerts, so that there is no conflict to resolve. *)
LEMMA NoConflict ==
  ASSUME SerialInv, NEW w \in Workers
  PROVE  ~GetConflicting(w) /\ ~GetRotated(w)
BY DEF SerialInv, Knows, Concluded, GetConflicting, GetRotated

(* The contents that event e gives the alert before it. *)
LEMMA UpdatedFields ==
  ASSUME NEW os \in AlertRecords, NEW e \in Ids, NEW s, s = updatedAlert(os, e)
  PROVE  s \in AlertRecords /\ s.status = os.status /\ s.latest = e /\ s.sev = os.sev
<1>1. s \in AlertRecords
  BY ReplacementTypes
<1>2. s.status = os.status /\ s.latest = e /\ s.sev = os.sev
  BY DEF updatedAlert, AlertRecords
<1> QED BY <1>1, <1>2

LEMMA TerminalFields ==
  ASSUME NEW os \in AlertRecords, NEW e \in Ids, NEW s, s = sourceTerminalAlert(os, e)
  PROVE  /\ s \in AlertRecords /\ s.status # "active" /\ s.endType = "source"
         /\ s.latest = e /\ s.sev = os.sev
<1>1. /\ s \in AlertRecords /\ s.status # "active" /\ s.endType = "source" /\ s.latest = e
  BY ReplacementTypes
<1>2. s.sev = os.sev
  BY DEF sourceTerminalAlert, AlertRecords
<1> QED BY <1>1, <1>2

LEMMA UpgradeFields ==
  ASSUME NEW os \in AlertRecords, NEW e \in Ids, NEW s, s = severityUpgradeAlert(os, e)
  PROVE  /\ s \in AlertRecords /\ s.status = "closed" /\ s.endType = "severity_upgrade"
         /\ s.latest = e /\ s.sev = os.sev
<1>1. s \in AlertRecords
  BY ReplacementTypes
<1>2. /\ s.status = "closed" /\ s.endType = "severity_upgrade"
      /\ s.latest = e /\ s.sev = os.sev
  BY DEF severityUpgradeAlert, AlertRecords
<1> QED BY <1>1, <1>2

(* The lane after event e has given the alert before it the content s. *)
Replaced(e, a, s) ==
  /\ alert[a] = s /\ s # NoAlert /\ SeverityState
  /\ ActiveIds = IF s.status = "active" THEN {a} ELSE {}
  /\ s.status # "active" /\ s.endType \in {"source", "severity_upgrade"} =>
       EndedByEvent(e) = {a}
  /\ \A b \in Ids : alert[b] # NoAlert => b < e /\ b <= e /\ alert[b].latest <= e

LEMMA ReplacedLane ==
  ASSUME SerialInv, Grows, NEW e \in Ids, Decided(e - 1), NEW a \in Ids,
         a = ActiveBefore(e), NEW s \in AlertRecords, s.latest = e,
         s.sev = alert[a].sev, alert' = [alert EXCEPT ![a] = s]
  PROVE  Replaced(e, a, s)'
<1>1. alert \in [Ids -> AlertRecords \cup {NoAlert}] /\ kind' = kind
  BY DEF SerialInv, ProcInv, Types, Grows
<1>2. ActiveIds = {a} /\ a # 0 /\ a < e
  BY BeforeRange, LaneType DEF Decided, ActiveBefore, Ids
<1>3. alert[a] \in AlertRecords /\ alert[a].status = "active" /\ alert[a] # NoAlert
  BY <1>1, <1>2 DEF ActiveIds
<1>4. alert'[a] = s /\ s # NoAlert /\ \A b \in Ids \ {a} : alert'[b] = alert[b]
  BY <1>1, NoAlertType
<1>5. SeverityState'
  BY <1>1, <1>3, <1>4 DEF SerialInv, SeverityState
<1>6. ActiveIds' = IF s.status = "active" THEN {a} ELSE {}
  BY <1>2, <1>4 DEF ActiveIds
<1>7. EndedByEvent(e) = {}
  BY FreshEnded
<1>8. s.status # "active" /\ s.endType \in {"source", "severity_upgrade"} =>
        EndedByEvent(e)' = {a}
  BY <1>4, <1>7 DEF EndedByEvent
<1>9. \A b \in Ids : alert[b] # NoAlert => alert[b].latest \in Ids
  BY <1>1 DEF AlertRecords
<1>10. \A b \in Ids : alert[b] # NoAlert => b < e /\ b <= e /\ alert[b].latest <= e
  BY <1>9, LaneType DEF Decided, Ids
<1>11. a < e /\ a <= e /\ s.latest <= e
  BY <1>2, LaneType DEF Ids
<1>12. \A b \in Ids : alert'[b] # NoAlert => b < e /\ b <= e /\ alert'[b].latest <= e
  BY <1>4, <1>10, <1>11
<1> QED BY <1>4, <1>5, <1>6, <1>8, <1>12 DEF Replaced

(* The snapshot a lone worker compares is what is stored. *)
LEMMA Unconflicted ==
  ASSUME SerialInv, NEW w \in Workers, CompareAndSetAlert(w), NEW e, e = proc[w].ev,
         NEW a, a = ActiveBefore(e)
  PROVE  /\ proc[w].pc \in {"update", "terminate", "rotate"}
         /\ UNCHANGED <<event, logs>>
         /\ proc[w] \in ProcRecords /\ e \in Ids /\ kind \in [Ids -> Kinds]
         /\ a \in Ids /\ alert[a] \in AlertRecords /\ alert[a].status = "active"
         /\ Decided(e - 1) /\ proc[w].id = a /\ proc[w].snap = alert[a]
         /\ alert' = [alert EXCEPT ![a] = Replacement(proc[w])]
         /\ Step(w, AfterWrite(proc[w], Replacement(proc[w])))
<1>1. proc[w].pc \in {"update", "terminate", "rotate"} /\ UNCHANGED <<event, logs>>
  BY DEF CompareAndSetAlert
<1>2. /\ proc[w] \in ProcRecords /\ e \in Ids /\ kind \in [Ids -> Kinds]
  BY <1>1, Alone
<1>3. a \in Ids /\ Decided(e - 1) /\ proc[w].id = a /\ proc[w].snap = alert[a]
  BY <1>1 DEF SerialInv, Knows, Concluded
<1>4. a \in ActiveIds
  BY <1>3, LaneType DEF Decided, ActiveBefore, Ids
<1>5. alert[a] \in AlertRecords /\ alert[a].status = "active"
  BY <1>4 DEF ActiveIds, SerialInv, ProcInv, Types
<1>6. VersionIs(proc[w].id, proc[w].snap)
  BY <1>3 DEF VersionIs
<1>7. /\ alert' = [alert EXCEPT ![a] = Replacement(proc[w])]
      /\ Step(w, AfterWrite(proc[w], Replacement(proc[w])))
  BY <1>3, <1>6 DEF CompareAndSetAlert
<1> QED BY <1>1, <1>2, <1>3, <1>5, <1>7

LEMMA UpdateSerial ==
  ASSUME SerialInv, ProcInv', Grows, NEW w \in Workers, CompareAndSetAlert(w),
         proc[w].pc = "update"
  PROVE  SerialInv'
<1> SUFFICES ASSUME NEW r, r = proc[w], NEW e, e = r.ev, NEW a, a = ActiveBefore(e),
                    NEW os, os = alert[a], NEW s, s = updatedAlert(os, e)
             PROVE SerialInv'
  OBVIOUS
<1>1. /\ UNCHANGED <<event, logs>> /\ e \in Ids /\ kind \in [Ids -> Kinds]
      /\ a \in Ids /\ os \in AlertRecords /\ os.status = "active"
      /\ Decided(e - 1) /\ r.id = a /\ r.snap = os
      /\ alert' = [alert EXCEPT ![a] = Replacement(r)] /\ Step(w, AfterWrite(r, Replacement(r)))
  BY Unconflicted
<1>2. alert' = [alert EXCEPT ![a] = s] /\ Step(w, UpdatedJob(r, a, s))
  BY <1>1 DEF Replacement, AfterWrite
<1>3. s \in AlertRecords /\ s.status = "active" /\ s.latest = e /\ s.sev = os.sev
  BY <1>1, UpdatedFields
<1>4. /\ alert'[a] = s /\ SeverityState' /\ ActiveIds' = {a}
      /\ \A b \in Ids : alert'[b] # NoAlert => b <= e /\ alert'[b].latest <= e
  <2>1. /\ e \in Ids /\ Decided(e - 1) /\ a \in Ids /\ a = ActiveBefore(e)
        /\ s \in AlertRecords /\ s.latest = e /\ s.sev = alert[a].sev
        /\ alert' = [alert EXCEPT ![a] = s]
    BY <1>1, <1>2, <1>3
  <2>2. Replaced(e, a, s)'
    BY <2>1, ReplacedLane
  <2> QED BY <1>3, <2>2 DEF Replaced
<1>5. TableResult(e).outcome = "updated"
  BY DEF SerialInv, Knows, Concluded
<1>6. ActiveAfter[e] = a /\ TableResult(e) = Accepted(a, "updated") /\ a # e /\ a # 0
  BY <1>1, <1>5, OutcomeMeans, BeforeRange, LaneType DEF Outcomes, Ids
<1>7. ActiveAfter'[e] = a /\ TableResult(e)' = TableResult(e) /\ ActiveBefore(e)' = a
  BY <1>6, TableStays DEF Grows
<1>8. Decided(e)'
  BY <1>4, <1>6, <1>7 DEF Decided
<1>9. Written(e)'
  BY <1>3, <1>4, <1>5, <1>6, <1>7, <1>8 DEF Written
<1>10. Step(w, Job(proc[w], <<Hook(a, s)>>, {}, TableResult(e)))
  BY <1>2, <1>6 DEF UpdatedJob
<1>11. LanePoint(e)'
  BY <1>9 DEF LanePoint
<1> QED BY <1>1, <1>4, <1>8, <1>10, <1>11, SerialJob

LEMMA TerminateSerial ==
  ASSUME SerialInv, ProcInv', Grows, NEW w \in Workers, CompareAndSetAlert(w),
         proc[w].pc = "terminate"
  PROVE  SerialInv'
<1> SUFFICES ASSUME NEW r, r = proc[w], NEW e, e = r.ev, NEW a, a = ActiveBefore(e),
                    NEW os, os = alert[a], NEW s, s = sourceTerminalAlert(os, e)
             PROVE SerialInv'
  OBVIOUS
<1>1. /\ UNCHANGED <<event, logs>> /\ e \in Ids /\ kind \in [Ids -> Kinds]
      /\ a \in Ids /\ os \in AlertRecords /\ os.status = "active"
      /\ Decided(e - 1) /\ r.id = a /\ r.snap = os
      /\ alert' = [alert EXCEPT ![a] = Replacement(r)] /\ Step(w, AfterWrite(r, Replacement(r)))
  BY Unconflicted
<1>2. alert' = [alert EXCEPT ![a] = s] /\ Step(w, TerminatedJob(r, a, s))
  BY <1>1 DEF Replacement, AfterWrite
<1>3. /\ s \in AlertRecords /\ s.status # "active" /\ s.endType = "source"
      /\ s.latest = e /\ s.sev = os.sev
  BY <1>1, TerminalFields
<1>4. /\ alert'[a] = s /\ s # NoAlert /\ SeverityState' /\ ActiveIds' = {}
      /\ EndedByEvent(e)' = {a}
      /\ \A b \in Ids : alert'[b] # NoAlert => b <= e /\ alert'[b].latest <= e
  <2>1. /\ e \in Ids /\ Decided(e - 1) /\ a \in Ids /\ a = ActiveBefore(e)
        /\ s \in AlertRecords /\ s.latest = e /\ s.sev = alert[a].sev
        /\ alert' = [alert EXCEPT ![a] = s]
    BY <1>1, <1>2, <1>3
  <2>2. Replaced(e, a, s)'
    BY <2>1, ReplacedLane
  <2> QED BY <1>3, <2>2 DEF Replaced
<1>5. TableResult(e).outcome \in {"recovered", "closed"}
  BY DEF SerialInv, Knows, Concluded
<1>6. /\ ActiveAfter[e] = 0
      /\ TableResult(e) =
           Accepted(a, IF kind[e].action = "resolved" THEN "recovered" ELSE "closed")
  BY <1>1, <1>5, OutcomeMeans DEF Outcomes
<1>7. ActiveAfter'[e] = 0 /\ TableResult(e)' = TableResult(e) /\ ActiveBefore(e)' = a
  BY <1>6, TableStays DEF Grows
<1>8. Decided(e)'
  BY <1>4, <1>7 DEF Decided
<1>9. Written(e)'
  BY <1>4, <1>5, <1>7, <1>8 DEF Written
<1> DEFINE op == IF kind[e].action = "resolved" THEN "recover" ELSE "close"
           todo == {eventAlertLog(e, a, op, s.rev)}
<1>10. Step(w, Job(proc[w], <<Hook(a, s)>>, todo, TableResult(e)))
  BY <1>2, <1>6 DEF TerminatedJob
<1>11. \A l \in todo : LogFixed(l)'
  BY <1>3, <1>4 DEF LogFixed, eventAlertLog
<1>12. LanePoint(e)'
  BY <1>9 DEF LanePoint
<1> HIDE DEF todo
<1> QED BY <1>1, <1>4, <1>8, <1>10, <1>11, <1>12, SerialJob

LEMMA RotateSerial ==
  ASSUME SerialInv, ProcInv', Grows, NEW w \in Workers, CompareAndSetAlert(w),
         proc[w].pc = "rotate"
  PROVE  SerialInv'
<1> SUFFICES ASSUME NEW r, r = proc[w], NEW e, e = r.ev, NEW a, a = ActiveBefore(e),
                    NEW os, os = alert[a], NEW s, s = severityUpgradeAlert(os, e)
             PROVE SerialInv'
  OBVIOUS
<1>1. /\ UNCHANGED <<event, logs>> /\ e \in Ids /\ kind \in [Ids -> Kinds]
      /\ a \in Ids /\ os \in AlertRecords /\ os.status = "active"
      /\ Decided(e - 1) /\ r.id = a /\ r.snap = os /\ r \in ProcRecords
      /\ alert' = [alert EXCEPT ![a] = Replacement(r)] /\ Step(w, AfterWrite(r, Replacement(r)))
  BY Unconflicted
<1> DEFINE m == [r EXCEPT !.pc = "rotate_create", !.oldId = r.id, !.old = s]
<1>2. alert' = [alert EXCEPT ![a] = s] /\ Step(w, m)
  BY <1>1 DEF Replacement, AfterWrite
<1>3. /\ s \in AlertRecords /\ s.status = "closed" /\ s.endType = "severity_upgrade"
      /\ s.latest = e /\ s.sev = os.sev
  BY <1>1, UpgradeFields
<1>4. /\ alert'[a] = s /\ s # NoAlert /\ SeverityState' /\ ActiveIds' = {}
      /\ EndedByEvent(e)' = {a}
      /\ \A b \in Ids : alert'[b] # NoAlert => b < e /\ alert'[b].latest <= e
  <2>1. /\ e \in Ids /\ Decided(e - 1) /\ a \in Ids /\ a = ActiveBefore(e)
        /\ s \in AlertRecords /\ s.latest = e /\ s.sev = alert[a].sev
        /\ alert' = [alert EXCEPT ![a] = s]
    BY <1>1, <1>2, <1>3
  <2>2. Replaced(e, a, s)'
    BY <2>1, ReplacedLane
  <2> QED BY <1>3, <2>2 DEF Replaced
<1>5. TableResult(e).outcome = "rotated"
  BY DEF SerialInv, Knows, Concluded
<1>6. TableResult(e)' = TableResult(e) /\ ActiveBefore(e)' = a
  BY TableStays DEF Grows
<1>7. HalfRotated(e)'
  BY <1>1, <1>3, <1>4, <1>5, <1>6 DEF HalfRotated, Upgraded
<1>8. r.todo = {}
  BY Running DEF SerialInv
<1>9. m.pc = "rotate_create" /\ m.ev = e /\ m.todo = {} /\ m.oldId = a
  BY <1>1, <1>8 DEF ProcRecords
<1> HIDE DEF m
<1>10. proc'[w] = m => Concluded(proc[w])'
  BY <1>6, <1>7, <1>9 DEF Concluded
<1>11. LanePoint(e)'
  BY <1>7 DEF LanePoint
<1> QED BY <1>1, <1>2, <1>4, <1>9, <1>10, <1>11, SerialWrite

LEMMA CompareAndSetSerial ==
  ASSUME SerialInv, ProcInv', Grows, NEW w \in Workers, CompareAndSetAlert(w)
  PROVE  SerialInv'
<1>1. proc[w].pc \in {"update", "terminate", "rotate"}
  BY DEF CompareAndSetAlert
<1> QED BY <1>1, UpdateSerial, TerminateSerial, RotateSerial

-----------------------------------------------------------------------------
(* Output, logs and result. *)

(* The record of an output is never in conflict: its id contains the time. *)
LEMMA RunFinalHookSerial ==
  ASSUME SerialInv, ProcInv', Grows, NEW w \in Workers, RunFinalHook(w)
  PROVE  SerialInv'
<1> SUFFICES ASSUME NEW r, r = proc[w], NEW e, e = r.ev PROVE SerialInv'
  OBVIOUS
<1> DEFINE h == Head(r.hooks)
           log(op) == eventAlertLog(CauseOf(w), h.id, op, h.rev)
           m(op) == [r EXCEPT !.pc = IF Len(r.hooks) = 1 THEN "logs" ELSE "hooks",
                              !.hooks = Tail(@), !.todo = @ \cup {log(op)}]
<1>1. r.pc = "hooks" /\ UNCHANGED <<kind, event, alert, logs>>
  BY DEF RunFinalHook, repository
<1>2. \E op \in {"push", "push_failed"} : Step(w, m(op))
  BY DEF RunFinalHook
<1>3. r \in ProcRecords /\ Decided(e) /\ r.fin = TableResult(e)
  BY <1>1, Alone DEF SerialInv, Knows, Concluded
<1>4. \A op : log(op).op = op
  BY DEF eventAlertLog
<1> HIDE DEF log
<1>5. \A op : /\ m(op).pc \in {"hooks", "logs"} /\ m(op).ev = e /\ m(op).fin = r.fin
              /\ m(op).todo = r.todo \cup {log(op)}
  BY <1>3 DEF ProcRecords
<1> HIDE DEF m
<1>6. ASSUME NEW op \in {"push", "push_failed"}, Step(w, m(op)) PROVE SerialInv'
  <2>1. Concluded(m(op))
    BY <1>3, <1>5 DEF Concluded
  <2>2. LogFixed(log(op))
    BY <1>4 DEF LogFixed
  <2>3. \A l \in m(op).todo : LogFixed(l)
    BY <1>5, <2>2 DEF SerialInv, LogState
  <2>4. m(op).pc # "idle" /\ m(op).ev = proc[w].ev
    BY <1>5
  <2> QED BY <1>1, <1>6, <2>1, <2>3, <2>4, SerialGoes
<1> QED BY <1>2, <1>6

LEMMA AppendLogsSerial ==
  ASSUME SerialInv, ProcInv', Grows, NEW w \in Workers, AppendAlertLogs(w)
  PROVE  SerialInv'
<1> DEFINE m == [proc[w] EXCEPT !.pc = "finish", !.todo = {}]
<1>1. /\ proc[w].pc = "logs" /\ UNCHANGED <<kind, event, alert>> /\ w \notin Commands
      /\ logs' = logs \cup {l \in proc[w].todo : \A k \in logs : ~SameLogId(l, k)}
  BY ProcsDisjoint DEF AppendAlertLogs
<1>2. logs' \subseteq logs \cup proc[w].todo
  BY <1>1
<1>3. /\ proc[w] \in ProcRecords /\ Decided(proc[w].ev)
      /\ proc[w].fin = TableResult(proc[w].ev)
  BY <1>1, Alone DEF SerialInv, Knows, Concluded
<1>4. m.pc = "finish" /\ m.ev = proc[w].ev /\ m.todo = {} /\ m.fin = proc[w].fin
  BY <1>3 DEF ProcRecords
<1>5. Step(w, NotRunning) \/ Step(w, m)
  BY <1>1 DEF AppendAlertLogs, Return
<1> HIDE DEF m
<1>6. Concluded(m)
  BY <1>3, <1>4 DEF Concluded
<1> QED BY <1>1, <1>2, <1>4, <1>5, <1>6, SerialReturn, SerialAppends

LEMMA AppendPartlySerial ==
  ASSUME SerialInv, ProcInv', Grows, NEW w \in Workers, AppendPartly(w)
  PROVE  SerialInv'
<1>1. /\ proc[w].pc = "logs" /\ UNCHANGED <<kind, event, alert>> /\ Step(w, NotRunning)
  BY DEF AppendPartly, Return
<1>2. logs' \subseteq logs \cup proc[w].todo
  BY DEF AppendPartly
<1> QED BY <1>1, <1>2, SerialReturn

LEMMA AbortSerial ==
  ASSUME SerialInv, ProcInv', Grows, NEW w \in Workers, Abort(w)
  PROVE  SerialInv'
<1>1. /\ proc[w].pc # "idle" /\ UNCHANGED <<kind, event, alert, logs>> /\ Step(w, NotRunning)
  BY DEF Abort, Return, repository
<1>2. logs' \subseteq logs \cup proc[w].todo
  BY <1>1
<1> QED BY <1>1, <1>2, SerialReturn

(* The result is the table's, and the lane is where the next event starts. *)
LEMMA FinishSerial ==
  ASSUME SerialInv, ProcInv', Grows, NEW w \in Workers, finishEvent(w)
  PROVE  SerialInv'
<1> SUFFICES ASSUME NEW r, r = proc[w], NEW e, e = r.ev, NEW t, t = TableResult(e)
             PROVE SerialInv'
  OBVIOUS
<1>1. r.pc = "finish" /\ UNCHANGED <<kind, alert, logs>>
  BY DEF finishEvent
<1>2. /\ w \in Procs /\ e \in Ids /\ kind \in [Ids -> Kinds] /\ ~Done(e) /\ Frontier(e)
      /\ \A v \in Workers \ {w} : proc[v].pc = "idle"
      /\ Decided(e) /\ r.fin = t
  BY <1>1, Alone DEF SerialInv, Knows, Concluded
<1>3. event' = [event EXCEPT ![e] = t] /\ Step(w, NotRunning)
  BY <1>2 DEF finishEvent, Return, Done
<1>4. /\ event'[e] = t /\ \A d \in Ids \ {e} : event'[d] = event[d]
  BY <1>2, <1>3 DEF SerialInv, ProcInv, Types, TypeOK
<1>5. t.state # "unprocessed"
  BY <1>2, OutcomeMeans DEF Accepted
<1>6. \A d \in Ids : Done(d)' <=> Done(d) \/ d = e
  BY <1>4, <1>5 DEF Done
<1>7. \A d \in Ids : Done(d)' <=> d <= e
  <2>1. \A d \in Ids : d < e \/ d = e <=> d <= e
    BY <1>2, LaneType DEF Ids
  <2> QED BY <1>2, <1>6, <2>1 DEF Frontier
<1>8. ResultsState'
  <2>1. \A d \in Ids : TableResult(d)' = TableResult(d)
    BY <1>1, TableStays
  <2>2. \A d \in Ids : Done(d)' => event'[d] = TableResult(d)'
    BY <1>4, <1>6, <2>1 DEF SerialInv, ResultsState
  <2>3. \A c, d \in Ids : Done(d)' /\ c < d => Done(c)'
    BY <1>2, <1>7, LaneType DEF Ids
  <2> QED BY <2>2, <2>3 DEF ResultsState
<1>9. LaneState'
  <2> SUFFICES ASSUME NEW d \in 1..(N + 1), Frontier(d)'
               PROVE  Decided(d - 1)'
    BY DEF LaneState
  <2>1. \A c \in Ids : c < d <=> c <= e
    BY <1>7 DEF Frontier
  <2>2. d - 1 = e
    <3>1. e < d
      BY <1>2, <2>1, LaneType DEF Ids
    <3>2. CASE d \in Ids
      BY <1>2, <2>1, <3>1, <3>2, LaneType DEF Ids
    <3>3. CASE d = N + 1
      <4>1. N \in Ids /\ N < d
        BY <1>2, <3>3, LaneType DEF Ids
      <4> QED BY <1>2, <2>1, <3>3, <4>1, LaneType DEF Ids
    <3> QED BY <3>2, <3>3, LaneType DEF Ids
  <2>3. Decided(e)'
    BY <1>1, <1>2, LaneStays
  <2> QED BY <2>2, <2>3
<1>10. proc'[w] = NotRunning /\ \A v \in Workers \ {w} : proc'[v] = proc[v]
  BY <1>2, <1>3 DEF Step, SerialInv, ProcInv, Types, Procs
<1>11. NotRunning.pc = "idle" /\ NotRunning.todo = {}
  BY DEF NotRunning
<1> HIDE DEF NotRunning
<1>12. \A v \in Workers : Knows(v)'
  BY <1>2, <1>10, <1>11 DEF Knows
<1>13. LogState'
  BY <1>1, <1>10, <1>11, LogsKept
<1>14. SeverityState'
  BY <1>1 DEF SerialInv, SeverityState
<1> QED BY <1>8, <1>9, <1>12, <1>13, <1>14 DEF SerialInv

-----------------------------------------------------------------------------
(* The invariant. *)

LEMMA SerialInit == Init => SerialInv
<1> SUFFICES ASSUME Init PROVE SerialInv
  OBVIOUS
<1>1. /\ event = [e \in Ids |-> Unprocessed] /\ alert = [a \in Ids |-> NoAlert]
      /\ proc = [p \in Procs |-> NotRunning] /\ logs = {}
  BY DEF Init
<1>2. \A e \in Ids : ~Done(e)
  BY <1>1 DEF Done, Unprocessed
<1>3. \A w \in Workers : proc[w].pc = "idle" /\ proc[w].todo = {}
  BY <1>1 DEF NotRunning, Procs
<1>4. LaneState
  <2> SUFFICES ASSUME NEW e \in 1..(N + 1), Frontier(e) PROVE Decided(e - 1)
    BY DEF LaneState
  <2>1. e = 1
    <3> SUFFICES ASSUME e # 1 PROVE FALSE
      OBVIOUS
    <3>1. 1 \in Ids /\ 1 < e
      BY LaneType DEF Ids
    <3> QED BY <1>2, <3>1 DEF Frontier
  <2>2. ActiveIds = {}
    BY <1>1 DEF ActiveIds
  <2>3. Decided(0)
    BY <1>1, <2>2, ActiveUnfold DEF Decided
  <2> QED BY <2>1, <2>3
<1>5. ResultsState /\ SeverityState
  BY <1>1, <1>2 DEF ResultsState, SeverityState
<1>6. LogState /\ \A w \in Workers : Knows(w)
  BY <1>1, <1>3 DEF LogState, Knows
<1>7. ProcInv
  BY InitInv
<1> QED BY <1>4, <1>5, <1>6, <1>7 DEF SerialInv

LEMMA SerialStutter ==
  ASSUME SerialInv, ProcInv', UNCHANGED vars
  PROVE  SerialInv'
<1>1. UNCHANGED <<kind, event, alert, logs, proc, holder>>
  BY DEF vars
<1>2. \A d : Done(d)' <=> Done(d)
  BY <1>1 DEF Done
<1>3. /\ ActiveIds' = ActiveIds
      /\ \A n : Decided(n)' <=> Decided(n)
      /\ \A e : HalfRotated(e)' <=> HalfRotated(e)
      /\ \A e : Written(e)' <=> Written(e)
  BY <1>1, LaneStays
<1>4. \A e : ActiveBefore(e)' = ActiveBefore(e) /\ TableResult(e)' = TableResult(e)
  BY <1>1, TableStays
<1>5. ResultsState' /\ SeverityState'
  BY <1>1, <1>2, <1>4 DEF SerialInv, ResultsState, SeverityState
<1>6. LaneState'
  BY <1>2, <1>3 DEF SerialInv, LaneState, Frontier
<1>7. LogState'
  BY <1>1 DEF SerialInv, LogState, LogFixed
<1>8. \A w \in Workers : Concluded(proc[w])' <=> Concluded(proc[w])
  BY <1>1, <1>3, <1>4 DEF Concluded
<1>9. \A w \in Workers : Knows(w)'
  BY <1>1, <1>2, <1>8 DEF SerialInv, Knows
<1> QED BY <1>5, <1>6, <1>7, <1>9 DEF SerialInv

LEMMA SerialNext ==
  ASSUME Commands = {}, MaxLost = 0, SerialInv, [Next]_vars
  PROVE  SerialInv'
<1>1. ProcInv' /\ Grows
  BY NextInv DEF SerialInv
<1>2. ASSUME NEW w \in Workers, WorkerStep(w) PROVE SerialInv'
  <2>1. CASE ReadEvent(w) \/ FindActiveAlert(w) \/ FindAlertEndedByEvent(w)
    BY <1>1, <2>1, ReadEventSerial, FindActiveSerial, FindEndedSerial
  <2>2. CASE CreateAlert(w) \/ GetConflicting(w) \/ CompareAndSetAlert(w)
    BY <1>1, <2>2, CreateAlertSerial, NoConflict, CompareAndSetSerial
  <2>3. CASE CreateRotated(w) \/ GetRotated(w) \/ ResumeOpened(w)
    BY <1>1, <2>3, CreateRotatedSerial, NoConflict, ResumeOpenedSerial
  <2>4. CASE RunFinalHook(w) \/ AppendAlertLogs(w) \/ finishEvent(w)
    BY <1>1, <2>4, RunFinalHookSerial, AppendLogsSerial, FinishSerial
  <2> QED BY <1>2, <2>1, <2>2, <2>3, <2>4 DEF WorkerStep
<1>3. ASSUME NEW w \in Workers, NEW e \in Ids, Begin(w, e) PROVE SerialInv'
  BY <1>1, <1>3, BeginSerial
<1>4. ASSUME NEW p \in Procs, AppendPartly(p) \/ Abort(p) PROVE SerialInv'
  <2>1. p \in Workers
    BY DEF Procs
  <2> QED BY <1>1, <1>4, <2>1, AppendPartlySerial, AbortSerial
<1>5. ~LoseLease
  BY DEF LoseLease, SerialInv, ProcInv, Types, TypeOK
<1>6. CASE UNCHANGED vars
  BY <1>1, <1>6, SerialStutter
<1> QED BY <1>2, <1>3, <1>4, <1>5, <1>6 DEF Next

LEMMA AlwaysSerial ==
  ASSUME Commands = {}, MaxLost = 0
  PROVE  Spec => []SerialInv
<1>1. SerialInv /\ [Next]_vars => SerialInv'
  BY SerialNext
<1> QED BY <1>1, SerialInit, PTL DEF Spec

-----------------------------------------------------------------------------
(* The theorems. *)

(* Every result is the one the decision table of processUnprocessed        *)
(* (processor.go) gives when the lane's events are decided one after the   *)
(* other, and in the end the active alert is the table's: however long the *)
(* lane, however many workers take turns, and wherever an invocation ended *)
(* between two writes and was resumed.  Operators and lost leases are left *)
(* out because with them it does not hold.                                 *)
THEOREM DecidedAsSerial ==
  ASSUME Commands = {}, MaxLost = 0
  PROVE  Spec => []SerialOutcome
<1>1. ASSUME SerialInv PROVE SerialOutcome
  <2>1. \A e \in Ids : Done(e) => event[e] = TableResult(e)
    BY <1>1 DEF SerialInv, ResultsState
  <2>2. ASSUME \A e \in Ids : Done(e) PROVE ActiveIds = {ActiveAfter[N]} \ {0}
    <3>1. N + 1 \in 1..(N + 1) /\ N + 1 \notin Ids /\ (N + 1) - 1 = N
      BY LaneType DEF Ids
    <3>2. Frontier(N + 1)
      BY <2>2, LaneType DEF Frontier, Ids
    <3>3. Decided(N)
      BY <1>1, <3>1, <3>2 DEF SerialInv, LaneState
    <3> QED BY <3>3 DEF Decided
  <2> QED BY <2>1, <2>2 DEF SerialOutcome
<1> QED BY <1>1, AlwaysSerial, PTL

(* A log that an attempt appends again has the content of the first one    *)
(* (log.go:70), because the time in it belongs to a write that is never    *)
(* repeated: the batch of appendAlertLogs does not fail on its own earlier *)
(* items, wherever that attempt ended.                                     *)
THEOREM RepeatedLogsAbsorbed ==
  ASSUME Commands = {}, MaxLost = 0
  PROVE  Spec => []LogsAbsorbed
<1>1. ASSUME SerialInv PROVE LogsAbsorbed
  <2> SUFFICES ASSUME NEW p \in Procs, NEW l \in proc[p].todo, NEW k \in logs,
                      SameLogId(l, k)
               PROVE  l = k
    BY DEF LogsAbsorbed, LogConflict
  <2>1. p \in Workers
    BY DEF Procs
  <2>2. l \in LogRecords /\ k \in LogRecords
    BY <1>1 DEF SerialInv, ProcInv, Types, TypeOK
  <2>3. LogFixed(l) /\ LogFixed(k)
    BY <1>1, <2>1 DEF SerialInv, LogState
  <2>4. l.cause = k.cause /\ l.alert = k.alert /\ l.op = k.op /\ l.op \in LogOps
    BY <2>2 DEF SameLogId, LogRecords
  <2>5. l.at = k.at
    BY <2>3, <2>4 DEF LogFixed, SameLogId, LogOps
  <2> QED BY <2>2, <2>4, <2>5 DEF LogRecords
<1> QED BY <1>1, AlwaysSerial, PTL
=============================================================================
