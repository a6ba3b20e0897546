----------------------- MODULE AlertProcessorProofs -----------------------
(***************************************************************************)
(* Proofs about AlertProcessor, for every number of events, workers,       *)
(* operators, faults and lost leases: types, one active alert per lane,    *)
(* final states stay final, results are backed by what they stand for, and *)
(* closes are answered truthfully.                                         *)
(*                                                                         *)
(* Workers are not exclusive, so nothing here rests on the lease.  What    *)
(* holds between processes is carried by the repository, which only grows  *)
(* (Grows): logs and results stay, an alert changes only while it is       *)
(* active and gets a new revision when it does.  What a process knows      *)
(* (LocalState) is chosen so that growth by others cannot falsify it.      *)
(***************************************************************************)
EXTENDS AlertProcessor, FiniteSetTheorems, TLAPS

WorkerPcs == {"idle", "read", "find", "ended", "create", "conflict", "update",
              "terminate", "rotate", "rotate_create", "rotate_conflict",
              "resume", "hooks", "logs", "finish"}
CommandPcs == {"idle", "close_get", "close_cas", "hooks", "logs"}

HookRecords == [id : Ids, rev : Nat]

(* "put" and "rotate_put" are only for AlertArchive, where creating an     *)
(* alert takes two calls.                                                  *)
ProcRecords ==
  [pc : WorkerPcs \cup CommandPcs \cup {"put", "rotate_put"}, ev : 0..N,
   try : 0..maxCASAttempts, id : 0..N, snap : AlertRecords \cup {NoAlert},
   oldId : 0..N, old : AlertRecords \cup {NoAlert},
   hooks : Seq(HookRecords), todo : SUBSET LogRecords, fin : Results]

Types ==
  /\ TypeOK
  /\ alert \in [Ids -> AlertRecords \cup {NoAlert}]
  /\ proc \in [Procs -> ProcRecords]

(* Which locals a process has at which point. *)
Shape(p) ==
  LET r == proc[p] IN
  /\ p \in Workers => r.pc \in WorkerPcs /\ (r.pc # "idle" => r.ev \in Ids)
  /\ p \in Commands =>
       r.pc \in CommandPcs /\ (r.pc # "idle" => r.id \in Ids /\ target[p] = r.id)
  /\ r.pc \notin {"hooks", "logs"} => r.todo = {}
  /\ r.pc = "hooks" => Len(r.hooks) > 0
  /\ r.pc # "hooks" => r.hooks = <<>>

(* What a process has read is what is stored, or has been replaced since   *)
(* by a later revision.                                                    *)
Current(a, s) ==
  /\ a \in Ids /\ s \in AlertRecords /\ alert[a] # NoAlert
  /\ s.rev <= alert[a].rev
  /\ s.rev = alert[a].rev => alert[a] = s

Reads(p) ==
  LET r == proc[p] IN
  /\ r.pc \in {"update", "terminate", "rotate", "close_cas"} =>
       Current(r.id, r.snap) /\ r.snap.status = "active"
  /\ r.pc \in {"create", "conflict", "rotate", "rotate_create", "rotate_conflict"} =>
       kind[r.ev].action = "triggered"
  /\ r.pc \in {"rotate_create", "rotate_conflict"} =>
       /\ r.oldId \in Ids /\ r.old \in AlertRecords
       /\ alert[r.oldId] = r.old /\ r.old.status # "active"
  /\ r.pc = "resume" => r.id = r.ev /\ r.snap \in AlertRecords /\ alert[r.ev] # NoAlert
  /\ r.pc = "close_get" => alert[r.id] # NoAlert

(* A log, or the record of the hook's output, is stored, or p is going to  *)
(* write it before it finishes.                                            *)
Owes(p, c, a, op) ==
  \E l \in logs \cup proc[p].todo : l.cause = c /\ l.alert = a /\ l.op = op
OwesPush(p, c, a) ==
  \/ Owes(p, c, a, "push") \/ Owes(p, c, a, "push_failed")
  \/ \E i \in 1..Len(proc[p].hooks) : proc[p].hooks[i].id = a

(* The result a worker is about to store is backed by what is stored and   *)
(* what it still owes.                                                     *)
Promise(p) ==
  LET e == proc[p].ev
      f == proc[p].fin
  IN
  p \in Workers /\ proc[p].pc \in {"hooks", "logs", "finish"} =>
    /\ f.outcome = "created" =>
         alert[e] # NoAlert /\ f.alert = e /\ Owes(p, e, e, "trigger") /\ OwesPush(p, e, e)
    /\ f.outcome = "updated" =>
         f.alert \in Ids /\ alert[f.alert] # NoAlert /\ OwesPush(p, e, f.alert)
    /\ f.outcome \in {"recovered", "closed"} =>
         /\ f.alert \in EndedByEvent(e)
         /\ Owes(p, e, f.alert, IF f.outcome = "closed" THEN "close" ELSE "recover")
         /\ OwesPush(p, e, f.alert)
    /\ f.outcome = "rotated" =>
         /\ alert[e] # NoAlert /\ f.alert = e /\ Owes(p, e, e, "trigger") /\ OwesPush(p, e, e)
         /\ \E a \in EndedByEvent(e) : Owes(p, e, a, "close") /\ OwesPush(p, e, a)
    /\ f.outcome = "suppressed" => Owes(p, e, f.alert, "suppress")
    /\ f.outcome = "orphaned" => kind[e].action # "triggered"

ClosedBy(o, a) ==
  /\ a \in Ids /\ alert[a] # NoAlert
  /\ alert[a].status = "closed" /\ alert[a].endType = "operator"
  /\ alert[a].endBy = StampOf[o]

(* A close that a command is about to report is stored. *)
ClosePromise(o) ==
  o \in Commands /\ proc[o].pc \in {"hooks", "logs"} =>
    /\ ClosedBy(o, proc[o].id)
    /\ Owes(o, o, proc[o].id, "close") /\ OwesPush(o, o, proc[o].id)

(* A worker runs an event whose predecessors have results. *)
Place(p) ==
  p \in Workers /\ proc[p].pc # "idle" => \A d \in 1..(proc[p].ev - 1) : Done(d)

LocalState(p) == Shape(p) /\ Reads(p) /\ Promise(p) /\ ClosePromise(p) /\ Place(p)

(* What the repository holds, whoever wrote it. *)
StoreState ==
  /\ \A a, b \in ActiveIds : a = b
  /\ \A a \in Ids : alert[a] # NoAlert =>
       kind[a].action = "triggered" /\ \A d \in 1..(a - 1) : Done(d)

ResultState ==
  /\ ResultIsBacked
  /\ \A e \in Ids : event[e].outcome = "updated" => event[e].alert \in Ids
  /\ \A e \in Ids : event[e].outcome = "orphaned" => kind[e].action # "triggered"

CloseState ==
  \A o \in Commands : answer[o] = "ok" =>
    /\ ClosedBy(o, target[o])
    /\ HasLog(o, target[o], "close") /\ HasPush(o, target[o])

ProcInv ==
  /\ Types
  /\ \A p \in Procs : LocalState(p)
  /\ StoreState /\ ResultState /\ CloseState

(* What every step does to the repository at most. *)
Grows ==
  /\ kind' = kind /\ logs \subseteq logs'
  /\ \A e \in Ids : Done(e) => event'[e] = event[e]
  /\ \A a \in Ids : alert[a] # NoAlert =>
       \/ alert'[a] = alert[a]
       \/ /\ alert[a].status = "active"
          /\ alert'[a] \in AlertRecords /\ alert'[a].rev > alert[a].rev

-----------------------------------------------------------------------------
(* Growth by others. *)

(* What is stored stays, and what has ended stays as it is. *)
LEMMA AlertsStay ==
  ASSUME Types, Grows, NEW a \in Ids, alert[a] # NoAlert
  PROVE  /\ alert[a] \in AlertRecords /\ alert'[a] \in AlertRecords /\ alert'[a] # NoAlert
         /\ alert[a].status # "active" => alert'[a] = alert[a]
BY NoAlertType DEF Types, Grows

(* A log that is stored or owed stays so while its writer rests. *)
LEMMA OwedStays ==
  ASSUME Grows, NEW p, proc'[p] = proc[p], NEW c, NEW a, NEW op
  PROVE  /\ Owes(p, c, a, op) => Owes(p, c, a, op)'
         /\ OwesPush(p, c, a) => OwesPush(p, c, a)'
BY DEF Grows, Owes, OwesPush

LEMMA EndedStays ==
  ASSUME Types, Grows, NEW e
  PROVE  EndedByEvent(e) \subseteq EndedByEvent(e)'
BY AlertsStay DEF EndedByEvent

(* The steps of others do not falsify what a process knows. *)
LEMMA Frame ==
  ASSUME Types, Grows, NEW p \in Procs, LocalState(p), proc'[p] = proc[p],
         p \in Commands => target'[p] = target[p]
  PROVE  LocalState(p)'
<1> DEFINE r == proc[p]
<1>0. r \in ProcRecords /\ r.ev \in 0..N
  BY DEF Types, ProcRecords
<1>1. Shape(p)'
  BY DEF LocalState, Shape
<1>2. Reads(p)'
  <2>1. ASSUME NEW a, NEW s, Current(a, s) PROVE Current(a, s)'
    <3>1. a \in Ids /\ alert[a] \in AlertRecords /\ alert'[a] \in AlertRecords /\ alert'[a] # NoAlert
      BY <2>1, AlertsStay DEF Current
    <3>2. s.rev \in Nat /\ alert[a].rev \in Nat /\ alert'[a].rev \in Nat
      BY <2>1, <3>1 DEF Current, AlertRecords
    <3> QED BY <2>1, <3>1, <3>2 DEF Current, Grows
  <2>2. r.pc \in {"update", "terminate", "rotate", "close_cas"} => Current(r.id, r.snap)'
    BY <2>1 DEF LocalState, Reads
  <2>3. r.pc \in {"rotate_create", "rotate_conflict"} =>
          /\ r.oldId \in Ids /\ r.old \in AlertRecords
          /\ alert'[r.oldId] = r.old /\ r.old.status # "active"
    BY AlertsStay, NoAlertType DEF LocalState, Reads
  <2>4. r.pc = "resume" => alert'[r.ev] # NoAlert
    BY AlertsStay, <1>0 DEF LocalState, Reads, Shape, Procs, CommandPcs
  <2>5. r.pc = "close_get" => alert'[r.id] # NoAlert
    BY AlertsStay, <1>0 DEF LocalState, Reads, Shape, Procs, WorkerPcs
  <2> QED BY <2>2, <2>3, <2>4, <2>5 DEF LocalState, Reads, Grows, Current
<1>3. Promise(p)'
  <2> SUFFICES ASSUME p \in Workers, r.pc \in {"hooks", "logs", "finish"}
               PROVE  Promise(p)'
    BY DEF Promise
  <2>1. r.ev \in Ids /\ Promise(p)
    BY DEF LocalState, Shape
  <2>2. \A a \in Ids : alert[a] # NoAlert => alert'[a] # NoAlert
    BY AlertsStay
  <2>3. \A a \in EndedByEvent(r.ev) : a \in EndedByEvent(r.ev)'
    BY EndedStays
  <2>4. \A c, a, op : Owes(p, c, a, op) => Owes(p, c, a, op)'
    BY OwedStays
  <2>5. \A c, a : OwesPush(p, c, a) => OwesPush(p, c, a)'
    BY OwedStays
  <2> QED BY <2>1, <2>2, <2>3, <2>4, <2>5 DEF Promise, Grows
<1>4. ClosePromise(p)'
  BY AlertsStay, OwedStays DEF LocalState, ClosePromise, ClosedBy
<1>5. Place(p)'
  <2>1. \A d \in Ids : Done(d) => Done(d)'
    BY DEF Grows, Done
  <2>2. \A d \in 1..(r.ev - 1) : d \in Ids
    BY <1>0, LaneType DEF Ids
  <2> QED BY <2>1, <2>2 DEF LocalState, Place
<1> QED BY <1>1, <1>2, <1>3, <1>4, <1>5 DEF LocalState

(* What the repository holds is kept by a step that leaves it alone. *)
LEMMA StoreKept ==
  ASSUME Types, Grows, StoreState, UNCHANGED alert
  PROVE  StoreState'
<1>1. \A d \in Ids : Done(d) => Done(d)'
  BY DEF Grows, Done
<1>2. \A a \in Ids : \A d \in 1..(a - 1) : d \in Ids
  BY LaneType DEF Ids
<1> QED BY <1>1, <1>2 DEF StoreState, ActiveIds, Grows

LEMMA LogsStay ==
  ASSUME Grows, NEW c, NEW a
  PROVE  /\ \A op : HasLog(c, a, op) => HasLog(c, a, op)'
         /\ HasPush(c, a) => HasPush(c, a)'
BY DEF Grows, HasLog, HasPush

(* A stored result stays backed. *)
LEMMA BackedKept ==
  ASSUME Types, Grows, StoreState', ResultState, NEW e \in Ids, event'[e] = event[e]
  PROVE  /\ Backed(e)'
         /\ event'[e].outcome = "updated" => event'[e].alert \in Ids
         /\ event'[e].outcome = "orphaned" => kind'[e].action # "triggered"
<1>1. \A a \in Ids : alert[a] # NoAlert => alert'[a] # NoAlert
  BY AlertsStay
<1>2. \A a \in EndedByEvent(e) : a \in EndedByEvent(e)'
  BY EndedStays
<1>3. \A c, a, op : HasLog(c, a, op) => HasLog(c, a, op)'
  BY LogsStay
<1>4. \A c, a : HasPush(c, a) => HasPush(c, a)'
  BY LogsStay
<1>5. event[e].outcome = "orphaned" => alert'[e] = NoAlert
  BY DEF StoreState, ResultState, Grows
<1> QED BY <1>1, <1>2, <1>3, <1>4, <1>5 DEF ResultState, ResultIsBacked, Backed, Grows

LEMMA BackedStays ==
  ASSUME Types, Grows, StoreState', ResultState, UNCHANGED event
  PROVE  ResultState'
<1>1. \A e \in Ids : /\ Backed(e)'
                     /\ event'[e].outcome = "updated" => event'[e].alert \in Ids
                     /\ event'[e].outcome = "orphaned" => kind'[e].action # "triggered"
  BY BackedKept
<1> QED BY <1>1 DEF ResultState, ResultIsBacked

LEMMA ClosesStay ==
  ASSUME Types, Grows, CloseState,
         \A o \in Commands : answer'[o] = "ok" => answer[o] = "ok" /\ target'[o] = target[o]
  PROVE  CloseState'
<1> SUFFICES ASSUME NEW o \in Commands, answer'[o] = "ok"
             PROVE  /\ ClosedBy(o, target[o])'
                    /\ HasLog(o, target[o], "close")' /\ HasPush(o, target[o])'
  BY DEF CloseState
<1>1. /\ target'[o] = target[o] /\ ClosedBy(o, target[o])
      /\ HasLog(o, target[o], "close") /\ HasPush(o, target[o])
  BY DEF CloseState
<1>2. ClosedBy(o, target[o])'
  BY <1>1, AlertsStay DEF ClosedBy
<1>3. HasLog(o, target[o], "close")'
  BY <1>1 DEF HasLog, Grows
<1>4. HasPush(o, target[o])'
  BY <1>1 DEF HasPush, HasLog, Grows
<1> QED BY <1>2, <1>3, <1>4

(* The invariant after a step of p: what p knows is what has to be shown.  *)
LEMMA StepOf ==
  ASSUME ProcInv, NEW p \in Procs, Types', Grows, LocalState(p)',
         \A q \in Procs \ {p} : /\ proc'[q] = proc[q]
                                /\ q \in Commands => target'[q] = target[q],
         StoreState', ResultState', CloseState'
  PROVE  ProcInv'
BY Frame DEF ProcInv

(* A step of p that changes neither alerts nor results nor answers. *)
LEMMA QuietStep ==
  ASSUME ProcInv, NEW p \in Procs, Types', Grows, LocalState(p)',
         \A q \in Procs \ {p} : proc'[q] = proc[q],
         UNCHANGED <<alert, event, answer, target>>
  PROVE  ProcInv'
<1>1. StoreState'
  BY StoreKept DEF ProcInv
<1>2. ResultState'
  BY <1>1, BackedStays DEF ProcInv
<1>3. CloseState'
  BY ClosesStay DEF ProcInv
<1> QED BY <1>1, <1>2, <1>3, StepOf

-----------------------------------------------------------------------------
(* Locals. *)

LEMMA StepTypes ==
  ASSUME Types, NEW p \in Procs, NEW r \in ProcRecords, Step(p, r)
  PROVE  /\ proc' \in [Procs -> ProcRecords] /\ proc'[p] = r
         /\ \A q \in Procs \ {p} : proc'[q] = proc[q]
         /\ \A q \in Procs : /\ proc'[q].try \in 0..maxCASAttempts
                             /\ proc'[q].todo \subseteq LogRecords
                             /\ proc'[q].fin \in Results
         /\ holder' \in Workers \cup {Nobody} /\ lost' \in 0..MaxLost
<1>1. proc' \in [Procs -> ProcRecords] /\ proc'[p] = r
      /\ \A q \in Procs \ {p} : proc'[q] = proc[q]
  BY DEF Types, Step
<1>2. \A q \in Procs : proc'[q] \in ProcRecords
  BY <1>1
<1>3. holder' \in Workers \cup {Nobody} /\ lost' \in 0..MaxLost
  BY DEF Types, TypeOK, Step
<1> QED BY <1>1, <1>2, <1>3 DEF ProcRecords

LEMMA NotRunningType == NotRunning \in ProcRecords
BY LaneType DEF NotRunning, ProcRecords, WorkerPcs, Unprocessed, Results

(* A process that has returned knows nothing. *)
LEMMA Returned ==
  ASSUME NEW p \in Procs, proc'[p] = NotRunning
  PROVE  LocalState(p)'
BY DEF NotRunning, LocalState, Shape, Reads, Promise, ClosePromise, Place,
       WorkerPcs, CommandPcs

LEMMA JobFields ==
  ASSUME NEW r \in ProcRecords, NEW hooks \in Seq(HookRecords),
         NEW todo \in SUBSET LogRecords, NEW fin \in Results
  PROVE  /\ Job(r, hooks, todo, fin) \in ProcRecords
         /\ Job(r, hooks, todo, fin).pc = IF hooks = <<>> THEN "logs" ELSE "hooks"
         /\ Job(r, hooks, todo, fin).hooks = hooks
         /\ Job(r, hooks, todo, fin).todo = todo
         /\ Job(r, hooks, todo, fin).fin = fin
         /\ Job(r, hooks, todo, fin).ev = r.ev
         /\ Job(r, hooks, todo, fin).id = r.id
BY DEF Job, ProcRecords, WorkerPcs

(* m goes on with a job. *)
IsJob(r, m) ==
  \E hooks \in Seq(HookRecords), todo \in SUBSET LogRecords, fin \in Results :
    m = Job(r, hooks, todo, fin)

LEMMA HookType ==
  ASSUME NEW a \in Ids, NEW s \in AlertRecords
  PROVE  Hook(a, s) \in HookRecords /\ Hook(a, s).id = a /\ s.rev \in Nat
BY DEF Hook, HookRecords, AlertRecords

LEMMA LogType ==
  ASSUME NEW c \in Causes, NEW a \in Ids, NEW op \in LogOps, NEW at \in Nat
  PROVE  /\ eventAlertLog(c, a, op, at) \in LogRecords
         /\ eventAlertLog(c, a, op, at).cause = c
         /\ eventAlertLog(c, a, op, at).alert = a
         /\ eventAlertLog(c, a, op, at).op = op
BY DEF eventAlertLog, LogRecords

LEMMA AcceptedType ==
  ASSUME NEW a \in Ids, NEW out \in {"created", "updated", "rotated", "recovered", "closed"}
  PROVE  Accepted(a, out) \in Results /\ Accepted(a, out).alert = a
         /\ Accepted(a, out).outcome = out
BY LaneType DEF Accepted, Results, Ids

LEMMA OneHook ==
  ASSUME NEW h \in HookRecords
  PROVE  /\ <<h>> \in Seq(HookRecords) /\ Len(<<h>>) = 1 /\ <<h>> # <<>>
         /\ <<h>>[1] = h
OBVIOUS

(* A worker that begins with a job: the logs and the records of the hook's *)
(* output are owed.                                                        *)
LEMMA WorkerJob ==
  ASSUME NEW p \in Workers, NEW r \in ProcRecords, r.ev \in Ids,
         NEW hs \in Seq(HookRecords), NEW todo \in SUBSET LogRecords,
         NEW fin \in Results, Job(r, hs, todo, fin) = proc'[p],
         \A d \in 1..(r.ev - 1) : Done(d)'
  PROVE  /\ Shape(p)' /\ Reads(p)' /\ ClosePromise(p)' /\ Place(p)'
         /\ proc'[p].ev = r.ev /\ proc'[p].fin = fin
         /\ \A i \in 1..Len(hs) : OwesPush(p, r.ev, hs[i].id)'
         /\ \A l \in todo : Owes(p, l.cause, l.alert, l.op)'
<1>1. /\ proc'[p].pc = (IF hs = <<>> THEN "logs" ELSE "hooks")
      /\ proc'[p].hooks = hs /\ proc'[p].todo = todo
      /\ proc'[p].fin = fin /\ proc'[p].ev = r.ev
  BY JobFields
<1>2. hs # <<>> => Len(hs) > 0
  OBVIOUS
<1>3. Shape(p)' /\ Reads(p)' /\ ClosePromise(p)' /\ Place(p)'
  BY <1>1, <1>2, ProcsDisjoint DEF Shape, Reads, ClosePromise, Place, WorkerPcs
<1>4. \A i \in 1..Len(hs) : OwesPush(p, r.ev, hs[i].id)'
  BY <1>1 DEF OwesPush
<1>5. \A l \in todo : Owes(p, l.cause, l.alert, l.op)'
  BY <1>1 DEF Owes
<1> QED BY <1>1, <1>3, <1>4, <1>5

(* createAlert *)
LEMMA CreatedJobGood ==
  ASSUME NEW p \in Workers, NEW r \in ProcRecords, r.ev \in Ids, NEW s \in AlertRecords
  PROVE  /\ CreatedJob(r, r.ev, s) \in ProcRecords /\ IsJob(r, CreatedJob(r, r.ev, s))
         /\ /\ proc'[p] = CreatedJob(r, r.ev, s)
            /\ alert'[r.ev] # NoAlert
            /\ \A d \in 1..(r.ev - 1) : Done(d)'
            => LocalState(p)'
<1> DEFINE hs == <<Hook(r.ev, s)>>
           l == eventAlertLog(r.ev, r.ev, "trigger", s.rev)
           t == {l}
           f == Accepted(r.ev, "created")
<1>1. hs \in Seq(HookRecords) /\ Len(hs) = 1 /\ hs[1].id = r.ev /\ s.rev \in Nat
  BY HookType, OneHook
<1>2. l \in LogRecords /\ l.cause = r.ev /\ l.alert = r.ev /\ l.op = "trigger"
  BY <1>1, LogType DEF Causes, LogOps
<1>3. f \in Results /\ f.alert = r.ev /\ f.outcome = "created"
  BY AcceptedType
<1>4. CreatedJob(r, r.ev, s) = Job(r, hs, t, f) /\ t \in SUBSET LogRecords /\ l \in t
  BY <1>2 DEF CreatedJob
<1> HIDE DEF hs, l, t, f
<1>5. CreatedJob(r, r.ev, s) \in ProcRecords /\ IsJob(r, CreatedJob(r, r.ev, s))
  BY <1>1, <1>3, <1>4, JobFields DEF IsJob
<1>6. ASSUME proc'[p] = CreatedJob(r, r.ev, s), alert'[r.ev] # NoAlert,
             \A d \in 1..(r.ev - 1) : Done(d)'
      PROVE  LocalState(p)'
  <2>1. /\ Shape(p)' /\ Reads(p)' /\ ClosePromise(p)' /\ Place(p)'
        /\ proc'[p].ev = r.ev /\ proc'[p].fin = f
        /\ \A i \in 1..Len(hs) : OwesPush(p, r.ev, hs[i].id)'
        /\ \A k \in t : Owes(p, k.cause, k.alert, k.op)'
    BY <1>1, <1>3, <1>4, <1>6, WorkerJob
  <2>2. Owes(p, r.ev, r.ev, "trigger")' /\ OwesPush(p, r.ev, r.ev)'
    BY <1>1, <1>2, <1>4, <2>1
  <2>3. Promise(p)'
    BY <1>3, <1>6, <2>1, <2>2 DEF Promise
  <2> QED BY <2>1, <2>3 DEF LocalState
<1> QED BY <1>5, <1>6

(* updateAlert *)
LEMMA UpdatedJobGood ==
  ASSUME NEW p \in Workers, NEW r \in ProcRecords, r.ev \in Ids,
         NEW a \in Ids, NEW s \in AlertRecords
  PROVE  /\ UpdatedJob(r, a, s) \in ProcRecords /\ IsJob(r, UpdatedJob(r, a, s))
         /\ /\ proc'[p] = UpdatedJob(r, a, s)
            /\ alert'[a] # NoAlert
            /\ \A d \in 1..(r.ev - 1) : Done(d)'
            => LocalState(p)'
<1> DEFINE hs == <<Hook(a, s)>>
           t == {}
           f == Accepted(a, "updated")
<1>1. hs \in Seq(HookRecords) /\ Len(hs) = 1 /\ hs[1].id = a
  BY HookType, OneHook
<1>2. f \in Results /\ f.alert = a /\ f.outcome = "updated"
  BY AcceptedType
<1>3. UpdatedJob(r, a, s) = Job(r, hs, t, f) /\ t \in SUBSET LogRecords
  BY DEF UpdatedJob
<1> HIDE DEF hs, t, f
<1>4. UpdatedJob(r, a, s) \in ProcRecords /\ IsJob(r, UpdatedJob(r, a, s))
  BY <1>1, <1>2, <1>3, JobFields DEF IsJob
<1>5. ASSUME proc'[p] = UpdatedJob(r, a, s), alert'[a] # NoAlert,
             \A d \in 1..(r.ev - 1) : Done(d)'
      PROVE  LocalState(p)'
  <2>1. /\ Shape(p)' /\ Reads(p)' /\ ClosePromise(p)' /\ Place(p)'
        /\ proc'[p].ev = r.ev /\ proc'[p].fin = f
        /\ \A i \in 1..Len(hs) : OwesPush(p, r.ev, hs[i].id)'
        /\ \A k \in t : Owes(p, k.cause, k.alert, k.op)'
    BY <1>1, <1>2, <1>3, <1>5, WorkerJob
  <2>2. OwesPush(p, r.ev, a)'
    BY <1>1, <2>1
  <2>3. Promise(p)'
    BY <1>2, <1>5, <2>1, <2>2 DEF Promise
  <2> QED BY <2>1, <2>3 DEF LocalState
<1> QED BY <1>4, <1>5

(* terminateAlert *)
LEMMA TerminatedJobGood ==
  ASSUME NEW p \in Workers, NEW r \in ProcRecords, r.ev \in Ids,
         NEW a \in Ids, NEW s \in AlertRecords
  PROVE  /\ TerminatedJob(r, a, s) \in ProcRecords /\ IsJob(r, TerminatedJob(r, a, s))
         /\ /\ proc'[p] = TerminatedJob(r, a, s)
            /\ a \in EndedByEvent(r.ev)'
            /\ \A d \in 1..(r.ev - 1) : Done(d)'
            => LocalState(p)'
<1> DEFINE rec == kind[r.ev].action = "resolved"
           op == IF rec THEN "recover" ELSE "close"
           out == IF rec THEN "recovered" ELSE "closed"
           hs == <<Hook(a, s)>>
           l == eventAlertLog(r.ev, a, op, s.rev)
           t == {l}
           f == Accepted(a, out)
<1>0. /\ op \in LogOps /\ out \in {"recovered", "closed"}
      /\ op = IF out = "closed" THEN "close" ELSE "recover"
  BY DEF LogOps
<1>1. hs \in Seq(HookRecords) /\ Len(hs) = 1 /\ hs[1].id = a /\ s.rev \in Nat
  BY HookType, OneHook
<1>2. l \in LogRecords /\ l.cause = r.ev /\ l.alert = a /\ l.op = op
  <2> HIDE DEF op
  <2> QED BY <1>0, <1>1, LogType DEF Causes
<1>3. f \in Results /\ f.alert = a /\ f.outcome = out
  <2> HIDE DEF out
  <2> QED BY <1>0, AcceptedType
<1>4. TerminatedJob(r, a, s) = Job(r, hs, t, f) /\ t \in SUBSET LogRecords /\ l \in t
  BY <1>2 DEF TerminatedJob
<1> HIDE DEF rec, op, out, hs, l, t, f
<1>5. TerminatedJob(r, a, s) \in ProcRecords /\ IsJob(r, TerminatedJob(r, a, s))
  BY <1>1, <1>3, <1>4, JobFields DEF IsJob
<1>6. ASSUME proc'[p] = TerminatedJob(r, a, s), a \in EndedByEvent(r.ev)',
             \A d \in 1..(r.ev - 1) : Done(d)'
      PROVE  LocalState(p)'
  <2>1. /\ Shape(p)' /\ Reads(p)' /\ ClosePromise(p)' /\ Place(p)'
        /\ proc'[p].ev = r.ev /\ proc'[p].fin = f
        /\ \A i \in 1..Len(hs) : OwesPush(p, r.ev, hs[i].id)'
        /\ \A k \in t : Owes(p, k.cause, k.alert, k.op)'
    BY <1>1, <1>3, <1>4, <1>6, WorkerJob
  <2>2. /\ op = "recover" => Owes(p, r.ev, a, "recover")'
        /\ op = "close" => Owes(p, r.ev, a, "close")'
        /\ OwesPush(p, r.ev, a)'
    BY <1>1, <1>2, <1>4, <2>1
  <2>3. Promise(p)'
    BY <1>0, <1>3, <1>6, <2>1, <2>2 DEF Promise
  <2> QED BY <2>1, <2>3 DEF LocalState
<1> QED BY <1>5, <1>6

(* suppressEvent *)
LEMMA SuppressedJobGood ==
  ASSUME NEW p \in Workers, NEW r \in ProcRecords, r.ev \in Ids, NEW a \in Ids
  PROVE  /\ SuppressedJob(r, a) \in ProcRecords /\ IsJob(r, SuppressedJob(r, a))
         /\ /\ proc'[p] = SuppressedJob(r, a)
            /\ \A d \in 1..(r.ev - 1) : Done(d)'
            => LocalState(p)'
<1> DEFINE hs == <<>>
           l == eventAlertLog(r.ev, a, "suppress", 0)
           t == {l}
           f == [state |-> "suppressed", alert |-> a, outcome |-> "suppressed"]
<1>1. hs \in Seq(HookRecords)
  OBVIOUS
<1>2. l \in LogRecords /\ l.cause = r.ev /\ l.alert = a /\ l.op = "suppress"
  BY LogType DEF Causes, LogOps
<1>3. f \in Results /\ f.alert = a /\ f.outcome = "suppressed"
  BY LaneType DEF Results, Ids
<1>4. SuppressedJob(r, a) = Job(r, hs, t, f) /\ t \in SUBSET LogRecords /\ l \in t
  BY <1>2 DEF SuppressedJob
<1> HIDE DEF hs, l, t, f
<1>5. SuppressedJob(r, a) \in ProcRecords /\ IsJob(r, SuppressedJob(r, a))
  BY <1>1, <1>3, <1>4, JobFields DEF IsJob
<1>6. ASSUME proc'[p] = SuppressedJob(r, a), \A d \in 1..(r.ev - 1) : Done(d)'
      PROVE  LocalState(p)'
  <2>1. /\ Shape(p)' /\ Reads(p)' /\ ClosePromise(p)' /\ Place(p)'
        /\ proc'[p].ev = r.ev /\ proc'[p].fin = f
        /\ \A k \in t : Owes(p, k.cause, k.alert, k.op)'
    BY <1>1, <1>3, <1>4, <1>6, WorkerJob
  <2>2. Owes(p, r.ev, a, "suppress")'
    BY <1>2, <1>4, <2>1
  <2>3. Promise(p)'
    BY <1>3, <1>6, <2>1, <2>2 DEF Promise
  <2> QED BY <2>1, <2>3 DEF LocalState
<1> QED BY <1>5, <1>6

(* completeRotation, once both alerts are there *)
LEMMA RotationGood ==
  ASSUME NEW p \in Workers, NEW r \in ProcRecords, r.ev \in Ids,
         NEW oid \in Ids, NEW os \in AlertRecords, NEW ns \in AlertRecords
  PROVE  /\ finishRotation(r, oid, os, r.ev, ns) \in ProcRecords
         /\ \/ IsJob(r, finishRotation(r, oid, os, r.ev, ns))
            \/ finishRotation(r, oid, os, r.ev, ns) = NotRunning
         /\ /\ proc'[p] = finishRotation(r, oid, os, r.ev, ns)
            /\ alert'[oid] = os /\ alert'[r.ev] # NoAlert
            /\ \A d \in 1..(r.ev - 1) : Done(d)'
            => LocalState(p)'
<1> DEFINE h1 == Hook(oid, os)
           h2 == Hook(r.ev, ns)
           hs == <<h1, h2>>
           l1 == eventAlertLog(r.ev, oid, "close", os.rev)
           l2 == eventAlertLog(r.ev, r.ev, "trigger", ns.rev)
           t == {l1, l2}
           f == Accepted(r.ev, "rotated")
           both == /\ os.status = "closed" /\ os.endType = "severity_upgrade"
                   /\ os.latest = r.ev
                   /\ ns.status = "active" /\ r.ev = r.ev /\ ns.latest = r.ev
<1>1. /\ h1 \in HookRecords /\ h1.id = oid /\ os.rev \in Nat
      /\ h2 \in HookRecords /\ h2.id = r.ev /\ ns.rev \in Nat
  BY HookType
<1>2. /\ l1 \in LogRecords /\ l1.cause = r.ev /\ l1.alert = oid /\ l1.op = "close"
      /\ l2 \in LogRecords /\ l2.cause = r.ev /\ l2.alert = r.ev /\ l2.op = "trigger"
  BY <1>1, LogType DEF Causes, LogOps
<1>3. f \in Results /\ f.alert = r.ev /\ f.outcome = "rotated"
  BY AcceptedType
<1>4. finishRotation(r, oid, os, r.ev, ns)
        = IF both THEN Job(r, hs, t, f) ELSE NotRunning
  BY DEF finishRotation, Return
<1>5. t \in SUBSET LogRecords /\ l1 \in t /\ l2 \in t
  BY <1>2
<1> HIDE DEF l1, l2, t, f, both, h1, h2
<1>6. hs \in Seq(HookRecords) /\ Len(hs) = 2 /\ hs[1].id = oid /\ hs[2].id = r.ev
  BY <1>1
<1> HIDE DEF hs
<1>7. /\ finishRotation(r, oid, os, r.ev, ns) \in ProcRecords
      /\ \/ IsJob(r, finishRotation(r, oid, os, r.ev, ns))
         \/ finishRotation(r, oid, os, r.ev, ns) = NotRunning
  BY <1>3, <1>4, <1>5, <1>6, JobFields, NotRunningType DEF IsJob
<1>8. ASSUME proc'[p] = finishRotation(r, oid, os, r.ev, ns),
             alert'[oid] = os, alert'[r.ev] # NoAlert,
             \A d \in 1..(r.ev - 1) : Done(d)'
      PROVE  LocalState(p)'
  <2>1. CASE ~both
    BY <1>4, <1>8, <2>1, Returned DEF Procs
  <2>2. CASE both
    <3>1. /\ Shape(p)' /\ Reads(p)' /\ ClosePromise(p)' /\ Place(p)'
          /\ proc'[p].ev = r.ev /\ proc'[p].fin = f
          /\ \A i \in 1..Len(hs) : OwesPush(p, r.ev, hs[i].id)'
          /\ \A k \in t : Owes(p, k.cause, k.alert, k.op)'
      BY <1>3, <1>4, <1>5, <1>6, <1>8, <2>2, WorkerJob
    <3>2. /\ Owes(p, r.ev, oid, "close")' /\ OwesPush(p, r.ev, oid)'
          /\ Owes(p, r.ev, r.ev, "trigger")' /\ OwesPush(p, r.ev, r.ev)'
      BY <1>2, <1>5, <1>6, <3>1
    <3>3. oid \in EndedByEvent(r.ev)'
      BY <1>8, <2>2, NoAlertType DEF EndedByEvent, both
    <3>4. Promise(p)'
      BY <1>3, <1>8, <3>1, <3>2, <3>3 DEF Promise
    <3> QED BY <3>1, <3>4 DEF LocalState
  <2> QED BY <2>1, <2>2
<1> QED BY <1>7, <1>8

-----------------------------------------------------------------------------
(* Steps that only read. *)

LEMMA QuietGrows ==
  ASSUME Types, UNCHANGED <<kind, event, alert>>, logs \subseteq logs'
  PROVE  Grows
BY DEF Grows

(* A step of p that leaves the repository alone. *)
LEMMA LocalStep ==
  ASSUME ProcInv, NEW p \in Procs, NEW r \in ProcRecords, Step(p, r),
         UNCHANGED <<kind, repository, sent, target, answer, faults>>,
         proc'[p] = r => LocalState(p)'
  PROVE  ProcInv' /\ Grows
<1>1. Types /\ UNCHANGED <<event, alert, logs>>
  BY DEF ProcInv, repository
<1>2. /\ proc' \in [Procs -> ProcRecords] /\ proc'[p] = r
      /\ \A q \in Procs \ {p} : proc'[q] = proc[q]
      /\ \A q \in Procs : /\ proc'[q].try \in 0..maxCASAttempts
                          /\ proc'[q].todo \subseteq LogRecords
                          /\ proc'[q].fin \in Results
      /\ holder' \in Workers \cup {Nobody} /\ lost' \in 0..MaxLost
  BY <1>1, StepTypes
<1>3. Types'
  BY <1>1, <1>2 DEF Types, TypeOK
<1>4. Grows
  BY <1>1, QuietGrows
<1> QED BY <1>1, <1>2, <1>3, <1>4, QuietStep

LEMMA ReturnStep ==
  ASSUME ProcInv, NEW p \in Procs, Step(p, NotRunning),
         UNCHANGED <<kind, repository, sent, target, answer, faults>>
  PROVE  ProcInv' /\ Grows
BY NotRunningType, Returned, LocalStep

(* What a running worker starts from. *)
LEMMA Running ==
  ASSUME ProcInv, NEW w \in Workers, proc[w].pc # "idle"
  PROVE  /\ w \in Procs /\ w \notin Commands
         /\ proc[w] \in ProcRecords /\ proc[w].ev \in Ids
         /\ \A d \in 1..(proc[w].ev - 1) : Done(d)
         /\ proc[w].pc \notin {"hooks", "logs"} => proc[w].todo = {}
         /\ proc[w].pc # "hooks" => proc[w].hooks = <<>>
         /\ Reads(w) /\ Promise(w)
<1>1. w \in Procs /\ w \notin Commands
  BY ProcsDisjoint DEF Procs
<1> QED BY <1>1 DEF ProcInv, Types, LocalState, Shape, Place

(* A worker goes on to a point where it has read nothing yet. *)
LEMMA MoveGood ==
  ASSUME NEW w \in Workers, NEW r \in ProcRecords, r.ev \in Ids,
         r.todo = {}, r.hooks = <<>>,
         NEW x \in {"read", "find", "ended", "create", "conflict"},
         x \in {"create", "conflict"} => kind'[r.ev].action = "triggered"
  PROVE  /\ [r EXCEPT !.pc = x] \in ProcRecords
         /\ /\ proc'[w] = [r EXCEPT !.pc = x]
            /\ \A d \in 1..(r.ev - 1) : Done(d)'
            => LocalState(w)'
<1> DEFINE m == [r EXCEPT !.pc = x]
<1>1. /\ m \in ProcRecords /\ m.pc = x /\ m.ev = r.ev /\ m.todo = {} /\ m.hooks = <<>>
  BY DEF ProcRecords, WorkerPcs
<1> HIDE DEF m
<1>2. ASSUME proc'[w] = m, \A d \in 1..(r.ev - 1) : Done(d)'
      PROVE  LocalState(w)'
  <2>1. Shape(w)' /\ Place(w)'
    BY <1>1, <1>2, ProcsDisjoint DEF Shape, Place, WorkerPcs
  <2>2. Reads(w)' /\ Promise(w)' /\ ClosePromise(w)'
    BY <1>1, <1>2 DEF Reads, Promise, ClosePromise
  <2> QED BY <2>1, <2>2 DEF LocalState
<1> QED BY <1>1, <1>2 DEF m

(* Reading everything again, or giving up. *)
LEMMA RetryGood ==
  ASSUME NEW w \in Workers, NEW r \in ProcRecords, r.ev \in Ids
  PROVE  /\ RetryDecision(r) \in ProcRecords
         /\ /\ proc'[w] = RetryDecision(r)
            /\ \A d \in 1..(r.ev - 1) : Done(d)'
            => LocalState(w)'
<1> DEFINE m == [NotRunning EXCEPT !.pc = "read", !.ev = r.ev, !.try = r.try + 1]
<1>0. r.try \in 0..maxCASAttempts /\ r.ev \in 0..N
  BY DEF ProcRecords
<1>1. CASE r.try < maxCASAttempts
  <2>1. RetryDecision(r) = m
    BY <1>1 DEF RetryDecision
  <2>2. NotRunning \in ProcRecords /\ NotRunning.todo = {} /\ NotRunning.hooks = <<>>
    BY NotRunningType DEF NotRunning
  <2>3. r.try + 1 \in 0..maxCASAttempts
    BY <1>0, <1>1, LaneType
  <2>4. m \in ProcRecords /\ m.pc = "read" /\ m.ev = r.ev /\ m.todo = {} /\ m.hooks = <<>>
    BY <1>0, <2>2, <2>3 DEF ProcRecords, WorkerPcs
  <2> HIDE DEF m
  <2>5. ASSUME proc'[w] = m, \A d \in 1..(r.ev - 1) : Done(d)'
        PROVE  LocalState(w)'
    <3>1. Shape(w)' /\ Place(w)'
      BY <2>4, <2>5, ProcsDisjoint DEF Shape, Place, WorkerPcs
    <3>2. Reads(w)' /\ Promise(w)' /\ ClosePromise(w)'
      BY <2>4, <2>5 DEF Reads, Promise, ClosePromise
    <3> QED BY <3>1, <3>2 DEF LocalState
  <2> QED BY <2>1, <2>4, <2>5
<1>2. CASE ~(r.try < maxCASAttempts)
  BY <1>2, NotRunningType, Returned DEF RetryDecision, Return, Procs
<1> QED BY <1>1, <1>2

LEMMA BeginGood ==
  ASSUME ProcInv, NEW w \in Workers, NEW e \in Ids, Begin(w, e)
  PROVE  ProcInv' /\ Grows
<1> DEFINE m == [NotRunning EXCEPT !.pc = "read", !.ev = e, !.try = 1]
<1>1. NotRunning \in ProcRecords /\ NotRunning.todo = {} /\ NotRunning.hooks = <<>>
  BY NotRunningType DEF NotRunning
<1>2. e \in 0..N /\ 1 \in 0..maxCASAttempts
  BY LaneType DEF Ids
<1>3. m \in ProcRecords /\ m.pc = "read" /\ m.ev = e /\ m.todo = {} /\ m.hooks = <<>>
  BY <1>1, <1>2 DEF ProcRecords, WorkerPcs
<1> HIDE DEF m
<1>4. /\ proc' = [proc EXCEPT ![w] = m] /\ holder' = w
      /\ UNCHANGED <<lost, kind, event, alert, logs, sent, target, answer, faults>>
      /\ \A d \in 1..(e - 1) : Done(d)
  BY DEF Begin, repository, m, Done
<1>5. /\ w \in Procs /\ proc' \in [Procs -> ProcRecords] /\ proc'[w] = m
      /\ \A q \in Procs \ {w} : proc'[q] = proc[q]
  BY <1>3, <1>4 DEF ProcInv, Types, Procs
<1>6. \A q \in Procs : /\ proc'[q].try \in 0..maxCASAttempts
                       /\ proc'[q].todo \subseteq LogRecords
                       /\ proc'[q].fin \in Results
  BY <1>5 DEF ProcRecords
<1>7. Types'
  BY <1>4, <1>5, <1>6 DEF ProcInv, Types, TypeOK
<1>8. Grows
  BY <1>4, QuietGrows DEF ProcInv
<1>9. LocalState(w)'
  <2>1. Shape(w)' /\ Place(w)'
    BY <1>3, <1>4, <1>5, ProcsDisjoint DEF Shape, Place, WorkerPcs, Done
  <2>2. Reads(w)' /\ Promise(w)' /\ ClosePromise(w)'
    BY <1>3, <1>5 DEF Reads, Promise, ClosePromise
  <2> QED BY <2>1, <2>2 DEF LocalState
<1> QED BY <1>4, <1>5, <1>7, <1>8, <1>9, QuietStep

LEMMA ReadEventGood ==
  ASSUME ProcInv, NEW w \in Workers, ReadEvent(w)
  PROVE  ProcInv' /\ Grows
<1>1. /\ proc[w].pc = "read"
      /\ UNCHANGED <<kind, repository, sent, target, answer, faults>>
  BY DEF ReadEvent
<1>2. CASE Step(w, NotRunning)
  BY <1>1, <1>2, ReturnStep DEF Procs
<1>3. CASE Step(w, [proc[w] EXCEPT !.pc = "find"])
  <2> DEFINE r == proc[w]
             m == [r EXCEPT !.pc = "find"]
  <2>1. /\ w \in Procs /\ r \in ProcRecords /\ r.ev \in Ids /\ r.todo = {} /\ r.hooks = <<>>
        /\ \A d \in 1..(r.ev - 1) : Done(d)'
    BY <1>1, Running DEF Done, repository
  <2>2. m \in ProcRecords /\ (proc'[w] = m => LocalState(w)')
    BY <2>1, MoveGood
  <2> HIDE DEF m
  <2> QED BY <1>1, <1>3, <2>1, <2>2, LocalStep DEF m
<1> QED BY <1>2, <1>3 DEF ReadEvent, Return

(* A worker that has read an active alert it is going to replace. *)
LEMMA SnapshotGood ==
  ASSUME Types, NEW w \in Workers, NEW r \in ProcRecords, r.ev \in Ids,
         r.todo = {}, r.hooks = <<>>,
         NEW a \in ActiveIds, UNCHANGED <<alert, kind>>,
         NEW x \in {"update", "terminate", "rotate"},
         x = "rotate" => kind[r.ev].action = "triggered"
  PROVE  LET m == [r EXCEPT !.pc = x, !.id = a, !.snap = alert[a]] IN
         /\ m \in ProcRecords
         /\ /\ proc'[w] = m
            /\ \A d \in 1..(r.ev - 1) : Done(d)'
            => LocalState(w)'
<1> DEFINE s == alert[a]
           m == [r EXCEPT !.pc = x, !.id = a, !.snap = s]
<1>1. a \in Ids /\ a \in 0..N /\ s \in AlertRecords /\ s # NoAlert /\ s.status = "active"
      /\ s.rev \in Nat
  BY LaneType DEF ActiveIds, Types, AlertRecords, Ids
<1>2. /\ m \in ProcRecords /\ m.pc = x /\ m.ev = r.ev /\ m.todo = {} /\ m.hooks = <<>>
      /\ m.id = a /\ m.snap = s
  BY <1>1 DEF ProcRecords, WorkerPcs
<1> HIDE DEF m
<1>3. ASSUME proc'[w] = m, \A d \in 1..(r.ev - 1) : Done(d)'
      PROVE  LocalState(w)'
  <2>1. Shape(w)' /\ Place(w)'
    BY <1>2, <1>3, ProcsDisjoint DEF Shape, Place, WorkerPcs
  <2>2. Promise(w)' /\ ClosePromise(w)'
    BY <1>2, <1>3 DEF Promise, ClosePromise
  <2>3. Reads(w)'
    BY <1>1, <1>2, <1>3 DEF Reads, Current
  <2> QED BY <2>1, <2>2, <2>3 DEF LocalState
<1> QED BY <1>2, <1>3 DEF m

(* resumeActiveEvent *)
LEMMA ResumeActiveGood ==
  ASSUME Types, NEW w \in Workers, NEW r \in ProcRecords, r.ev \in Ids,
         r.todo = {}, r.hooks = <<>>, UNCHANGED <<alert, kind>>,
         NEW a \in Ids, alert[a] # NoAlert
  PROVE  /\ resumeActiveEvent(r, a, alert[a]) \in ProcRecords
         /\ /\ proc'[w] = resumeActiveEvent(r, a, alert[a])
            /\ \A d \in 1..(r.ev - 1) : Done(d)'
            => LocalState(w)'
<1> DEFINE s == alert[a]
           m == [r EXCEPT !.pc = "resume", !.id = a, !.snap = s]
<1>1. s \in AlertRecords /\ a \in 0..N
  BY LaneType DEF Types, Ids
<1>2. CASE s.latest # r.ev
  BY <1>2, NotRunningType, Returned DEF resumeActiveEvent, Return, Procs
<1>3. CASE s.latest = r.ev /\ a # r.ev
  BY <1>1, <1>3, UpdatedJobGood DEF resumeActiveEvent
<1>4. CASE s.latest = r.ev /\ a = r.ev
  <2>1. resumeActiveEvent(r, a, s) = m
    BY <1>4 DEF resumeActiveEvent
  <2>2. /\ m \in ProcRecords /\ m.pc = "resume" /\ m.ev = r.ev /\ m.todo = {}
        /\ m.hooks = <<>> /\ m.id = a /\ m.snap = s
    BY <1>1 DEF ProcRecords, WorkerPcs
  <2> HIDE DEF m
  <2>3. ASSUME proc'[w] = m, \A d \in 1..(r.ev - 1) : Done(d)'
        PROVE  LocalState(w)'
    <3>1. Shape(w)' /\ Place(w)'
      BY <2>2, <2>3, ProcsDisjoint DEF Shape, Place, WorkerPcs
    <3>2. Promise(w)' /\ ClosePromise(w)'
      BY <2>2, <2>3 DEF Promise, ClosePromise
    <3>3. Reads(w)'
      BY <1>1, <1>4, <2>2, <2>3 DEF Reads
    <3> QED BY <3>1, <3>2, <3>3 DEF LocalState
  <2> QED BY <2>1, <2>2, <2>3
<1> QED BY <1>2, <1>3, <1>4

LEMMA DecideGood ==
  ASSUME Types, NEW w \in Workers, NEW r \in ProcRecords, r.ev \in Ids,
         r.todo = {}, r.hooks = <<>>, UNCHANGED <<alert, kind>>,
         NEW a \in ActiveIds
  PROVE  /\ decide(r, a, alert[a]) \in ProcRecords
         /\ /\ proc'[w] = decide(r, a, alert[a])
            /\ \A d \in 1..(r.ev - 1) : Done(d)'
            => LocalState(w)'
<1> DEFINE s == alert[a]
           k == kind[r.ev]
           go(x) == [r EXCEPT !.pc = x, !.id = a, !.snap = s]
<1>1. a \in Ids /\ alert[a] # NoAlert
  BY DEF ActiveIds
<1>2. CASE s.latest = r.ev
  BY <1>1, <1>2, ResumeActiveGood DEF decide
<1> DEFINE done == \A d \in 1..(r.ev - 1) : Done(d)'
           good(m) == m \in ProcRecords /\ (proc'[w] = m /\ done => LocalState(w)')
<1>3. good(go("terminate")) /\ good(go("update"))
  BY SnapshotGood
<1>4. k.action = "triggered" => good(go("rotate"))
  <2> HAVE k.action = "triggered"
  <2>1. "rotate" \in {"update", "terminate", "rotate"}
    OBVIOUS
  <2> QED BY <2>1, SnapshotGood
<1>5. CASE s.latest # r.ev /\ k.action # "triggered"
  <2>1. decide(r, a, s) = go("terminate")
    BY <1>5 DEF decide
  <2> HIDE DEF go
  <2> QED BY <1>3, <2>1
<1>6. CASE s.latest # r.ev /\ k.action = "triggered" /\ k.sev = s.sev
  <2>1. decide(r, a, s) = go("update")
    BY <1>6 DEF decide
  <2> HIDE DEF go
  <2> QED BY <1>3, <2>1
<1>7. CASE s.latest # r.ev /\ k.action = "triggered" /\ k.sev # s.sev /\ k.sev < s.sev
  <2>1. decide(r, a, s) = go("rotate")
    BY <1>7 DEF decide
  <2> HIDE DEF go
  <2> QED BY <1>7, <1>4, <2>1
<1>8. CASE s.latest # r.ev /\ k.action = "triggered" /\ k.sev # s.sev /\ ~(k.sev < s.sev)
  BY <1>1, <1>8, SuppressedJobGood DEF decide
<1> QED BY <1>2, <1>5, <1>6, <1>7, <1>8

LEMMA FindActiveGood ==
  ASSUME ProcInv, NEW w \in Workers, FindActiveAlert(w)
  PROVE  ProcInv' /\ Grows
<1> DEFINE r == proc[w]
<1>1. /\ r.pc = "find"
      /\ UNCHANGED <<kind, repository, sent, target, answer, faults>>
  BY DEF FindActiveAlert
<1>2. /\ w \in Procs /\ r \in ProcRecords /\ r.ev \in Ids /\ r.todo = {} /\ r.hooks = <<>>
      /\ \A d \in 1..(r.ev - 1) : Done(d)'
      /\ Types /\ UNCHANGED <<alert, kind>>
  BY <1>1, Running DEF Done, repository, ProcInv
<1>3. CASE Step(w, [r EXCEPT !.pc = "ended"])
  <2> DEFINE m == [r EXCEPT !.pc = "ended"]
  <2>1. m \in ProcRecords /\ (proc'[w] = m => LocalState(w)')
    BY <1>2, MoveGood
  <2> HIDE DEF m
  <2> QED BY <1>1, <1>2, <1>3, <2>1, LocalStep DEF m
<1>4. ASSUME NEW a \in ActiveIds, Step(w, decide(r, a, alert[a]))
      PROVE  ProcInv' /\ Grows
  BY <1>1, <1>2, <1>4, DecideGood, LocalStep
<1> QED BY <1>3, <1>4 DEF FindActiveAlert

(* An alert that was ended is there, and what is read of it is final. *)
LEMMA EndedFacts ==
  ASSUME Types, NEW e, NEW a \in EndedByEvent(e)
  PROVE  /\ a \in Ids /\ alert[a] \in AlertRecords /\ alert[a] # NoAlert
         /\ alert[a].status # "active"
BY DEF EndedByEvent, Types

LEMMA ResumeEndedGood ==
  ASSUME Types, NEW w \in Workers, NEW r \in ProcRecords, r.ev \in Ids,
         r.todo = {}, r.hooks = <<>>, UNCHANGED <<alert, kind>>,
         NEW a \in EndedByEvent(r.ev)
  PROVE  /\ resumeEndedEvent(r, a, alert[a]) \in ProcRecords
         /\ /\ proc'[w] = resumeEndedEvent(r, a, alert[a])
            /\ \A d \in 1..(r.ev - 1) : Done(d)'
            => LocalState(w)'
<1> DEFINE s == alert[a]
           m == [r EXCEPT !.pc = "rotate_create", !.oldId = a, !.old = s]
<1>1. a \in Ids /\ a \in 0..N /\ s \in AlertRecords /\ s # NoAlert /\ s.status # "active"
  BY EndedFacts, LaneType DEF Ids
<1>2. CASE s.endType = "severity_upgrade" /\ kind[r.ev].action = "triggered"
  <2>1. resumeEndedEvent(r, a, s) = m
    BY <1>2 DEF resumeEndedEvent
  <2>2. /\ m \in ProcRecords /\ m.pc = "rotate_create" /\ m.ev = r.ev /\ m.todo = {}
        /\ m.hooks = <<>> /\ m.oldId = a /\ m.old = s
    BY <1>1 DEF ProcRecords, WorkerPcs
  <2> HIDE DEF m
  <2>3. ASSUME proc'[w] = m, \A d \in 1..(r.ev - 1) : Done(d)'
        PROVE  LocalState(w)'
    <3>1. Shape(w)' /\ Place(w)'
      BY <2>2, <2>3, ProcsDisjoint DEF Shape, Place, WorkerPcs
    <3>2. Promise(w)' /\ ClosePromise(w)'
      BY <2>2, <2>3 DEF Promise, ClosePromise
    <3>3. Reads(w)'
      BY <1>1, <1>2, <2>2, <2>3 DEF Reads
    <3> QED BY <3>1, <3>2, <3>3 DEF LocalState
  <2> QED BY <2>1, <2>2, <2>3
<1>3. CASE kind[r.ev].action # "triggered"
  <2>1. resumeEndedEvent(r, a, s) = TerminatedJob(r, a, s)
    BY <1>3 DEF resumeEndedEvent
  <2>2. a \in EndedByEvent(r.ev)'
    BY DEF EndedByEvent
  <2> QED BY <1>1, <2>1, <2>2, TerminatedJobGood
<1>4. CASE s.endType # "severity_upgrade" /\ kind[r.ev].action = "triggered"
  BY <1>4, NotRunningType, Returned DEF resumeEndedEvent, Return, Procs
<1> QED BY <1>2, <1>3, <1>4

(* Nothing to end and nothing ended: the result owes nothing. *)
LEMMA OrphanedGood ==
  ASSUME NEW w \in Workers, NEW r \in ProcRecords, r.ev \in Ids,
         r.todo = {}, r.hooks = <<>>, UNCHANGED kind, kind[r.ev].action # "triggered"
  PROVE  /\ Orphaned(r) \in ProcRecords
         /\ /\ proc'[w] = Orphaned(r)
            /\ \A d \in 1..(r.ev - 1) : Done(d)'
            => LocalState(w)'
<1> DEFINE f == [state |-> "orphaned", alert |-> 0, outcome |-> "orphaned"]
           m == [r EXCEPT !.pc = "finish", !.fin = f]
<1>1. f \in Results /\ f.outcome = "orphaned" /\ Orphaned(r) = m
  BY LaneType DEF Results, Orphaned
<1> HIDE DEF f
<1>2. /\ m \in ProcRecords /\ m.pc = "finish" /\ m.ev = r.ev /\ m.todo = {}
      /\ m.hooks = <<>> /\ m.fin = f
  BY <1>1 DEF ProcRecords, WorkerPcs
<1> HIDE DEF m
<1>3. ASSUME proc'[w] = m, \A d \in 1..(r.ev - 1) : Done(d)'
      PROVE  LocalState(w)'
  <2>1. Shape(w)' /\ Place(w)'
    BY <1>2, <1>3, ProcsDisjoint DEF Shape, Place, WorkerPcs
  <2>2. Promise(w)'
    BY <1>1, <1>2, <1>3 DEF Promise
  <2>3. Reads(w)' /\ ClosePromise(w)'
    BY <1>2, <1>3 DEF Reads, ClosePromise
  <2> QED BY <2>1, <2>2, <2>3 DEF LocalState
<1> QED BY <1>1, <1>2, <1>3

LEMMA FindEndedGood ==
  ASSUME ProcInv, NEW w \in Workers, FindAlertEndedByEvent(w)
  PROVE  ProcInv' /\ Grows
<1> DEFINE r == proc[w]
<1>1. /\ r.pc = "ended"
      /\ UNCHANGED <<kind, repository, sent, target, answer, faults>>
  BY DEF FindAlertEndedByEvent
<1>2. /\ w \in Procs /\ r \in ProcRecords /\ r.ev \in Ids /\ r.todo = {} /\ r.hooks = <<>>
      /\ \A d \in 1..(r.ev - 1) : Done(d)'
      /\ Types /\ UNCHANGED <<alert, kind>>
  BY <1>1, Running DEF Done, repository, ProcInv
<1>3. CASE Step(w, NotRunning)
  BY <1>1, <1>2, <1>3, ReturnStep
<1>4. ASSUME NEW a \in EndedByEvent(r.ev), Step(w, resumeEndedEvent(r, a, alert[a]))
      PROVE  ProcInv' /\ Grows
  BY <1>1, <1>2, <1>4, ResumeEndedGood, LocalStep
<1>5. CASE kind[r.ev].action = "triggered" /\ Step(w, [r EXCEPT !.pc = "create"])
  <2> DEFINE m == [r EXCEPT !.pc = "create"]
  <2>1. m \in ProcRecords /\ (proc'[w] = m => LocalState(w)')
    BY <1>2, <1>5, MoveGood
  <2> HIDE DEF m
  <2> QED BY <1>1, <1>2, <1>5, <2>1, LocalStep DEF m
<1>6. CASE kind[r.ev].action # "triggered" /\ Step(w, Orphaned(r))
  BY <1>1, <1>2, <1>6, OrphanedGood, LocalStep
<1> QED BY <1>3, <1>4, <1>5, <1>6 DEF FindAlertEndedByEvent, Return

LEMMA GetConflictingGood ==
  ASSUME ProcInv, NEW w \in Workers, GetConflicting(w)
  PROVE  ProcInv' /\ Grows
<1> DEFINE r == proc[w]
<1>1. /\ r.pc = "conflict" /\ Step(w, AfterConflict(r, alert[r.ev]))
      /\ UNCHANGED <<kind, repository, sent, target, answer, faults>>
  BY DEF GetConflicting
<1>2. /\ w \in Procs /\ r \in ProcRecords /\ r.ev \in Ids /\ r.todo = {} /\ r.hooks = <<>>
      /\ \A d \in 1..(r.ev - 1) : Done(d)'
      /\ Types /\ UNCHANGED <<alert, kind>>
  BY <1>1, Running DEF Done, repository, ProcInv
<1>3. /\ AfterConflict(r, alert[r.ev]) \in ProcRecords
      /\ proc'[w] = AfterConflict(r, alert[r.ev]) => LocalState(w)'
  BY <1>2, RetryGood, ResumeActiveGood DEF AfterConflict
<1> QED BY <1>1, <1>2, <1>3, LocalStep

LEMMA GetRotatedGood ==
  ASSUME ProcInv, NEW w \in Workers, GetRotated(w)
  PROVE  ProcInv' /\ Grows
<1> DEFINE r == proc[w]
<1>1. /\ r.pc = "rotate_conflict" /\ Step(w, AfterRotateConflict(r, alert[r.ev]))
      /\ UNCHANGED <<kind, repository, sent, target, answer, faults>>
  BY DEF GetRotated
<1>2. /\ w \in Procs /\ r \in ProcRecords /\ r.ev \in Ids /\ r.todo = {} /\ r.hooks = <<>>
      /\ \A d \in 1..(r.ev - 1) : Done(d)'
      /\ Types /\ UNCHANGED <<alert, kind>>
      /\ r.oldId \in Ids /\ r.old \in AlertRecords /\ alert[r.oldId] = r.old
      /\ alert[r.ev] \in AlertRecords \cup {NoAlert}
  BY <1>1, Running DEF Done, repository, ProcInv, Reads, Types
<1>3. /\ AfterRotateConflict(r, alert[r.ev]) \in ProcRecords
      /\ proc'[w] = AfterRotateConflict(r, alert[r.ev]) => LocalState(w)'
  <2>1. CASE alert[r.ev] = NoAlert
    BY <1>2, <2>1, NotRunningType, Returned DEF AfterRotateConflict, Return
  <2>2. CASE alert[r.ev] # NoAlert /\ alert[r.ev].status # "active"
    BY <1>2, <2>2, RetryGood DEF AfterRotateConflict
  <2>3. CASE alert[r.ev] # NoAlert /\ alert[r.ev].status = "active"
    BY <1>2, <2>3, RotationGood DEF AfterRotateConflict
  <2> QED BY <2>1, <2>2, <2>3
<1> QED BY <1>1, <1>2, <1>3, LocalStep

LEMMA ResumeOpenedGood ==
  ASSUME ProcInv, NEW w \in Workers, ResumeOpened(w)
  PROVE  ProcInv' /\ Grows
<1> DEFINE r == proc[w]
<1>1. /\ r.pc = "resume"
      /\ UNCHANGED <<kind, repository, sent, target, answer, faults>>
  BY DEF ResumeOpened
<1>2. /\ w \in Procs /\ r \in ProcRecords /\ r.ev \in Ids /\ r.todo = {} /\ r.hooks = <<>>
      /\ \A d \in 1..(r.ev - 1) : Done(d)'
      /\ Types /\ UNCHANGED <<alert, kind>>
      /\ r.id = r.ev /\ r.snap \in AlertRecords /\ alert[r.ev] # NoAlert
  BY <1>1, Running DEF Done, repository, ProcInv, Reads
<1>3. CASE Step(w, NotRunning)
  BY <1>1, <1>2, <1>3, ReturnStep
<1>4. ASSUME NEW a \in EndedByEvent(r.ev),
             Step(w, finishRotation(r, a, alert[a], r.id, r.snap))
      PROVE  ProcInv' /\ Grows
  <2>1. a \in Ids /\ alert[a] \in AlertRecords
    BY <1>2, EndedFacts
  <2> QED BY <1>1, <1>2, <1>4, <2>1, RotationGood, LocalStep
<1>5. CASE Step(w, CreatedJob(r, r.id, r.snap))
  BY <1>1, <1>2, <1>5, CreatedJobGood, LocalStep
<1> QED BY <1>3, <1>4, <1>5 DEF ResumeOpened, Return

-----------------------------------------------------------------------------
(* Steps that write an alert. *)

LEMMA WriteStep ==
  ASSUME ProcInv, NEW p \in Procs, NEW r \in ProcRecords, Step(p, r),
         UNCHANGED <<kind, event, logs, sent, target, answer, faults>>,
         alert' \in [Ids -> AlertRecords \cup {NoAlert}], Grows, StoreState',
         proc'[p] = r => LocalState(p)'
  PROVE  ProcInv' /\ Grows
<1>1. Types
  BY DEF ProcInv
<1>2. /\ proc' \in [Procs -> ProcRecords] /\ proc'[p] = r
      /\ \A q \in Procs \ {p} : proc'[q] = proc[q]
      /\ \A q \in Procs : /\ proc'[q].try \in 0..maxCASAttempts
                          /\ proc'[q].todo \subseteq LogRecords
                          /\ proc'[q].fin \in Results
      /\ holder' \in Workers \cup {Nobody} /\ lost' \in 0..MaxLost
  BY <1>1, StepTypes
<1>3. Types'
  BY <1>1, <1>2 DEF Types, TypeOK
<1>4. ResultState'
  BY <1>1, BackedStays DEF ProcInv
<1>5. CloseState'
  BY <1>1, ClosesStay DEF ProcInv
<1> QED BY <1>2, <1>3, <1>4, <1>5, StepOf

LEMMA NewAlertType ==
  ASSUME Types, NEW e \in Ids
  PROVE  newAlert(e) \in AlertRecords /\ newAlert(e) # NoAlert
<1>1. kind[e] \in Kinds
  BY DEF Types, TypeOK
<1>2. kind[e].sev \in Nat
  BY <1>1, KindsType
<1>3. newAlert(e) \in AlertRecords
  BY <1>2, LaneType DEF newAlert, AlertRecords
<1> QED BY <1>3, NoAlertType

(* A new alert is the only active one. *)
LEMMA CreateStore ==
  ASSUME Types, StoreState, NEW e \in Ids, CanCreate(e),
         kind[e].action = "triggered", \A d \in 1..(e - 1) : Done(d),
         alert' = [alert EXCEPT ![e] = newAlert(e)],
         UNCHANGED <<kind, event, logs>>
  PROVE  /\ alert' \in [Ids -> AlertRecords \cup {NoAlert}]
         /\ Grows /\ StoreState' /\ alert'[e] = newAlert(e)
<1>1. newAlert(e) \in AlertRecords /\ newAlert(e) # NoAlert
  BY NewAlertType
<1>2. /\ alert' \in [Ids -> AlertRecords \cup {NoAlert}] /\ alert'[e] = newAlert(e)
      /\ \A a \in Ids \ {e} : alert'[a] = alert[a]
  BY <1>1 DEF Types
<1>3. Grows
  BY <1>2 DEF Grows, CanCreate
<1>4. \A a \in ActiveIds' : a = e
  BY <1>2 DEF CanCreate, ActiveIds
<1>5. \A a \in Ids : alert'[a] # NoAlert =>
        kind'[a].action = "triggered" /\ \A d \in 1..(a - 1) : Done(d)'
  BY <1>2 DEF StoreState, Done
<1>6. StoreState'
  BY <1>4, <1>5 DEF StoreState
<1> QED BY <1>2, <1>3, <1>6

LEMMA CreateAlertGood ==
  ASSUME ProcInv, NEW w \in Workers, CreateAlert(w)
  PROVE  ProcInv' /\ Grows
<1> DEFINE r == proc[w]
<1>1. /\ r.pc = "create"
      /\ UNCHANGED <<kind, event, logs, sent, target, answer, faults>>
  BY DEF CreateAlert
<1>2. /\ w \in Procs /\ r \in ProcRecords /\ r.ev \in Ids /\ r.todo = {} /\ r.hooks = <<>>
      /\ \A d \in 1..(r.ev - 1) : Done(d) /\ Done(d)'
      /\ Types /\ StoreState /\ kind[r.ev].action = "triggered"
  BY <1>1, Running DEF Done, ProcInv, Reads
<1>3. CASE /\ CanCreate(r.ev)
           /\ alert' = [alert EXCEPT ![r.ev] = newAlert(r.ev)]
           /\ Step(w, CreatedJob(r, r.ev, newAlert(r.ev)))
  <2>1. /\ alert' \in [Ids -> AlertRecords \cup {NoAlert}]
        /\ Grows /\ StoreState' /\ alert'[r.ev] = newAlert(r.ev)
    BY <1>1, <1>2, <1>3, CreateStore
  <2>2. newAlert(r.ev) \in AlertRecords /\ newAlert(r.ev) # NoAlert
    BY <1>2, NewAlertType
  <2>3. /\ CreatedJob(r, r.ev, newAlert(r.ev)) \in ProcRecords
        /\ proc'[w] = CreatedJob(r, r.ev, newAlert(r.ev)) => LocalState(w)'
    BY <1>2, <2>1, <2>2, CreatedJobGood
  <2> QED BY <1>1, <1>2, <1>3, <2>1, <2>3, WriteStep
<1>4. CASE /\ CreateIsRepeated(r.ev) /\ UNCHANGED alert
           /\ Step(w, CreatedJob(r, r.ev, alert[r.ev]))
  <2>1. alert[r.ev] \in AlertRecords /\ alert'[r.ev] # NoAlert
    BY <1>2, <1>4 DEF CreateIsRepeated, Types
  <2>2. /\ CreatedJob(r, r.ev, alert[r.ev]) \in ProcRecords
        /\ proc'[w] = CreatedJob(r, r.ev, alert[r.ev]) => LocalState(w)'
    BY <1>2, <2>1, CreatedJobGood
  <2> QED BY <1>1, <1>2, <1>4, <2>2, LocalStep DEF repository
<1>5. CASE Step(w, [r EXCEPT !.pc = "conflict"]) /\ UNCHANGED alert
  <2> DEFINE m == [r EXCEPT !.pc = "conflict"]
  <2>1. m \in ProcRecords /\ (proc'[w] = m => LocalState(w)')
    BY <1>1, <1>2, MoveGood
  <2> HIDE DEF m
  <2> QED BY <1>1, <1>2, <1>5, <2>1, LocalStep DEF m, repository
<1> QED BY <1>3, <1>4, <1>5 DEF CreateAlert

LEMMA CreateRotatedGood ==
  ASSUME ProcInv, NEW w \in Workers, CreateRotated(w)
  PROVE  ProcInv' /\ Grows
<1> DEFINE r == proc[w]
<1>1. /\ r.pc = "rotate_create"
      /\ UNCHANGED <<kind, event, logs, sent, target, answer, faults>>
  BY DEF CreateRotated
<1>2. /\ w \in Procs /\ r \in ProcRecords /\ r.ev \in Ids /\ r.todo = {} /\ r.hooks = <<>>
      /\ \A d \in 1..(r.ev - 1) : Done(d) /\ Done(d)'
      /\ Types /\ StoreState /\ kind[r.ev].action = "triggered"
      /\ r.oldId \in Ids /\ r.old \in AlertRecords /\ alert[r.oldId] = r.old
      /\ r.old.status # "active" /\ r.old # NoAlert
  BY <1>1, Running, NoAlertType DEF Done, ProcInv, Reads
<1>3. CASE /\ CanCreate(r.ev)
           /\ alert' = [alert EXCEPT ![r.ev] = newAlert(r.ev)]
           /\ Step(w, finishRotation(r, r.oldId, r.old, r.ev, newAlert(r.ev)))
  <2>1. /\ alert' \in [Ids -> AlertRecords \cup {NoAlert}]
        /\ Grows /\ StoreState' /\ alert'[r.ev] = newAlert(r.ev)
    BY <1>1, <1>2, <1>3, CreateStore
  <2>2. newAlert(r.ev) \in AlertRecords /\ newAlert(r.ev) # NoAlert
    BY <1>2, NewAlertType
  <2>3. alert'[r.oldId] = r.old
    BY <1>2, <2>1, AlertsStay
  <2>4. /\ finishRotation(r, r.oldId, r.old, r.ev, newAlert(r.ev)) \in ProcRecords
        /\ proc'[w] = finishRotation(r, r.oldId, r.old, r.ev, newAlert(r.ev))
             => LocalState(w)'
    BY <1>2, <2>1, <2>2, <2>3, RotationGood
  <2> QED BY <1>1, <1>2, <1>3, <2>1, <2>4, WriteStep
<1>4. CASE /\ CreateIsRepeated(r.ev) /\ UNCHANGED alert
           /\ Step(w, finishRotation(r, r.oldId, r.old, r.ev, alert[r.ev]))
  <2>1. alert[r.ev] \in AlertRecords /\ alert'[r.ev] # NoAlert
    BY <1>2, <1>4 DEF CreateIsRepeated, Types
  <2>2. /\ finishRotation(r, r.oldId, r.old, r.ev, alert[r.ev]) \in ProcRecords
        /\ proc'[w] = finishRotation(r, r.oldId, r.old, r.ev, alert[r.ev])
             => LocalState(w)'
    BY <1>2, <1>4, <2>1, RotationGood
  <2> QED BY <1>1, <1>2, <1>4, <2>2, LocalStep DEF repository
<1>5. CASE Step(w, [r EXCEPT !.pc = "rotate_conflict"]) /\ UNCHANGED alert
  <2> DEFINE m == [r EXCEPT !.pc = "rotate_conflict"]
  <2>1. /\ m \in ProcRecords /\ m.pc = "rotate_conflict" /\ m.ev = r.ev /\ m.todo = {}
        /\ m.hooks = <<>> /\ m.oldId = r.oldId /\ m.old = r.old
    BY <1>2 DEF ProcRecords, WorkerPcs
  <2> HIDE DEF m
  <2>2. ASSUME proc'[w] = m PROVE LocalState(w)'
    <3>1. Shape(w)' /\ Place(w)'
      BY <1>2, <2>1, <2>2, ProcsDisjoint DEF Shape, Place, WorkerPcs
    <3>2. Promise(w)' /\ ClosePromise(w)'
      BY <2>1, <2>2 DEF Promise, ClosePromise
    <3>3. Reads(w)'
      BY <1>1, <1>2, <1>5, <2>1, <2>2 DEF Reads
    <3> QED BY <3>1, <3>2, <3>3 DEF LocalState
  <2> QED BY <1>1, <1>2, <1>5, <2>1, <2>2, LocalStep DEF m, repository
<1> QED BY <1>3, <1>4, <1>5 DEF CreateRotated

(* A replaced alert was the active one, so no other is active now. *)
LEMMA CasStore ==
  ASSUME Types, StoreState, NEW a, NEW old, Current(a, old), old.status = "active",
         VersionIs(a, old), NEW s \in AlertRecords, s.rev > old.rev,
         alert' = [alert EXCEPT ![a] = s], UNCHANGED <<kind, event, logs>>
  PROVE  /\ alert' \in [Ids -> AlertRecords \cup {NoAlert}]
         /\ Grows /\ StoreState' /\ alert'[a] = s /\ s # NoAlert
<1>1. a \in Ids /\ alert[a] = old /\ alert[a] # NoAlert
  BY DEF Current, VersionIs
<1>2. /\ alert' \in [Ids -> AlertRecords \cup {NoAlert}] /\ alert'[a] = s
      /\ \A b \in Ids \ {a} : alert'[b] = alert[b]
  BY <1>1 DEF Types
<1>3. Grows
  BY <1>1, <1>2 DEF Grows
<1>4. \A b \in ActiveIds' : b = a
  BY <1>1, <1>2 DEF StoreState, ActiveIds
<1>5. \A b \in Ids : alert'[b] # NoAlert =>
        kind'[b].action = "triggered" /\ \A d \in 1..(b - 1) : Done(d)'
  BY <1>1, <1>2 DEF StoreState, Done
<1>6. StoreState'
  BY <1>4, <1>5 DEF StoreState
<1> QED BY <1>2, <1>3, <1>6, NoAlertType

(* What updateAlert, terminateAlert, rotateAlert and CloseAlert write. *)
LEMMA ReplacementTypes ==
  ASSUME NEW s \in AlertRecords, NEW e \in Ids
  PROVE  /\ updatedAlert(s, e) \in AlertRecords /\ updatedAlert(s, e).rev > s.rev
         /\ sourceTerminalAlert(s, e) \in AlertRecords
         /\ sourceTerminalAlert(s, e).rev > s.rev
         /\ sourceTerminalAlert(s, e).status # "active"
         /\ sourceTerminalAlert(s, e).endType = "source"
         /\ sourceTerminalAlert(s, e).latest = e
         /\ severityUpgradeAlert(s, e) \in AlertRecords
         /\ severityUpgradeAlert(s, e).rev > s.rev
         /\ severityUpgradeAlert(s, e).status # "active"
<1>1. s.rev \in Nat \ {0} /\ s.rev + 1 \in Nat \ {0} /\ s.rev + 1 > s.rev
  BY DEF AlertRecords
<1>2. e \in 0..N
  BY LaneType DEF Ids
<1>3. updatedAlert(s, e) \in AlertRecords /\ updatedAlert(s, e).rev > s.rev
  BY <1>1 DEF updatedAlert, AlertRecords
<1>4. /\ sourceTerminalAlert(s, e) \in AlertRecords
      /\ sourceTerminalAlert(s, e).rev > s.rev
      /\ sourceTerminalAlert(s, e).status # "active"
      /\ sourceTerminalAlert(s, e).endType = "source"
      /\ sourceTerminalAlert(s, e).latest = e
  BY <1>1, <1>2 DEF sourceTerminalAlert, AlertRecords
<1>5. /\ severityUpgradeAlert(s, e) \in AlertRecords
      /\ severityUpgradeAlert(s, e).rev > s.rev
      /\ severityUpgradeAlert(s, e).status # "active"
  BY <1>1, <1>2 DEF severityUpgradeAlert, AlertRecords
<1> QED BY <1>3, <1>4, <1>5

LEMMA OperatorCloseType ==
  ASSUME NEW s \in AlertRecords, NEW o \in Commands
  PROVE  LET c == operatorClosedAlert(s, o) IN
         /\ c \in AlertRecords /\ c.rev > s.rev
         /\ c.status = "closed" /\ c.endType = "operator" /\ c.endBy = StampOf[o]
<1>1. s.rev \in Nat \ {0} /\ s.rev + 1 \in Nat \ {0} /\ s.rev + 1 > s.rev
  BY DEF AlertRecords
<1>2. StampOf[o] \in 0..N \cup {StampOf[c] : c \in Commands}
  OBVIOUS
<1> QED BY <1>1, <1>2 DEF operatorClosedAlert, AlertRecords

(* The successful write of updateAlert, terminateAlert and rotateAlert. *)
LEMMA AfterWriteGood ==
  ASSUME Types, NEW w \in Workers, NEW r \in ProcRecords, r.ev \in Ids,
         r.todo = {}, r.hooks = <<>>, r.pc \in {"update", "terminate", "rotate"},
         r.id \in Ids, r.snap \in AlertRecords, UNCHANGED kind,
         r.pc = "rotate" => kind[r.ev].action = "triggered"
  PROVE  LET s == Replacement(r) IN
         /\ s \in AlertRecords /\ s.rev > r.snap.rev
         /\ AfterWrite(r, s) \in ProcRecords
         /\ /\ proc'[w] = AfterWrite(r, s) /\ alert'[r.id] = s
            /\ \A d \in 1..(r.ev - 1) : Done(d)'
            => LocalState(w)'
<1> DEFINE s == Replacement(r)
           m == [r EXCEPT !.pc = "rotate_create", !.oldId = r.id, !.old = s]
<1>1. CASE r.pc = "update"
  <2>1. /\ s \in AlertRecords /\ s.rev > r.snap.rev /\ s # NoAlert
        /\ AfterWrite(r, s) = UpdatedJob(r, r.id, s)
    <3>1. s = updatedAlert(r.snap, r.ev) /\ AfterWrite(r, s) = UpdatedJob(r, r.id, s)
      BY <1>1 DEF Replacement, AfterWrite
    <3> HIDE DEF s
    <3> QED BY <3>1, ReplacementTypes, NoAlertType
  <2> HIDE DEF s
  <2> QED BY <2>1, UpdatedJobGood DEF s
<1>2. CASE r.pc = "terminate"
  <2>1. /\ s \in AlertRecords /\ s.rev > r.snap.rev /\ s # NoAlert
        /\ AfterWrite(r, s) = TerminatedJob(r, r.id, s)
        /\ s.status # "active" /\ s.endType = "source" /\ s.latest = r.ev
    <3>1. s = sourceTerminalAlert(r.snap, r.ev) /\ AfterWrite(r, s) = TerminatedJob(r, r.id, s)
      BY <1>2 DEF Replacement, AfterWrite
    <3> HIDE DEF s
    <3>2. /\ s \in AlertRecords /\ s.rev > r.snap.rev
          /\ s.status # "active" /\ s.endType = "source" /\ s.latest = r.ev
      BY <3>1, ReplacementTypes, Zenon
    <3> QED BY <3>1, <3>2, NoAlertType, Zenon
  <2> HIDE DEF s
  <2>2. alert'[r.id] = s => r.id \in EndedByEvent(r.ev)'
    BY <2>1 DEF EndedByEvent
  <2> QED BY <2>1, <2>2, TerminatedJobGood DEF s
<1>3. CASE r.pc = "rotate"
  <2>1. /\ s \in AlertRecords /\ s.rev > r.snap.rev /\ s.status # "active"
        /\ AfterWrite(r, s) = m
    BY <1>3, ReplacementTypes DEF Replacement, AfterWrite
  <2> HIDE DEF s
  <2>2. /\ m \in ProcRecords /\ m.pc = "rotate_create" /\ m.ev = r.ev /\ m.todo = {}
        /\ m.hooks = <<>> /\ m.oldId = r.id /\ m.old = s
    BY <2>1 DEF ProcRecords, WorkerPcs
  <2> HIDE DEF m
  <2>3. ASSUME proc'[w] = m, alert'[r.id] = s, \A d \in 1..(r.ev - 1) : Done(d)'
        PROVE  LocalState(w)'
    <3>1. Shape(w)' /\ Place(w)'
      BY <2>2, <2>3, ProcsDisjoint DEF Shape, Place, WorkerPcs
    <3>2. Promise(w)' /\ ClosePromise(w)'
      BY <2>2, <2>3 DEF Promise, ClosePromise
    <3>3. Reads(w)'
      BY <1>3, <2>1, <2>2, <2>3 DEF Reads
    <3> QED BY <3>1, <3>2, <3>3 DEF LocalState
  <2> QED BY <2>1, <2>2, <2>3 DEF s
<1> QED BY <1>1, <1>2, <1>3

LEMMA CompareAndSetGood ==
  ASSUME ProcInv, NEW w \in Workers, CompareAndSetAlert(w)
  PROVE  ProcInv' /\ Grows
<1> DEFINE r == proc[w]
           s == Replacement(r)
<1>1. /\ r.pc \in {"update", "terminate", "rotate"}
      /\ UNCHANGED <<kind, event, logs, sent, target, answer, faults>>
  BY DEF CompareAndSetAlert
<1>2. /\ w \in Procs /\ r \in ProcRecords /\ r.ev \in Ids /\ r.todo = {} /\ r.hooks = <<>>
      /\ \A d \in 1..(r.ev - 1) : Done(d)'
      /\ Types /\ StoreState
      /\ Current(r.id, r.snap) /\ r.snap.status = "active"
      /\ r.pc = "rotate" => kind[r.ev].action = "triggered"
  BY <1>1, Running DEF Done, ProcInv, Reads
<1>3. /\ s \in AlertRecords /\ s.rev > r.snap.rev
      /\ AfterWrite(r, s) \in ProcRecords
      /\ proc'[w] = AfterWrite(r, s) /\ alert'[r.id] = s => LocalState(w)'
  BY <1>1, <1>2, AfterWriteGood DEF Current
<1> HIDE DEF s
<1>4. CASE /\ VersionIs(r.id, r.snap) /\ alert' = [alert EXCEPT ![r.id] = s]
           /\ Step(w, AfterWrite(r, s))
  <2>1. /\ alert' \in [Ids -> AlertRecords \cup {NoAlert}]
        /\ Grows /\ StoreState' /\ alert'[r.id] = s
    <3> DEFINE a == r.id
               old == r.snap
    <3>1. /\ Types /\ StoreState /\ Current(a, old) /\ old.status = "active"
          /\ VersionIs(a, old) /\ s \in AlertRecords /\ s.rev > old.rev
          /\ alert' = [alert EXCEPT ![a] = s] /\ UNCHANGED <<kind, event, logs>>
      BY <1>1, <1>2, <1>3, <1>4
    <3> HIDE DEF a, old
    <3>2. /\ alert' \in [Ids -> AlertRecords \cup {NoAlert}]
          /\ Grows /\ StoreState' /\ alert'[a] = s
      BY <3>1, CasStore
    <3> QED BY <3>2 DEF a
  <2> QED BY <1>1, <1>2, <1>3, <1>4, <2>1, WriteStep
<1>5. CASE Step(w, RetryDecision(r)) /\ UNCHANGED alert
  <2>1. /\ RetryDecision(r) \in ProcRecords
        /\ proc'[w] = RetryDecision(r) => LocalState(w)'
    BY <1>2, RetryGood
  <2>2. Grows
    BY <1>1, <1>2, <1>5, QuietGrows
  <2> QED BY <1>1, <1>2, <1>5, <2>1, <2>2, LocalStep DEF repository
<1> QED BY <1>4, <1>5 DEF CompareAndSetAlert, s

-----------------------------------------------------------------------------
(* CloseAlert. *)

(* A step of p that changes neither alerts nor results. *)
LEMMA OutputStep ==
  ASSUME ProcInv, NEW p \in Procs, NEW r \in ProcRecords, Step(p, r),
         UNCHANGED <<kind, event, alert>>, logs \subseteq logs', logs' \subseteq LogRecords,
         sent' \subseteq Ids \X Nat, faults' \in 0..MaxFaults,
         target' \in [Commands -> 0..N],
         answer' \in [Commands -> {"none", "ok", "rejected"}],
         \A q \in Commands \ {p} : target'[q] = target[q],
         proc'[p] = r => LocalState(p)', CloseState'
  PROVE  ProcInv' /\ Grows
<1>1. Types
  BY DEF ProcInv
<1>2. /\ proc' \in [Procs -> ProcRecords] /\ proc'[p] = r
      /\ \A q \in Procs \ {p} : proc'[q] = proc[q]
      /\ \A q \in Procs : /\ proc'[q].try \in 0..maxCASAttempts
                          /\ proc'[q].todo \subseteq LogRecords
                          /\ proc'[q].fin \in Results
      /\ holder' \in Workers \cup {Nobody} /\ lost' \in 0..MaxLost
  BY <1>1, StepTypes
<1>3. Types'
  BY <1>1, <1>2 DEF Types, TypeOK
<1>4. Grows
  BY <1>1, QuietGrows
<1>5. StoreState'
  BY <1>1, <1>4, StoreKept DEF ProcInv
<1>6. ResultState'
  BY <1>1, <1>4, <1>5, BackedStays DEF ProcInv
<1> QED BY <1>2, <1>3, <1>4, <1>5, <1>6, StepOf

(* The same without a new answer or target. *)
LEMMA SilentStep ==
  ASSUME ProcInv, NEW p \in Procs, NEW r \in ProcRecords, Step(p, r),
         UNCHANGED <<kind, event, alert, target, answer>>,
         logs \subseteq logs', logs' \subseteq LogRecords,
         sent' \subseteq Ids \X Nat, faults' \in 0..MaxFaults,
         proc'[p] = r => LocalState(p)'
  PROVE  ProcInv' /\ Grows
<1>1. /\ target' \in [Commands -> 0..N]
      /\ answer' \in [Commands -> {"none", "ok", "rejected"}]
  BY DEF ProcInv, Types, TypeOK
<1>2. CloseState'
  BY ClosesStay, QuietGrows DEF ProcInv
<1> QED BY <1>1, <1>2, OutputStep

(* What a running command starts from. *)
LEMMA RunningCommand ==
  ASSUME ProcInv, NEW o \in Commands, proc[o].pc # "idle"
  PROVE  /\ o \in Procs /\ o \notin Workers
         /\ proc[o] \in ProcRecords /\ proc[o].id \in Ids /\ target[o] = proc[o].id
         /\ proc[o].pc \notin {"hooks", "logs"} => proc[o].todo = {}
         /\ proc[o].pc # "hooks" => proc[o].hooks = <<>>
         /\ Reads(o) /\ ClosePromise(o)
<1>1. o \in Procs /\ o \notin Workers
  BY ProcsDisjoint DEF Procs
<1> QED BY <1>1 DEF ProcInv, Types, LocalState, Shape

(* A command that is not yet past its write. *)
LEMMA CommandGood ==
  ASSUME NEW o \in Commands, NEW m \in ProcRecords, proc'[o] = m,
         m.pc \in {"close_get", "close_cas"}, m.id \in Ids, target'[o] = m.id,
         m.todo = {}, m.hooks = <<>>,
         m.pc = "close_get" => alert'[m.id] # NoAlert,
         m.pc = "close_cas" => Current(m.id, m.snap)' /\ m.snap.status = "active"
  PROVE  LocalState(o)'
<1>1. Shape(o)' /\ Place(o)'
  BY ProcsDisjoint DEF Shape, Place, CommandPcs
<1>2. Promise(o)' /\ ClosePromise(o)'
  BY DEF Promise, ClosePromise
<1>3. Reads(o)'
  BY DEF Reads
<1> QED BY <1>1, <1>2, <1>3 DEF LocalState

(* A command whose close is stored. *)
LEMMA CloseJobGood ==
  ASSUME NEW o \in Commands, NEW r \in ProcRecords, r.id \in Ids, NEW s \in AlertRecords
  PROVE  /\ CloseJob(o, r, s) \in ProcRecords /\ IsJob(r, CloseJob(o, r, s))
         /\ /\ proc'[o] = CloseJob(o, r, s) /\ target'[o] = r.id
            /\ ClosedBy(o, r.id)'
            => LocalState(o)'
<1> DEFINE hs == <<Hook(r.id, s)>>
           l == eventAlertLog(o, r.id, "close", s.rev)
           t == {l}
<1>1. hs \in Seq(HookRecords) /\ Len(hs) = 1 /\ hs[1].id = r.id /\ s.rev \in Nat
      /\ hs # <<>>
  BY HookType, OneHook
<1>2. l \in LogRecords /\ l.cause = o /\ l.alert = r.id /\ l.op = "close"
  BY <1>1, LogType DEF Causes, LogOps
<1>3. Unprocessed \in Results
  BY LaneType DEF Unprocessed, Results
<1>4. CloseJob(o, r, s) = Job(r, hs, t, Unprocessed) /\ t \in SUBSET LogRecords /\ l \in t
  BY <1>2 DEF CloseJob
<1> HIDE DEF hs, l, t
<1>5. /\ CloseJob(o, r, s) \in ProcRecords /\ IsJob(r, CloseJob(o, r, s))
      /\ CloseJob(o, r, s).pc = "hooks" /\ CloseJob(o, r, s).hooks = hs
      /\ CloseJob(o, r, s).todo = t /\ CloseJob(o, r, s).id = r.id
  BY <1>1, <1>3, <1>4, JobFields DEF IsJob
<1>6. ASSUME proc'[o] = CloseJob(o, r, s), target'[o] = r.id, ClosedBy(o, r.id)'
      PROVE  LocalState(o)'
  <2>1. Shape(o)' /\ Reads(o)' /\ Place(o)' /\ Promise(o)'
    BY <1>1, <1>5, <1>6, ProcsDisjoint DEF Shape, Reads, Place, Promise, CommandPcs
  <2>2. Owes(o, o, r.id, "close")' /\ OwesPush(o, o, r.id)'
    BY <1>1, <1>2, <1>4, <1>5, <1>6 DEF Owes, OwesPush
  <2>3. ClosePromise(o)'
    BY <1>5, <1>6, <2>2 DEF ClosePromise
  <2> QED BY <2>1, <2>3 DEF LocalState
<1> QED BY <1>5, <1>6

LEMMA BeginCloseGood ==
  ASSUME ProcInv, NEW o \in Commands, NEW a \in Ids, BeginClose(o, a)
  PROVE  ProcInv' /\ Grows
<1> DEFINE m == [NotRunning EXCEPT !.pc = "close_get", !.id = a, !.try = 1]
<1>1. NotRunning \in ProcRecords /\ NotRunning.todo = {} /\ NotRunning.hooks = <<>>
  BY NotRunningType DEF NotRunning
<1>2. a \in 0..N /\ 1 \in 0..maxCASAttempts
  BY LaneType DEF Ids
<1>3. m \in ProcRecords /\ m.pc = "close_get" /\ m.id = a /\ m.todo = {} /\ m.hooks = <<>>
  BY <1>1, <1>2 DEF ProcRecords, CommandPcs
<1> HIDE DEF m
<1>4. /\ alert[a] # NoAlert /\ Step(o, m) /\ target[o] \in {0, a}
      /\ target' = [target EXCEPT ![o] = a] /\ o \in Procs
      /\ UNCHANGED <<kind, event, alert, logs, sent, answer, faults>>
  BY DEF BeginClose, IssueClose, repository, m, Procs
<1>5. /\ target \in [Commands -> 0..N] /\ logs \subseteq LogRecords
      /\ answer' \in [Commands -> {"none", "ok", "rejected"}]
      /\ sent' \subseteq Ids \X Nat /\ faults' \in 0..MaxFaults
  BY <1>4 DEF ProcInv, Types, TypeOK
<1>6. /\ target' \in [Commands -> 0..N] /\ target'[o] = a
      /\ \A q \in Commands \ {o} : target'[q] = target[q]
  BY <1>2, <1>4, <1>5
<1>7. ASSUME NEW q \in Commands, answer'[q] = "ok"
      PROVE  answer[q] = "ok" /\ target'[q] = target[q]
  <2>1. answer[q] = "ok" /\ target[q] \in Ids
    BY <1>4, <1>7 DEF ProcInv, CloseState, ClosedBy
  <2>2. 0 \notin Ids
    BY LaneType DEF Ids
  <2> QED BY <1>4, <1>6, <2>1, <2>2
<1>8. CloseState'
  BY <1>4, <1>7, ClosesStay, QuietGrows DEF ProcInv
<1>9. proc'[o] = m => LocalState(o)'
  BY <1>3, <1>4, <1>6, CommandGood
<1> QED BY <1>3, <1>4, <1>5, <1>6, <1>8, <1>9, OutputStep

LEMMA CloseGetGood ==
  ASSUME ProcInv, NEW o \in Commands, CloseGet(o)
  PROVE  ProcInv' /\ Grows
<1> SUFFICES ASSUME NEW r, r = proc[o], NEW s, s = alert[r.id]
             PROVE  ProcInv' /\ Grows
  OBVIOUS
<1>1. /\ r.pc = "close_get" /\ CloseFound(o, s)
      /\ UNCHANGED <<kind, event, alert, logs, sent, target, faults>>
  BY DEF CloseGet, CloseFound, repository
<1>2. /\ o \in Procs /\ r \in ProcRecords /\ r.id \in Ids /\ target[o] = r.id
      /\ r.todo = {} /\ r.hooks = <<>>
      /\ s # NoAlert /\ s \in AlertRecords /\ s.rev \in Nat
  <2>1. /\ o \in Procs /\ r \in ProcRecords /\ r.id \in Ids /\ target[o] = r.id
        /\ r.todo = {} /\ r.hooks = <<>> /\ s # NoAlert
    BY <1>1, RunningCommand DEF Reads
  <2> QED BY <2>1 DEF ProcInv, Types, AlertRecords
<1>3. /\ target' \in [Commands -> 0..N] /\ logs \subseteq LogRecords
      /\ answer \in [Commands -> {"none", "ok", "rejected"}]
      /\ sent' \subseteq Ids \X Nat /\ faults' \in 0..MaxFaults
  BY <1>1 DEF ProcInv, Types, TypeOK
<1>4. CASE /\ s.status = "active" /\ Step(o, [r EXCEPT !.pc = "close_cas", !.snap = s])
           /\ UNCHANGED answer
  <2> DEFINE m == [r EXCEPT !.pc = "close_cas", !.snap = s]
  <2>1. /\ m \in ProcRecords /\ m.pc = "close_cas" /\ m.id = r.id /\ m.snap = s
        /\ m.todo = {} /\ m.hooks = <<>>
    BY <1>2 DEF ProcRecords, CommandPcs
  <2>2. Current(r.id, s)'
    BY <1>1, <1>2 DEF Current
  <2> HIDE DEF m
  <2>3. Current(m.id, m.snap)'
    BY <2>1, <2>2, <1>1 DEF Current
  <2>4. proc'[o] = m => LocalState(o)'
    BY <1>1, <1>2, <1>4, <2>1, <2>3, CommandGood
  <2> QED BY <1>1, <1>2, <1>3, <1>4, <2>1, <2>4, SilentStep DEF m
<1>5. CASE SameClose(s, o) /\ Step(o, CloseJob(o, r, s)) /\ UNCHANGED answer
  <2>1. ClosedBy(o, r.id)'
    BY <1>1, <1>2, <1>5 DEF ClosedBy, SameClose
  <2>2. /\ CloseJob(o, r, s) \in ProcRecords
        /\ proc'[o] = CloseJob(o, r, s) => LocalState(o)'
    BY <1>1, <1>2, <2>1, CloseJobGood
  <2> QED BY <1>1, <1>2, <1>3, <1>5, <2>2, SilentStep
<1>6. CASE Step(o, NotRunning) /\ answer' = [answer EXCEPT ![o] = "rejected"]
  <2>1. answer' \in [Commands -> {"none", "ok", "rejected"}]
        /\ \A q \in Commands : answer'[q] = "ok" => answer[q] = "ok"
    BY <1>3, <1>6
  <2>2. CloseState'
    BY <1>1, <2>1, ClosesStay, QuietGrows DEF ProcInv
  <2> QED BY <1>1, <1>2, <1>3, <1>6, <2>1, <2>2, NotRunningType, Returned, OutputStep
<1> QED BY <1>1, <1>4, <1>5, <1>6 DEF CloseFound, Return

LEMMA CloseCasGood ==
  ASSUME ProcInv, NEW o \in Commands, CloseCas(o)
  PROVE  ProcInv' /\ Grows
<1> SUFFICES ASSUME NEW r, r = proc[o], NEW a, a = r.id, NEW old, old = r.snap
             PROVE  ProcInv' /\ Grows
  OBVIOUS
<1> DEFINE s == operatorClosedAlert(old, o)
<1>1. /\ r.pc = "close_cas"
      /\ UNCHANGED <<kind, event, logs, sent, target, answer, faults>>
  BY DEF CloseCas
<1>2. /\ o \in Procs /\ r \in ProcRecords /\ r.id \in Ids /\ target[o] = r.id
      /\ r.todo = {} /\ r.hooks = <<>>
      /\ Current(a, old) /\ old.status = "active" /\ old \in AlertRecords
      /\ Types /\ StoreState
  BY <1>1, RunningCommand DEF Reads, Current, ProcInv
<1>3. /\ s \in AlertRecords /\ s.rev > old.rev
      /\ s.status = "closed" /\ s.endType = "operator" /\ s.endBy = StampOf[o]
  BY <1>2, OperatorCloseType
<1> HIDE DEF s
<1>4. CASE /\ VersionIs(a, old) /\ alert' = [alert EXCEPT ![a] = s]
           /\ Step(o, CloseJob(o, r, s))
  <2>1. /\ alert' \in [Ids -> AlertRecords \cup {NoAlert}]
        /\ Grows /\ StoreState' /\ alert'[a] = s /\ s # NoAlert
    <3>1. UNCHANGED <<kind, event, logs>>
      BY <1>1
    <3> QED BY <1>2, <1>3, <1>4, <3>1, CasStore
  <2>2. ClosedBy(o, r.id)'
    BY <1>1, <1>2, <1>3, <2>1 DEF ClosedBy
  <2>3. /\ CloseJob(o, r, s) \in ProcRecords
        /\ proc'[o] = CloseJob(o, r, s) => LocalState(o)'
    BY <1>1, <1>2, <1>3, <2>2, CloseJobGood
  <2> QED BY <1>1, <1>2, <1>4, <2>1, <2>3, WriteStep
<1>5. CASE UNCHANGED alert /\ Step(o, RetryClose(r))
  <2> DEFINE m == [r EXCEPT !.pc = "close_get", !.try = r.try + 1]
  <2>1. /\ logs \subseteq LogRecords /\ sent' \subseteq Ids \X Nat /\ faults' \in 0..MaxFaults
    BY <1>1 DEF ProcInv, Types, TypeOK
  <2>2. CASE r.try < maxCASAttempts
    <3>1. r.try + 1 \in 0..maxCASAttempts
      BY <1>2, <2>2, LaneType DEF ProcRecords
    <3>2. /\ m \in ProcRecords /\ m.pc = "close_get" /\ m.id = r.id
          /\ m.todo = {} /\ m.hooks = <<>>
      BY <1>2, <3>1 DEF ProcRecords, CommandPcs
    <3>3. RetryClose(r) = m
      BY <2>2 DEF RetryClose
    <3> HIDE DEF m
    <3>4. proc'[o] = m => LocalState(o)'
      BY <1>1, <1>2, <1>5, <3>2, CommandGood DEF Current
    <3> QED BY <1>1, <1>2, <1>5, <2>1, <3>2, <3>3, <3>4, SilentStep
  <2>3. CASE ~(r.try < maxCASAttempts)
    <3>1. RetryClose(r) = NotRunning
      BY <2>3 DEF RetryClose, Return
    <3> QED BY <1>1, <1>2, <1>5, <2>1, <3>1, NotRunningType, Returned, SilentStep
  <2> QED BY <2>2, <2>3
<1> QED BY <1>4, <1>5 DEF CloseCas, s

-----------------------------------------------------------------------------
(* Output, logs and result. *)

(* What every running process starts from. *)
LEMMA RunningAny ==
  ASSUME ProcInv, NEW p \in Procs, proc[p].pc # "idle"
  PROVE  /\ proc[p] \in ProcRecords /\ LocalState(p) /\ Types
         /\ p \in Workers => p \notin Commands /\ proc[p].ev \in Ids
         /\ p \in Commands => proc[p].id \in Ids /\ target[p] = proc[p].id
         /\ CauseOf(p) \in Causes
<1>1. proc[p] \in ProcRecords /\ LocalState(p) /\ Types
  BY DEF ProcInv, Types
<1>2. /\ p \in Workers => p \notin Commands /\ proc[p].ev \in Ids
      /\ p \in Commands => proc[p].id \in Ids /\ target[p] = proc[p].id
  BY <1>1, ProcsDisjoint DEF LocalState, Shape
<1> QED BY <1>1, <1>2 DEF CauseOf, Causes, Procs

(* A process that still owes everything it owed, with the same locals,     *)
(* keeps its promise.                                                      *)
LEMMA PromiseKept ==
  ASSUME NEW p \in Procs, UNCHANGED <<kind, alert, event>>, LocalState(p),
         NEW m \in ProcRecords, proc'[p] = m, p \in Commands => target'[p] = target[p],
         proc[p].pc \in {"hooks", "logs"}, m.pc \in {"hooks", "logs", "finish"},
         m.pc = "finish" => p \in Workers,
         m.ev = proc[p].ev, m.id = proc[p].id, m.fin = proc[p].fin,
         m.pc \notin {"hooks", "logs"} => m.todo = {},
         m.pc = "hooks" => Len(m.hooks) > 0,
         m.pc # "hooks" => m.hooks = <<>>,
         NEW c, c = CauseOf(p),
         \A a, op : Owes(p, c, a, op) => Owes(p, c, a, op)',
         \A a : OwesPush(p, c, a) => OwesPush(p, c, a)'
  PROVE  LocalState(p)'
<1>1. Shape(p)'
  BY ProcsDisjoint DEF Shape, LocalState, Procs, WorkerPcs, CommandPcs
<1>2. Reads(p)' /\ Place(p)'
  BY DEF Reads, Place, LocalState, Done
<1>3. Promise(p)'
  <2> SUFFICES ASSUME p \in Workers PROVE Promise(p)'
    BY DEF Promise
  <2>1. c = proc[p].ev /\ Promise(p)
    BY ProcsDisjoint DEF CauseOf, LocalState
  <2> SUFFICES ASSUME NEW e, e = proc[p].ev, NEW f, f = proc[p].fin PROVE Promise(p)'
    OBVIOUS
  <2>2. /\ proc'[p].ev = e /\ proc'[p].fin = f /\ c = e
        /\ EndedByEvent(e)' = EndedByEvent(e)
    BY <2>1 DEF EndedByEvent
  <2> QED BY <2>1, <2>2 DEF Promise
<1>4. ClosePromise(p)'
  <2> SUFFICES ASSUME p \in Commands PROVE ClosePromise(p)'
    BY DEF ClosePromise
  <2>1. c = p /\ ClosePromise(p)
    BY DEF CauseOf, LocalState
  <2> SUFFICES ASSUME NEW i, i = proc[p].id PROVE ClosePromise(p)'
    OBVIOUS
  <2>2. proc'[p].id = i /\ (ClosedBy(p, i) => ClosedBy(p, i)')
    BY DEF ClosedBy
  <2> QED BY <2>1, <2>2 DEF ClosePromise
<1> QED BY <1>1, <1>2, <1>3, <1>4 DEF LocalState

(* What runFinalHook leaves of the locals r of an invocation for c, once   *)
(* the output h has been sent or has failed.                               *)
Pushed(r, h, c, op) ==
  [r EXCEPT !.pc = IF Len(r.hooks) = 1 THEN "logs" ELSE "hooks",
            !.hooks = Tail(@),
            !.todo = @ \cup {eventAlertLog(c, h.id, op, h.rev)}]

(* What is known of it; l is the record that is owed now. *)
IsPushed(r, h, c, op, l, m) ==
  /\ m \in ProcRecords /\ h.id \in Ids /\ h.rev \in Nat /\ h = r.hooks[1]
  /\ m.ev = r.ev /\ m.id = r.id /\ m.fin = r.fin
  /\ m.pc \in {"hooks", "logs"} /\ (m.pc = "hooks" => Len(m.hooks) > 0)
  /\ (m.pc # "hooks" => m.hooks = <<>>)
  /\ Len(m.hooks) = Len(r.hooks) - 1 /\ Len(r.hooks) \in Nat
  /\ \A i \in 1..Len(m.hooks) : m.hooks[i] = r.hooks[i + 1]
  /\ l \in m.todo /\ r.todo \subseteq m.todo
  /\ l.cause = c /\ l.alert = h.id /\ l.op = op

LEMMA PushedFields ==
  ASSUME NEW r \in ProcRecords, Len(r.hooks) > 0, NEW h, h = Head(r.hooks),
         NEW c \in Causes, NEW op \in {"push", "push_failed"},
         NEW l, l = eventAlertLog(c, h.id, op, h.rev), NEW m, m = Pushed(r, h, c, op)
  PROVE  IsPushed(r, h, c, op, l, m)
<1> DEFINE hs == Tail(r.hooks)
           t == r.todo \cup {l}
           x == IF Len(r.hooks) = 1 THEN "logs" ELSE "hooks"
           n == [r EXCEPT !.pc = x, !.hooks = hs, !.todo = t]
<1>1. r.hooks \in Seq(HookRecords) /\ r.todo \in SUBSET LogRecords
  BY DEF ProcRecords
<1>2. /\ h \in HookRecords /\ hs \in Seq(HookRecords) /\ Len(hs) = Len(r.hooks) - 1
      /\ h = r.hooks[1] /\ \A i \in 1..Len(hs) : hs[i] = r.hooks[i + 1]
      /\ Len(r.hooks) \in Nat
  BY <1>1
<1>3. h.id \in Ids /\ h.rev \in Nat
  BY <1>2 DEF HookRecords
<1>4. l \in LogRecords /\ l.cause = c /\ l.alert = h.id /\ l.op = op
  BY <1>3, LogType DEF LogOps
<1>5. t \in SUBSET LogRecords /\ l \in t /\ r.todo \subseteq t
  BY <1>1, <1>4
<1>6. /\ x \in {"hooks", "logs"} /\ (x = "hooks" => Len(hs) > 0)
      /\ (x # "hooks" => hs = <<>>)
  <2>1. \A q \in Seq(HookRecords) : Len(q) = 0 => q = <<>>
    OBVIOUS
  <2>2. Len(hs) \in Nat
    BY <1>2
  <2> HIDE DEF hs
  <2>3. (Len(r.hooks) = 1 => Len(hs) = 0) /\ (Len(r.hooks) # 1 => Len(hs) > 0)
    <3> DEFINE nr == Len(r.hooks)
               k == Len(hs)
    <3>1. nr \in Nat /\ k \in Nat /\ nr > 0 /\ k = nr - 1
      BY <1>2, <2>2
    <3> HIDE DEF nr, k
    <3>2. (nr = 1 => k = 0) /\ (nr # 1 => k > 0)
      BY <3>1
    <3> QED BY <3>2 DEF nr, k
  <2>4. Len(hs) = 0 => hs = <<>>
    BY <1>2, <2>1
  <2> QED BY <2>3, <2>4
<1> HIDE DEF hs, t, x
<1>7. /\ n \in ProcRecords /\ n.pc = x /\ n.hooks = hs /\ n.todo = t
      /\ n.ev = r.ev /\ n.id = r.id /\ n.fin = r.fin
  BY <1>2, <1>5, <1>6 DEF ProcRecords, CommandPcs
<1>8. m = n
  BY DEF n, hs, t, x, Pushed
<1> HIDE DEF n
<1> QED BY <1>2, <1>3, <1>4, <1>5, <1>6, <1>7, <1>8 DEF IsPushed

(* The hook's first output: its record is owed instead of the output. *)
LEMMA PushedGood ==
  ASSUME ProcInv, NEW p \in Procs, proc[p].pc = "hooks",
         UNCHANGED <<kind, alert, event, logs, target>>,
         NEW op \in {"push", "push_failed"},
         NEW r, r = proc[p], NEW h, h = Head(r.hooks), NEW c, c = CauseOf(p)
  PROVE  /\ Pushed(r, h, c, op) \in ProcRecords /\ h.id \in Ids /\ h.rev \in Nat
         /\ proc'[p] = Pushed(r, h, c, op) => LocalState(p)'
<1> SUFFICES ASSUME NEW l, l = eventAlertLog(c, h.id, op, h.rev),
                    NEW m, m = Pushed(r, h, c, op)
             PROVE  /\ m \in ProcRecords /\ h.id \in Ids /\ h.rev \in Nat
                    /\ proc'[p] = m => LocalState(p)'
  OBVIOUS
<1>1. /\ r \in ProcRecords /\ LocalState(p) /\ Types /\ c \in Causes
      /\ Len(r.hooks) > 0
  BY RunningAny DEF LocalState, Shape
<1>2. IsPushed(r, h, c, op, l, m)
  BY <1>1, PushedFields
<1>3. ASSUME proc'[p] = m PROVE LocalState(p)'
  <2>1. \A a, k : Owes(p, c, a, k) => Owes(p, c, a, k)'
    BY <1>2, <1>3 DEF Owes, IsPushed
  <2>2. ASSUME NEW a, OwesPush(p, c, a) PROVE OwesPush(p, c, a)'
    <3>1. CASE Owes(p, c, a, "push") \/ Owes(p, c, a, "push_failed")
      BY <2>1, <3>1 DEF OwesPush
    <3>2. ASSUME NEW i \in 1..Len(r.hooks), r.hooks[i].id = a
          PROVE  OwesPush(p, c, a)'
      <4>1. CASE i = 1
        <5>1. h.id = a
          BY <1>2, <3>2, <4>1 DEF IsPushed
        <5>2. Owes(p, c, a, op)'
          BY <1>2, <1>3, <5>1 DEF Owes, IsPushed
        <5> QED BY <5>2 DEF OwesPush
      <4>2. CASE i # 1
        <5>1. \A k \in Nat : i \in 1..k => i - 1 \in 1..(k - 1) /\ (i - 1) + 1 = i
          BY ONLY <4>2, i \in 1..Len(r.hooks)
        <5>2. /\ Len(r.hooks) \in Nat /\ Len(m.hooks) = Len(r.hooks) - 1
              /\ \A j \in 1..Len(m.hooks) : m.hooks[j] = r.hooks[j + 1]
          BY <1>2, Zenon DEF IsPushed
        <5>3. i - 1 \in 1..Len(m.hooks) /\ (i - 1) + 1 = i
          BY <5>1, <5>2, Zenon
        <5>4. m.hooks[i - 1] = r.hooks[i]
          BY <5>2, <5>3, Zenon
        <5> QED BY <1>3, <3>2, <5>3, <5>4 DEF OwesPush
      <4> QED BY <4>1, <4>2
    <3> QED BY <2>2, <3>1, <3>2 DEF OwesPush
  <2> QED BY <1>1, <1>2, <1>3, <2>1, <2>2, PromiseKept DEF IsPushed
<1> QED BY <1>2, <1>3 DEF IsPushed

LEMMA RunFinalHookGood ==
  ASSUME ProcInv, NEW p \in Procs, RunFinalHook(p)
  PROVE  ProcInv' /\ Grows
<1> SUFFICES ASSUME NEW r, r = proc[p], NEW h, h = Head(r.hooks), NEW c, c = CauseOf(p)
             PROVE  ProcInv' /\ Grows
  OBVIOUS
<1> DEFINE m(op) == Pushed(r, h, c, op)
<1>1. r.pc = "hooks" /\ UNCHANGED <<kind, event, alert, logs, target, answer>>
  BY DEF RunFinalHook, repository
<1>2. ASSUME NEW op \in {"push", "push_failed"}
      PROVE  /\ m(op) \in ProcRecords /\ h.id \in Ids /\ h.rev \in Nat
             /\ proc'[p] = m(op) => LocalState(p)'
  BY <1>1, PushedGood
<1>3. logs' \subseteq LogRecords /\ sent \subseteq Ids \X Nat /\ faults \in 0..MaxFaults
  BY <1>1 DEF ProcInv, Types, TypeOK
<1>4. CASE /\ sent' = sent \cup {<<h.id, h.rev>>} /\ Step(p, m("push")) /\ UNCHANGED faults
  <2>1. sent' \subseteq Ids \X Nat
    BY <1>2, <1>3, <1>4
  <2>2. m("push") \in ProcRecords /\ (proc'[p] = m("push") => LocalState(p)')
    BY <1>2
  <2> HIDE DEF m
  <2> QED BY <1>1, <1>3, <1>4, <2>1, <2>2, SilentStep
<1>5. CASE UNCHANGED sent /\ Step(p, m("push_failed")) /\ Fault
  <2>1. faults' \in 0..MaxFaults
    BY <1>3, <1>5, BoundsType DEF Fault
  <2>2. m("push_failed") \in ProcRecords /\ (proc'[p] = m("push_failed") => LocalState(p)')
    BY <1>2
  <2> HIDE DEF m
  <2> QED BY <1>1, <1>3, <1>5, <2>1, <2>2, SilentStep
<1> QED BY <1>4, <1>5 DEF RunFinalHook, Pushed

(* Logs without a conflict: everything that was owed is stored. *)
LEMMA AppendedAll ==
  ASSUME NEW p, ~LogConflict(proc[p].todo),
         logs' = logs \cup {l \in proc[p].todo : \A k \in logs : ~SameLogId(l, k)},
         NEW c, NEW a, NEW op
  PROVE  Owes(p, c, a, op) => HasLog(c, a, op)'
BY DEF LogConflict, Owes, HasLog

LEMMA AppendLogsGood ==
  ASSUME ProcInv, NEW p \in Procs, AppendAlertLogs(p)
  PROVE  ProcInv' /\ Grows
<1> SUFFICES ASSUME NEW r, r = proc[p] PROVE ProcInv' /\ Grows
  OBVIOUS
<1>1. /\ r.pc = "logs" /\ UNCHANGED <<kind, event, alert, sent, target, faults>>
      /\ logs' = logs \cup {l \in r.todo : \A k \in logs : ~SameLogId(l, k)}
  BY DEF AppendAlertLogs
<1>2. /\ r \in ProcRecords /\ LocalState(p) /\ Types
      /\ p \in Workers => p \notin Commands /\ r.ev \in Ids
      /\ p \in Commands => r.id \in Ids /\ target[p] = r.id
      /\ r.hooks = <<>> /\ r.todo \subseteq LogRecords
  <2>1. /\ r \in ProcRecords /\ LocalState(p) /\ Types
        /\ p \in Workers => p \notin Commands /\ r.ev \in Ids
        /\ p \in Commands => r.id \in Ids /\ target[p] = r.id
    BY <1>1, RunningAny
  <2> QED BY <1>1, <2>1 DEF LocalState, Shape, ProcRecords
<1>3. /\ logs \subseteq logs' /\ logs' \subseteq LogRecords
      /\ sent' \subseteq Ids \X Nat /\ faults' \in 0..MaxFaults
      /\ target' \in [Commands -> 0..N]
      /\ answer \in [Commands -> {"none", "ok", "rejected"}]
  BY <1>1, <1>2 DEF Types, TypeOK
<1>4. CASE Step(p, NotRunning) /\ UNCHANGED answer
  BY <1>1, <1>3, <1>4, NotRunningType, Returned, SilentStep
<1>5. ASSUME ~LogConflict(r.todo), NEW c, NEW a
      PROVE  /\ \A op : Owes(p, c, a, op) => HasLog(c, a, op)'
             /\ OwesPush(p, c, a) => HasPush(c, a)'
  <2>1. \A op : Owes(p, c, a, op) => HasLog(c, a, op)'
    BY <1>1, <1>5, AppendedAll
  <2>2. OwesPush(p, c, a) => Owes(p, c, a, "push") \/ Owes(p, c, a, "push_failed")
    BY <1>2 DEF OwesPush
  <2> QED BY <2>1, <2>2 DEF HasPush
<1>6. CASE /\ ~LogConflict(r.todo) /\ p \in Commands /\ Step(p, NotRunning)
           /\ answer' = [answer EXCEPT ![p] = "ok"]
  <2>1. /\ answer' \in [Commands -> {"none", "ok", "rejected"}]
        /\ \A q \in Commands \ {p} : answer'[q] = answer[q]
    BY <1>3, <1>6
  <2>2. Grows
    BY <1>1, <1>2, <1>3, QuietGrows
  <2>3. /\ ClosedBy(p, target[p])'
        /\ HasLog(p, target[p], "close")' /\ HasPush(p, target[p])'
    <3>1. ClosedBy(p, r.id) /\ Owes(p, p, r.id, "close") /\ OwesPush(p, p, r.id)
      BY <1>1, <1>2, <1>6 DEF LocalState, ClosePromise
    <3>2. HasLog(p, r.id, "close")' /\ HasPush(p, r.id)'
      BY <1>5, <1>6, <3>1
    <3>3. target'[p] = r.id /\ ClosedBy(p, r.id)'
      BY <1>1, <1>2, <1>6, <3>1 DEF ClosedBy
    <3> QED BY <3>2, <3>3
  <2>4. ASSUME NEW q \in Commands \ {p}, answer'[q] = "ok"
        PROVE  /\ ClosedBy(q, target[q])'
               /\ HasLog(q, target[q], "close")' /\ HasPush(q, target[q])'
    <3> SUFFICES ASSUME NEW a, a = target[q]
                 PROVE  ClosedBy(q, a)' /\ HasLog(q, a, "close")' /\ HasPush(q, a)'
      BY <1>1
    <3>1. ClosedBy(q, a) /\ HasLog(q, a, "close") /\ HasPush(q, a)
      BY <2>1, <2>4 DEF ProcInv, CloseState
    <3>2. ClosedBy(q, a)'
      BY <1>1, <3>1 DEF ClosedBy
    <3> QED BY <2>2, <3>1, <3>2, LogsStay
  <2>5. CloseState'
    BY <2>3, <2>4 DEF CloseState
  <2> QED BY <1>1, <1>3, <1>6, <2>1, <2>5, NotRunningType, Returned, OutputStep
<1>7. CASE /\ ~LogConflict(r.todo) /\ p \notin Commands /\ UNCHANGED answer
           /\ Step(p, [r EXCEPT !.pc = "finish", !.todo = {}])
  <2> DEFINE m == [r EXCEPT !.pc = "finish", !.todo = {}]
  <2>1. /\ m \in ProcRecords /\ m.pc = "finish" /\ m.todo = {} /\ m.hooks = <<>>
        /\ m.ev = r.ev /\ m.id = r.id /\ m.fin = r.fin
    BY <1>2 DEF ProcRecords, WorkerPcs
  <2> HIDE DEF m
  <2>2. ASSUME proc'[p] = m PROVE LocalState(p)'
    <3>1. \A c, a, op : HasLog(c, a, op)' => Owes(p, c, a, op)'
      BY DEF HasLog, Owes
    <3>2. \A c, a : HasPush(c, a)' => OwesPush(p, c, a)'
      BY <3>1 DEF HasPush, OwesPush
    <3> SUFFICES ASSUME NEW c, c = CauseOf(p) PROVE LocalState(p)'
      OBVIOUS
    <3>3. /\ \A a, op : Owes(p, c, a, op) => Owes(p, c, a, op)'
          /\ \A a : OwesPush(p, c, a) => OwesPush(p, c, a)'
      BY <1>5, <1>7, <3>1, <3>2
    <3> QED BY <1>1, <1>2, <1>7, <2>1, <2>2, <3>3, PromiseKept DEF Procs
  <2> QED BY <1>1, <1>3, <1>7, <2>1, <2>2, SilentStep DEF m
<1> QED BY <1>4, <1>6, <1>7 DEF AppendAlertLogs, Return

LEMMA AppendPartlyGood ==
  ASSUME ProcInv, NEW p \in Procs, AppendPartly(p)
  PROVE  ProcInv' /\ Grows
<1>1. /\ proc[p].pc = "logs" /\ Step(p, NotRunning) /\ Fault
      /\ UNCHANGED <<kind, event, alert, sent, target, answer>>
      /\ \E part \in SUBSET proc[p].todo :
           logs' = logs \cup {l \in part : \A k \in logs : ~SameLogId(l, k)}
  BY DEF AppendPartly, Return
<1>2. /\ logs \subseteq LogRecords /\ proc[p].todo \subseteq LogRecords
      /\ sent' \subseteq Ids \X Nat /\ faults \in 0..MaxFaults
  BY <1>1 DEF ProcInv, Types, TypeOK
<1>3. logs \subseteq logs' /\ logs' \subseteq LogRecords
  BY <1>1, <1>2
<1>4. faults' \in 0..MaxFaults
  BY <1>1, <1>2, BoundsType DEF Fault
<1> QED BY <1>1, <1>2, <1>3, <1>4, NotRunningType, Returned, SilentStep

LEMMA AbortGood ==
  ASSUME ProcInv, NEW p \in Procs, Abort(p)
  PROVE  ProcInv' /\ Grows
<1>1. /\ Step(p, NotRunning) /\ Fault
      /\ UNCHANGED <<kind, event, alert, logs, sent, target, answer>>
  BY DEF Abort, Return, repository
<1>2. logs' \subseteq LogRecords /\ sent' \subseteq Ids \X Nat /\ faults \in 0..MaxFaults
  BY <1>1 DEF ProcInv, Types, TypeOK
<1>3. faults' \in 0..MaxFaults
  BY <1>1, <1>2, BoundsType DEF Fault
<1> QED BY <1>1, <1>2, <1>3, NotRunningType, Returned, SilentStep

(* With nothing owed any more, the promise is what backs the result. *)
LEMMA PromiseBacks ==
  ASSUME ProcInv, NEW w \in Workers, proc[w].pc = "finish",
         NEW e, e = proc[w].ev, event[e].state = "unprocessed",
         event' = [event EXCEPT ![e] = proc[w].fin],
         UNCHANGED <<kind, alert, logs>>
  PROVE  /\ Backed(e)'
         /\ event'[e].outcome = "updated" => event'[e].alert \in Ids
         /\ event'[e].outcome = "orphaned" => kind'[e].action # "triggered"
<1> SUFFICES ASSUME NEW f, f = proc[w].fin
             PROVE  /\ Backed(e)'
                    /\ event'[e].outcome = "updated" => event'[e].alert \in Ids
                    /\ event'[e].outcome = "orphaned" => kind'[e].action # "triggered"
  OBVIOUS
<1>1. /\ e \in Ids /\ proc[w].todo = {} /\ proc[w].hooks = <<>> /\ Promise(w)
      /\ ~Done(e)
  BY Running DEF Done
<1>2. event'[e] = f
  BY <1>1 DEF ProcInv, Types, TypeOK
<1>3. \A c, a, op : Owes(w, c, a, op) => HasLog(c, a, op)'
  BY <1>1 DEF Owes, HasLog
<1>4. \A c, a : OwesPush(w, c, a) => HasPush(c, a)'
  <2>1. \A c, a : OwesPush(w, c, a) => Owes(w, c, a, "push") \/ Owes(w, c, a, "push_failed")
    BY <1>1 DEF OwesPush
  <2> QED BY <1>3, <2>1 DEF HasPush
<1>5. EndedByEvent(e)' = EndedByEvent(e)
  BY DEF EndedByEvent
<1>6. f.outcome = "updated" => f.alert \in Ids /\ f.alert <= e
  <2> SUFFICES ASSUME f.outcome = "updated" PROVE f.alert \in Ids /\ f.alert <= e
    OBVIOUS
  <2>1. f.alert \in Ids /\ \A d \in 1..(f.alert - 1) : Done(d)
    BY <1>1 DEF Promise, ProcInv, StoreState
  <2>2. ~(e \in 1..(f.alert - 1))
    BY <1>1, <2>1
  <2> QED BY <1>1, <2>1, <2>2, LaneType DEF Ids
<1>7. f.outcome = "orphaned" => alert[e] = NoAlert /\ kind[e].action # "triggered"
  BY <1>1 DEF Promise, ProcInv, StoreState
<1>8. Backed(e)'
  BY <1>1, <1>2, <1>3, <1>4, <1>5, <1>6, <1>7 DEF Backed, Promise
<1> QED BY <1>2, <1>6, <1>7, <1>8

LEMMA FinishEventGood ==
  ASSUME ProcInv, NEW w \in Workers, finishEvent(w)
  PROVE  ProcInv' /\ Grows
<1> SUFFICES ASSUME NEW r, r = proc[w], NEW e, e = r.ev PROVE ProcInv' /\ Grows
  OBVIOUS
<1>1. r.pc = "finish" /\ UNCHANGED <<kind, alert, logs, sent, target, answer, faults>>
  BY DEF finishEvent
<1>2. /\ w \in Procs /\ r \in ProcRecords /\ e \in Ids
      /\ \A d \in 1..(e - 1) : Done(d)
      /\ Types
  BY <1>1, Running DEF ProcInv
<1>3. CASE /\ event[e].state = "unprocessed"
           /\ event' = [event EXCEPT ![e] = r.fin] /\ Step(w, NotRunning)
  <2>1. r.fin \in Results /\ event \in [Ids -> Results]
    BY <1>2 DEF ProcRecords, Types, TypeOK
  <2>2. event' \in [Ids -> Results] /\ \A d \in Ids \ {e} : event'[d] = event[d]
    BY <1>2, <1>3, <2>1
  <2>3. Grows
    BY <1>1, <1>3, <2>2 DEF Grows, Done
  <2>4. /\ proc' \in [Procs -> ProcRecords] /\ proc'[w] = NotRunning
        /\ \A q \in Procs \ {w} : proc'[q] = proc[q]
        /\ \A q \in Procs : /\ proc'[q].try \in 0..maxCASAttempts
                            /\ proc'[q].todo \subseteq LogRecords
                            /\ proc'[q].fin \in Results
        /\ holder' \in Workers \cup {Nobody} /\ lost' \in 0..MaxLost
    BY <1>2, <1>3, NotRunningType, StepTypes
  <2>5. Types'
    BY <1>1, <1>2, <2>2, <2>4 DEF Types, TypeOK
  <2>6. StoreState'
    BY <1>1, <1>2, <2>3, StoreKept DEF ProcInv
  <2>7. ASSUME NEW d \in Ids
        PROVE  /\ Backed(d)'
               /\ event'[d].outcome = "updated" => event'[d].alert \in Ids
               /\ event'[d].outcome = "orphaned" => kind'[d].action # "triggered"
    <3>1. CASE d = e
      BY <1>1, <1>3, <3>1, PromiseBacks
    <3>2. CASE d # e
      BY <1>2, <2>2, <2>3, <2>6, <3>2, BackedKept DEF ProcInv
    <3> QED BY <3>1, <3>2
  <2>8. ResultState'
    BY <2>7 DEF ResultState, ResultIsBacked
  <2>9. CloseState'
    BY <1>1, <1>2, <2>3, ClosesStay DEF ProcInv
  <2>10. LocalState(w)'
    BY <1>2, <2>4, Returned
  <2> QED BY <1>1, <1>2, <2>3, <2>4, <2>5, <2>6, <2>8, <2>9, <2>10, StepOf
<1>4. CASE UNCHANGED event /\ Step(w, RetryDecision(r))
  <2>1. \A d \in 1..(e - 1) : Done(d)'
    BY <1>2, <1>4 DEF Done
  <2>2. /\ RetryDecision(r) \in ProcRecords
        /\ proc'[w] = RetryDecision(r) => LocalState(w)'
    BY <1>2, <2>1, RetryGood
  <2>3. Grows
    BY <1>1, <1>2, <1>4, QuietGrows
  <2> QED BY <1>1, <1>2, <1>4, <2>2, <2>3, LocalStep DEF repository
<1> QED BY <1>3, <1>4 DEF finishEvent, Return

LEMMA LoseLeaseGood ==
  ASSUME ProcInv, LoseLease
  PROVE  ProcInv' /\ Grows
<1>1. /\ UNCHANGED <<kind, event, alert, logs, sent, proc, target, answer, faults>>
      /\ holder' = Nobody /\ lost' = lost + 1 /\ lost < MaxLost /\ Types
  BY DEF LoseLease, repository, ProcInv
<1>2. lost' \in 0..MaxLost
  BY <1>1, BoundsType DEF Types, TypeOK
<1>3. Types'
  BY <1>1, <1>2 DEF Types, TypeOK
<1>4. Grows
  BY <1>1, QuietGrows
<1>5. \A p \in Procs : LocalState(p)'
  BY <1>1, <1>4, Frame DEF ProcInv
<1>6. StoreState'
  BY <1>1, <1>4, StoreKept DEF ProcInv
<1>7. ResultState'
  BY <1>1, <1>4, <1>6, BackedStays DEF ProcInv
<1>8. CloseState'
  BY <1>1, <1>4, ClosesStay DEF ProcInv
<1> QED BY <1>3, <1>4, <1>5, <1>6, <1>7, <1>8 DEF ProcInv

LEMMA StutterGood ==
  ASSUME ProcInv, UNCHANGED vars
  PROVE  ProcInv' /\ Grows
<1>1. /\ UNCHANGED <<kind, event, alert, logs, sent, proc, target, answer, holder, lost, faults>>
      /\ Types
  BY DEF vars, ProcInv
<1>2. Types'
  BY <1>1 DEF Types, TypeOK
<1>3. Grows
  BY <1>1, QuietGrows
<1>4. \A p \in Procs : LocalState(p)'
  BY <1>1, <1>3, Frame DEF ProcInv
<1>5. StoreState'
  BY <1>1, <1>3, StoreKept DEF ProcInv
<1>6. ResultState'
  BY <1>1, <1>3, <1>5, BackedStays DEF ProcInv
<1>7. CloseState'
  BY <1>1, <1>3, ClosesStay DEF ProcInv
<1> QED BY <1>2, <1>3, <1>4, <1>5, <1>6, <1>7 DEF ProcInv

-----------------------------------------------------------------------------
(* The invariant. *)

LEMMA InitInv == Init => ProcInv
<1> SUFFICES ASSUME Init PROVE ProcInv
  OBVIOUS
<1>1. /\ event = [e \in Ids |-> Unprocessed] /\ alert = [a \in Ids |-> NoAlert]
      /\ proc = [p \in Procs |-> NotRunning] /\ logs = {} /\ sent = {}
      /\ target = [o \in Commands |-> 0] /\ answer = [o \in Commands |-> "none"]
      /\ holder = Nobody /\ lost = 0 /\ faults = 0 /\ kind \in [Ids -> Kinds]
  BY DEF Init
<1>2. Unprocessed \in Results /\ Unprocessed.outcome = "none"
  BY LaneType DEF Unprocessed, Results
<1>3. proc \in [Procs -> ProcRecords]
  BY <1>1, NotRunningType
<1>4. TypeOK
  <2>1. \A p \in Procs : /\ proc[p].try \in 0..maxCASAttempts
                         /\ proc[p].todo \subseteq LogRecords
                         /\ proc[p].fin \in Results
    BY <1>3 DEF ProcRecords
  <2> QED BY <1>1, <1>2, <2>1, LaneType, BoundsType DEF TypeOK
<1>5. Types
  BY <1>1, <1>3, <1>4 DEF Types
<1>6. \A p \in Procs : LocalState(p)
  BY <1>1 DEF NotRunning, LocalState, Shape, Reads, Promise, ClosePromise, Place,
     WorkerPcs, CommandPcs
<1>7. StoreState
  BY <1>1 DEF StoreState, ActiveIds
<1>8. ResultState
  BY <1>1, <1>2 DEF ResultState, ResultIsBacked, Backed
<1>9. CloseState
  BY <1>1 DEF CloseState
<1> QED BY <1>5, <1>6, <1>7, <1>8, <1>9 DEF ProcInv

LEMMA NextInv == ProcInv /\ [Next]_vars => ProcInv' /\ Grows
<1> SUFFICES ASSUME ProcInv, [Next]_vars PROVE ProcInv' /\ Grows
  OBVIOUS
<1>1. ASSUME NEW w \in Workers, WorkerStep(w) PROVE ProcInv' /\ Grows
  <2>1. w \in Procs
    BY DEF Procs
  <2>2. CASE ReadEvent(w) \/ FindActiveAlert(w) \/ FindAlertEndedByEvent(w)
    BY <2>2, ReadEventGood, FindActiveGood, FindEndedGood
  <2>3. CASE CreateAlert(w) \/ GetConflicting(w) \/ CompareAndSetAlert(w)
    BY <2>3, CreateAlertGood, GetConflictingGood, CompareAndSetGood
  <2>4. CASE CreateRotated(w) \/ GetRotated(w) \/ ResumeOpened(w)
    BY <2>4, CreateRotatedGood, GetRotatedGood, ResumeOpenedGood
  <2>5. CASE RunFinalHook(w) \/ AppendAlertLogs(w) \/ finishEvent(w)
    BY <2>1, <2>5, RunFinalHookGood, AppendLogsGood, FinishEventGood
  <2> QED BY <1>1, <2>2, <2>3, <2>4, <2>5 DEF WorkerStep
<1>2. ASSUME NEW w \in Workers, NEW e \in Ids, Begin(w, e) PROVE ProcInv' /\ Grows
  BY <1>2, BeginGood
<1>3. ASSUME NEW o \in Commands, CommandStep(o) PROVE ProcInv' /\ Grows
  <2>1. o \in Procs
    BY DEF Procs
  <2> QED BY <1>3, <2>1, CloseGetGood, CloseCasGood, RunFinalHookGood, AppendLogsGood
      DEF CommandStep
<1>4. ASSUME NEW o \in Commands, NEW a \in Ids, BeginClose(o, a) PROVE ProcInv' /\ Grows
  BY <1>4, BeginCloseGood
<1>5. ASSUME NEW p \in Procs, AppendPartly(p) \/ Abort(p) PROVE ProcInv' /\ Grows
  BY <1>5, AppendPartlyGood, AbortGood
<1>6. CASE LoseLease
  BY <1>6, LoseLeaseGood
<1>7. CASE UNCHANGED vars
  BY <1>7, StutterGood
<1> QED BY <1>1, <1>2, <1>3, <1>4, <1>5, <1>6, <1>7 DEF Next

LEMMA AlwaysInv == Spec => []ProcInv
BY InitInv, NextInv, PTL DEF Spec

-----------------------------------------------------------------------------
(* The theorems. *)

(* Every stored alert, log, result and answer is one the processor can     *)
(* write, and no invocation decides more than maxCASAttempts times         *)
(* (types.go:21).                                                          *)
THEOREM ProcessorTypeCorrect == Spec => []TypeOK
<1>1. ProcInv => TypeOK
  BY DEF ProcInv, Types
<1> QED BY <1>1, AlwaysInv, PTL

(* A lane has at most one active alert (the active key of                  *)
(* Repository.CreateAlert and CompareAndSetAlert): for any number of       *)
(* workers that lost the lease, crashes and operators.                     *)
THEOREM ActiveAlertUnique == Spec => []OneActiveAlert
<1>1. ASSUME ProcInv PROVE OneActiveAlert
  <2>1. CASE ActiveIds = {}
    BY <2>1, FS_EmptySet DEF OneActiveAlert
  <2>2. CASE ActiveIds # {}
    <3>1. PICK a : a \in ActiveIds
      BY <2>2
    <3>2. ActiveIds = {a}
      BY <1>1, <3>1 DEF ProcInv, StoreState
    <3>3. Cardinality({a}) = 1
      BY FS_Singleton
    <3> QED BY <3>2, <3>3 DEF OneActiveAlert
  <2> QED BY <2>1, <2>2
<1> QED BY <1>1, AlwaysInv, PTL

(* A terminal alert and a stored result are never written again, whatever  *)
(* a stale worker or an operator has read (the version checks of           *)
(* CompareAndSetAlert and CompareAndSetEventResult).                       *)
THEOREM FinalStatesStay == Spec => FinalStatesKept
<1>1. ASSUME ProcInv, [Next]_vars
      PROVE  [/\ \A a \in Ids : alert[a] # NoAlert /\ alert[a].status # "active"
                                   => alert'[a] = alert[a]
              /\ \A e \in Ids : Done(e) => event'[e] = event[e]]_vars
  <2>1. Grows /\ Types
    BY <1>1, NextInv DEF ProcInv
  <2> QED BY <2>1, AlertsStay DEF Grows
<1> QED BY <1>1, AlwaysInv, PTL DEF Spec, FinalStatesKept

(* finishEvent is the last write: when an event has a result, its alert    *)
(* transition, its operation logs and the record of its output are stored, *)
(* whoever wrote them and however often the event was resumed.             *)
THEOREM ResultsBacked == Spec => []ResultIsBacked
<1>1. ProcInv => ResultIsBacked
  BY DEF ProcInv, ResultState
<1> QED BY <1>1, AlwaysInv, PTL

(* CloseAlert returns success only for a close that is stored with the     *)
(* command's own kind, reason and time, and logged for the command.        *)
THEOREM ClosesAnswered == Spec => []CloseAnswered
<1>1. ProcInv => CloseAnswered
  BY DEF ProcInv, CloseState, CloseAnswered, ClosedBy
<1> QED BY <1>1, AlwaysInv, PTL
=============================================================================
