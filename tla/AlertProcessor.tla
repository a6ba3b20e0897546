-------------------------- MODULE AlertProcessor --------------------------
(***************************************************************************)
(* lifecycle.Processor over the shared repository, for the events of one   *)
(* fingerprint lane.                                                       *)
(*                                                                         *)
(* ProcessEvent is not a transaction: it writes the alert, runs the final  *)
(* hook, appends alert logs and stores the event's result one after the    *)
(* other, and any of these may be its last step before a crash, a timeout  *)
(* or a cancelled context.  Every repository call is one step here, and    *)
(* a worker that lost the mailbox lease may go on with what it has read    *)
(* while the next owner works on the same lane, because the lease is not   *)
(* fenced.  Operators close alerts at the same time.                       *)
(*                                                                         *)
(* Events are 1..N in the order of the lane.  That a worker starts an      *)
(* event only when all earlier ones have results is what                   *)
(* LifecycleScheduler guarantees (InArrivalOrder) and is assumed in Begin. *)
(* The alert opened by event e has the id e: AlertIDGenerator derives it   *)
(* from the event.  A revision number stands for the version token and     *)
(* for update_at, which both change with every write of an alert.          *)
(***************************************************************************)
EXTENDS Integers, Sequences, FiniteSets

CONSTANTS
  N,             \* number of events in the lane
  Kinds,         \* event kinds: records with an action and a severity priority
  Workers,       \* concurrent ProcessEvent invocations
  Commands,      \* CloseAlert commands, each with its own operation id
  StampOf,       \* what CloseAlert compares of a command: kind, reason, time
  maxCASAttempts,\* decision attempts of one invocation (types.go:21)
  NoAlert,       \* "not found"
  Nobody,        \* the lane's lease is free
  MaxFaults,     \* bound: invocations cut short, partial batches, failing hooks
  MaxLost        \* bound: leases lost by a worker that goes on

ASSUME LaneType == N \in Nat /\ maxCASAttempts \in Nat \ {0}
ASSUME BoundsType == MaxFaults \in Nat /\ MaxLost \in Nat
ASSUME NobodyType == Nobody \notin Workers
ASSUME KindsType ==
  Kinds \subseteq [action : {"triggered", "resolved", "closed"}, sev : Nat]
ASSUME ProcsDisjoint == /\ Workers \cap Commands = {}
                        /\ (Workers \cup Commands) \cap Int = {}
ASSUME StampsType == /\ DOMAIN StampOf = Commands
                     /\ \A o \in Commands : StampOf[o] \notin Int

VARIABLES
  kind,     \* kind[e]: action and severity of event e
  event,    \* event[e]: state, related alert and outcome
  alert,    \* alert[a]: the stored alert, or NoAlert
  logs,     \* alert logs, keyed by cause, alert and operation
  sent,     \* message ids <<alert, revision>> published by the final hook
  proc,     \* proc[p]: program counter and locals of worker or command p
  target,   \* target[o]: the alert command o closes, 0 before it is issued
  answer,   \* answer[o]: what CloseAlert returned last
  holder,   \* the worker that holds the lane's lease, or Nobody
  lost,     \* leases lost so far
  faults    \* other faults so far

vars == <<kind, event, alert, logs, sent, proc, target, answer, holder, lost, faults>>
repository == <<event, alert, logs>>

Ids == 1..N
Procs == Workers \cup Commands
Causes == Ids \cup Commands

AlertRecords ==
  [status : {"active", "recovered", "closed"}, sev : Nat, latest : Ids,
   endType : {"none", "source", "severity_upgrade", "operator"},
   endBy : 0..N \cup {StampOf[o] : o \in Commands}, rev : Nat \ {0}]

ASSUME NoAlertType == NoAlert \notin AlertRecords

LogOps == {"trigger", "recover", "close", "suppress", "push", "push_failed"}
LogRecords == [cause : Causes, alert : Ids, op : LogOps, at : Nat]

Results ==
  [state : {"unprocessed", "accepted", "suppressed", "orphaned"}, alert : 0..N,
   outcome : {"none", "created", "updated", "rotated", "recovered", "closed",
              "suppressed", "orphaned"}]
Unprocessed == [state |-> "unprocessed", alert |-> 0, outcome |-> "none"]

(* An invocation that is not running.  id and snap are the alert it has    *)
(* read; old is the alert a rotation closed; hooks, todo and fin are the   *)
(* outputs, the alert logs and the result that are still to be written.    *)
NotRunning ==
  [pc |-> "idle", ev |-> 0, try |-> 0, id |-> 0, snap |-> NoAlert,
   oldId |-> 0, old |-> NoAlert, hooks |-> <<>>, todo |-> {}, fin |-> Unprocessed]

TypeOK ==
  /\ kind \in [Ids -> Kinds]
  /\ event \in [Ids -> Results]
  /\ \A a \in Ids : alert[a] \in AlertRecords \cup {NoAlert}
  /\ logs \subseteq LogRecords
  /\ sent \subseteq Ids \X Nat
  /\ \A p \in Procs : /\ proc[p].try \in 0..maxCASAttempts
                      /\ proc[p].todo \subseteq LogRecords
                      /\ proc[p].fin \in Results
  /\ target \in [Commands -> 0..N]
  /\ answer \in [Commands -> {"none", "ok", "rejected"}]
  /\ holder \in Workers \cup {Nobody}
  /\ lost \in 0..MaxLost
  /\ faults \in 0..MaxFaults

Init ==
  /\ kind \in [Ids -> Kinds]
  /\ event = [e \in Ids |-> Unprocessed]
  /\ alert = [a \in Ids |-> NoAlert]
  /\ logs = {}
  /\ sent = {}
  /\ proc = [p \in Procs |-> NotRunning]
  /\ target = [o \in Commands |-> 0]
  /\ answer = [o \in Commands |-> "none"]
  /\ holder = Nobody
  /\ lost = 0
  /\ faults = 0

Fault == faults < MaxFaults /\ faults' = faults + 1

-----------------------------------------------------------------------------
(* Repository queries. *)

ActiveIds == {a \in Ids : alert[a] # NoAlert /\ alert[a].status = "active"}

(* Mutant: an alert closed by a rotation is not found again. *)
EndedBySource(e) ==
  {a \in Ids : /\ alert[a] # NoAlert
               /\ alert[a].status # "active"
               /\ alert[a].endType = "source"
               /\ alert[a].latest = e}

EndedByEvent(e) ==
  {a \in Ids : /\ alert[a] # NoAlert
               /\ alert[a].status # "active"
               /\ alert[a].endType \in {"source", "severity_upgrade"}
               /\ alert[a].latest = e}

(* FindAlertEndedByEvent fails when it finds more than one. *)
EndedTwice(e) == Cardinality(EndedByEvent(e)) > 1

(* Alert contents that the processor writes. *)
newAlert(e) ==
  [status |-> "active", sev |-> kind[e].sev, latest |-> e,
   endType |-> "none", endBy |-> 0, rev |-> 1]

updatedAlert(s, e) == [s EXCEPT !.latest = e, !.rev = @ + 1]

sourceTerminalAlert(s, e) ==
  [s EXCEPT !.status = IF kind[e].action = "resolved" THEN "recovered" ELSE "closed",
            !.latest = e, !.endType = "source", !.endBy = e, !.rev = @ + 1]

severityUpgradeAlert(s, e) ==
  [s EXCEPT !.status = "closed", !.latest = e,
            !.endType = "severity_upgrade", !.endBy = e, !.rev = @ + 1]

operatorClosedAlert(s, o) ==
  [s EXCEPT !.status = "closed", !.endType = "operator", !.endBy = StampOf[o],
            !.rev = @ + 1]

(* eventAlertLog: the id is made of event, alert and operation; the        *)
(* content includes the alert's update_at.                                 *)
eventAlertLog(c, a, op, at) == [cause |-> c, alert |-> a, op |-> op, at |-> at]

(* Whether two logs have the same id.  The id of a push log contains the   *)
(* message id and with it update_at.                                       *)
SameLogId(l, k) ==
  /\ l.cause = k.cause /\ l.alert = k.alert /\ l.op = k.op
  /\ l.op \in {"push", "push_failed"} => l.at = k.at

LogConflict(todo) == \E l \in todo, k \in logs : SameLogId(l, k) /\ l # k

(* Mutant: the result is stored before hooks and logs. *)
ResultFirst(r, hooks, todo, fin) == [r EXCEPT !.pc = "finish", !.fin = fin]

(* What remains to be done once the alert is written: run the hook for     *)
(* each snapshot, append the logs, store the result.                       *)
Job(r, hooks, todo, fin) ==
  [r EXCEPT !.pc = IF hooks = <<>> THEN "logs" ELSE "hooks",
            !.hooks = hooks, !.todo = todo, !.fin = fin]

Accepted(a, out) == [state |-> "accepted", alert |-> a, outcome |-> out]

Hook(a, s) == [id |-> a, rev |-> s.rev]

(* Mutant: the log carries the time of the attempt instead of update_at;   *)
(* the number of faults so far tells the attempts apart.                   *)
CreatedJobNow(r, a, s) ==
  Job(r, <<Hook(a, s)>>, {eventAlertLog(r.ev, a, "trigger", faults)}, Accepted(a, "created"))

CreatedJob(r, a, s) ==
  Job(r, <<Hook(a, s)>>, {eventAlertLog(r.ev, a, "trigger", s.rev)}, Accepted(a, "created"))

UpdatedJob(r, a, s) == Job(r, <<Hook(a, s)>>, {}, Accepted(a, "updated"))

TerminatedJob(r, a, s) ==
  LET recovered == kind[r.ev].action = "resolved"
  IN Job(r, <<Hook(a, s)>>,
         {eventAlertLog(r.ev, a, IF recovered THEN "recover" ELSE "close", s.rev)},
         Accepted(a, IF recovered THEN "recovered" ELSE "closed"))

SuppressedJob(r, a) ==
  Job(r, <<>>, {eventAlertLog(r.ev, a, "suppress", 0)},
      [state |-> "suppressed", alert |-> a, outcome |-> "suppressed"])

Orphaned(r) ==
  [r EXCEPT !.pc = "finish",
            !.fin = [state |-> "orphaned", alert |-> 0, outcome |-> "orphaned"]]

-----------------------------------------------------------------------------
(* Returning from an invocation. *)

(* ProcessEvent returns, with a result or with an error; the scheduler     *)
(* calls it again if the event is still at the head of the mailbox.        *)
Return == NotRunning

(* Mutant: decisions are retried without limit. *)
RetryForever(r) == [NotRunning EXCEPT !.pc = "read", !.ev = r.ev, !.try = r.try + 1]

(* A version conflict or errRetryDecision: read everything again, at most  *)
(* maxCASAttempts times.                                                   *)
RetryDecision(r) ==
  IF r.try < maxCASAttempts
  THEN [NotRunning EXCEPT !.pc = "read", !.ev = r.ev, !.try = r.try + 1]
  ELSE Return

(* finishRotation checks both stored alerts before it goes on. *)
finishRotation(r, oid, os, nid, ns) ==
  IF /\ os.status = "closed" /\ os.endType = "severity_upgrade" /\ os.latest = r.ev
     /\ ns.status = "active" /\ nid = r.ev /\ ns.latest = r.ev
  THEN Job(r, <<Hook(oid, os), Hook(nid, ns)>>,
           {eventAlertLog(r.ev, oid, "close", os.rev),
            eventAlertLog(r.ev, nid, "trigger", ns.rev)},
           Accepted(nid, "rotated"))
  ELSE Return

(* resumeActiveEvent: the alert already carries this event. *)
resumeActiveEvent(r, a, s) ==
  IF s.latest # r.ev THEN Return
  ELSE IF a # r.ev THEN UpdatedJob(r, a, s)
  ELSE [r EXCEPT !.pc = "resume", !.id = a, !.snap = s]

(* Mutant: a half-done rotation is not resumed. *)
ResumeTerminatedOnly(r, a, s) ==
  IF kind[r.ev].action # "triggered" THEN TerminatedJob(r, a, s) ELSE Return

(* resumeEndedEvent: an alert was already ended by this event. *)
resumeEndedEvent(r, a, s) ==
  IF s.endType = "severity_upgrade" /\ kind[r.ev].action = "triggered"
  THEN [r EXCEPT !.pc = "rotate_create", !.oldId = a, !.old = s]
  ELSE IF kind[r.ev].action # "triggered" THEN TerminatedJob(r, a, s)
  ELSE Return

(* processUnprocessed with an active alert a: the decision table. *)
decide(r, a, s) ==
  LET k == kind[r.ev]
      go(step) == [r EXCEPT !.pc = step, !.id = a, !.snap = s]
  IN IF s.latest = r.ev THEN resumeActiveEvent(r, a, s)
     ELSE IF k.action # "triggered" THEN go("terminate")
     ELSE IF k.sev = s.sev THEN go("update")
     ELSE IF k.sev < s.sev THEN go("rotate")
     ELSE SuppressedJob(r, a)

(* A step of p; the handler releases the lease, if it still has it, when   *)
(* the invocation returns.                                                 *)
Step(p, r) ==
  /\ proc' = [proc EXCEPT ![p] = r]
  /\ holder' = IF r = Return /\ holder = p THEN Nobody ELSE holder
  /\ UNCHANGED lost

-----------------------------------------------------------------------------
(* ProcessEvent. *)

(* Handling a reference to an event that has its result ends with GetEvent *)
(* and changes nothing, so it is not started here.                         *)
Begin(w, e) ==
  /\ proc[w].pc = "idle"
  /\ event[e].state = "unprocessed"
  /\ holder = Nobody
  /\ holder' = w
  /\ \A d \in 1..(e - 1) : event[d].state # "unprocessed"
  /\ proc' = [proc EXCEPT ![w] = [NotRunning EXCEPT !.pc = "read", !.ev = e, !.try = 1]]
  /\ UNCHANGED <<lost, kind, repository, sent, target, answer, faults>>

(* The lease expires under a worker that is paused or cut off from Redis.  *)
(* Until renewLoop notices and cancels it, or for ever if the write was    *)
(* already under way, the worker goes on.                                  *)
LoseLease ==
  /\ holder # Nobody
  /\ lost < MaxLost
  /\ lost' = lost + 1
  /\ holder' = Nobody
  /\ UNCHANGED <<kind, repository, sent, proc, target, answer, faults>>

(* GetEvent: an event that has its result returns it at once. *)
ReadEvent(w) ==
  /\ proc[w].pc = "read"
  /\ Step(w, IF event[proc[w].ev].state # "unprocessed" THEN Return
             ELSE [proc[w] EXCEPT !.pc = "find"])
  /\ UNCHANGED <<kind, repository, sent, target, answer, faults>>

FindActiveAlert(w) ==
  /\ proc[w].pc = "find"
  /\ \/ ActiveIds = {} /\ Step(w, [proc[w] EXCEPT !.pc = "ended"])
     \/ \E a \in ActiveIds : Step(w, decide(proc[w], a, alert[a]))
  /\ UNCHANGED <<kind, repository, sent, target, answer, faults>>

(* No active alert: resume what this event ended, or open an alert, or     *)
(* there is nothing to end.                                                *)
FindAlertEndedByEvent(w) ==
  LET r == proc[w] IN
  /\ r.pc = "ended"
  /\ \/ \E a \in EndedByEvent(r.ev) :
          Step(w, IF EndedTwice(r.ev) THEN Return ELSE resumeEndedEvent(r, a, alert[a]))
     \/ /\ EndedByEvent(r.ev) = {}
        /\ Step(w, IF kind[r.ev].action = "triggered" THEN [r EXCEPT !.pc = "create"]
                   ELSE Orphaned(r))
  /\ UNCHANGED <<kind, repository, sent, target, answer, faults>>

(* Mutant: the lane's active key is not reserved. *)
CanCreateAny(e) == alert[e] = NoAlert

(* Repository.CreateAlert refuses a known id with other content, and a     *)
(* second active alert of the lane.  A repeated create of an alert nobody  *)
(* has changed may or may not have the same content: update_at is the      *)
(* clock's.                                                                *)
CanCreate(e) == alert[e] = NoAlert /\ ActiveIds = {}
CreateIsRepeated(e) == alert[e] # NoAlert /\ alert[e].rev = 1

CreateAlert(w) ==
  LET r == proc[w] IN
  /\ r.pc = "create"
  /\ \/ /\ CanCreate(r.ev)
        /\ alert' = [alert EXCEPT ![r.ev] = newAlert(r.ev)]
        /\ Step(w, CreatedJob(r, r.ev, newAlert(r.ev)))
     \/ /\ CreateIsRepeated(r.ev)
        /\ Step(w, CreatedJob(r, r.ev, alert[r.ev]))
        /\ UNCHANGED alert
     \/ /\ ~CanCreate(r.ev)
        /\ Step(w, [r EXCEPT !.pc = "conflict"])
        /\ UNCHANGED alert
  /\ UNCHANGED <<kind, event, logs, sent, target, answer, faults>>

(* createAlert after an identity conflict: GetAlert of the same id has     *)
(* returned s, or NoAlert.                                                 *)
AfterConflict(r, s) ==
  IF s = NoAlert THEN RetryDecision(r) ELSE resumeActiveEvent(r, r.ev, s)

GetConflicting(w) ==
  LET r == proc[w] IN
  /\ r.pc = "conflict"
  /\ Step(w, AfterConflict(r, alert[r.ev]))
  /\ UNCHANGED <<kind, repository, sent, target, answer, faults>>

(* Mutant: the version is not compared. *)
AnyVersion(a, s) == TRUE

(* Nobody has written alert a since s was read. *)
VersionIs(a, s) == alert[a].rev = s.rev

(* What updateAlert, terminateAlert and rotateAlert write, and what they   *)
(* go on with once s is written.                                           *)
Replacement(r) ==
  IF r.pc = "update" THEN updatedAlert(r.snap, r.ev)
  ELSE IF r.pc = "terminate" THEN sourceTerminalAlert(r.snap, r.ev)
  ELSE severityUpgradeAlert(r.snap, r.ev)

AfterWrite(r, s) ==
  IF r.pc = "update" THEN UpdatedJob(r, r.id, s)
  ELSE IF r.pc = "terminate" THEN TerminatedJob(r, r.id, s)
  ELSE [r EXCEPT !.pc = "rotate_create", !.oldId = r.id, !.old = s]

(* CompareAndSetAlert by updateAlert, terminateAlert and rotateAlert. *)
CompareAndSetAlert(w) ==
  LET r == proc[w]
      s == Replacement(r)
  IN
  /\ r.pc \in {"update", "terminate", "rotate"}
  /\ IF VersionIs(r.id, r.snap)
     THEN alert' = [alert EXCEPT ![r.id] = s] /\ Step(w, AfterWrite(r, s))
     ELSE Step(w, RetryDecision(r)) /\ UNCHANGED alert
  /\ UNCHANGED <<kind, event, logs, sent, target, answer, faults>>

(* completeRotation: create the successor of the alert just closed. *)
CreateRotated(w) ==
  LET r == proc[w] IN
  /\ r.pc = "rotate_create"
  /\ \/ /\ CanCreate(r.ev)
        /\ alert' = [alert EXCEPT ![r.ev] = newAlert(r.ev)]
        /\ Step(w, finishRotation(r, r.oldId, r.old, r.ev, newAlert(r.ev)))
     \/ /\ CreateIsRepeated(r.ev)
        /\ Step(w, finishRotation(r, r.oldId, r.old, r.ev, alert[r.ev]))
        /\ UNCHANGED alert
     \/ /\ ~CanCreate(r.ev)
        /\ Step(w, [r EXCEPT !.pc = "rotate_conflict"])
        /\ UNCHANGED alert
  /\ UNCHANGED <<kind, event, logs, sent, target, answer, faults>>

(* The same after an identity conflict. *)
AfterRotateConflict(r, s) ==
  IF s = NoAlert THEN Return
  ELSE IF s.status # "active" THEN RetryDecision(r)
  ELSE finishRotation(r, r.oldId, r.old, r.ev, s)

GetRotated(w) ==
  LET r == proc[w] IN
  /\ r.pc = "rotate_conflict"
  /\ Step(w, AfterRotateConflict(r, alert[r.ev]))
  /\ UNCHANGED <<kind, repository, sent, target, answer, faults>>

(* resumeActiveEvent on the alert this event opened: was it a rotation? *)
ResumeOpened(w) ==
  LET r == proc[w] IN
  /\ r.pc = "resume"
  /\ \/ \E a \in EndedByEvent(r.ev) :
          Step(w, IF EndedTwice(r.ev) THEN Return
                  ELSE finishRotation(r, a, alert[a], r.id, r.snap))
     \/ EndedByEvent(r.ev) = {} /\ Step(w, CreatedJob(r, r.id, r.snap))
  /\ UNCHANGED <<kind, repository, sent, target, answer, faults>>

-----------------------------------------------------------------------------
(* Output, logs and result; shared by ProcessEvent and CloseAlert. *)

CauseOf(p) == IF p \in Commands THEN p ELSE proc[p].ev

(* runFinalHook: a failure is degraded to a failed push log. *)
RunFinalHook(p) ==
  LET r == proc[p]
      h == Head(r.hooks)
      pushed(op) == Step(p, [r EXCEPT
                      !.pc = IF Len(r.hooks) = 1 THEN "logs" ELSE "hooks",
                      !.hooks = Tail(@),
                      !.todo = @ \cup {eventAlertLog(CauseOf(p), h.id, op, h.rev)}])
  IN
  /\ r.pc = "hooks"
  /\ \/ sent' = sent \cup {<<h.id, h.rev>>} /\ pushed("push") /\ UNCHANGED faults
     \/ UNCHANGED sent /\ pushed("push_failed") /\ Fault
  /\ UNCHANGED <<kind, repository, target, answer>>

(* appendAlertLogs: known ids with equal content are absorbed; one known   *)
(* id with other content fails the batch, the other items stay.            *)
AppendAlertLogs(p) ==
  LET r == proc[p] IN
  /\ r.pc = "logs"
  /\ logs' = logs \cup {l \in r.todo : \A k \in logs : ~SameLogId(l, k)}
  /\ IF LogConflict(r.todo) THEN Step(p, Return) /\ UNCHANGED answer
     ELSE IF p \in Commands
     THEN Step(p, Return) /\ answer' = [answer EXCEPT ![p] = "ok"]
     ELSE Step(p, [r EXCEPT !.pc = "finish", !.todo = {}]) /\ UNCHANGED answer
  /\ UNCHANGED <<kind, event, alert, sent, target, faults>>

(* The batch is not a transaction: some items may be stored and the call   *)
(* still fail.                                                             *)
AppendPartly(p) ==
  LET r == proc[p] IN
  /\ r.pc = "logs"
  /\ \E part \in SUBSET r.todo \ {r.todo} :
       logs' = logs \cup {l \in part : \A k \in logs : ~SameLogId(l, k)}
  /\ Step(p, Return)
  /\ Fault
  /\ UNCHANGED <<kind, event, alert, sent, target, answer>>

(* finishEvent: CompareAndSetEventResult with the version read at the      *)
(* start; the version changes when the result is stored.                   *)
finishEvent(w) ==
  LET r == proc[w] IN
  /\ r.pc = "finish"
  /\ IF event[r.ev].state = "unprocessed"
     THEN event' = [event EXCEPT ![r.ev] = r.fin] /\ Step(w, Return)
     ELSE UNCHANGED event /\ Step(w, RetryDecision(r))
  /\ UNCHANGED <<kind, alert, logs, sent, target, answer, faults>>

(* The invocation ends between two steps: crash, cancelled context after   *)
(* a lost lease, timeout, or a reply that never came.                      *)
Abort(p) ==
  /\ proc[p].pc # "idle"
  /\ Step(p, Return)
  /\ Fault
  /\ UNCHANGED <<kind, repository, sent, target, answer>>

-----------------------------------------------------------------------------
(* CloseAlert. *)

(* An operator's command, or its repetition, for an alert that is there. *)
IssueClose(o, a) ==
  /\ proc[o].pc = "idle"
  /\ target[o] \in {0, a}
  /\ answer[o] # "rejected"
  /\ target' = [target EXCEPT ![o] = a]
  /\ Step(o, [NotRunning EXCEPT !.pc = "close_get", !.id = a, !.try = 1])
  /\ UNCHANGED <<kind, repository, sent, answer, faults>>

BeginClose(o, a) == alert[a] # NoAlert /\ IssueClose(o, a)

CloseJob(o, r, s) ==
  Job(r, <<Hook(r.id, s)>>, {eventAlertLog(o, r.id, "close", s.rev)}, Unprocessed)

(* Mutant: any closed alert counts as closed by the command. *)
AnyClose(s, o) == s.status = "closed"

(* The stored close is the one the command asks for. *)
SameClose(s, o) == s.status = "closed" /\ s.endType = "operator" /\ s.endBy = StampOf[o]

(* GetAlert returns s: a command with the same kind, reason and effective  *)
(* time as the close that is stored completes its logs; any other is       *)
(* refused.                                                                *)
CloseFound(o, s) ==
  LET r == proc[o] IN
  /\ \/ /\ s.status = "active"
        /\ Step(o, [r EXCEPT !.pc = "close_cas", !.snap = s])
        /\ UNCHANGED answer
     \/ /\ s.status # "active" /\ SameClose(s, o)
        /\ Step(o, CloseJob(o, r, s))
        /\ UNCHANGED answer
     \/ /\ s.status # "active" /\ ~SameClose(s, o)
        /\ Step(o, Return)
        /\ answer' = [answer EXCEPT ![o] = "rejected"]
  /\ UNCHANGED <<kind, repository, sent, target, faults>>

CloseGet(o) == proc[o].pc = "close_get" /\ CloseFound(o, alert[proc[o].id])

(* A version conflict: read again, at most maxCASAttempts times. *)
RetryClose(r) ==
  IF r.try < maxCASAttempts
  THEN [r EXCEPT !.pc = "close_get", !.try = @ + 1] ELSE Return

CloseCas(o) ==
  LET r == proc[o]
      s == operatorClosedAlert(r.snap, o)
  IN
  /\ r.pc = "close_cas"
  /\ IF VersionIs(r.id, r.snap)
     THEN alert' = [alert EXCEPT ![r.id] = s] /\ Step(o, CloseJob(o, r, s))
     ELSE UNCHANGED alert /\ Step(o, RetryClose(r))
  /\ UNCHANGED <<kind, event, logs, sent, target, answer, faults>>

-----------------------------------------------------------------------------
WorkerStep(w) ==
  \/ ReadEvent(w) \/ FindActiveAlert(w) \/ FindAlertEndedByEvent(w)
  \/ CreateAlert(w) \/ GetConflicting(w) \/ CompareAndSetAlert(w)
  \/ CreateRotated(w) \/ GetRotated(w) \/ ResumeOpened(w)
  \/ RunFinalHook(w) \/ AppendAlertLogs(w) \/ finishEvent(w)

CommandStep(o) ==
  \/ CloseGet(o) \/ CloseCas(o) \/ RunFinalHook(o) \/ AppendAlertLogs(o)

Next ==
  \/ \E w \in Workers : WorkerStep(w) \/ \E e \in Ids : Begin(w, e)
  \/ \E o \in Commands : CommandStep(o) \/ \E a \in Ids : BeginClose(o, a)
  \/ \E p \in Procs : AppendPartly(p) \/ Abort(p)
  \/ LoseLease

Spec == Init /\ [][Next]_vars

(* The scheduler keeps calling ProcessEvent for the first event without a  *)
(* result (LifecycleScheduler), and a started invocation keeps running.    *)
Fairness ==
  \A w \in Workers :
    /\ WF_vars(WorkerStep(w))
    /\ \A e \in Ids : WF_vars(Begin(w, e))

FairSpec == Spec /\ Fairness

-----------------------------------------------------------------------------
Done(e) == event[e].state # "unprocessed"
HasLog(c, a, op) == \E l \in logs : l.cause = c /\ l.alert = a /\ l.op = op
HasPush(c, a) == HasLog(c, a, "push") \/ HasLog(c, a, "push_failed")

(* A fingerprint has at most one active alert (core-storage-contract):     *)
(* also between the two writes of a rotation and with a stale worker that  *)
(* decided to create before another one did.                               *)
OneActiveAlert == Cardinality(ActiveIds) <= 1

(* Nothing final is rewritten: a terminal alert and a stored event result  *)
(* stay what they are, whatever stale snapshot a worker or an operator     *)
(* still holds (domain/alert.go:205, repository.go:445).                   *)
FinalStatesKept ==
  [][/\ \A a \in Ids : alert[a] # NoAlert /\ alert[a].status # "active"
                          => alert'[a] = alert[a]
     /\ \A e \in Ids : Done(e) => event'[e] = event[e]]_vars

(* Everything the result of event e stands for is stored. *)
Backed(e) ==
  LET r == event[e] IN
  /\ r.outcome = "created" =>
       alert[e] # NoAlert /\ r.alert = e /\ HasLog(e, e, "trigger") /\ HasPush(e, e)
  /\ r.outcome = "updated" =>
       alert[r.alert] # NoAlert /\ r.alert <= e /\ HasPush(e, r.alert)
  /\ r.outcome \in {"recovered", "closed"} =>
       /\ r.alert \in EndedByEvent(e)
       /\ HasLog(e, r.alert, IF r.outcome = "closed" THEN "close" ELSE "recover")
       /\ HasPush(e, r.alert)
  /\ r.outcome = "rotated" =>
       /\ alert[e] # NoAlert /\ r.alert = e /\ HasLog(e, e, "trigger") /\ HasPush(e, e)
       /\ \E a \in EndedByEvent(e) : HasLog(e, a, "close") /\ HasPush(e, a)
  /\ r.outcome = "suppressed" => HasLog(e, r.alert, "suppress")
  /\ r.outcome = "orphaned" => alert[e] = NoAlert

(* An event has a result only when everything it stands for is durable     *)
(* (lifecycle.md section 6): the alert transition, the operation log and   *)
(* the record of the hook's output.  The result is the last write, so a    *)
(* crash in between leaves the event to be resumed.                        *)
ResultIsBacked == \A e \in Ids : Backed(e)

(* The id of the alert that is active after the first n events when they   *)
(* are decided one by one, 0 when there is none.                           *)
ActiveAfter ==
  LET lane[n \in 0..N] ==
        IF n = 0 THEN 0
        ELSE IF kind[n].action # "triggered" THEN 0
        ELSE IF lane[n - 1] = 0 THEN n
        ELSE IF kind[n].sev < kind[lane[n - 1]].sev THEN n ELSE lane[n - 1]
  IN lane

(* The decision table of lifecycle.md section 4. *)
TableResult(e) ==
  LET a == ActiveAfter[e - 1]
      k == kind[e]
  IN IF k.action # "triggered"
     THEN IF a = 0 THEN [state |-> "orphaned", alert |-> 0, outcome |-> "orphaned"]
          ELSE Accepted(a, IF k.action = "resolved" THEN "recovered" ELSE "closed")
     ELSE IF a = 0 THEN Accepted(e, "created")
     ELSE IF k.sev = kind[a].sev THEN Accepted(a, "updated")
     ELSE IF k.sev < kind[a].sev THEN Accepted(e, "rotated")
     ELSE [state |-> "suppressed", alert |-> a, outcome |-> "suppressed"]

(* Serial outcome: without operators and lost leases, crashes and resumed  *)
(* half-done work change nothing: every result is the one the table gives  *)
(* when the lane's events are decided one by one, and when all have        *)
(* results the active alert is the table's.                                *)
SerialOutcome ==
  /\ \A e \in Ids : Done(e) => event[e] = TableResult(e)
  /\ (\A e \in Ids : Done(e)) => ActiveIds = {ActiveAfter[N]} \ {0}

(* A close that was reported as done is durable, has the reason and time   *)
(* of the command and is logged for it (lifecycle.md section 7): also when *)
(* a lost reply made the operator repeat it, when an event ended the alert *)
(* first, and when two equal commands race.                                *)
CloseAnswered ==
  \A o \in Commands : answer[o] = "ok" =>
    LET s == alert[target[o]] IN
    /\ s.status = "closed" /\ s.endType = "operator" /\ s.endBy = StampOf[o]
    /\ HasLog(o, target[o], "close") /\ HasPush(o, target[o])

(* Every event of the lane gets its result when faults are finitely many:  *)
(* a half-done event can always be resumed (lifecycle.md section 6).       *)
EveryEventFinishes == \A e \in Ids : <>Done(e)

(* log.go line 70 and lifecycle.md line 233: logs that were stored by an   *)
(* earlier attempt are absorbed by their stable ids, so appending again    *)
(* never fails on their content.                                           *)
LogsAbsorbed == \A p \in Procs : proc[p].pc = "logs" => ~LogConflict(proc[p].todo)
=============================================================================
