--------------------------- MODULE AlertArchive ---------------------------
(***************************************************************************)
(* AlertProcessor over the Elasticsearch repository, with the control      *)
(* plane's alert archiver at work on the same alerts.                      *)
(*                                                                         *)
(* An alert is a document of the Active index, and once it has ended the   *)
(* archiver copies it to a History index and deletes the Active document.  *)
(* A search sees a write only after a refresh.  The repository asks every  *)
(* write of an alert to wait for it, but a caller whose request times out  *)
(* does not get to wait.  So there are two views of the Active index:      *)
(* "stored" is what creates, conditional writes and realtime reads see,    *)
(* and "alert", the variable of AlertProcessor, is what searches see.      *)
(* FindActiveAlert, FindAlertEndedByEvent and GetAlert are searches.       *)
(*                                                                         *)
(* The repository calls that differ from those of AlertProcessor are       *)
(* redefined here, everything else is AlertProcessor's.  The mailbox lease *)
(* is exclusive, which is what CreateAlert asks of its caller.  A History  *)
(* document is visible to searches at once.                                *)
(***************************************************************************)
EXTENDS AlertProcessor, FiniteSetsExt

CONSTANTS
  Limit,      \* ArchiveBatchRequest.Limit
  NoBucket    \* alerts whose History write alias does not exist

ASSUME LimitType == Limit \in Nat \ {0}
ASSUME NoBucketType == NoBucket \subseteq 1..N

VARIABLES
  stored,     \* stored[a]: the document in the Active index, or NoAlert
  history,    \* history[a]: the document in the History index, or NoAlert
  item,       \* item[a]: the archiver's work on alert a
  cursor      \* the archiver's cursor: 0 starts a new sweep

archiveVars == <<stored, history, item, cursor>>
archiverVars == <<history, item, cursor>>
allVars == <<vars, archiveVars>>

NoItem == [phase |-> "none", snap |-> NoAlert]

ArchiveTypeOK ==
  /\ TypeOK
  /\ \A a \in Ids : {stored[a], history[a], item[a].snap} \subseteq AlertRecords \cup {NoAlert}
  /\ \A a \in Ids : item[a].phase \in {"none", "create", "verify", "delete"}
  /\ cursor \in 0..N

ArchiveInit ==
  /\ Init
  /\ stored = [a \in Ids |-> NoAlert] /\ history = [a \in Ids |-> NoAlert]
  /\ item = [a \in Ids |-> NoItem] /\ cursor = 0

-----------------------------------------------------------------------------
(* The repository. *)

(* Active index and History bucket are searched together; copies of one    *)
(* alert must be equal (collapseAlertHits).                                *)
Copies(a) == {alert[a], history[a]} \ {NoAlert}

(* GetAlert: the alert, or NoAlert when there is none or the copies differ. *)
GetAlert(a) == IF Cardinality(Copies(a)) = 1 THEN CHOOSE s \in Copies(a) : TRUE ELSE NoAlert

(* Mutant: a write does not wait for the refresh. *)
AnsweredAtOnce(a, s) ==
  stored' = [stored EXCEPT ![a] = s] /\ UNCHANGED alert

(* A write of the Active document of a that is answered: refresh=wait_for. *)
Answered(a, s) ==
  /\ stored' = [stored EXCEPT ![a] = s]
  /\ alert' = [stored EXCEPT ![a] = s]

(* A write whose answer the caller does not get. *)
Unanswered(a, s) == stored' = [stored EXCEPT ![a] = s] /\ UNCHANGED alert

(* The index is refreshed. *)
Refresh ==
  /\ alert' = stored
  /\ UNCHANGED <<kind, event, logs, sent, proc, target, answer, holder, lost, faults>>
  /\ UNCHANGED archiveVars

(* Process p writes s to alert a and goes on with r. *)
Write(p, a, s, r) ==
  \/ Answered(a, s) /\ Step(p, r) /\ UNCHANGED faults
  \/ Unanswered(a, s) /\ Step(p, Return) /\ Fault

(* CompareAndSetAlert: GetAlert must still return the version in snap, and *)
(* the conditional PUT must find it.                                       *)
CompareAndSet(p, a, s, r, conflict) ==
  LET snap == proc[p].snap IN
  \/ /\ GetAlert(a) = NoAlert
     /\ Step(p, Return)
     /\ UNCHANGED <<alert, stored, faults>>
  \/ /\ GetAlert(a) = snap /\ stored[a] = snap
     /\ Write(p, a, s, r)
  \/ /\ GetAlert(a) # NoAlert
     /\ GetAlert(a) # snap \/ stored[a] # snap
     /\ Step(p, conflict)
     /\ UNCHANGED <<alert, stored, faults>>

-----------------------------------------------------------------------------
(* The processor's calls that are different on Elasticsearch. *)

(* More than one active alert is an error of the search. *)
SearchActiveAlert(w) ==
  IF Cardinality(ActiveIds) <= 1
  THEN FindActiveAlert(w) /\ UNCHANGED archiveVars
  ELSE /\ proc[w].pc = "find"
       /\ Step(w, Return)
       /\ UNCHANGED <<kind, repository, sent, target, answer, faults, archiveVars>>

(* FindAlertEndedByEvent asks ActiveAlertTargets, the Active index only.   *)
SearchEndedByEvent(w) ==
  (FindAlertEndedByEvent(w) \/ ResumeOpened(w)) /\ UNCHANGED archiveVars

(* CreateAlert, for createAlert and for completeRotation: first it looks   *)
(* for an active alert of the lane.                                        *)
CreateSearch(w) ==
  LET r == proc[w]
      rotates == r.pc = "rotate_create"
  IN
  /\ r.pc \in {"create", "rotate_create"}
  /\ Step(w, [r EXCEPT !.pc =
       IF ActiveIds = {} THEN (IF rotates THEN "rotate_put" ELSE "put")
       ELSE (IF rotates THEN "rotate_conflict" ELSE "conflict")])
  /\ UNCHANGED <<kind, repository, sent, target, answer, faults, archiveVars>>

(* The alert event e opens.  Its revision is new also when an alert of     *)
(* that id was there before: update_at is the clock's.                     *)
OpenedAlert(e) ==
  [newAlert(e) EXCEPT !.rev = IF history[e] = NoAlert THEN 1 ELSE history[e].rev + 1]

(* Then PUT _create in the Active index.  A document that is there has     *)
(* another update_at, so its content differs.                              *)
CreatePut(w) ==
  LET r == proc[w]
      rotates == r.pc = "rotate_put"
      s == OpenedAlert(r.ev)
  IN
  /\ r.pc \in {"put", "rotate_put"}
  /\ \/ /\ stored[r.ev] = NoAlert
        /\ Write(w, r.ev, s,
             IF rotates THEN finishRotation(r, r.oldId, r.old, r.ev, s)
             ELSE CreatedJob(r, r.ev, s))
     \/ /\ stored[r.ev] # NoAlert
        /\ Step(w, [r EXCEPT !.pc = IF rotates THEN "rotate_conflict" ELSE "conflict"])
        /\ UNCHANGED <<alert, stored, faults>>
  /\ UNCHANGED <<kind, event, logs, sent, target, answer, archiverVars>>

(* createAlert and completeRotation after an identity conflict. *)
ReadConflicting(w) ==
  LET r == proc[w] IN
  /\ \/ r.pc = "conflict" /\ Step(w, AfterConflict(r, GetAlert(r.ev)))
     \/ r.pc = "rotate_conflict" /\ Step(w, AfterRotateConflict(r, GetAlert(r.ev)))
  /\ UNCHANGED <<kind, repository, sent, target, answer, faults, archiveVars>>

ReplaceAlert(w) ==
  LET r == proc[w]
      s == Replacement(r)
  IN
  /\ r.pc \in {"update", "terminate", "rotate"}
  /\ CompareAndSet(w, r.id, s, AfterWrite(r, s), RetryDecision(r))
  /\ UNCHANGED <<kind, event, logs, sent, target, answer, archiverVars>>

(* CloseAlert.  A read that finds nothing, or two different copies, fails. *)
ReadToClose(o) ==
  LET r == proc[o]
      s == GetAlert(r.id)
  IN
  /\ r.pc = "close_get"
  /\ IF s = NoAlert
     THEN /\ Step(o, Return)
          /\ UNCHANGED <<kind, repository, sent, target, answer, faults>>
     ELSE CloseFound(o, s)
  /\ UNCHANGED archiveVars

ReplaceToClose(o) ==
  LET r == proc[o]
      s == operatorClosedAlert(r.snap, o)
  IN
  /\ r.pc = "close_cas"
  /\ CompareAndSet(o, r.id, s, CloseJob(o, r, s), RetryClose(r))
  /\ UNCHANGED <<kind, event, logs, sent, target, answer, archiverVars>>

-----------------------------------------------------------------------------
(* The archiver: one batch after the other, the items of a batch in any    *)
(* order.                                                                  *)

processorVars == <<kind, event, logs, sent, proc, target, answer, holder, lost>>
Idle == \A a \in Ids : item[a] = NoItem

(* The Limit first of a set of alert ids. *)
Page(S) == {a \in S : Cardinality({b \in S : b < a}) < Limit}

(* Mutant: only a page without failures moves the cursor. *)
CursorAfterArchived(page) ==
  IF page \cap NoBucket # {} THEN cursor
  ELSE IF Cardinality(page) = Limit THEN Max(page) ELSE 0

(* Mutant: the item behind a full page is skipped. *)
CursorBeyond(page) == IF Cardinality(page) = Limit THEN Max(page) + 1 ELSE 0

(* A full page is continued behind its last item, whatever became of its   *)
(* items; another one ends the sweep.                                      *)
NextCursor(page) == IF Cardinality(page) = Limit THEN Max(page) ELSE 0

(* ArchiveTerminalAlerts: search for ended alerts behind the cursor. *)
Scan ==
  LET page == Page({a \in Ids : a > cursor /\ alert[a] # NoAlert /\ alert[a].status # "active"})
  IN
  /\ Idle
  /\ item' = [a \in Ids |->
       IF a \in page THEN [phase |-> "create", snap |-> alert[a]] ELSE NoItem]
  /\ cursor' = NextCursor(page)
  /\ UNCHANGED <<vars, stored, history>>

ItemIs(a, phase) == item' = [item EXCEPT ![a].phase = phase]
(* The item is archived, or it is left to the next sweep. *)
ItemOver(a) == item' = [item EXCEPT ![a] = NoItem]

(* Mutant: an item that could not be copied is deleted all the same. *)
DeleteUnconditionally(a) == ItemIs(a, "delete")

(* An item whose History copy was refused stays in the Active index. *)
CreateRefused(a) == ItemOver(a)

(* Bulk create in the History bucket; a document that is there has to be   *)
(* compared; the request may fail, or be carried out without an answer.    *)
CreateHistory(a) ==
  LET copied == history' = [history EXCEPT ![a] = item[a].snap] IN
  /\ item[a].phase = "create"
  /\ \/ /\ a \notin NoBucket /\ history[a] = NoAlert
        /\ copied /\ ItemIs(a, "delete") /\ UNCHANGED faults
     \/ /\ a \notin NoBucket /\ history[a] # NoAlert
        /\ ItemIs(a, "verify") /\ UNCHANGED <<history, faults>>
     \/ /\ a \in NoBucket
        /\ CreateRefused(a) /\ UNCHANGED <<history, faults>>
     \/ /\ a \notin NoBucket /\ history[a] = NoAlert
        /\ copied /\ ItemOver(a) /\ Fault
     \/ CreateRefused(a) /\ Fault /\ UNCHANGED history
  /\ UNCHANGED <<processorVars, alert, stored, cursor>>

(* verifyArchiveConflicts: a realtime read of the copy, which may fail. *)
VerifyHistory(a) ==
  /\ item[a].phase = "verify"
  /\ \/ /\ IF history[a] = item[a].snap THEN ItemIs(a, "delete") ELSE ItemOver(a)
        /\ UNCHANGED faults
     \/ ItemOver(a) /\ Fault
  /\ UNCHANGED <<processorVars, alert, stored, history, cursor>>

(* deleteArchivedActiveAlerts, by sequence number.  A document that is     *)
(* gone or has changed stays as it is.                                     *)
DeleteActive(a) ==
  /\ item[a].phase = "delete"
  /\ ItemOver(a)
  /\ \/ /\ stored[a] = item[a].snap
        /\ \/ Answered(a, NoAlert) /\ UNCHANGED faults
           \/ Unanswered(a, NoAlert) /\ Fault
     \/ stored[a] # item[a].snap /\ UNCHANGED <<alert, stored, faults>>
     \/ Fault /\ UNCHANGED <<alert, stored>>
  /\ UNCHANGED <<processorVars, history, cursor>>

(* The control plane is restarted. *)
RestartArchiver ==
  /\ ~Idle /\ Fault
  /\ item' = [a \in Ids |-> NoItem] /\ cursor' = 0
  /\ UNCHANGED <<processorVars, alert, stored, history>>

-----------------------------------------------------------------------------
ElasticWorker(w) ==
  \/ SearchActiveAlert(w) \/ SearchEndedByEvent(w) \/ CreateSearch(w)
  \/ CreatePut(w) \/ ReadConflicting(w) \/ ReplaceAlert(w)
  \/ /\ ReadEvent(w) \/ RunFinalHook(w) \/ AppendAlertLogs(w) \/ finishEvent(w)
     /\ UNCHANGED archiveVars

ElasticCommand(o) ==
  \/ ReadToClose(o) \/ ReplaceToClose(o)
  \/ (RunFinalHook(o) \/ AppendAlertLogs(o)) /\ UNCHANGED archiveVars

Item(a) == CreateHistory(a) \/ VerifyHistory(a) \/ DeleteActive(a)

ArchiveNext ==
  \/ \E w \in Workers : ElasticWorker(w)
  \/ \E o \in Commands : ElasticCommand(o)
  \/ /\ \/ \E w \in Workers, e \in Ids : Begin(w, e)
        \/ \E o \in Commands, a \in Ids : Copies(a) # {} /\ IssueClose(o, a)
        \/ \E p \in Procs : AppendPartly(p) \/ Abort(p)
     /\ UNCHANGED archiveVars
  \/ Refresh \/ Scan \/ RestartArchiver
  \/ \E a \in Ids : Item(a)

ArchiveSpec == ArchiveInit /\ [][ArchiveNext]_allVars

(* The indices are refreshed periodically and the archiver never stops. *)
ArchiveFairness ==
  /\ WF_allVars(Refresh)
  /\ WF_allVars(Scan)
  /\ \A a \in Ids : WF_allVars(Item(a))

FairArchiveSpec == ArchiveSpec /\ ArchiveFairness

-----------------------------------------------------------------------------
Ended(s) == s # NoAlert /\ s.status # "active"

(* A lane never has two active alerts, although Elasticsearch has no       *)
(* unique key for it and searches lag behind: the lease and refresh=       *)
(* wait_for are enough (alert.go:26, core-storage-contract.md:43), as long *)
(* as no operator closes the alert of an event without a result.           *)
OneActiveDocument ==
  Cardinality({a \in Ids : stored[a] # NoAlert /\ stored[a].status = "active"}) <= 1

(* What has ended is never lost or changed while it is moved: an ended     *)
(* Active document stays, or its content is in the History index; a        *)
(* History document stays (core-storage-contract.md:79).                   *)
EndedKept ==
  [][\A a \in Ids :
       /\ Ended(stored[a]) => stored'[a] = stored[a] \/ history'[a] = stored[a]
       /\ history[a] # NoAlert => history'[a] = history[a]]_allVars

(* An ended alert leaves the Active index for good, however many others    *)
(* cannot be archived (manager.go:316, process.go:331).                    *)
EndedAreArchived ==
  \A a \in Ids \ NoBucket :
    Ended(stored[a]) /\ history[a] \in {NoAlert, stored[a]} ~> ~Ended(stored[a])

(* lifecycle.md:231: an alert that an event ended before a crash is found  *)
(* again by FindAlertEndedByEvent, so the event's result names it.         *)
EndedByIsRecorded ==
  \A e \in Ids, a \in Ids : Done(e) =>
    \A s \in {stored[a], history[a]} \ {NoAlert} :
      Ended(s) /\ s.latest = e =>
        /\ s.endType = "source" => event[e].alert = a
        /\ s.endType = "severity_upgrade" => event[e].outcome = "rotated"
=============================================================================
