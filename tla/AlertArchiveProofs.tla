------------------------ MODULE AlertArchiveProofs ------------------------
(***************************************************************************)
(* Proofs about AlertArchive, for every number of alerts, workers,         *)
(* operators, faults and every page size: types, that an ended alert is    *)
(* neither lost nor changed while the archiver moves it, and, without      *)
(* operators, that a lane never has two active documents.                  *)
(*                                                                         *)
(* Processor and archiver share the Active index without a lock.  What     *)
(* keeps them apart is that a conditional write names the document it      *)
(* replaces: a process only ever replaces a document it has read as active *)
(* (Known), and the archiver deletes only the very document whose copy is  *)
(* in the History index (Copied).                                          *)
(***************************************************************************)
EXTENDS AlertArchive, AlertProcessorProofs, SequenceFacts

Documents == [Ids -> AlertRecords \cup {NoAlert}]
Phases == {"none", "create", "verify", "delete"}

(* What the locals of process p tell at each point. *)
Known(p, r) ==
  /\ p \in Workers => /\ r.pc \in WorkerPcs \cup {"put", "rotate_put"}
                      /\ r.pc # "idle" => r.ev \in Ids
  /\ p \in Commands => r.pc \in CommandPcs /\ (r.pc # "idle" => r.id \in Ids)
  /\ r.pc \in {"update", "terminate", "rotate", "close_cas"} =>
       r.id \in Ids /\ r.snap \in AlertRecords /\ r.snap.status = "active"
  /\ r.pc \in {"rotate_create", "rotate_put", "rotate_conflict"} =>
       r.oldId \in Ids /\ r.old \in AlertRecords
  /\ r.pc = "resume" => r.id = r.ev /\ r.snap \in AlertRecords
  /\ r.pc = "hooks" => Len(r.hooks) > 0

ArchiveTypes ==
  /\ Types
  /\ stored \in Documents /\ history \in Documents
  /\ item \in [Ids -> [phase : Phases, snap : AlertRecords \cup {NoAlert}]]
  /\ cursor \in 0..N

(* Before an Active document is deleted, it has been copied. *)
Copied == \A a \in Ids : item[a].phase = "delete" => history[a] = item[a].snap

ArchiveInv ==
  /\ ArchiveTypes
  /\ \A p \in Procs : Known(p, proc[p])
  /\ Copied

(* What a step may do to an ended alert (EndedKept). *)
EndedStep ==
  \A a \in Ids :
    /\ Ended(stored[a]) => stored'[a] = stored[a] \/ history'[a] = stored[a]
    /\ history[a] # NoAlert => history'[a] = history[a]

-----------------------------------------------------------------------------
(* Steps of the processor. *)

(* Process p goes on with r; the archiver rests. *)
LEMMA ProcessStep ==
  ASSUME ArchiveInv, NEW p \in Procs, NEW r \in ProcRecords, Known(p, r), Step(p, r),
         UNCHANGED <<kind, archiverVars>>, event' \in [Ids -> Results],
         alert' \in Documents, stored' \in Documents,
         logs' \subseteq LogRecords, sent' \subseteq Ids \X Nat, faults' \in 0..MaxFaults,
         target' \in [Commands -> 0..N],
         answer' \in [Commands -> {"none", "ok", "rejected"}]
  PROVE  ArchiveInv'
<1>1. Types
  BY DEF ArchiveInv, ArchiveTypes
<1>2. /\ proc' \in [Procs -> ProcRecords] /\ proc'[p] = r
      /\ \A q \in Procs \ {p} : proc'[q] = proc[q]
      /\ \A q \in Procs : /\ proc'[q].try \in 0..maxCASAttempts
                          /\ proc'[q].todo \subseteq LogRecords
                          /\ proc'[q].fin \in Results
      /\ holder' \in Workers \cup {Nobody} /\ lost' \in 0..MaxLost
  BY <1>1, StepTypes
<1>3. Types'
  BY <1>1, <1>2 DEF Types, TypeOK, Documents
<1>4. \A q \in Procs : Known(q, proc'[q])
  BY <1>2 DEF ArchiveInv
<1> QED BY <1>3, <1>4 DEF ArchiveInv, ArchiveTypes, Copied, archiverVars

(* What does not change keeps its type. *)
LEMMA TypeFacts ==
  ASSUME ArchiveInv
  PROVE  /\ Types /\ alert \in Documents /\ stored \in Documents /\ history \in Documents
         /\ kind \in [Ids -> Kinds] /\ event \in [Ids -> Results]
         /\ logs \subseteq LogRecords /\ sent \subseteq Ids \X Nat
         /\ faults \in 0..MaxFaults /\ target \in [Commands -> 0..N]
         /\ answer \in [Commands -> {"none", "ok", "rejected"}]
BY DEF ArchiveInv, ArchiveTypes, Types, TypeOK, Documents

(* Process p goes on with r and writes nothing. *)
LEMMA ReadStep ==
  ASSUME ArchiveInv, NEW p \in Procs, NEW r \in ProcRecords, Known(p, r), Step(p, r),
         UNCHANGED <<kind, repository, sent, target, answer, faults, archiveVars>>
  PROVE  ArchiveInv' /\ EndedStep
<1>1. UNCHANGED <<kind, event, alert, logs, sent, target, answer, faults, stored, history>>
      /\ UNCHANGED archiverVars
  BY DEF repository, archiveVars, archiverVars
<1>2. ArchiveInv'
  BY <1>1, TypeFacts, ProcessStep
<1>3. EndedStep
  BY <1>1 DEF EndedStep
<1> QED BY <1>2, <1>3

LEMMA ReturnKnown ==
  ASSUME NEW p \in Procs
  PROVE  NotRunning \in ProcRecords /\ Known(p, NotRunning)
<1>1. NotRunning \in ProcRecords
  BY NotRunningType
<1>2. NotRunning.pc = "idle"
  BY DEF NotRunning
<1> HIDE DEF NotRunning
<1>3. Known(p, NotRunning)
  BY <1>2 DEF Known, WorkerPcs, CommandPcs
<1> QED BY <1>1, <1>3

LEMMA JobKnown ==
  ASSUME NEW p \in Procs, NEW r \in ProcRecords, NEW m, IsJob(r, m),
         p \in Workers => r.ev \in Ids, p \in Commands => r.id \in Ids
  PROVE  m \in ProcRecords /\ Known(p, m)
<1>1. PICK hs \in Seq(HookRecords), todo \in SUBSET LogRecords, fin \in Results :
        m = Job(r, hs, todo, fin)
  BY DEF IsJob
<1>2. /\ m \in ProcRecords /\ m.pc = (IF hs = <<>> THEN "logs" ELSE "hooks")
      /\ m.hooks = hs /\ m.ev = r.ev /\ m.id = r.id
  BY <1>1, JobFields
<1>3. hs # <<>> => Len(hs) > 0
  OBVIOUS
<1>4. Known(p, m)
  BY <1>2, <1>3 DEF Known, WorkerPcs, CommandPcs
<1> QED BY <1>2, <1>4

(* What a running process starts from. *)
LEMMA RunningElastic ==
  ASSUME ArchiveInv, NEW p \in Procs, proc[p].pc # "idle"
  PROVE  /\ proc[p] \in ProcRecords /\ Known(p, proc[p])
         /\ p \in Workers => p \notin Commands /\ proc[p].ev \in Ids
         /\ p \in Commands => p \notin Workers /\ proc[p].id \in Ids
BY ProcsDisjoint DEF ArchiveInv, ArchiveTypes, Types, Known

(* A worker goes on to a point where it has read nothing new. *)
LEMMA MoveKnown ==
  ASSUME NEW w \in Workers, NEW r \in ProcRecords, r.ev \in Ids,
         NEW x \in {"read", "find", "ended", "create", "put", "conflict", "finish"}
  PROVE  [r EXCEPT !.pc = x] \in ProcRecords /\ Known(w, [r EXCEPT !.pc = x])
<1> DEFINE m == [r EXCEPT !.pc = x]
<1>1. m \in ProcRecords /\ m.pc = x /\ m.ev = r.ev
  BY DEF ProcRecords, WorkerPcs
<1> HIDE DEF m
<1>2. Known(w, m)
  BY <1>1, ProcsDisjoint DEF Known, WorkerPcs
<1> QED BY <1>1, <1>2 DEF m

LEMMA RetryKnown ==
  ASSUME NEW w \in Workers, NEW r \in ProcRecords, r.ev \in Ids
  PROVE  RetryDecision(r) \in ProcRecords /\ Known(w, RetryDecision(r))
<1> DEFINE m == [NotRunning EXCEPT !.pc = "read", !.ev = r.ev, !.try = r.try + 1]
<1>1. RetryDecision(r) \in ProcRecords
  BY RetryGood
<1>2. CASE r.try < maxCASAttempts
  <2>1. RetryDecision(r) = m /\ m.pc = "read" /\ m.ev = r.ev
    BY <1>2 DEF RetryDecision, NotRunning
  <2> HIDE DEF m
  <2> QED BY <1>1, <2>1, ProcsDisjoint DEF Known, WorkerPcs
<1>3. CASE ~(r.try < maxCASAttempts)
  BY <1>1, <1>3, ReturnKnown DEF RetryDecision, Return, Procs
<1> QED BY <1>2, <1>3

LEMMA SnapshotKnown ==
  ASSUME NEW w \in Workers, NEW r \in ProcRecords, r.ev \in Ids,
         NEW a \in Ids, NEW s \in AlertRecords, s.status = "active",
         NEW x \in {"update", "terminate", "rotate"}
  PROVE  LET m == [r EXCEPT !.pc = x, !.id = a, !.snap = s] IN
         m \in ProcRecords /\ Known(w, m)
<1> DEFINE m == [r EXCEPT !.pc = x, !.id = a, !.snap = s]
<1>0. a \in 0..N
  BY LaneType DEF Ids
<1>1. m \in ProcRecords /\ m.pc = x /\ m.ev = r.ev /\ m.id = a /\ m.snap = s
  BY <1>0 DEF ProcRecords, WorkerPcs
<1> HIDE DEF m
<1>2. Known(w, m)
  BY <1>1, ProcsDisjoint DEF Known, WorkerPcs
<1> QED BY <1>1, <1>2 DEF m

LEMMA ResumeActiveKnown ==
  ASSUME NEW w \in Workers, NEW r \in ProcRecords, r.ev \in Ids,
         NEW a \in Ids, NEW s \in AlertRecords
  PROVE  /\ resumeActiveEvent(r, a, s) \in ProcRecords
         /\ Known(w, resumeActiveEvent(r, a, s))
<1> DEFINE m == [r EXCEPT !.pc = "resume", !.id = a, !.snap = s]
<1>0. w \in Procs /\ w \notin Commands /\ a \in 0..N
  BY LaneType, ProcsDisjoint DEF Procs, Ids
<1>1. CASE s.latest # r.ev
  BY <1>0, <1>1, ReturnKnown DEF resumeActiveEvent, Return
<1>2. CASE s.latest = r.ev /\ a # r.ev
  <2>1. resumeActiveEvent(r, a, s) = UpdatedJob(r, a, s)
    BY <1>2 DEF resumeActiveEvent
  <2> QED BY <1>0, <2>1, UpdatedJobGood, JobKnown
<1>3. CASE s.latest = r.ev /\ a = r.ev
  <2>1. /\ resumeActiveEvent(r, a, s) = m
        /\ m \in ProcRecords /\ m.pc = "resume" /\ m.ev = r.ev /\ m.id = a /\ m.snap = s
    BY <1>0, <1>3 DEF resumeActiveEvent, ProcRecords, WorkerPcs
  <2> HIDE DEF m
  <2> QED BY <1>0, <1>3, <2>1 DEF Known, WorkerPcs
<1> QED BY <1>1, <1>2, <1>3

LEMMA RotationKnown ==
  ASSUME NEW w \in Workers, NEW r \in ProcRecords, r.ev \in Ids,
         NEW oid \in Ids, NEW os \in AlertRecords, NEW ns \in AlertRecords
  PROVE  /\ finishRotation(r, oid, os, r.ev, ns) \in ProcRecords
         /\ Known(w, finishRotation(r, oid, os, r.ev, ns))
<1>0. w \in Procs /\ w \notin Commands
  BY ProcsDisjoint DEF Procs
<1>1. \/ IsJob(r, finishRotation(r, oid, os, r.ev, ns))
      \/ finishRotation(r, oid, os, r.ev, ns) = NotRunning
  BY RotationGood
<1> QED BY <1>0, <1>1, JobKnown, ReturnKnown

LEMMA DecideKnown ==
  ASSUME NEW w \in Workers, NEW r \in ProcRecords, r.ev \in Ids,
         NEW a \in Ids, NEW s \in AlertRecords, s.status = "active"
  PROVE  decide(r, a, s) \in ProcRecords /\ Known(w, decide(r, a, s))
<1> DEFINE k == kind[r.ev]
           go(x) == [r EXCEPT !.pc = x, !.id = a, !.snap = s]
<1>0. w \in Procs /\ w \notin Commands
  BY ProcsDisjoint DEF Procs
<1>1. CASE decide(r, a, s) = resumeActiveEvent(r, a, s)
  BY <1>1, ResumeActiveKnown
<1>2. ASSUME NEW x \in {"terminate", "update", "rotate"}
      PROVE  go(x) \in ProcRecords /\ Known(w, go(x))
  BY SnapshotKnown
<1>3. \/ decide(r, a, s) = resumeActiveEvent(r, a, s)
      \/ decide(r, a, s) \in {go("terminate"), go("update"), go("rotate")}
      \/ decide(r, a, s) = SuppressedJob(r, a)
  BY DEF decide
<1> HIDE DEF go
<1>4. CASE decide(r, a, s) \in {go("terminate"), go("update"), go("rotate")}
  BY <1>2, <1>4
<1>5. CASE decide(r, a, s) = SuppressedJob(r, a)
  BY <1>0, <1>5, SuppressedJobGood, JobKnown
<1> QED BY <1>1, <1>3, <1>4, <1>5

-----------------------------------------------------------------------------
(* The repository's calls. *)

(* What GetAlert returns is an alert. *)
LEMMA GetAlertType ==
  ASSUME ArchiveInv, NEW a \in Ids
  PROVE  GetAlert(a) \in AlertRecords \cup {NoAlert}
<1>1. Copies(a) \subseteq AlertRecords
  BY TypeFacts DEF Copies, Documents
<1>2. CASE Cardinality(Copies(a)) = 1
  <2>1. Copies(a) # {}
    BY <1>2, FS_EmptySet
  <2>2. (CHOOSE s \in Copies(a) : TRUE) \in Copies(a)
    BY <2>1
  <2> QED BY <1>1, <1>2, <2>2 DEF GetAlert
<1>3. CASE Cardinality(Copies(a)) # 1
  BY <1>3 DEF GetAlert
<1> QED BY <1>2, <1>3

(* Process p writes alert a, which is not there or active, and goes on     *)
(* with r.                                                                 *)
LEMMA WriteGood ==
  ASSUME ArchiveInv, NEW p \in Procs, NEW a \in Ids, NEW s \in AlertRecords,
         NEW r \in ProcRecords, Known(p, r), Write(p, a, s, r), ~Ended(stored[a]),
         UNCHANGED <<kind, event, logs, sent, target, answer, archiverVars>>
  PROVE  ArchiveInv' /\ EndedStep
<1>1. stored' = [stored EXCEPT ![a] = s] /\ (alert' = stored' \/ alert' = alert)
  BY DEF Write, Answered, Unanswered
<1>2. /\ stored' \in Documents /\ alert' \in Documents
      /\ \A b \in Ids \ {a} : stored'[b] = stored[b]
  BY <1>1, TypeFacts DEF Documents
<1>3. faults' \in 0..MaxFaults
  BY TypeFacts, BoundsType DEF Write, Fault
<1>4. \/ Step(p, r)
      \/ Step(p, NotRunning)
  BY DEF Write, Return
<1>5. ArchiveInv'
  BY <1>2, <1>3, <1>4, TypeFacts, ReturnKnown, ProcessStep
<1>6. EndedStep
  BY <1>2 DEF EndedStep, archiverVars
<1> QED BY <1>5, <1>6

LEMMA CompareAndSetKeeps ==
  ASSUME ArchiveInv, NEW p \in Procs, NEW a \in Ids, NEW s \in AlertRecords,
         NEW r \in ProcRecords, Known(p, r), NEW c \in ProcRecords, Known(p, c),
         proc[p].snap.status = "active", CompareAndSet(p, a, s, r, c),
         UNCHANGED <<kind, event, logs, sent, target, answer, archiverVars>>
  PROVE  ArchiveInv' /\ EndedStep
<1>1. CASE (Step(p, NotRunning) \/ Step(p, c)) /\ UNCHANGED <<alert, stored, faults>>
  BY <1>1, ReturnKnown, ReadStep DEF repository, archiveVars, archiverVars
<1>2. CASE stored[a] = proc[p].snap /\ Write(p, a, s, r)
  BY <1>2, WriteGood DEF Ended
<1> QED BY <1>1, <1>2 DEF CompareAndSet, Return

LEMMA SearchActiveGood ==
  ASSUME ArchiveInv, NEW w \in Workers, SearchActiveAlert(w)
  PROVE  ArchiveInv' /\ EndedStep
<1>1. /\ proc[w].pc = "find" /\ w \in Procs
      /\ UNCHANGED <<kind, repository, sent, target, answer, faults, archiveVars>>
  BY DEF SearchActiveAlert, FindActiveAlert, Procs
<1>2. proc[w] \in ProcRecords /\ proc[w].ev \in Ids
  BY <1>1, RunningElastic
<1>3. CASE Step(w, NotRunning)
  BY <1>1, <1>3, ReturnKnown, ReadStep
<1>4. CASE Step(w, [proc[w] EXCEPT !.pc = "ended"])
  <2> DEFINE m == [proc[w] EXCEPT !.pc = "ended"]
  <2>1. m \in ProcRecords /\ Known(w, m)
    BY <1>2, MoveKnown
  <2> HIDE DEF m
  <2> QED BY <1>1, <1>4, <2>1, ReadStep DEF m
<1>5. ASSUME NEW a \in ActiveIds, Step(w, decide(proc[w], a, alert[a]))
      PROVE  ArchiveInv' /\ EndedStep
  <2>1. a \in Ids /\ alert[a] \in AlertRecords /\ alert[a].status = "active"
    BY TypeFacts DEF ActiveIds, Documents
  <2>2. /\ decide(proc[w], a, alert[a]) \in ProcRecords
        /\ Known(w, decide(proc[w], a, alert[a]))
    BY <1>2, <2>1, DecideKnown
  <2> QED BY <1>1, <1>5, <2>2, ReadStep
<1> QED BY <1>3, <1>4, <1>5 DEF SearchActiveAlert, FindActiveAlert, Return

LEMMA ResumeEndedKnown ==
  ASSUME NEW w \in Workers, NEW r \in ProcRecords, r.ev \in Ids,
         NEW a \in Ids, NEW s \in AlertRecords
  PROVE  /\ resumeEndedEvent(r, a, s) \in ProcRecords
         /\ Known(w, resumeEndedEvent(r, a, s))
<1> DEFINE m == [r EXCEPT !.pc = "rotate_create", !.oldId = a, !.old = s]
<1>0. w \in Procs /\ w \notin Commands /\ a \in 0..N
  BY LaneType, ProcsDisjoint DEF Procs, Ids
<1>1. m \in ProcRecords /\ m.pc = "rotate_create" /\ m.ev = r.ev /\ m.oldId = a /\ m.old = s
  BY <1>0 DEF ProcRecords, WorkerPcs
<1>2. resumeEndedEvent(r, a, s) \in {m, TerminatedJob(r, a, s), NotRunning}
  BY DEF resumeEndedEvent, Return
<1> HIDE DEF m
<1>3. Known(w, m)
  BY <1>0, <1>1 DEF Known, WorkerPcs
<1>4. TerminatedJob(r, a, s) \in ProcRecords /\ Known(w, TerminatedJob(r, a, s))
  BY <1>0, TerminatedJobGood, JobKnown
<1> QED BY <1>0, <1>1, <1>2, <1>3, <1>4, ReturnKnown

LEMMA SearchEndedGood ==
  ASSUME ArchiveInv, NEW w \in Workers, SearchEndedByEvent(w)
  PROVE  ArchiveInv' /\ EndedStep
<1> SUFFICES ASSUME NEW r, r = proc[w] PROVE ArchiveInv' /\ EndedStep
  OBVIOUS
<1>1. /\ r.pc \in {"ended", "resume"} /\ w \in Procs
      /\ UNCHANGED <<kind, repository, sent, target, answer, faults, archiveVars>>
  BY DEF SearchEndedByEvent, FindAlertEndedByEvent, ResumeOpened, Procs
<1>2. /\ r \in ProcRecords /\ r.ev \in Ids /\ w \notin Commands
      /\ r.pc = "resume" => r.id = r.ev /\ r.snap \in AlertRecords
  BY <1>1, RunningElastic DEF Known
<1>3. \A a \in EndedByEvent(r.ev) : a \in Ids /\ alert[a] \in AlertRecords
  BY TypeFacts DEF EndedByEvent, Documents
<1>4. CASE Step(w, NotRunning)
  BY <1>1, <1>4, ReturnKnown, ReadStep
<1>5. ASSUME NEW a \in EndedByEvent(r.ev), Step(w, resumeEndedEvent(r, a, alert[a]))
      PROVE  ArchiveInv' /\ EndedStep
  BY <1>1, <1>2, <1>3, <1>5, ResumeEndedKnown, ReadStep
<1>6. CASE Step(w, [r EXCEPT !.pc = "create"])
  <2> DEFINE m == [r EXCEPT !.pc = "create"]
  <2>1. m \in ProcRecords /\ Known(w, m)
    BY <1>2, MoveKnown
  <2> HIDE DEF m
  <2> QED BY <1>1, <1>6, <2>1, ReadStep DEF m
<1>7. CASE Step(w, Orphaned(r))
  <2> DEFINE f == [state |-> "orphaned", alert |-> 0, outcome |-> "orphaned"]
  <2>1. f \in Results
    BY LaneType DEF Results
  <2> HIDE DEF f
  <2> DEFINE m == [r EXCEPT !.pc = "finish", !.fin = f]
  <2>2. m \in ProcRecords /\ m.pc = "finish" /\ m.ev = r.ev
    BY <1>2, <2>1 DEF ProcRecords, WorkerPcs
  <2>3. Orphaned(r) = m
    BY DEF Orphaned, f
  <2> HIDE DEF m
  <2>4. Known(w, m)
    BY <1>2, <2>2 DEF Known, WorkerPcs
  <2> QED BY <1>1, <1>7, <2>2, <2>3, <2>4, ReadStep
<1>8. ASSUME NEW a \in EndedByEvent(r.ev), r.pc = "resume",
             Step(w, finishRotation(r, a, alert[a], r.id, r.snap))
      PROVE  ArchiveInv' /\ EndedStep
  BY <1>1, <1>2, <1>3, <1>8, RotationKnown, ReadStep
<1>9. CASE r.pc = "resume" /\ Step(w, CreatedJob(r, r.id, r.snap))
  BY <1>1, <1>2, <1>9, CreatedJobGood, JobKnown, ReadStep
<1> QED BY <1>4, <1>5, <1>6, <1>7, <1>8, <1>9
        DEF SearchEndedByEvent, FindAlertEndedByEvent, ResumeOpened, Return

(* A worker that rotates goes on with the alert it closed. *)
LEMMA RotateMoveKnown ==
  ASSUME NEW w \in Workers, NEW r \in ProcRecords, r.ev \in Ids,
         r.oldId \in Ids, r.old \in AlertRecords,
         NEW x \in {"rotate_put", "rotate_conflict"}
  PROVE  [r EXCEPT !.pc = x] \in ProcRecords /\ Known(w, [r EXCEPT !.pc = x])
<1> DEFINE m == [r EXCEPT !.pc = x]
<1>1. m \in ProcRecords /\ m.pc = x /\ m.ev = r.ev /\ m.oldId = r.oldId /\ m.old = r.old
  BY DEF ProcRecords, WorkerPcs
<1> HIDE DEF m
<1>2. Known(w, m)
  BY <1>1, ProcsDisjoint DEF Known, WorkerPcs
<1> QED BY <1>1, <1>2 DEF m

LEMMA CreateSearchGood ==
  ASSUME ArchiveInv, NEW w \in Workers, CreateSearch(w)
  PROVE  ArchiveInv' /\ EndedStep
<1> SUFFICES ASSUME NEW r, r = proc[w] PROVE ArchiveInv' /\ EndedStep
  OBVIOUS
<1> DEFINE x == IF ActiveIds = {} THEN (IF r.pc = "rotate_create" THEN "rotate_put" ELSE "put")
                ELSE (IF r.pc = "rotate_create" THEN "rotate_conflict" ELSE "conflict")
           m == [r EXCEPT !.pc = x]
<1>1. /\ r.pc \in {"create", "rotate_create"} /\ w \in Procs /\ Step(w, m)
      /\ UNCHANGED <<kind, repository, sent, target, answer, faults, archiveVars>>
  BY DEF CreateSearch, Procs
<1>2. /\ r \in ProcRecords /\ r.ev \in Ids
      /\ r.pc = "rotate_create" => r.oldId \in Ids /\ r.old \in AlertRecords
  BY <1>1, RunningElastic DEF Known
<1>3. /\ r.pc = "rotate_create" => x \in {"rotate_put", "rotate_conflict"}
      /\ r.pc = "create" => x \in {"put", "conflict"}
  OBVIOUS
<1> HIDE DEF x
<1>4. m \in ProcRecords /\ Known(w, m)
  BY <1>1, <1>2, <1>3, MoveKnown, RotateMoveKnown
<1> HIDE DEF m
<1> QED BY <1>1, <1>4, ReadStep

LEMMA OpenedType ==
  ASSUME ArchiveInv, NEW e \in Ids
  PROVE  OpenedAlert(e) \in AlertRecords
<1>1. newAlert(e) \in AlertRecords
  BY TypeFacts, NewAlertType
<1>2. history[e] \in AlertRecords \cup {NoAlert}
  BY TypeFacts DEF Documents
<1>3. (IF history[e] = NoAlert THEN 1 ELSE history[e].rev + 1) \in Nat \ {0}
  BY <1>2 DEF AlertRecords
<1> QED BY <1>1, <1>3 DEF OpenedAlert, AlertRecords

LEMMA CreatePutGood ==
  ASSUME ArchiveInv, NEW w \in Workers, CreatePut(w)
  PROVE  ArchiveInv' /\ EndedStep
<1> SUFFICES ASSUME NEW r, r = proc[w], NEW s, s = OpenedAlert(r.ev)
             PROVE  ArchiveInv' /\ EndedStep
  OBVIOUS
<1>1. /\ r.pc \in {"put", "rotate_put"} /\ w \in Procs
      /\ UNCHANGED <<kind, event, logs, sent, target, answer, archiverVars>>
  BY DEF CreatePut, Procs
<1>2. /\ r \in ProcRecords /\ r.ev \in Ids /\ w \notin Commands
      /\ r.pc = "rotate_put" => r.oldId \in Ids /\ r.old \in AlertRecords
  BY <1>1, RunningElastic DEF Known
<1>3. s \in AlertRecords
  BY <1>2, OpenedType
<1>4. CASE stored[r.ev] = NoAlert
  <2> DEFINE m == IF r.pc = "rotate_put" THEN finishRotation(r, r.oldId, r.old, r.ev, s)
                  ELSE CreatedJob(r, r.ev, s)
  <2>1. Write(w, r.ev, s, m) /\ ~Ended(stored[r.ev])
    BY <1>4 DEF CreatePut, Ended
  <2>2. m \in ProcRecords /\ Known(w, m)
    BY <1>1, <1>2, <1>3, RotationKnown, CreatedJobGood, JobKnown
  <2> HIDE DEF m
  <2> QED BY <1>1, <1>2, <1>3, <2>1, <2>2, WriteGood
<1>5. CASE stored[r.ev] # NoAlert
  <2> DEFINE x == IF r.pc = "rotate_put" THEN "rotate_conflict" ELSE "conflict"
             m == [r EXCEPT !.pc = x]
  <2>1. Step(w, m) /\ UNCHANGED <<alert, stored, faults>>
    BY <1>5 DEF CreatePut
  <2>2. m \in ProcRecords /\ Known(w, m)
    BY <1>1, <1>2, MoveKnown, RotateMoveKnown
  <2> HIDE DEF m
  <2> QED BY <1>1, <2>1, <2>2, ReadStep DEF repository, archiveVars, archiverVars
<1> QED BY <1>4, <1>5

LEMMA ReadConflictingGood ==
  ASSUME ArchiveInv, NEW w \in Workers, ReadConflicting(w)
  PROVE  ArchiveInv' /\ EndedStep
<1> SUFFICES ASSUME NEW r, r = proc[w], NEW s, s = GetAlert(r.ev)
             PROVE  ArchiveInv' /\ EndedStep
  OBVIOUS
<1>1. /\ r.pc \in {"conflict", "rotate_conflict"} /\ w \in Procs
      /\ UNCHANGED <<kind, repository, sent, target, answer, faults, archiveVars>>
  BY DEF ReadConflicting, Procs
<1>2. /\ r \in ProcRecords /\ r.ev \in Ids
      /\ r.pc = "rotate_conflict" => r.oldId \in Ids /\ r.old \in AlertRecords
  BY <1>1, RunningElastic DEF Known
<1>3. s \in AlertRecords \cup {NoAlert}
  BY <1>2, GetAlertType
<1>4. CASE Step(w, AfterConflict(r, s))
  <2>1. AfterConflict(r, s) \in ProcRecords /\ Known(w, AfterConflict(r, s))
    BY <1>2, <1>3, RetryKnown, ResumeActiveKnown DEF AfterConflict
  <2> QED BY <1>1, <1>4, <2>1, ReadStep
<1>5. CASE r.pc = "rotate_conflict" /\ Step(w, AfterRotateConflict(r, s))
  <2>1. AfterRotateConflict(r, s) \in ProcRecords /\ Known(w, AfterRotateConflict(r, s))
    BY <1>1, <1>2, <1>3, <1>5, ReturnKnown, RetryKnown, RotationKnown
       DEF AfterRotateConflict, Return
  <2> QED BY <1>1, <1>5, <2>1, ReadStep
<1> QED BY <1>4, <1>5 DEF ReadConflicting

LEMMA AfterWriteKnown ==
  ASSUME NEW w \in Workers, NEW r \in ProcRecords, r.ev \in Ids, r.id \in Ids,
         r.pc \in {"update", "terminate", "rotate"}, NEW s \in AlertRecords
  PROVE  AfterWrite(r, s) \in ProcRecords /\ Known(w, AfterWrite(r, s))
<1> DEFINE m == [r EXCEPT !.pc = "rotate_create", !.oldId = r.id, !.old = s]
<1>0. w \in Procs /\ w \notin Commands
  BY ProcsDisjoint DEF Procs
<1>1. m \in ProcRecords /\ m.pc = "rotate_create" /\ m.ev = r.ev /\ m.oldId = r.id /\ m.old = s
  BY DEF ProcRecords, WorkerPcs
<1>2. AfterWrite(r, s) \in {m, UpdatedJob(r, r.id, s), TerminatedJob(r, r.id, s)}
  BY DEF AfterWrite
<1> HIDE DEF m
<1>3. Known(w, m)
  BY <1>0, <1>1 DEF Known, WorkerPcs
<1>4. UpdatedJob(r, r.id, s) \in ProcRecords /\ Known(w, UpdatedJob(r, r.id, s))
  BY <1>0, UpdatedJobGood, JobKnown
<1>5. TerminatedJob(r, r.id, s) \in ProcRecords /\ Known(w, TerminatedJob(r, r.id, s))
  BY <1>0, TerminatedJobGood, JobKnown
<1> QED BY <1>1, <1>2, <1>3, <1>4, <1>5

LEMMA ReplaceAlertGood ==
  ASSUME ArchiveInv, NEW w \in Workers, ReplaceAlert(w)
  PROVE  ArchiveInv' /\ EndedStep
<1> SUFFICES ASSUME NEW r, r = proc[w], NEW s, s = Replacement(r)
             PROVE  ArchiveInv' /\ EndedStep
  OBVIOUS
<1>1. /\ r.pc \in {"update", "terminate", "rotate"} /\ w \in Procs
      /\ CompareAndSet(w, r.id, s, AfterWrite(r, s), RetryDecision(r))
      /\ UNCHANGED <<kind, event, logs, sent, target, answer, archiverVars>>
  BY DEF ReplaceAlert, Procs
<1>2. /\ r \in ProcRecords /\ r.ev \in Ids /\ r.id \in Ids
      /\ r.snap \in AlertRecords /\ r.snap.status = "active"
  BY <1>1, RunningElastic DEF Known
<1>3. s \in AlertRecords
  BY <1>2, ReplacementTypes DEF Replacement
<1>4. AfterWrite(r, s) \in ProcRecords /\ Known(w, AfterWrite(r, s))
  BY <1>1, <1>2, <1>3, AfterWriteKnown
<1>5. RetryDecision(r) \in ProcRecords /\ Known(w, RetryDecision(r))
  BY <1>2, RetryKnown
<1> QED BY <1>1, <1>2, <1>3, <1>4, <1>5, CompareAndSetKeeps

(* CloseAlert. *)
LEMMA CommandKnown ==
  ASSUME NEW o \in Commands, NEW m \in ProcRecords, m.id \in Ids,
         \/ m.pc = "close_get"
         \/ m.pc = "close_cas" /\ m.snap \in AlertRecords /\ m.snap.status = "active"
  PROVE  Known(o, m)
BY ProcsDisjoint DEF Known, CommandPcs

LEMMA ReadToCloseGood ==
  ASSUME ArchiveInv, NEW o \in Commands, ReadToClose(o)
  PROVE  ArchiveInv' /\ EndedStep
<1> SUFFICES ASSUME NEW r, r = proc[o], NEW s, s = GetAlert(r.id)
             PROVE  ArchiveInv' /\ EndedStep
  OBVIOUS
<1>1. /\ r.pc = "close_get" /\ o \in Procs
      /\ UNCHANGED <<kind, event, alert, logs, sent, target, faults, archiveVars>>
      /\ UNCHANGED <<repository, archiverVars, stored, history>>
  BY DEF ReadToClose, CloseFound, Procs, repository, archiveVars, archiverVars
<1>2. r \in ProcRecords /\ r.id \in Ids /\ o \notin Workers
  BY <1>1, RunningElastic
<1>3. s \in AlertRecords \cup {NoAlert}
  BY <1>2, GetAlertType
<1>4. CASE Step(o, NotRunning) /\ UNCHANGED answer
  BY <1>1, <1>4, ReturnKnown, ReadStep
<1>5. CASE /\ s # NoAlert /\ s.status = "active" /\ UNCHANGED answer
           /\ Step(o, [r EXCEPT !.pc = "close_cas", !.snap = s])
  <2> DEFINE m == [r EXCEPT !.pc = "close_cas", !.snap = s]
  <2>1. m \in ProcRecords /\ m.pc = "close_cas" /\ m.id = r.id /\ m.snap = s
    BY <1>2, <1>3 DEF ProcRecords, CommandPcs
  <2> HIDE DEF m
  <2>2. Known(o, m)
    BY <1>2, <1>3, <1>5, <2>1, CommandKnown
  <2> QED BY <1>1, <1>5, <2>1, <2>2, ReadStep DEF m
<1>6. CASE s # NoAlert /\ Step(o, CloseJob(o, r, s)) /\ UNCHANGED answer
  <2>1. CloseJob(o, r, s) \in ProcRecords /\ Known(o, CloseJob(o, r, s))
    BY <1>1, <1>2, <1>3, <1>6, CloseJobGood, JobKnown
  <2> QED BY <1>1, <1>6, <2>1, ReadStep
<1>7. CASE Step(o, NotRunning) /\ answer' = [answer EXCEPT ![o] = "rejected"]
  <2>1. answer' \in [Commands -> {"none", "ok", "rejected"}]
    BY <1>7, TypeFacts
  <2>2. ArchiveInv'
    BY <1>1, <1>7, <2>1, TypeFacts, ReturnKnown, ProcessStep
  <2>3. EndedStep
    BY <1>1 DEF EndedStep
  <2> QED BY <2>2, <2>3
<1> QED BY <1>4, <1>5, <1>6, <1>7 DEF ReadToClose, CloseFound, Return

LEMMA ReplaceToCloseGood ==
  ASSUME ArchiveInv, NEW o \in Commands, ReplaceToClose(o)
  PROVE  ArchiveInv' /\ EndedStep
<1> SUFFICES ASSUME NEW r, r = proc[o], NEW s, s = operatorClosedAlert(r.snap, o)
             PROVE  ArchiveInv' /\ EndedStep
  OBVIOUS
<1>1. /\ r.pc = "close_cas" /\ o \in Procs
      /\ CompareAndSet(o, r.id, s, CloseJob(o, r, s), RetryClose(r))
      /\ UNCHANGED <<kind, event, logs, sent, target, answer, archiverVars>>
  BY DEF ReplaceToClose, Procs
<1>2. /\ r \in ProcRecords /\ r.id \in Ids /\ o \notin Workers
      /\ r.snap \in AlertRecords /\ r.snap.status = "active"
  BY <1>1, RunningElastic DEF Known
<1>3. s \in AlertRecords
  BY <1>2, OperatorCloseType
<1>4. CloseJob(o, r, s) \in ProcRecords /\ Known(o, CloseJob(o, r, s))
  BY <1>1, <1>2, <1>3, CloseJobGood, JobKnown
<1>5. RetryClose(r) \in ProcRecords /\ Known(o, RetryClose(r))
  <2> DEFINE m == [r EXCEPT !.pc = "close_get", !.try = r.try + 1]
  <2>1. CASE r.try < maxCASAttempts
    <3>1. r.try + 1 \in 0..maxCASAttempts
      BY <1>2, <2>1, LaneType DEF ProcRecords
    <3>2. RetryClose(r) = m /\ m \in ProcRecords /\ m.pc = "close_get" /\ m.id = r.id
      BY <1>2, <2>1, <3>1 DEF ProcRecords, CommandPcs, RetryClose
    <3> HIDE DEF m
    <3> QED BY <1>2, <3>2, CommandKnown
  <2>2. CASE ~(r.try < maxCASAttempts)
    BY <1>1, <2>2, ReturnKnown DEF RetryClose, Return
  <2> QED BY <2>1, <2>2
<1> QED BY <1>1, <1>2, <1>3, <1>4, <1>5, CompareAndSetKeeps

-----------------------------------------------------------------------------
(* The steps that are AlertProcessor's. *)

(* Process p goes on with r; no alert is written. *)
LEMMA SharedStep ==
  ASSUME ArchiveInv, NEW p \in Procs, NEW r \in ProcRecords, Known(p, r), Step(p, r),
         UNCHANGED <<kind, alert, archiveVars>>, event' \in [Ids -> Results],
         logs' \subseteq LogRecords, sent' \subseteq Ids \X Nat, faults' \in 0..MaxFaults,
         target' \in [Commands -> 0..N],
         answer' \in [Commands -> {"none", "ok", "rejected"}]
  PROVE  ArchiveInv' /\ EndedStep
<1>1. UNCHANGED <<stored, history, archiverVars>>
  BY DEF archiveVars, archiverVars
<1>2. ArchiveInv'
  BY <1>1, TypeFacts, ProcessStep
<1>3. EndedStep
  BY <1>1 DEF EndedStep
<1> QED BY <1>2, <1>3

LEMMA FaultType ==
  ASSUME ArchiveInv, Fault
  PROVE  faults' \in 0..MaxFaults
BY TypeFacts, BoundsType DEF Fault

LEMMA BeginKnown ==
  ASSUME ArchiveInv, NEW w \in Workers, NEW e \in Ids, Begin(w, e), UNCHANGED archiveVars
  PROVE  ArchiveInv' /\ EndedStep
<1> DEFINE m == [NotRunning EXCEPT !.pc = "read", !.ev = e, !.try = 1]
<1>1. e \in 0..N /\ 1 \in 0..maxCASAttempts /\ NotRunning \in ProcRecords
  BY LaneType, NotRunningType DEF Ids
<1>2. m \in ProcRecords /\ m.pc = "read" /\ m.ev = e
  BY <1>1 DEF ProcRecords, WorkerPcs
<1> HIDE DEF m
<1>3. Known(w, m)
  BY <1>2, ProcsDisjoint DEF Known, WorkerPcs
<1>4. /\ proc' = [proc EXCEPT ![w] = m] /\ holder' = w
      /\ UNCHANGED <<lost, kind, event, alert, logs, sent, target, answer, faults>>
      /\ UNCHANGED <<stored, history, item, cursor>>
  BY DEF Begin, repository, archiveVars, m
<1>5. /\ proc' \in [Procs -> ProcRecords] /\ proc'[w] = m
      /\ \A q \in Procs \ {w} : proc'[q] = proc[q]
  BY <1>2, <1>4, TypeFacts DEF Types, Procs
<1>6. \A q \in Procs : /\ proc'[q].try \in 0..maxCASAttempts
                       /\ proc'[q].todo \subseteq LogRecords
                       /\ proc'[q].fin \in Results
  BY <1>5 DEF ProcRecords
<1>7. Types'
  BY <1>4, <1>5, <1>6, TypeFacts DEF Types, TypeOK
<1>8. \A q \in Procs : Known(q, proc'[q])
  BY <1>3, <1>5 DEF ArchiveInv
<1>9. ArchiveInv'
  BY <1>4, <1>7, <1>8 DEF ArchiveInv, ArchiveTypes, Copied
<1> QED BY <1>4, <1>9 DEF EndedStep

LEMMA ReadEventKnown ==
  ASSUME ArchiveInv, NEW w \in Workers, ReadEvent(w), UNCHANGED archiveVars
  PROVE  ArchiveInv' /\ EndedStep
<1>1. /\ proc[w].pc = "read" /\ w \in Procs
      /\ UNCHANGED <<kind, repository, sent, target, answer, faults, archiveVars>>
  BY DEF ReadEvent, Procs
<1>2. proc[w] \in ProcRecords /\ proc[w].ev \in Ids
  BY <1>1, RunningElastic
<1>3. CASE Step(w, NotRunning)
  BY <1>1, <1>3, ReturnKnown, ReadStep
<1>4. CASE Step(w, [proc[w] EXCEPT !.pc = "find"])
  <2> DEFINE m == [proc[w] EXCEPT !.pc = "find"]
  <2>1. m \in ProcRecords /\ Known(w, m)
    BY <1>2, MoveKnown
  <2> HIDE DEF m
  <2> QED BY <1>1, <1>4, <2>1, ReadStep DEF m
<1> QED BY <1>3, <1>4 DEF ReadEvent, Return

LEMMA RunFinalHookKnown ==
  ASSUME ArchiveInv, NEW p \in Procs, RunFinalHook(p), UNCHANGED archiveVars
  PROVE  ArchiveInv' /\ EndedStep
<1> SUFFICES ASSUME NEW r, r = proc[p], NEW h, h = Head(r.hooks), NEW c, c = CauseOf(p)
             PROVE  ArchiveInv' /\ EndedStep
  OBVIOUS
<1>1. r.pc = "hooks" /\ UNCHANGED <<kind, event, alert, logs, target, answer, archiveVars>>
  BY DEF RunFinalHook, repository
<1>2. /\ r \in ProcRecords /\ Len(r.hooks) > 0 /\ c \in Causes
      /\ p \in Workers => r.ev \in Ids
      /\ p \in Commands => r.id \in Ids
  <2>1. /\ r \in ProcRecords /\ Known(p, r)
        /\ p \in Workers => r.ev \in Ids
        /\ p \in Commands => r.id \in Ids
    BY <1>1, RunningElastic
  <2> QED BY <1>1, <2>1 DEF Known, CauseOf, Causes, Procs
<1>3. ASSUME NEW op \in {"push", "push_failed"}
      PROVE  /\ Pushed(r, h, c, op) \in ProcRecords /\ Known(p, Pushed(r, h, c, op))
             /\ h.id \in Ids /\ h.rev \in Nat
  <2> SUFFICES ASSUME NEW l, l = eventAlertLog(c, h.id, op, h.rev),
                      NEW m, m = Pushed(r, h, c, op)
               PROVE  m \in ProcRecords /\ Known(p, m) /\ h.id \in Ids /\ h.rev \in Nat
    OBVIOUS
  <2>1. IsPushed(r, h, c, op, l, m)
    BY <1>2, PushedFields
  <2>2. Known(p, m)
    BY <1>2, <2>1 DEF IsPushed, Known, WorkerPcs, CommandPcs
  <2> QED BY <2>1, <2>2 DEF IsPushed
<1>4. CASE sent' = sent \cup {<<h.id, h.rev>>} /\ Step(p, Pushed(r, h, c, "push"))
           /\ UNCHANGED faults
  <2>1. sent' \subseteq Ids \X Nat
    BY <1>3, <1>4, TypeFacts
  <2> QED BY <1>1, <1>3, <1>4, <2>1, TypeFacts, SharedStep
<1>5. CASE UNCHANGED sent /\ Step(p, Pushed(r, h, c, "push_failed")) /\ Fault
  BY <1>1, <1>3, <1>5, TypeFacts, FaultType, SharedStep
<1> QED BY <1>4, <1>5 DEF RunFinalHook, Pushed

LEMMA AppendLogsKnown ==
  ASSUME ArchiveInv, NEW p \in Procs, AppendAlertLogs(p) \/ AppendPartly(p),
         UNCHANGED archiveVars
  PROVE  ArchiveInv' /\ EndedStep
<1> SUFFICES ASSUME NEW r, r = proc[p] PROVE ArchiveInv' /\ EndedStep
  OBVIOUS
<1>1. /\ r.pc = "logs" /\ UNCHANGED <<kind, event, alert, sent, target, archiveVars>>
      /\ \E part \in SUBSET r.todo :
           logs' = logs \cup {l \in part : \A k \in logs : ~SameLogId(l, k)}
  BY DEF AppendAlertLogs, AppendPartly
<1>2. /\ r \in ProcRecords /\ Known(p, r) /\ r.todo \subseteq LogRecords
      /\ p \in Workers => r.ev \in Ids
  <2>1. /\ r \in ProcRecords /\ Known(p, r)
        /\ p \in Workers => r.ev \in Ids
    BY <1>1, RunningElastic
  <2> QED BY <2>1 DEF ProcRecords
<1>3. logs' \subseteq LogRecords
  BY <1>1, <1>2, TypeFacts
<1>4. faults' \in 0..MaxFaults
  BY TypeFacts, FaultType DEF AppendAlertLogs, AppendPartly
<1>5. answer' \in [Commands -> {"none", "ok", "rejected"}]
  BY TypeFacts DEF AppendAlertLogs, AppendPartly
<1>6. CASE Step(p, NotRunning)
  BY <1>1, <1>3, <1>4, <1>5, <1>6, TypeFacts, ReturnKnown, SharedStep
<1>7. CASE p \notin Commands /\ Step(p, [r EXCEPT !.pc = "finish", !.todo = {}])
  <2> DEFINE m == [r EXCEPT !.pc = "finish", !.todo = {}]
  <2>1. m \in ProcRecords /\ m.pc = "finish" /\ m.ev = r.ev
    BY <1>2 DEF ProcRecords, WorkerPcs
  <2> HIDE DEF m
  <2>2. Known(p, m)
    BY <1>2, <1>7, <2>1 DEF Known, WorkerPcs
  <2> QED BY <1>1, <1>3, <1>4, <1>5, <1>7, <2>1, <2>2, TypeFacts, SharedStep DEF m
<1> QED BY <1>6, <1>7 DEF AppendAlertLogs, AppendPartly, Return

LEMMA FinishKnown ==
  ASSUME ArchiveInv, NEW w \in Workers, finishEvent(w), UNCHANGED archiveVars
  PROVE  ArchiveInv' /\ EndedStep
<1> SUFFICES ASSUME NEW r, r = proc[w] PROVE ArchiveInv' /\ EndedStep
  OBVIOUS
<1>1. /\ r.pc = "finish" /\ w \in Procs
      /\ UNCHANGED <<kind, alert, logs, sent, target, answer, faults, archiveVars>>
  BY DEF finishEvent, Procs
<1>2. r \in ProcRecords /\ r.ev \in Ids /\ r.fin \in Results
  <2>1. r \in ProcRecords /\ r.ev \in Ids
    BY <1>1, RunningElastic
  <2> QED BY <2>1 DEF ProcRecords
<1>3. CASE event' = [event EXCEPT ![r.ev] = r.fin] /\ Step(w, NotRunning)
  <2>1. event' \in [Ids -> Results]
    BY <1>2, <1>3, TypeFacts
  <2> QED BY <1>1, <1>3, <2>1, TypeFacts, ReturnKnown, SharedStep
<1>4. CASE UNCHANGED event /\ Step(w, RetryDecision(r))
  BY <1>1, <1>2, <1>4, TypeFacts, RetryKnown, SharedStep
<1> QED BY <1>3, <1>4 DEF finishEvent, Return

LEMMA IssueCloseKnown ==
  ASSUME ArchiveInv, NEW o \in Commands, NEW a \in Ids, IssueClose(o, a),
         UNCHANGED archiveVars
  PROVE  ArchiveInv' /\ EndedStep
<1> DEFINE m == [NotRunning EXCEPT !.pc = "close_get", !.id = a, !.try = 1]
<1>1. a \in 0..N /\ 1 \in 0..maxCASAttempts /\ NotRunning \in ProcRecords
  BY LaneType, NotRunningType DEF Ids
<1>2. m \in ProcRecords /\ m.pc = "close_get" /\ m.id = a
  BY <1>1 DEF ProcRecords, CommandPcs
<1> HIDE DEF m
<1>3. Known(o, m)
  BY <1>2, CommandKnown
<1>4. /\ Step(o, m) /\ target' = [target EXCEPT ![o] = a] /\ o \in Procs
      /\ UNCHANGED <<kind, event, alert, logs, sent, answer, faults>>
  BY DEF IssueClose, repository, m, Procs
<1>5. target' \in [Commands -> 0..N]
  BY <1>1, <1>4, TypeFacts
<1> QED BY <1>2, <1>3, <1>4, <1>5, TypeFacts, SharedStep

LEMMA AbortKnown ==
  ASSUME ArchiveInv, NEW p \in Procs, Abort(p), UNCHANGED archiveVars
  PROVE  ArchiveInv' /\ EndedStep
<1>1. /\ Step(p, NotRunning) /\ Fault
      /\ UNCHANGED <<kind, event, alert, logs, sent, target, answer>>
  BY DEF Abort, Return, repository
<1> QED BY <1>1, TypeFacts, FaultType, ReturnKnown, SharedStep

-----------------------------------------------------------------------------
(* The archiver. *)

(* A step that leaves the processor alone. *)
LEMMA ArchiverStep ==
  ASSUME ArchiveInv, UNCHANGED processorVars, alert' \in Documents,
         stored' \in Documents, history' \in Documents,
         item' \in [Ids -> [phase : Phases, snap : AlertRecords \cup {NoAlert}]],
         cursor' \in 0..N, faults' \in 0..MaxFaults, Copied'
  PROVE  ArchiveInv'
<1>1. UNCHANGED <<kind, event, logs, sent, proc, target, answer, holder, lost>>
  BY DEF processorVars
<1>2. Types'
  BY <1>1, TypeFacts DEF Types, TypeOK, Documents
<1> QED BY <1>1, <1>2 DEF ArchiveInv, ArchiveTypes

(* A page that is not empty has a last item. *)
LEMMA MaxInPage ==
  ASSUME NEW S, S \subseteq Ids, S # {}
  PROVE  Max(S) \in S
<1> DEFINE T == {N - x : x \in S}
<1>1. \A x \in S : x \in Int /\ N - x \in Nat
  BY LaneType DEF Ids
<1>2. T \subseteq Nat /\ T # {}
  BY <1>1
<1> HIDE DEF T
<1>3. PICK t \in T : \A y \in T : t <= y
  BY <1>2, MinNat
<1>4. PICK x \in S : t = N - x
  BY <1>3 DEF T
<1>5. \A y \in S : N - x <= N - y
  BY <1>3, <1>4 DEF T
<1>6. \A y \in S : x >= y
  BY <1>1, <1>5, LaneType
<1> QED BY <1>6 DEF Max

LEMMA NextCursorType ==
  ASSUME NEW S, S \subseteq Ids
  PROVE  NextCursor(S) \in 0..N
<1>1. CASE Cardinality(S) = Limit
  <2>1. S # {}
    BY <1>1, LimitType, FS_EmptySet
  <2>2. Max(S) \in Ids
    BY <2>1, MaxInPage
  <2> QED BY <1>1, <2>2, LaneType DEF NextCursor, Ids
<1>2. CASE Cardinality(S) # Limit
  BY <1>2, LaneType DEF NextCursor
<1> QED BY <1>1, <1>2

LEMMA NoItemType ==
  /\ NoItem \in [phase : Phases, snap : AlertRecords \cup {NoAlert}]
  /\ NoItem.phase = "none"
BY DEF NoItem, Phases

LEMMA ScanGood ==
  ASSUME ArchiveInv, Scan
  PROVE  ArchiveInv' /\ EndedStep
<1> DEFINE S == {a \in Ids : a > cursor /\ alert[a] # NoAlert /\ alert[a].status # "active"}
           page == Page(S)
<1>1. /\ item' = [a \in Ids |->
              IF a \in page THEN [phase |-> "create", snap |-> alert[a]] ELSE NoItem]
      /\ cursor' = NextCursor(page)
      /\ UNCHANGED <<processorVars, alert, stored, history, faults>>
  BY DEF Scan, vars, processorVars
<1>2. page \subseteq Ids
  BY DEF Page
<1> HIDE DEF page
<1>3. cursor' \in 0..N
  BY <1>1, <1>2, NextCursorType
<1>4. \A a \in Ids : [phase |-> "create", snap |-> alert[a]]
                       \in [phase : Phases, snap : AlertRecords \cup {NoAlert}]
  BY TypeFacts DEF Documents, Phases
<1>5. item' \in [Ids -> [phase : Phases, snap : AlertRecords \cup {NoAlert}]]
  BY <1>1, <1>4, NoItemType
<1>6. \A a \in Ids : item'[a].phase # "delete"
  BY <1>1, NoItemType
<1>7. Copied'
  BY <1>6 DEF Copied
<1>8. ArchiveInv'
  BY <1>1, <1>3, <1>5, <1>7, TypeFacts, ArchiverStep
<1> QED BY <1>1, <1>8 DEF EndedStep

LEMMA RestartGood ==
  ASSUME ArchiveInv, RestartArchiver
  PROVE  ArchiveInv' /\ EndedStep
<1>1. /\ item' = [a \in Ids |-> NoItem] /\ cursor' = 0 /\ Fault
      /\ UNCHANGED <<processorVars, alert, stored, history>>
  BY DEF RestartArchiver
<1>2. item' \in [Ids -> [phase : Phases, snap : AlertRecords \cup {NoAlert}]] /\ cursor' \in 0..N
  BY <1>1, NoItemType, LaneType
<1>3. Copied'
  BY <1>1, NoItemType DEF Copied
<1>4. ArchiveInv'
  BY <1>1, <1>2, <1>3, TypeFacts, FaultType, ArchiverStep
<1> QED BY <1>1, <1>4 DEF EndedStep

LEMMA RefreshGood ==
  ASSUME ArchiveInv, Refresh
  PROVE  ArchiveInv' /\ EndedStep
<1>1. /\ alert' = stored
      /\ UNCHANGED <<processorVars, faults, stored, history, item, cursor>>
  BY DEF Refresh, processorVars, archiveVars
<1>2. ArchiveInv'
  BY <1>1, TypeFacts, ArchiverStep DEF ArchiveInv, ArchiveTypes, Copied
<1> QED BY <1>1, <1>2 DEF EndedStep

(* What the work on item a may become. *)
LEMMA ItemFacts ==
  ASSUME ArchiveInv, NEW a \in Ids,
         \/ ItemOver(a)
         \/ \E phase \in Phases : ItemIs(a, phase)
  PROVE  /\ item' \in [Ids -> [phase : Phases, snap : AlertRecords \cup {NoAlert}]]
         /\ \A b \in Ids \ {a} : item'[b] = item[b]
         /\ ItemOver(a) => item'[a].phase = "none"
         /\ \A phase : ItemIs(a, phase) => /\ item'[a].phase = phase
                                           /\ item'[a].snap = item[a].snap
<1>1. item \in [Ids -> [phase : Phases, snap : AlertRecords \cup {NoAlert}]]
  BY DEF ArchiveInv, ArchiveTypes
<1> QED BY <1>1, NoItemType DEF ItemOver, ItemIs

LEMMA CreateHistoryGood ==
  ASSUME ArchiveInv, NEW a \in Ids, CreateHistory(a)
  PROVE  ArchiveInv' /\ EndedStep
<1>1. /\ item[a].phase = "create" /\ UNCHANGED <<processorVars, alert, stored, cursor>>
      /\ \/ history[a] = NoAlert /\ history' = [history EXCEPT ![a] = item[a].snap]
         \/ UNCHANGED history
  BY DEF CreateHistory
<1>2. \/ ItemOver(a)
      \/ ItemIs(a, "delete") /\ history' = [history EXCEPT ![a] = item[a].snap]
      \/ ItemIs(a, "verify")
  BY DEF CreateHistory, CreateRefused
<1>3. /\ item' \in [Ids -> [phase : Phases, snap : AlertRecords \cup {NoAlert}]]
      /\ \A b \in Ids \ {a} : item'[b] = item[b]
      /\ ItemOver(a) => item'[a].phase = "none"
      /\ \A phase : ItemIs(a, phase) => /\ item'[a].phase = phase
                                        /\ item'[a].snap = item[a].snap
  BY <1>2, ItemFacts DEF Phases
<1>4. /\ history' \in Documents /\ \A b \in Ids \ {a} : history'[b] = history[b]
      /\ history' = [history EXCEPT ![a] = item[a].snap] => history'[a] = item[a].snap
  <2>1. item[a].snap \in AlertRecords \cup {NoAlert}
    BY DEF ArchiveInv, ArchiveTypes
  <2> QED BY <1>1, <2>1, TypeFacts DEF Documents
<1>5. faults' \in 0..MaxFaults
  BY TypeFacts, FaultType DEF CreateHistory
<1>6. Copied'
  <2> SUFFICES ASSUME NEW b \in Ids, item'[b].phase = "delete"
               PROVE  history'[b] = item'[b].snap
    BY DEF Copied
  <2>1. CASE b = a
    BY <1>2, <1>3, <1>4, <2>1
  <2>2. CASE b # a
    BY <1>3, <1>4, <2>2 DEF ArchiveInv, Copied
  <2> QED BY <2>1, <2>2
<1>7. ArchiveInv'
  BY <1>1, <1>3, <1>4, <1>5, <1>6, TypeFacts, ArchiverStep DEF ArchiveInv, ArchiveTypes
<1>8. EndedStep
  BY <1>1, <1>4 DEF EndedStep
<1> QED BY <1>7, <1>8

LEMMA VerifyHistoryGood ==
  ASSUME ArchiveInv, NEW a \in Ids, VerifyHistory(a)
  PROVE  ArchiveInv' /\ EndedStep
<1>1. /\ UNCHANGED <<processorVars, alert, stored, history, cursor>>
      /\ \/ ItemOver(a)
         \/ ItemIs(a, "delete") /\ history[a] = item[a].snap
  BY DEF VerifyHistory
<1>2. /\ item' \in [Ids -> [phase : Phases, snap : AlertRecords \cup {NoAlert}]]
      /\ \A b \in Ids \ {a} : item'[b] = item[b]
      /\ ItemOver(a) => item'[a].phase = "none"
      /\ \A phase : ItemIs(a, phase) => /\ item'[a].phase = phase
                                        /\ item'[a].snap = item[a].snap
  BY <1>1, ItemFacts DEF Phases
<1>3. faults' \in 0..MaxFaults
  BY TypeFacts, FaultType DEF VerifyHistory
<1>4. Copied'
  BY <1>1, <1>2 DEF ArchiveInv, Copied
<1>5. ArchiveInv'
  BY <1>1, <1>2, <1>3, <1>4, TypeFacts, ArchiverStep DEF ArchiveInv, ArchiveTypes
<1> QED BY <1>1, <1>5 DEF EndedStep

LEMMA DeleteActiveGood ==
  ASSUME ArchiveInv, NEW a \in Ids, DeleteActive(a)
  PROVE  ArchiveInv' /\ EndedStep
<1>1. /\ item[a].phase = "delete" /\ ItemOver(a)
      /\ UNCHANGED <<processorVars, history, cursor>>
      /\ \/ /\ stored[a] = item[a].snap /\ stored' = [stored EXCEPT ![a] = NoAlert]
            /\ alert' = stored' \/ UNCHANGED alert
         \/ UNCHANGED <<alert, stored>>
  BY DEF DeleteActive, Answered, Unanswered
<1>2. /\ item' \in [Ids -> [phase : Phases, snap : AlertRecords \cup {NoAlert}]]
      /\ \A b \in Ids \ {a} : item'[b] = item[b]
      /\ item'[a].phase = "none"
  BY <1>1, ItemFacts
<1>3. faults' \in 0..MaxFaults
  BY TypeFacts, FaultType DEF DeleteActive
<1>4. /\ stored' \in Documents /\ alert' \in Documents
      /\ \A b \in Ids \ {a} : stored'[b] = stored[b]
  BY <1>1, TypeFacts DEF Documents
<1>5. Copied'
  BY <1>1, <1>2 DEF ArchiveInv, Copied
<1>6. ArchiveInv'
  BY <1>1, <1>2, <1>3, <1>4, <1>5, TypeFacts, ArchiverStep DEF ArchiveInv, ArchiveTypes
<1>7. history[a] = item[a].snap
  BY <1>1 DEF ArchiveInv, Copied
<1>8. EndedStep
  BY <1>1, <1>4, <1>7 DEF EndedStep
<1> QED BY <1>6, <1>8

-----------------------------------------------------------------------------
LEMMA ArchiveInitInv == ArchiveInit => ArchiveInv
<1> SUFFICES ASSUME ArchiveInit PROVE ArchiveInv
  OBVIOUS
<1>1. ProcInv
  BY InitInv DEF ArchiveInit
<1>2. Types
  BY <1>1 DEF ProcInv
<1>3. /\ stored = [a \in Ids |-> NoAlert] /\ history = [a \in Ids |-> NoAlert]
      /\ item = [a \in Ids |-> NoItem] /\ cursor = 0
      /\ proc = [p \in Procs |-> NotRunning]
  BY DEF ArchiveInit, Init
<1>4. ArchiveTypes
  BY <1>2, <1>3, NoItemType, LaneType DEF ArchiveTypes, Documents
<1>5. \A p \in Procs : Known(p, proc[p])
  BY <1>3, ReturnKnown
<1>6. Copied
  BY <1>3, NoItemType DEF Copied
<1> QED BY <1>4, <1>5, <1>6 DEF ArchiveInv

LEMMA ArchiveNextInv == ArchiveInv /\ [ArchiveNext]_allVars => ArchiveInv' /\ EndedStep
<1> SUFFICES ASSUME ArchiveInv, [ArchiveNext]_allVars PROVE ArchiveInv' /\ EndedStep
  OBVIOUS
<1>0. Workers \subseteq Procs /\ Commands \subseteq Procs
  BY DEF Procs
<1>1. ASSUME NEW w \in Workers, ElasticWorker(w) PROVE ArchiveInv' /\ EndedStep
  <2>1. CASE SearchActiveAlert(w) \/ SearchEndedByEvent(w) \/ CreateSearch(w)
    BY <2>1, SearchActiveGood, SearchEndedGood, CreateSearchGood
  <2>2. CASE CreatePut(w) \/ ReadConflicting(w) \/ ReplaceAlert(w)
    BY <2>2, CreatePutGood, ReadConflictingGood, ReplaceAlertGood
  <2>3. CASE /\ ReadEvent(w) \/ RunFinalHook(w) \/ AppendAlertLogs(w) \/ finishEvent(w)
             /\ UNCHANGED archiveVars
    BY <1>0, <2>3, ReadEventKnown, RunFinalHookKnown, AppendLogsKnown, FinishKnown
  <2> QED BY <1>1, <2>1, <2>2, <2>3 DEF ElasticWorker
<1>2. ASSUME NEW o \in Commands, ElasticCommand(o) PROVE ArchiveInv' /\ EndedStep
  BY <1>0, <1>2, ReadToCloseGood, ReplaceToCloseGood, RunFinalHookKnown, AppendLogsKnown
     DEF ElasticCommand
<1>3. ASSUME NEW w \in Workers, NEW e \in Ids, Begin(w, e), UNCHANGED archiveVars
      PROVE  ArchiveInv' /\ EndedStep
  BY <1>3, BeginKnown
<1>4. ASSUME NEW o \in Commands, NEW a \in Ids, IssueClose(o, a), UNCHANGED archiveVars
      PROVE  ArchiveInv' /\ EndedStep
  BY <1>4, IssueCloseKnown
<1>5. ASSUME NEW p \in Procs, AppendPartly(p) \/ Abort(p), UNCHANGED archiveVars
      PROVE  ArchiveInv' /\ EndedStep
  BY <1>5, AppendLogsKnown, AbortKnown
<1>6. CASE Refresh \/ Scan \/ RestartArchiver
  BY <1>6, RefreshGood, ScanGood, RestartGood
<1>7. ASSUME NEW a \in Ids, Item(a) PROVE ArchiveInv' /\ EndedStep
  BY <1>7, CreateHistoryGood, VerifyHistoryGood, DeleteActiveGood DEF Item
<1>8. CASE UNCHANGED allVars
  <2>1. /\ UNCHANGED <<processorVars, alert, faults, stored, history, item, cursor>>
    BY <1>8 DEF allVars, vars, archiveVars, processorVars
  <2>2. ArchiveInv'
    BY <2>1, TypeFacts, ArchiverStep DEF ArchiveInv, ArchiveTypes, Copied
  <2> QED BY <2>1, <2>2 DEF EndedStep
<1> QED BY <1>1, <1>2, <1>3, <1>4, <1>5, <1>6, <1>7, <1>8 DEF ArchiveNext

LEMMA AlwaysArchiveInv == ArchiveSpec => []ArchiveInv
BY ArchiveInitInv, ArchiveNextInv, PTL DEF ArchiveSpec

(* Every document of the Active and the History index is an alert, and the *)
(* archiver's cursor is the id of one or 0.                                *)
THEOREM ArchiveTypeCorrect == ArchiveSpec => []ArchiveTypeOK
<1>1. ASSUME ArchiveInv PROVE ArchiveTypeOK
  <2>1. \A a \in Ids : item[a] \in [phase : Phases, snap : AlertRecords \cup {NoAlert}]
    BY <1>1 DEF ArchiveInv, ArchiveTypes
  <2> QED BY <1>1, <2>1 DEF ArchiveInv, ArchiveTypes, Types, ArchiveTypeOK, Documents, Phases
<1> QED BY <1>1, AlwaysArchiveInv, PTL

(* ArchiveTerminalAlerts loses and changes nothing: an ended Active        *)
(* document stays as it is until its copy is in the History index, and a   *)
(* History document stays for good, whatever the processor, operators,     *)
(* failed requests and restarts of the control plane do in between.        *)
THEOREM EndedAlertsKept == ArchiveSpec => EndedKept
<1>1. ASSUME ArchiveInv, [ArchiveNext]_allVars
      PROVE  [\A a \in Ids :
                /\ Ended(stored[a]) => stored'[a] = stored[a] \/ history'[a] = stored[a]
                /\ history[a] # NoAlert => history'[a] = history[a]]_allVars
  BY <1>1, ArchiveNextInv DEF EndedStep
<1> QED BY <1>1, AlwaysArchiveInv, PTL DEF ArchiveSpec, EndedKept

-----------------------------------------------------------------------------
(* The active documents.  Elasticsearch has no unique key for a lane, and  *)
(* CreateAlert looks for an active alert with a search, which may lag      *)
(* behind.  While no operator closes alerts, only one writer is at work    *)
(* (OneWriter), what an event with a result left is visible (Seen), and    *)
(* what may be hidden is the alert of the first event without one, which   *)
(* has the id the next attempt uses again.                                 *)

(* The active documents; ActiveIds are those that searches see. *)
ActiveStored == {a \in Ids : stored[a] # NoAlert /\ stored[a].status = "active"}

(* An event opens an alert only when all events before it have results. *)
AllDoneBefore(e) == \A d \in 1..(e - 1) : Done(d)
Opened(a) == kind[a].action = "triggered" /\ AllDoneBefore(a)

(* While its event has no result, an alert is as it was opened. *)
AsOpened(a, s) == s # NoAlert => s.status = "active" /\ s.latest = a

(* If document a is active, searches say so. *)
Seen(a) == a \in ActiveStored => a \in ActiveIds

DocumentState ==
  /\ \A a \in Ids : stored[a] # NoAlert \/ alert[a] # NoAlert => Opened(a)
  /\ \A a \in Ids : ~Done(a) =>
       /\ history[a] = NoAlert /\ item[a].phase = "none"
       /\ AsOpened(a, stored[a]) /\ AsOpened(a, alert[a])
       /\ stored[a] # NoAlert => ActiveIds \subseteq {a}
  /\ \A a, b \in ActiveStored : a = b
  /\ \A a \in Ids : Done(a) => Seen(a)

(* What a worker with the locals r may rely on. *)
Sure(r) ==
  /\ ~Done(r.ev) /\ AllDoneBefore(r.ev)
  /\ r.pc \in {"update", "terminate", "rotate"} => Done(r.id)
  /\ r.pc \in {"create", "put", "rotate", "rotate_create", "rotate_put"} =>
       kind[r.ev].action = "triggered"
  /\ r.pc \in {"put", "rotate_put"} =>
       ActiveStored \subseteq {r.ev} /\ ActiveIds \subseteq {r.ev}
  /\ r.pc \in {"resume", "hooks", "logs", "finish"} => Seen(r.ev)

OneWriter == \A w \in Workers : proc[w].pc # "idle" => holder = w /\ Sure(proc[w])

DocumentInv == ArchiveInv /\ DocumentState /\ OneWriter

(* Two events without a result and with results before them are the same. *)
LEMMA FirstUndone ==
  ASSUME NEW a \in Ids, NEW b \in Ids, ~Done(a), ~Done(b),
         AllDoneBefore(a), AllDoneBefore(b)
  PROVE  a = b
<1>1. ~(a < b)
  <2> SUFFICES ASSUME a < b PROVE FALSE
    OBVIOUS
  <2>1. a \in 1..(b - 1)
    BY LaneType DEF Ids
  <2> QED BY <2>1 DEF AllDoneBefore
<1>2. ~(b < a)
  <2> SUFFICES ASSUME b < a PROVE FALSE
    OBVIOUS
  <2>1. b \in 1..(a - 1)
    BY LaneType DEF Ids
  <2> QED BY <2>1 DEF AllDoneBefore
<1> QED BY <1>1, <1>2, LaneType DEF Ids

(* A worker that runs is the only one. *)
LEMMA AtWork ==
  ASSUME DocumentInv, NEW w \in Workers, proc[w].pc # "idle"
  PROVE  /\ holder = w /\ Sure(proc[w])
         /\ proc[w] \in ProcRecords /\ proc[w].ev \in Ids /\ Known(w, proc[w])
         /\ \A v \in Workers \ {w} : proc[v].pc = "idle"
         /\ ~Done(proc[w].ev) /\ AllDoneBefore(proc[w].ev)
<1>1. holder = w /\ Sure(proc[w]) /\ \A v \in Workers \ {w} : proc[v].pc = "idle"
  BY DEF DocumentInv, OneWriter
<1>2. w \in Procs /\ ArchiveInv
  BY DEF Procs, DocumentInv
<1> QED BY <1>1, <1>2, RunningElastic DEF Sure

(* The worker that runs goes on with m. *)
LEMMA WriterStep ==
  ASSUME DocumentInv, NEW w \in Workers, proc[w].pc # "idle", NEW m, Step(w, m),
         ArchiveInv', DocumentState', m.pc = "idle" \/ Sure(m)'
  PROVE  DocumentInv'
<1>1. holder = w /\ \A v \in Workers \ {w} : proc[v].pc = "idle"
  BY AtWork
<1>2. w \in Procs /\ proc \in [Procs -> ProcRecords] /\ Workers \subseteq Procs
  BY DEF DocumentInv, ArchiveInv, ArchiveTypes, Types, Procs
<1>3. proc'[w] = m /\ \A v \in Workers \ {w} : proc'[v].pc = "idle"
  BY <1>1, <1>2 DEF Step
<1>4. m.pc # "idle" => holder' = w
  BY <1>1 DEF Step, Return, NotRunning
<1>5. OneWriter'
  BY <1>3, <1>4 DEF OneWriter
<1> QED BY <1>5 DEF DocumentInv

(* The same, when no document and no result changes. *)
LEMMA WriterReads ==
  ASSUME DocumentInv, NEW w \in Workers, proc[w].pc # "idle", NEW m, Step(w, m),
         ArchiveInv', m.pc = "idle" \/ Sure(m),
         UNCHANGED <<kind, event, alert, stored, history, item>>
  PROVE  DocumentInv'
<1>1. DocumentState
  BY DEF DocumentInv
<1>2. DocumentState'
  BY <1>1 DEF DocumentState, Opened, AllDoneBefore, AsOpened, Done, Seen, ActiveStored, ActiveIds
<1>3. Sure(m) => Sure(m)'
  BY DEF Sure, AllDoneBefore, Done, Seen, ActiveStored, ActiveIds
<1> QED BY <1>2, <1>3, WriterStep

(* A step that leaves the processes alone. *)
LEMMA NoWriterStep ==
  ASSUME DocumentInv, ArchiveInv', DocumentState', UNCHANGED <<proc, holder>>,
         \A w \in Workers : proc[w].pc # "idle" /\ Sure(proc[w]) => Sure(proc[w])'
  PROVE  DocumentInv'
BY DEF DocumentInv, OneWriter

(* The Active document a becomes s, and searches see that at once or the   *)
(* Active index as it was.  Either s is the alert of the first event       *)
(* without a result and no other document is active, or the event that     *)
(* opened a has a result and s is active only when the document was.       *)
DocumentWrite(a, s) ==
  /\ stored' = [stored EXCEPT ![a] = s]
  /\ alert' = stored' \/ UNCHANGED alert
  /\ UNCHANGED <<kind, event, history>>
  /\ \A b \in Ids \ {a} : item'[b] = item[b]
  /\ item'[a] = item[a] \/ item'[a].phase = "none"
  /\ \/ /\ ~Done(a) /\ Opened(a) /\ AsOpened(a, s)
        /\ ActiveStored \subseteq {a} /\ ActiveIds \subseteq {a}
     \/ /\ Done(a) /\ (s # NoAlert => Opened(a))
        /\ s # NoAlert /\ s.status = "active" => a \in ActiveStored

LEMMA SeenAtOnce ==
  ASSUME alert' = stored'
  PROVE  ActiveIds' = ActiveStored' /\ \A e : Seen(e)'
BY DEF ActiveIds, ActiveStored, Seen

LEMMA DocumentsWritten ==
  ASSUME DocumentInv, NEW a \in Ids, NEW s, DocumentWrite(a, s)
  PROVE  DocumentState'
<1>1. /\ DocumentState /\ stored'[a] = s /\ \A b \in Ids \ {a} : stored'[b] = stored[b]
  BY DEF DocumentInv, DocumentWrite, ArchiveInv, ArchiveTypes, Documents
<1>2. \A e \in Ids : (Done(e)' <=> Done(e)) /\ (Opened(e) => Opened(e)')
  BY DEF Done, Opened, AllDoneBefore, DocumentWrite
<1>3. /\ ActiveStored' \ {a} = ActiveStored \ {a}
      /\ a \in ActiveStored' <=> s # NoAlert /\ s.status = "active"
  BY <1>1 DEF ActiveStored
<1>4. ActiveIds' = ActiveIds \/ ActiveIds' = ActiveStored'
  BY DEF ActiveIds, ActiveStored, DocumentWrite
<1>5. \A x, y \in ActiveStored' : x = y
  BY <1>1, <1>3 DEF DocumentState, DocumentWrite
<1>6. ASSUME NEW b \in Ids, stored'[b] # NoAlert \/ alert'[b] # NoAlert
      PROVE  Opened(b)'
  <2>1. b = a \/ stored[b] # NoAlert \/ alert[b] # NoAlert
    BY <1>1, <1>6 DEF DocumentWrite
  <2>2. CASE b # a \/ alert[b] # NoAlert
    BY <1>1, <1>2, <2>1, <2>2 DEF DocumentState
  <2>3. CASE b = a /\ alert[a] = NoAlert
    BY <1>1, <1>2, <1>6, <2>3 DEF DocumentWrite
  <2> QED BY <2>2, <2>3
<1>7. ASSUME NEW b \in Ids, Done(b)'
      PROVE  Seen(b)'
  <2>1. CASE alert' = stored'
    BY <2>1, SeenAtOnce
  <2>2. CASE UNCHANGED alert
    <3>1. ActiveIds' = ActiveIds
      BY <2>2 DEF ActiveIds
    <3>2. b \in ActiveStored' => b \in ActiveStored
      BY <1>2, <1>3, <1>7 DEF DocumentWrite
    <3>3. Seen(b)
      BY <1>1, <1>2, <1>7 DEF DocumentState
    <3> QED BY <3>1, <3>2, <3>3 DEF Seen
  <2> QED BY <2>1, <2>2 DEF DocumentWrite
<1>8. ASSUME NEW b \in Ids, ~Done(b)'
      PROVE  /\ history'[b] = NoAlert /\ item'[b].phase = "none"
             /\ AsOpened(b, stored'[b]) /\ AsOpened(b, alert'[b])
             /\ stored'[b] # NoAlert => ActiveIds' \subseteq {b}
  <2>1. ~Done(b)
    BY <1>2, <1>8
  <2>2. history'[b] = NoAlert /\ item'[b].phase = "none"
    BY <1>1, <2>1 DEF DocumentState, DocumentWrite
  <2>3. AsOpened(b, stored'[b])
    BY <1>1, <2>1 DEF DocumentState, DocumentWrite
  <2>4. AsOpened(b, alert'[b])
    BY <1>1, <2>1, <2>3 DEF DocumentState, DocumentWrite
  <2>5. ASSUME stored'[b] # NoAlert PROVE ActiveIds' \subseteq {b}
    <3>1. b \in ActiveStored'
      BY <2>3, <2>5 DEF AsOpened, ActiveStored
    <3>2. CASE ActiveIds' = ActiveStored'
      BY <1>5, <3>1, <3>2
    <3>3. CASE ActiveIds' = ActiveIds
      BY <1>1, <2>1, <2>5, <3>3 DEF DocumentState, DocumentWrite
    <3> QED BY <1>4, <3>2, <3>3
  <2> QED BY <2>2, <2>3, <2>4, <2>5
<1> QED BY <1>5, <1>6, <1>7, <1>8 DEF DocumentState, AsOpened

(* What a search that lags behind does not see appears. *)
LEMMA RefreshDocuments ==
  ASSUME DocumentInv, Refresh
  PROVE  DocumentInv'
<1>1. /\ alert' = stored' /\ UNCHANGED <<kind, event, stored, history, item, proc, holder>>
  BY DEF Refresh, archiveVars
<1>2. ArchiveInv' /\ DocumentState
  BY RefreshGood DEF DocumentInv
<1>3. \A e \in Ids : (Done(e)' <=> Done(e)) /\ (Opened(e) => Opened(e)')
  BY <1>1 DEF Done, Opened, AllDoneBefore
<1>4. ActiveStored' = ActiveStored /\ ActiveIds' = ActiveStored
  BY <1>1 DEF ActiveStored, ActiveIds
<1>5. \A e : Seen(e)'
  BY <1>1, SeenAtOnce
<1>6. ASSUME NEW b \in Ids, ~Done(b)'
      PROVE  /\ history'[b] = NoAlert /\ item'[b].phase = "none"
             /\ AsOpened(b, stored'[b]) /\ AsOpened(b, alert'[b])
             /\ stored'[b] # NoAlert => ActiveIds' \subseteq {b}
  <2>1. /\ history'[b] = NoAlert /\ item'[b].phase = "none" /\ AsOpened(b, stored'[b])
    BY <1>1, <1>2, <1>3, <1>6 DEF DocumentState
  <2>2. stored'[b] # NoAlert => b \in ActiveStored
    BY <1>1, <2>1 DEF AsOpened, ActiveStored
  <2> QED BY <1>1, <1>2, <1>4, <2>1, <2>2 DEF DocumentState
<1>7. \A b \in Ids : stored'[b] # NoAlert \/ alert'[b] # NoAlert => Opened(b)'
  BY <1>1, <1>2, <1>3 DEF DocumentState
<1>8. DocumentState'
  BY <1>2, <1>4, <1>5, <1>6, <1>7 DEF DocumentState, AsOpened
<1>9. ASSUME NEW r, Sure(r) PROVE Sure(r)'
  <2>1. ~Done(r.ev)' /\ AllDoneBefore(r.ev)' /\ (Done(r.id) => Done(r.id)')
    BY <1>1, <1>9 DEF Sure, Done, AllDoneBefore
  <2> QED BY <1>1, <1>4, <1>5, <1>9, <2>1 DEF Sure
<1> QED BY <1>1, <1>2, <1>8, <1>9, NoWriterStep

(* The locals m of a worker that has nothing to rely on but its place in   *)
(* the lane.                                                               *)
LEMMA SureToMove ==
  ASSUME NEW r, Sure(r), NEW m, m.ev = r.ev,
         m.pc \in {"read", "find", "ended", "conflict", "rotate_conflict"}
  PROVE  Sure(m)
BY DEF Sure

LEMMA SureJob ==
  ASSUME NEW r \in ProcRecords, Sure(r), Seen(r.ev), NEW m, IsJob(r, m) \/ m = NotRunning
  PROVE  m.pc = "idle" \/ Sure(m)
<1>1. CASE m = NotRunning
  BY <1>1 DEF NotRunning
<1>2. CASE IsJob(r, m)
  <2>1. PICK hs \in Seq(HookRecords), todo \in SUBSET LogRecords, fin \in Results :
          m = Job(r, hs, todo, fin)
    BY <1>2 DEF IsJob
  <2>2. m.pc \in {"logs", "hooks"} /\ m.ev = r.ev
    BY <2>1, JobFields
  <2> QED BY <2>2 DEF Sure
<1> QED BY <1>1, <1>2

LEMMA SureRetry ==
  ASSUME NEW r \in ProcRecords, Sure(r)
  PROVE  RetryDecision(r).pc = "idle" \/ Sure(RetryDecision(r))
<1> DEFINE m == [NotRunning EXCEPT !.pc = "read", !.ev = r.ev, !.try = r.try + 1]
<1>1. m.pc = "read" /\ m.ev = r.ev
  BY DEF NotRunning
<1>2. RetryDecision(r) = m \/ RetryDecision(r).pc = "idle"
  BY DEF RetryDecision, Return, NotRunning
<1> HIDE DEF m
<1> QED BY <1>1, <1>2, SureToMove

LEMMA BeginDocuments ==
  ASSUME DocumentInv, NEW w \in Workers, NEW e \in Ids, Begin(w, e), UNCHANGED archiveVars
  PROVE  DocumentInv'
<1> DEFINE m == [NotRunning EXCEPT !.pc = "read", !.ev = e, !.try = 1]
<1>1. m.pc = "read" /\ m.ev = e
  BY DEF NotRunning
<1> HIDE DEF m
<1>2. /\ holder = Nobody /\ holder' = w /\ proc' = [proc EXCEPT ![w] = m]
      /\ ~Done(e) /\ AllDoneBefore(e)
      /\ UNCHANGED <<kind, event, alert, stored, history, item>>
  BY DEF Begin, Done, AllDoneBefore, repository, archiveVars, m
<1>3. ArchiveInv' /\ DocumentState /\ OneWriter
  BY BeginKnown DEF DocumentInv
<1>4. w \in Procs /\ proc \in [Procs -> ProcRecords] /\ Workers \subseteq Procs
  BY DEF DocumentInv, ArchiveInv, ArchiveTypes, Types, Procs
<1>5. \A v \in Workers : proc[v].pc = "idle"
  BY <1>2, <1>3, NobodyType DEF OneWriter
<1>6. proc'[w] = m /\ \A v \in Workers \ {w} : proc'[v].pc = "idle"
  BY <1>2, <1>4, <1>5
<1>7. DocumentState'
  BY <1>2, <1>3 DEF DocumentState, Opened, AllDoneBefore, AsOpened, Done, Seen, ActiveStored, ActiveIds
<1>8. ~Done(e)' /\ AllDoneBefore(e)'
  BY <1>2 DEF Done, AllDoneBefore
<1>9. Sure(m)'
  BY <1>1, <1>8 DEF Sure
<1>10. OneWriter'
  BY <1>2, <1>6, <1>9 DEF OneWriter
<1> QED BY <1>3, <1>7, <1>10 DEF DocumentInv

LEMMA ReadEventDocuments ==
  ASSUME DocumentInv, NEW w \in Workers, ReadEvent(w), UNCHANGED archiveVars
  PROVE  DocumentInv'
<1> SUFFICES ASSUME NEW r, r = proc[w] PROVE DocumentInv'
  OBVIOUS
<1>1. r.pc = "read" /\ UNCHANGED <<kind, event, alert, stored, history, item>>
  BY DEF ReadEvent, repository, archiveVars
<1>2. ArchiveInv' /\ Sure(r) /\ r \in ProcRecords
  BY <1>1, ReadEventKnown, AtWork DEF DocumentInv
<1>3. CASE Step(w, NotRunning)
  BY <1>1, <1>2, <1>3, WriterReads DEF NotRunning
<1>4. CASE Step(w, [r EXCEPT !.pc = "find"])
  <2> DEFINE m == [r EXCEPT !.pc = "find"]
  <2>1. m.pc = "find" /\ m.ev = r.ev /\ Step(w, m)
    BY <1>2, <1>4 DEF ProcRecords
  <2> HIDE DEF m
  <2> QED BY <1>1, <1>2, <2>1, SureToMove, WriterReads
<1> QED BY <1>3, <1>4 DEF ReadEvent, Return

(* What the search for the active alert tells a worker. *)
LEMMA SureDecision ==
  ASSUME DocumentInv, NEW w \in Workers, NEW r \in ProcRecords, r = proc[w], r.pc = "find",
         NEW a \in ActiveIds, NEW s, s = alert[a]
  PROVE  decide(r, a, s).pc = "idle" \/ Sure(decide(r, a, s))
<1>1. /\ Sure(r) /\ r.ev \in Ids /\ ~Done(r.ev) /\ AllDoneBefore(r.ev)
      /\ ArchiveInv /\ DocumentState
  BY AtWork DEF DocumentInv
<1>2. a \in Ids /\ s # NoAlert /\ s \in AlertRecords
  BY <1>1, TypeFacts DEF ActiveIds, Documents
<1>3. a = r.ev \/ Done(a)
  BY <1>1, <1>2, FirstUndone DEF DocumentState, Opened
<1>4. a = r.ev => s.latest = r.ev
  BY <1>1, <1>2 DEF DocumentState, AsOpened
<1>5. Seen(r.ev)
  <2>1. stored[r.ev] # NoAlert => a = r.ev
    BY <1>1 DEF DocumentState
  <2> QED BY <2>1 DEF Seen, ActiveStored
<1>6. CASE s.latest = r.ev /\ a = r.ev
  <2> DEFINE m == [r EXCEPT !.pc = "resume", !.id = a, !.snap = s]
  <2>1. m.pc = "resume" /\ m.ev = r.ev /\ decide(r, a, s) = m
    BY <1>6 DEF ProcRecords, decide, resumeActiveEvent
  <2> HIDE DEF m
  <2> QED BY <1>1, <1>5, <2>1 DEF Sure
<1>7. CASE s.latest = r.ev /\ a # r.ev
  <2>1. decide(r, a, s) = UpdatedJob(r, a, s)
    BY <1>7 DEF decide, resumeActiveEvent
  <2> QED BY <1>1, <1>2, <1>5, <2>1, UpdatedJobGood, SureJob
<1>8. CASE s.latest # r.ev
  <2> DEFINE go(x) == [r EXCEPT !.pc = x, !.id = a, !.snap = s]
  <2>1. \/ decide(r, a, s) = go("terminate")
        \/ decide(r, a, s) = go("update")
        \/ decide(r, a, s) = go("rotate") /\ kind[r.ev].action = "triggered"
        \/ decide(r, a, s) = SuppressedJob(r, a)
    BY <1>8 DEF decide
  <2>2. \A x : go(x).pc = x /\ go(x).ev = r.ev /\ go(x).id = a
    BY DEF ProcRecords
  <2> HIDE DEF go
  <2>3. Done(a)
    BY <1>3, <1>4, <1>8
  <2>4. /\ Sure(go("terminate")) /\ Sure(go("update"))
        /\ kind[r.ev].action = "triggered" => Sure(go("rotate"))
    BY <1>1, <2>2, <2>3 DEF Sure
  <2>5. CASE decide(r, a, s) = SuppressedJob(r, a)
    BY <1>1, <1>2, <1>5, <2>5, SuppressedJobGood, SureJob
  <2> QED BY <2>1, <2>4, <2>5
<1> QED BY <1>6, <1>7, <1>8

LEMMA SearchActiveDocuments ==
  ASSUME DocumentInv, NEW w \in Workers, SearchActiveAlert(w)
  PROVE  DocumentInv'
<1> SUFFICES ASSUME NEW r, r = proc[w] PROVE DocumentInv'
  OBVIOUS
<1>1. r.pc = "find" /\ UNCHANGED <<kind, event, alert, stored, history, item>>
  BY DEF SearchActiveAlert, FindActiveAlert, repository, archiveVars
<1>2. ArchiveInv' /\ Sure(r) /\ r \in ProcRecords
  BY <1>1, SearchActiveGood, AtWork DEF DocumentInv
<1>3. CASE Step(w, NotRunning)
  BY <1>1, <1>2, <1>3, WriterReads DEF NotRunning
<1>4. CASE Step(w, [r EXCEPT !.pc = "ended"])
  <2> DEFINE m == [r EXCEPT !.pc = "ended"]
  <2>1. m.pc = "ended" /\ m.ev = r.ev /\ Step(w, m)
    BY <1>2, <1>4 DEF ProcRecords
  <2> HIDE DEF m
  <2> QED BY <1>1, <1>2, <2>1, SureToMove, WriterReads
<1>5. ASSUME NEW a \in ActiveIds, Step(w, decide(r, a, alert[a]))
      PROVE  DocumentInv'
  <2> SUFFICES ASSUME NEW s, s = alert[a], NEW m, m = decide(r, a, s) PROVE DocumentInv'
    OBVIOUS
  <2>1. m.pc = "idle" \/ Sure(m)
    BY <1>1, <1>2, SureDecision
  <2>2. Step(w, m) /\ proc[w].pc # "idle"
    BY <1>1, <1>5
  <2> QED BY <1>1, <1>2, <2>1, <2>2, WriterReads
<1> QED BY <1>3, <1>4, <1>5 DEF SearchActiveAlert, FindActiveAlert, Return

(* An event that opens no alert has none to show. *)
LEMMA NothingHidden ==
  ASSUME DocumentInv, NEW e \in Ids, kind[e].action # "triggered"
  PROVE  Seen(e)
BY DEF DocumentInv, DocumentState, Opened, Seen, ActiveStored

LEMMA SearchEndedDocuments ==
  ASSUME DocumentInv, NEW w \in Workers, SearchEndedByEvent(w)
  PROVE  DocumentInv'
<1> SUFFICES ASSUME NEW r, r = proc[w] PROVE DocumentInv'
  OBVIOUS
<1>1. /\ r.pc \in {"ended", "resume"} /\ proc[w].pc # "idle"
      /\ UNCHANGED <<kind, event, alert, stored, history, item>>
  BY DEF SearchEndedByEvent, FindAlertEndedByEvent, ResumeOpened, repository, archiveVars
<1>2. /\ ArchiveInv' /\ ArchiveInv /\ Sure(r) /\ r \in ProcRecords /\ r.ev \in Ids
      /\ r.pc = "resume" => r.id = r.ev /\ r.snap \in AlertRecords
  BY <1>1, SearchEndedGood, AtWork DEF DocumentInv, Known
<1>3. \A a \in EndedByEvent(r.ev) : a \in Ids /\ alert[a] \in AlertRecords
  BY <1>2, TypeFacts DEF EndedByEvent, Documents
<1>4. r.pc = "resume" => Seen(r.ev)
  BY <1>2 DEF Sure
<1>5. CASE Step(w, NotRunning)
  BY <1>1, <1>2, <1>5, WriterReads DEF NotRunning
<1>6. ASSUME NEW a \in EndedByEvent(r.ev), Step(w, resumeEndedEvent(r, a, alert[a]))
      PROVE  DocumentInv'
  <2> SUFFICES ASSUME NEW s, s = alert[a], NEW m, m = resumeEndedEvent(r, a, s)
               PROVE  DocumentInv'
    OBVIOUS
  <2> DEFINE n == [r EXCEPT !.pc = "rotate_create", !.oldId = a, !.old = s]
  <2>1. n.pc = "rotate_create" /\ n.ev = r.ev
    BY <1>2 DEF ProcRecords
  <2>2. \/ m = n /\ kind[r.ev].action = "triggered"
        \/ m = TerminatedJob(r, a, s) /\ kind[r.ev].action # "triggered"
        \/ m = NotRunning
    BY DEF resumeEndedEvent, Return
  <2> HIDE DEF n
  <2>3. CASE m = n /\ kind[r.ev].action = "triggered"
    <3>1. Sure(m)
      BY <1>2, <2>1, <2>3 DEF Sure
    <3> QED BY <1>1, <1>2, <1>6, <3>1, WriterReads
  <2>4. CASE m = NotRunning
    BY <1>5, <1>6, <2>4
  <2>5. CASE m = TerminatedJob(r, a, s) /\ kind[r.ev].action # "triggered"
    <3>1. IsJob(r, m) /\ Seen(r.ev)
      BY <1>2, <1>3, <2>5, TerminatedJobGood, NothingHidden
    <3>2. m.pc = "idle" \/ Sure(m)
      BY <1>2, <3>1, SureJob
    <3> QED BY <1>1, <1>2, <1>6, <3>2, WriterReads
  <2> QED BY <2>2, <2>3, <2>4, <2>5
<1>7. CASE kind[r.ev].action = "triggered" /\ Step(w, [r EXCEPT !.pc = "create"])
  <2> DEFINE m == [r EXCEPT !.pc = "create"]
  <2>1. m.pc = "create" /\ m.ev = r.ev /\ Step(w, m)
    BY <1>2, <1>7 DEF ProcRecords
  <2> HIDE DEF m
  <2>2. Sure(m)
    BY <1>2, <1>7, <2>1 DEF Sure
  <2> QED BY <1>1, <1>2, <2>1, <2>2, WriterReads
<1>8. CASE kind[r.ev].action # "triggered" /\ Step(w, Orphaned(r))
  <2> SUFFICES ASSUME NEW m, m = Orphaned(r) PROVE DocumentInv'
    OBVIOUS
  <2>1. m.pc = "finish" /\ m.ev = r.ev
    BY <1>2 DEF ProcRecords, Orphaned
  <2>2. Sure(m)
    BY <1>2, <1>8, <2>1, NothingHidden DEF Sure
  <2> QED BY <1>1, <1>2, <1>8, <2>2, WriterReads
<1>9. ASSUME NEW a \in EndedByEvent(r.ev), r.pc = "resume",
             Step(w, finishRotation(r, a, alert[a], r.id, r.snap))
      PROVE  DocumentInv'
  <2> SUFFICES ASSUME NEW s, s = alert[a], NEW m, m = finishRotation(r, a, s, r.ev, r.snap)
               PROVE  DocumentInv'
    BY <1>2, <1>9
  <2>1. IsJob(r, m) \/ m = NotRunning
    BY <1>2, <1>3, <1>9, RotationGood
  <2>2. m.pc = "idle" \/ Sure(m)
    BY <1>2, <1>4, <1>9, <2>1, SureJob
  <2> QED BY <1>1, <1>2, <1>9, <2>2, WriterReads
<1>10. CASE r.pc = "resume" /\ Step(w, CreatedJob(r, r.id, r.snap))
  <2> SUFFICES ASSUME NEW m, m = CreatedJob(r, r.ev, r.snap) PROVE DocumentInv'
    BY <1>2, <1>10
  <2>1. IsJob(r, m)
    BY <1>2, <1>10, CreatedJobGood
  <2>2. m.pc = "idle" \/ Sure(m)
    BY <1>2, <1>4, <1>10, <2>1, SureJob
  <2> QED BY <1>1, <1>2, <1>10, <2>2, WriterReads
<1> QED BY <1>5, <1>6, <1>7, <1>8, <1>9, <1>10
        DEF SearchEndedByEvent, FindAlertEndedByEvent, ResumeOpened, Return

(* When the search finds nothing, no document of another event is active. *)
LEMMA CreateSearchDocuments ==
  ASSUME DocumentInv, NEW w \in Workers, CreateSearch(w)
  PROVE  DocumentInv'
<1> SUFFICES ASSUME NEW r, r = proc[w],
                    NEW x, x = IF ActiveIds = {}
                               THEN (IF r.pc = "rotate_create" THEN "rotate_put" ELSE "put")
                               ELSE (IF r.pc = "rotate_create" THEN "rotate_conflict"
                                     ELSE "conflict"),
                    NEW m, m = [r EXCEPT !.pc = x]
             PROVE  DocumentInv'
  OBVIOUS
<1>1. /\ r.pc \in {"create", "rotate_create"} /\ proc[w].pc # "idle" /\ Step(w, m)
      /\ UNCHANGED <<kind, event, alert, stored, history, item>>
  BY DEF CreateSearch, repository, archiveVars
<1>2. /\ ArchiveInv' /\ Sure(r) /\ r \in ProcRecords /\ r.ev \in Ids
      /\ ~Done(r.ev) /\ AllDoneBefore(r.ev) /\ DocumentState
  BY <1>1, CreateSearchGood, AtWork DEF DocumentInv
<1>3. m.pc = x /\ m.ev = r.ev
  BY <1>2 DEF ProcRecords
<1>4. CASE ActiveIds = {}
  <2>1. ASSUME NEW a \in ActiveStored PROVE a = r.ev
    <3>1. a \in Ids /\ stored[a] # NoAlert /\ ~Seen(a)
      BY <1>4 DEF ActiveStored, Seen
    <3>2. ~Done(a) /\ AllDoneBefore(a)
      BY <1>2, <3>1 DEF DocumentState, Opened
    <3> QED BY <1>2, <3>1, <3>2, FirstUndone
  <2>2. x \in {"put", "rotate_put"}
    BY <1>4
  <2>3. Sure(m)
    BY <1>1, <1>2, <1>3, <1>4, <2>1, <2>2 DEF Sure
  <2> QED BY <1>1, <1>2, <2>3, WriterReads
<1>5. CASE ActiveIds # {}
  <2>1. x \in {"conflict", "rotate_conflict"}
    BY <1>5
  <2>2. Sure(m)
    BY <1>2, <1>3, <2>1, SureToMove
  <2> QED BY <1>1, <1>2, <2>2, WriterReads
<1> QED BY <1>4, <1>5

(* The alert of an event without a result is read as searches see it, and  *)
(* so it is seen.                                                          *)
LEMMA ReadConflictingDocuments ==
  ASSUME DocumentInv, NEW w \in Workers, ReadConflicting(w)
  PROVE  DocumentInv'
<1> SUFFICES ASSUME NEW r, r = proc[w], NEW s, s = GetAlert(r.ev)
             PROVE  DocumentInv'
  OBVIOUS
<1>1. /\ r.pc \in {"conflict", "rotate_conflict"} /\ proc[w].pc # "idle"
      /\ UNCHANGED <<kind, event, alert, stored, history, item>>
  BY DEF ReadConflicting, repository, archiveVars
<1>2. /\ ArchiveInv' /\ ArchiveInv /\ Sure(r) /\ r \in ProcRecords /\ r.ev \in Ids
      /\ ~Done(r.ev) /\ DocumentState /\ Known(w, r)
  BY <1>1, ReadConflictingGood, AtWork DEF DocumentInv
<1>3. s \in AlertRecords \cup {NoAlert}
  BY <1>2, GetAlertType
<1>4. s # NoAlert => s \in Copies(r.ev)
  <2>1. CASE Cardinality(Copies(r.ev)) = 1
    <3>1. Copies(r.ev) # {}
      BY <2>1, FS_EmptySet
    <3> QED BY <2>1, <3>1 DEF GetAlert
  <2> QED BY <2>1 DEF GetAlert
<1>5. s # NoAlert => s = alert[r.ev] /\ AsOpened(r.ev, s)
  BY <1>2, <1>4 DEF Copies, DocumentState
<1>6. s # NoAlert => Seen(r.ev) /\ s.latest = r.ev
  BY <1>2, <1>5 DEF AsOpened, Seen, ActiveIds
<1>7. CASE Step(w, AfterConflict(r, s))
  <2>1. CASE s = NoAlert
    <3> SUFFICES ASSUME NEW m, m = RetryDecision(r) PROVE DocumentInv'
      OBVIOUS
    <3>1. (m.pc = "idle" \/ Sure(m)) /\ Step(w, m)
      BY <1>2, <1>7, <2>1, SureRetry DEF AfterConflict
    <3> QED BY <1>1, <1>2, <3>1, WriterReads
  <2>2. CASE s # NoAlert
    <3> DEFINE m == [r EXCEPT !.pc = "resume", !.id = r.ev, !.snap = s]
    <3>1. m.pc = "resume" /\ m.ev = r.ev
      BY <1>2 DEF ProcRecords
    <3>2. Step(w, m)
      BY <1>6, <1>7, <2>2 DEF AfterConflict, resumeActiveEvent
    <3> HIDE DEF m
    <3>3. Sure(m)
      BY <1>2, <1>6, <2>2, <3>1 DEF Sure
    <3> QED BY <1>1, <1>2, <3>2, <3>3, WriterReads
  <2> QED BY <2>1, <2>2
<1>8. CASE r.pc = "rotate_conflict" /\ Step(w, AfterRotateConflict(r, s))
  <2>1. r.oldId \in Ids /\ r.old \in AlertRecords
    BY <1>2, <1>8 DEF Known
  <2> SUFFICES ASSUME NEW m, m = AfterRotateConflict(r, s) PROVE DocumentInv'
    OBVIOUS
  <2>2. \/ m = NotRunning
        \/ m = RetryDecision(r)
        \/ s # NoAlert /\ m = finishRotation(r, r.oldId, r.old, r.ev, s)
    BY DEF AfterRotateConflict, Return
  <2>3. CASE m = NotRunning
    BY <1>1, <1>2, <1>8, <2>3, WriterReads DEF NotRunning
  <2>4. CASE m = RetryDecision(r)
    <3>1. m.pc = "idle" \/ Sure(m)
      BY <1>2, <2>4, SureRetry
    <3> QED BY <1>1, <1>2, <1>8, <3>1, WriterReads
  <2>5. CASE s # NoAlert /\ m = finishRotation(r, r.oldId, r.old, r.ev, s)
    <3>1. IsJob(r, m) \/ m = NotRunning
      BY <1>2, <1>3, <2>1, <2>5, RotationGood
    <3>2. m.pc = "idle" \/ Sure(m)
      BY <1>2, <1>6, <2>5, <3>1, SureJob
    <3> QED BY <1>1, <1>2, <1>8, <3>2, WriterReads
  <2> QED BY <2>2, <2>3, <2>4, <2>5
<1> QED BY <1>7, <1>8 DEF ReadConflicting

(* A worker writes document a and goes on with m, or gets no answer. *)
LEMMA WriterWrites ==
  ASSUME DocumentInv, ArchiveInv', NEW w \in Workers, proc[w].pc # "idle",
         NEW r, r = proc[w], NEW a \in Ids, NEW s, NEW m, Write(w, a, s, m),
         IsJob(r, m) \/ m = NotRunning \/ (m.pc = "rotate_create" /\ m.ev = r.ev),
         m.pc = "rotate_create" => kind[r.ev].action = "triggered", DocumentWrite(a, s)
  PROVE  DocumentInv'
<1>1. DocumentState'
  BY DocumentsWritten
<1>2. /\ r \in ProcRecords /\ ~Done(r.ev) /\ AllDoneBefore(r.ev)
  BY AtWork
<1>3. CASE Step(w, NotRunning)
  BY <1>1, <1>3, WriterStep DEF NotRunning
<1>4. CASE Answered(a, s) /\ Step(w, m)
  <2>1. alert' = stored'
    BY <1>4 DEF Answered
  <2>2. ~Done(r.ev)' /\ AllDoneBefore(r.ev)' /\ UNCHANGED kind
    BY <1>2 DEF DocumentWrite, Done, AllDoneBefore
  <2>3. \/ m.pc = "idle"
        \/ m.pc \in {"hooks", "logs", "rotate_create"} /\ m.ev = r.ev
    <3>1. CASE IsJob(r, m)
      <4>1. PICK hs \in Seq(HookRecords), todo \in SUBSET LogRecords, fin \in Results :
              m = Job(r, hs, todo, fin)
        BY <3>1 DEF IsJob
      <4> QED BY <1>2, <4>1, JobFields
    <3> QED BY <3>1 DEF NotRunning
  <2>4. m.pc = "idle" \/ Sure(m)'
    BY <2>1, <2>2, <2>3, SeenAtOnce DEF Sure
  <2> QED BY <1>1, <1>4, <2>4, WriterStep
<1> QED BY <1>3, <1>4 DEF Write, Return

LEMMA CreatePutDocuments ==
  ASSUME DocumentInv, NEW w \in Workers, CreatePut(w)
  PROVE  DocumentInv'
<1> SUFFICES ASSUME NEW r, r = proc[w], NEW s, s = OpenedAlert(r.ev)
             PROVE  DocumentInv'
  OBVIOUS
<1>1. /\ r.pc \in {"put", "rotate_put"} /\ proc[w].pc # "idle"
      /\ UNCHANGED <<kind, event, history, item>>
  BY DEF CreatePut, archiverVars
<1>2. /\ ArchiveInv' /\ ArchiveInv /\ Sure(r) /\ r \in ProcRecords /\ r.ev \in Ids
      /\ ~Done(r.ev) /\ AllDoneBefore(r.ev)
      /\ r.pc = "rotate_put" => r.oldId \in Ids /\ r.old \in AlertRecords
  BY <1>1, CreatePutGood, AtWork DEF DocumentInv, Known
<1>3. s \in AlertRecords /\ s.status = "active" /\ s.latest = r.ev
  <2>1. s \in AlertRecords
    BY <1>2, OpenedType
  <2> QED BY <2>1 DEF OpenedAlert, newAlert
<1>4. CASE stored[r.ev] = NoAlert
  <2> SUFFICES ASSUME NEW m, m = IF r.pc = "rotate_put"
                                 THEN finishRotation(r, r.oldId, r.old, r.ev, s)
                                 ELSE CreatedJob(r, r.ev, s)
               PROVE  DocumentInv'
    OBVIOUS
  <2>1. Write(w, r.ev, s, m)
    BY <1>4 DEF CreatePut
  <2>2. IsJob(r, m) \/ m = NotRunning
    BY <1>1, <1>2, <1>3, RotationGood, CreatedJobGood
  <2>3. /\ Opened(r.ev) /\ AsOpened(r.ev, s)
        /\ ActiveStored \subseteq {r.ev} /\ ActiveIds \subseteq {r.ev}
    BY <1>1, <1>2, <1>3 DEF Sure, Opened, AsOpened
  <2>4. DocumentWrite(r.ev, s)
    BY <1>1, <1>2, <2>1, <2>3 DEF DocumentWrite, Write, Answered, Unanswered
  <2>5. m.pc = "rotate_create" => kind[r.ev].action = "triggered"
    BY <1>1, <1>2 DEF Sure
  <2> QED BY <1>1, <1>2, <2>1, <2>2, <2>4, <2>5, WriterWrites
<1>5. CASE stored[r.ev] # NoAlert
  <2> SUFFICES ASSUME NEW x, x = IF r.pc = "rotate_put" THEN "rotate_conflict" ELSE "conflict",
                      NEW m, m = [r EXCEPT !.pc = x]
               PROVE  DocumentInv'
    OBVIOUS
  <2>1. Step(w, m) /\ UNCHANGED <<alert, stored>>
    BY <1>5 DEF CreatePut
  <2>2. m.pc = x /\ m.ev = r.ev
    BY <1>2 DEF ProcRecords
  <2>3. Sure(m)
    BY <1>2, <2>2, SureToMove
  <2> QED BY <1>1, <1>2, <2>1, <2>3, WriterReads
<1> QED BY <1>4, <1>5

LEMMA ReplaceAlertDocuments ==
  ASSUME DocumentInv, NEW w \in Workers, ReplaceAlert(w)
  PROVE  DocumentInv'
<1> SUFFICES ASSUME NEW r, r = proc[w], NEW s, s = Replacement(r), NEW m, m = AfterWrite(r, s),
                    NEW c, c = RetryDecision(r)
             PROVE  DocumentInv'
  OBVIOUS
<1>1. /\ r.pc \in {"update", "terminate", "rotate"} /\ proc[w].pc # "idle"
      /\ CompareAndSet(w, r.id, s, m, c)
      /\ UNCHANGED <<kind, event, history, item>>
  BY DEF ReplaceAlert, archiverVars
<1>2. /\ ArchiveInv' /\ ArchiveInv /\ Sure(r) /\ r \in ProcRecords /\ r.ev \in Ids
      /\ Known(w, r) /\ DocumentState
  BY <1>1, ReplaceAlertGood, AtWork DEF DocumentInv
<1>3. /\ r.id \in Ids /\ Done(r.id) /\ r.snap \in AlertRecords /\ r.snap.status = "active"
      /\ r.pc = "rotate" => kind[r.ev].action = "triggered"
  BY <1>1, <1>2 DEF Known, Sure
<1>4. CASE (Step(w, NotRunning) \/ Step(w, c)) /\ UNCHANGED <<alert, stored>>
  <2>1. c.pc = "idle" \/ Sure(c)
    BY <1>2, SureRetry
  <2>2. CASE Step(w, NotRunning)
    BY <1>1, <1>2, <1>4, <2>2, WriterReads DEF NotRunning
  <2>3. CASE Step(w, c)
    BY <1>1, <1>2, <1>4, <2>1, <2>3, WriterReads
  <2> QED BY <1>4, <2>2, <2>3
<1>5. CASE stored[r.id] = r.snap /\ Write(w, r.id, s, m)
  <2>1. s \in AlertRecords
    BY <1>2, <1>3, ReplacementTypes DEF Replacement
  <2>2. r.id \in ActiveStored /\ Opened(r.id)
    BY <1>2, <1>3, <1>5, NoAlertType DEF ActiveStored, DocumentState
  <2>3. DocumentWrite(r.id, s)
    BY <1>1, <1>3, <1>5, <2>2 DEF DocumentWrite, Write, Answered, Unanswered
  <2>4. /\ IsJob(r, m) \/ m = NotRunning \/ (m.pc = "rotate_create" /\ m.ev = r.ev)
        /\ m.pc = "rotate_create" => kind[r.ev].action = "triggered"
    <3>1. CASE r.pc = "rotate"
      <4> DEFINE n == [r EXCEPT !.pc = "rotate_create", !.oldId = r.id, !.old = s]
      <4>1. m = n /\ n.pc = "rotate_create" /\ n.ev = r.ev
        BY <1>2, <3>1 DEF AfterWrite, ProcRecords
      <4> HIDE DEF n
      <4> QED BY <1>3, <3>1, <4>1
    <3>2. CASE r.pc # "rotate"
      <4>1. m = UpdatedJob(r, r.id, s) \/ m = TerminatedJob(r, r.id, s)
        BY <1>1, <3>2 DEF AfterWrite
      <4>2. IsJob(r, m)
        BY <1>2, <1>3, <2>1, <4>1, UpdatedJobGood, TerminatedJobGood
      <4>3. m.pc # "rotate_create"
        <5>1. PICK hs \in Seq(HookRecords), todo \in SUBSET LogRecords, fin \in Results :
                m = Job(r, hs, todo, fin)
          BY <4>2 DEF IsJob
        <5> QED BY <1>2, <5>1, JobFields
      <4> QED BY <4>2, <4>3
    <3> QED BY <3>1, <3>2
  <2> QED BY <1>1, <1>2, <1>3, <1>5, <2>3, <2>4, WriterWrites
<1> QED BY <1>1, <1>4, <1>5 DEF CompareAndSet, Return

(* Output and logs. *)
LEMMA OutputDocuments ==
  ASSUME DocumentInv, NEW w \in Workers, UNCHANGED archiveVars,
         RunFinalHook(w) \/ AppendAlertLogs(w) \/ AppendPartly(w) \/ Abort(w)
  PROVE  DocumentInv'
<1> SUFFICES ASSUME NEW r, r = proc[w] PROVE DocumentInv'
  OBVIOUS
<1>0. w \in Procs /\ w \notin Commands
  BY ProcsDisjoint DEF Procs
<1>1. /\ proc[w].pc # "idle" /\ UNCHANGED <<kind, event, alert, stored, history, item>>
  BY DEF RunFinalHook, AppendAlertLogs, AppendPartly, Abort, repository, archiveVars
<1>2. ArchiveInv' /\ Sure(r) /\ r \in ProcRecords /\ Known(w, r)
  BY <1>0, <1>1, RunFinalHookKnown, AppendLogsKnown, AbortKnown, AtWork DEF DocumentInv
<1>3. ASSUME NEW m, Step(w, m), m.ev = r.ev, r.pc \in {"hooks", "logs"},
             m.pc \in {"hooks", "logs", "finish"}
      PROVE  DocumentInv'
  <2>1. Sure(m)
    BY <1>2, <1>3 DEF Sure
  <2> QED BY <1>1, <1>2, <1>3, <2>1, WriterReads
<1>4. CASE Step(w, NotRunning)
  BY <1>1, <1>2, <1>4, WriterReads DEF NotRunning
<1>5. CASE RunFinalHook(w)
  <2> SUFFICES ASSUME NEW h, h = Head(r.hooks), NEW c, c = CauseOf(w), NEW op, NEW m,
                      m = Pushed(r, h, c, op), Step(w, m)
               PROVE  DocumentInv'
    BY <1>5 DEF RunFinalHook, Pushed
  <2>1. m.ev = r.ev /\ m.pc \in {"hooks", "logs"}
    BY <1>2 DEF Pushed, ProcRecords
  <2> QED BY <1>3, <1>5, <2>1 DEF RunFinalHook
<1>6. CASE AppendAlertLogs(w) /\ Step(w, [r EXCEPT !.pc = "finish", !.todo = {}])
  <2> SUFFICES ASSUME NEW m, m = [r EXCEPT !.pc = "finish", !.todo = {}]
               PROVE  DocumentInv'
    OBVIOUS
  <2>1. m.ev = r.ev /\ m.pc = "finish" /\ Step(w, m) /\ r.pc = "logs"
    BY <1>2, <1>6 DEF ProcRecords, AppendAlertLogs
  <2> QED BY <1>3, <2>1
<1> QED BY <1>0, <1>4, <1>5, <1>6 DEF AppendAlertLogs, AppendPartly, Abort, Return

(* The result is stored when the alert, if there is one, is seen. *)
LEMMA FinishDocuments ==
  ASSUME DocumentInv, NEW w \in Workers, finishEvent(w), UNCHANGED archiveVars
  PROVE  DocumentInv'
<1> SUFFICES ASSUME NEW r, r = proc[w] PROVE DocumentInv'
  OBVIOUS
<1>1. r.pc = "finish" /\ proc[w].pc # "idle" /\ UNCHANGED <<kind, alert, stored, history, item>>
  BY DEF finishEvent, archiveVars
<1>2. /\ ArchiveInv' /\ ArchiveInv /\ Sure(r) /\ r.ev \in Ids /\ ~Done(r.ev) /\ DocumentState
      /\ Seen(r.ev)
  BY <1>1, FinishKnown, AtWork DEF DocumentInv, Sure
<1>3. event' = [event EXCEPT ![r.ev] = r.fin] /\ Step(w, NotRunning)
  BY <1>2 DEF finishEvent, Done, Return
<1>4. \A e \in Ids : /\ Done(e) => Done(e)'
                     /\ e # r.ev => (Done(e)' <=> Done(e))
  BY <1>2, <1>3, TypeFacts DEF Done
<1>5. \A a \in Ids : Opened(a) => Opened(a)'
  <2> SUFFICES ASSUME NEW a \in Ids, Opened(a) PROVE Opened(a)'
    OBVIOUS
  <2>1. \A d \in 1..(a - 1) : d \in Ids
    BY LaneType DEF Ids
  <2> QED BY <1>1, <1>4, <2>1 DEF Opened, AllDoneBefore
<1>6. ActiveStored' = ActiveStored /\ ActiveIds' = ActiveIds /\ \A e : Seen(e)' <=> Seen(e)
  BY <1>1 DEF ActiveStored, ActiveIds, Seen
<1>7. \A a \in Ids : ~Done(a)' => ~Done(a)
  BY <1>4
<1>8. \A a \in Ids : Done(a)' => Seen(a)'
  BY <1>2, <1>4, <1>6 DEF DocumentState
<1>9. DocumentState'
  BY <1>1, <1>2, <1>5, <1>6, <1>7, <1>8 DEF DocumentState, AsOpened
<1> QED BY <1>1, <1>2, <1>3, <1>9, WriterStep DEF NotRunning

(* The archiver works only on alerts of events with a result. *)
LEMMA ArchiverReads ==
  ASSUME DocumentInv, ArchiveInv', UNCHANGED <<kind, event, alert, stored, proc, holder>>,
         \A a \in Ids : ~Done(a) => history'[a] = NoAlert /\ item'[a].phase = "none"
  PROVE  DocumentInv'
<1>1. DocumentState
  BY DEF DocumentInv
<1>2. /\ \A e : Done(e)' <=> Done(e)
      /\ ActiveStored' = ActiveStored /\ ActiveIds' = ActiveIds
      /\ \A e : (Opened(e)' <=> Opened(e)) /\ (AllDoneBefore(e)' <=> AllDoneBefore(e))
  BY DEF Done, ActiveStored, ActiveIds, Opened, AllDoneBefore
<1>3. \A e : Seen(e)' <=> Seen(e)
  BY <1>2 DEF Seen
<1>4. DocumentState'
  BY <1>1, <1>2, <1>3 DEF DocumentState, AsOpened
<1>5. ASSUME NEW r, Sure(r) PROVE Sure(r)'
  BY <1>2, <1>3, <1>5 DEF Sure
<1> QED BY <1>4, <1>5, NoWriterStep

LEMMA ScanDocuments ==
  ASSUME DocumentInv, Scan
  PROVE  DocumentInv'
<1> DEFINE S == {a \in Ids : a > cursor /\ alert[a] # NoAlert /\ alert[a].status # "active"}
           page == Page(S)
<1>1. /\ item' = [a \in Ids |->
              IF a \in page THEN [phase |-> "create", snap |-> alert[a]] ELSE NoItem]
      /\ UNCHANGED <<kind, event, alert, stored, proc, holder, history>>
  BY DEF Scan, vars
<1>2. page \subseteq S
  BY DEF Page
<1> HIDE DEF page
<1>3. ArchiveInv' /\ DocumentState
  BY ScanGood DEF DocumentInv
<1>4. \A a \in Ids : ~Done(a) => a \notin page /\ history[a] = NoAlert
  BY <1>2, <1>3 DEF DocumentState, AsOpened
<1>5. \A a \in Ids : ~Done(a) => history'[a] = NoAlert /\ item'[a].phase = "none"
  BY <1>1, <1>4, NoItemType
<1> QED BY <1>1, <1>3, <1>5, ArchiverReads

LEMMA RestartDocuments ==
  ASSUME DocumentInv, RestartArchiver
  PROVE  DocumentInv'
<1>1. /\ item' = [a \in Ids |-> NoItem]
      /\ UNCHANGED <<kind, event, alert, stored, proc, holder, history>>
  BY DEF RestartArchiver, processorVars
<1>2. ArchiveInv' /\ DocumentState
  BY RestartGood DEF DocumentInv
<1>3. \A a \in Ids : ~Done(a) => history'[a] = NoAlert /\ item'[a].phase = "none"
  BY <1>1, <1>2, NoItemType DEF DocumentState
<1> QED BY <1>1, <1>2, <1>3, ArchiverReads

LEMMA CopyDocuments ==
  ASSUME DocumentInv, NEW a \in Ids, CreateHistory(a) \/ VerifyHistory(a)
  PROVE  DocumentInv'
<1>1. /\ item[a].phase # "none" /\ UNCHANGED <<kind, event, alert, stored, proc, holder>>
      /\ UNCHANGED history \/ history' = [history EXCEPT ![a] = item[a].snap]
  BY DEF CreateHistory, VerifyHistory, processorVars
<1>2. ArchiveInv' /\ ArchiveInv /\ DocumentState
  BY CreateHistoryGood, VerifyHistoryGood DEF DocumentInv
<1>3. ItemOver(a) \/ ItemIs(a, "delete") \/ ItemIs(a, "verify")
  BY DEF CreateHistory, VerifyHistory, CreateRefused
<1>4. \A b \in Ids \ {a} : item'[b] = item[b] /\ history'[b] = history[b]
  BY <1>1, <1>2, <1>3, TypeFacts DEF ItemOver, ItemIs, ArchiveInv, ArchiveTypes, Documents
<1>5. Done(a)
  BY <1>1, <1>2 DEF DocumentState
<1>6. \A b \in Ids : ~Done(b) => history'[b] = NoAlert /\ item'[b].phase = "none"
  BY <1>2, <1>4, <1>5 DEF DocumentState
<1> QED BY <1>1, <1>2, <1>6, ArchiverReads

LEMMA DeleteDocuments ==
  ASSUME DocumentInv, NEW a \in Ids, DeleteActive(a)
  PROVE  DocumentInv'
<1>1. /\ item[a].phase = "delete" /\ ItemOver(a)
      /\ UNCHANGED <<kind, event, proc, holder, history>>
  BY DEF DeleteActive, processorVars
<1>2. ArchiveInv' /\ ArchiveInv /\ DocumentState
  BY DeleteActiveGood DEF DocumentInv
<1>3. Done(a) /\ item'[a].phase = "none" /\ \A b \in Ids \ {a} : item'[b] = item[b]
  BY <1>1, <1>2, ItemFacts DEF DocumentState
<1>4. CASE UNCHANGED <<alert, stored>>
  <2>1. \A b \in Ids : ~Done(b) => history'[b] = NoAlert /\ item'[b].phase = "none"
    BY <1>1, <1>2, <1>3 DEF DocumentState
  <2> QED BY <1>1, <1>2, <1>4, <2>1, ArchiverReads
<1>5. CASE /\ stored' = [stored EXCEPT ![a] = NoAlert]
           /\ alert' = stored' \/ UNCHANGED alert
  <2>1. DocumentWrite(a, NoAlert)
    BY <1>1, <1>3, <1>5 DEF DocumentWrite
  <2>2. DocumentState'
    BY <2>1, DocumentsWritten
  <2>3. ActiveStored' \subseteq ActiveStored
    BY <1>2, <1>5, TypeFacts DEF ActiveStored, Documents
  <2>4. ActiveIds' = ActiveIds \/ ActiveIds' = ActiveStored'
    BY <1>5 DEF ActiveIds, ActiveStored
  <2>5. \A e : Seen(e) => Seen(e)'
    BY <2>3, <2>4 DEF Seen
  <2>6. \A e : (Done(e)' <=> Done(e)) /\ (AllDoneBefore(e)' <=> AllDoneBefore(e))
    BY <1>1 DEF Done, AllDoneBefore
  <2>7. ASSUME NEW r, Sure(r) PROVE Sure(r)'
    BY <1>1, <2>3, <2>4, <2>5, <2>6, <2>7 DEF Sure
  <2> QED BY <1>1, <1>2, <2>2, <2>7, NoWriterStep
<1> QED BY <1>4, <1>5 DEF DeleteActive, Answered, Unanswered

LEMMA DocumentInit == ArchiveInit => DocumentInv
<1> SUFFICES ASSUME ArchiveInit PROVE DocumentInv
  OBVIOUS
<1>1. /\ stored = [a \in Ids |-> NoAlert] /\ history = [a \in Ids |-> NoAlert]
      /\ item = [a \in Ids |-> NoItem] /\ alert = [a \in Ids |-> NoAlert]
      /\ proc = [p \in Procs |-> NotRunning] /\ event = [e \in Ids |-> Unprocessed]
  BY DEF ArchiveInit, Init
<1>2. ActiveStored = {} /\ \A a : Seen(a)
  BY <1>1 DEF ActiveStored, Seen
<1>3. DocumentState
  BY <1>1, <1>2, NoItemType DEF DocumentState, AsOpened
<1>4. OneWriter
  BY <1>1 DEF OneWriter, Procs, NotRunning
<1> QED BY <1>3, <1>4, ArchiveInitInv DEF DocumentInv

LEMMA DocumentNext ==
  ASSUME Commands = {}
  PROVE  DocumentInv /\ [ArchiveNext]_allVars => DocumentInv'
<1> SUFFICES ASSUME DocumentInv, [ArchiveNext]_allVars PROVE DocumentInv'
  OBVIOUS
<1>1. ASSUME NEW w \in Workers, ElasticWorker(w) PROVE DocumentInv'
  <2>1. CASE SearchActiveAlert(w) \/ SearchEndedByEvent(w) \/ CreateSearch(w)
    BY <2>1, SearchActiveDocuments, SearchEndedDocuments, CreateSearchDocuments
  <2>2. CASE CreatePut(w) \/ ReadConflicting(w) \/ ReplaceAlert(w)
    BY <2>2, CreatePutDocuments, ReadConflictingDocuments, ReplaceAlertDocuments
  <2>3. CASE /\ ReadEvent(w) \/ RunFinalHook(w) \/ AppendAlertLogs(w) \/ finishEvent(w)
             /\ UNCHANGED archiveVars
    BY <2>3, ReadEventDocuments, OutputDocuments, FinishDocuments
  <2> QED BY <1>1, <2>1, <2>2, <2>3 DEF ElasticWorker
<1>2. ASSUME NEW w \in Workers, NEW e \in Ids, Begin(w, e), UNCHANGED archiveVars
      PROVE  DocumentInv'
  BY <1>2, BeginDocuments
<1>3. ASSUME NEW p \in Procs, AppendPartly(p) \/ Abort(p), UNCHANGED archiveVars
      PROVE  DocumentInv'
  BY <1>3, OutputDocuments DEF Procs
<1>4. CASE Refresh \/ Scan \/ RestartArchiver
  BY <1>4, RefreshDocuments, ScanDocuments, RestartDocuments
<1>5. ASSUME NEW a \in Ids, Item(a) PROVE DocumentInv'
  BY <1>5, CopyDocuments, DeleteDocuments DEF Item
<1>6. CASE UNCHANGED allVars
  <2>1. UNCHANGED <<kind, event, alert, stored, history, item, proc, holder>>
    BY <1>6 DEF allVars, vars, archiveVars
  <2>2. ArchiveInv' /\ DocumentState
    BY ArchiveNextInv DEF DocumentInv
  <2>3. \A a \in Ids : ~Done(a) => history'[a] = NoAlert /\ item'[a].phase = "none"
    BY <2>1, <2>2 DEF DocumentState
  <2> QED BY <2>1, <2>2, <2>3, ArchiverReads
<1> QED BY <1>1, <1>2, <1>3, <1>4, <1>5, <1>6 DEF ArchiveNext

(* CreateAlert's promise on Elasticsearch (alert.go:26): although there is *)
(* no unique key for a lane and the search before a create may not see     *)
(* what a request without an answer has written, a lane never has two      *)
(* active documents.  The mailbox lease and refresh=wait_for are enough    *)
(* while no operator closes the alert of an event without a result.        *)
THEOREM ActiveDocumentUnique ==
  ASSUME Commands = {}
  PROVE  ArchiveSpec => []OneActiveDocument
<1>1. ArchiveSpec => []DocumentInv
  <2>1. DocumentInv /\ [ArchiveNext]_allVars => DocumentInv'
    BY DocumentNext
  <2> QED BY <2>1, DocumentInit, PTL DEF ArchiveSpec
<1>2. DocumentInv => OneActiveDocument
  <2> SUFFICES ASSUME DocumentInv PROVE Cardinality(ActiveStored) <= 1
    BY DEF OneActiveDocument, ActiveStored
  <2>1. CASE ActiveStored = {}
    BY <2>1, FS_EmptySet
  <2>2. ASSUME NEW a \in ActiveStored PROVE Cardinality(ActiveStored) <= 1
    <3>1. ActiveStored = {a}
      BY <2>2 DEF DocumentInv, DocumentState
    <3>2. Cardinality(ActiveStored) = 1
      BY <3>1, FS_Singleton
    <3> QED BY <3>2
  <2> QED BY <2>1, <2>2
<1> QED BY <1>1, <1>2, PTL
=============================================================================
