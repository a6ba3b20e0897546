------------------------------ MODULE Cleaner ------------------------------
(***************************************************************************)
(* linkd's cleaner flow, cleaner/runtime.go, on a Kafka session: records   *)
(* are transformed by workers in any order, and their side effects (store  *)
(* the event, put its reference into a mailbox, confirm the record) are    *)
(* made batch by batch, in the order of their partition ("lane").          *)
(*                                                                         *)
(* A coordinator goroutine owns lanes, window and timers.  As in           *)
(* ConsumeRuntime it alternates between the head of its loop (at = "top")  *)
(* and one case of its select (at = "select"), each one step.  A batch is  *)
(* a goroutine per lane whose calls to the store, to Redis and to Kafka    *)
(* are a step each.  A worker's transformation has no side effect and is   *)
(* part of the step in which the coordinator reads its result.             *)
(*                                                                         *)
(* The consumer group may take lanes away; another member then goes on     *)
(* from what is confirmed.  A generation ends when Run returns or the      *)
(* process dies.  Sizes in bytes, which bound batches and window exactly   *)
(* as message counts do, are left out.                                     *)
(***************************************************************************)
EXTENDS Integers, Sequences, FiniteSets, FiniteSetsExt, SequencesExt, SequenceFilter

CONSTANTS
  Messages,          \* records of the topic, one event each
  Lanes,             \* partitions
  LaneLog,           \* LaneLog[l]: the records of lane l in offset order
  Malformed,         \* records the processor discards
  Refused,           \* records whose event the store refuses for good
  MaxBatchMessages, MaxConcurrentBatches, MaxInflightMessages,
  MaxInflightPerLane, ResumeInflightPerLane,
  RetryMaxAttempts,  \* fields of CleanerRuntimeConfig
  MaxFaults          \* bound: crashes, failures, rebalances, cancellations, load

(* CleanerRuntimeConfig.Validate *)
Validate ==
  /\ {MaxBatchMessages, MaxConcurrentBatches, MaxInflightMessages,
      MaxInflightPerLane, ResumeInflightPerLane, RetryMaxAttempts} \subseteq Nat \ {0}
  /\ MaxBatchMessages <= MaxInflightPerLane
  /\ MaxInflightPerLane <= MaxInflightMessages
  /\ ResumeInflightPerLane < MaxInflightPerLane
ASSUME CleanerConfigValid == Validate
(* A record is one offset of one partition. *)
ASSUME RecordsType ==
  /\ IsFiniteSet(Messages) /\ IsFiniteSet(Lanes)
  /\ LaneLog \in [Lanes -> Seq(Messages)]
  /\ \A m \in Messages : \E l \in Lanes : m \in ToSet(LaneLog[l])
  /\ \A k, l \in Lanes : \A i \in DOMAIN LaneLog[k], j \in DOMAIN LaneLog[l] :
       LaneLog[k][i] = LaneLog[l][j] => k = l /\ i = j
  /\ Malformed \subseteq Messages /\ Refused \subseteq Messages
ASSUME CleanerFaultsType == MaxFaults \in Nat

VARIABLES
  confirmed,     \* Kafka: records before the committed offset of their lane
  events,        \* event store: events that exist
  terminal,      \* event store: events the lifecycle has finished with
  mailed,        \* mailboxes: events that were ever put into one
  load,          \* what XINFO GROUPS says about the signal stream
  fetched,       \* session: records returned in this generation
  receipts,      \* session: records whose receipt is outstanding
  held,          \* client: a poll blocks rebalances until AllowRebalance
  paused,        \* client: lanes whose fetching is paused (lane.paused)
  flowPaused,    \* client: fetching of the topic is paused
  owned,         \* ownershipBridge.owned
  revokeEvent, lostEvent,  \* lanes of an ownership event not yet read
  pendingRevoke, \* lanes of the revocation being drained
  revoking,      \* lanes with lane.revoking
  allowed,       \* checker: the cached admission decision
  receive,       \* "idle", "asked", "polled", or the answer "ok", "empty", "err"
  limit,         \* ReceiveLimits.MaxMessages of the outstanding request
  polled,        \* the records of an unread answer
  entries,       \* lane.entries
  st,            \* st[m]: where the entry of m is
  prog,          \* prog[m]: side effects made: discard, stored, mailbox flags
  attempt,       \* attempt[m]: entry.processAttempt
  batch,         \* batch[l]: the batch goroutine of lane l
  laneAttempt,   \* lane.attempt
  timer,         \* the time fields: "zero", "ahead" of now, or "past"
  slots,         \* batchSlots in use
  leaving,       \* batch goroutines that have reported and still hold a slot
  inflight,      \* inflightMessages
  shuttingDown,
  at,            \* "top", "select", "stopping" (after the loop), "stopped"
  answered,      \* history: events this generation enqueued and had answered
  again,         \* history: events enqueued after that, by this generation
  faults         \* faults spent so far

storeVars == <<confirmed, events, terminal, mailed>>
gateVars == <<load, allowed, flowPaused>>
sessionVars == <<fetched, receipts, held>>
ownerVars == <<owned, revokeEvent, lostEvent, pendingRevoke, revoking>>
receiveVars == <<receive, limit, polled>>
entryVars == <<entries, st, prog, attempt, paused>>
batchVars == <<batch, slots, leaving>>
laneVars == <<laneAttempt, timer>>
loopVars == <<inflight, shuttingDown, at>>
historyVars == <<answered, again, faults>>
outerVars == <<storeVars, gateVars, sessionVars, ownerVars, receiveVars>>
innerVars == <<entryVars, batchVars, laneVars, loopVars>>
vars == <<outerVars, innerVars, historyVars>>

Timers == Messages \cup Lanes \cup {"shutdown"}
NoBatch == [phase |-> "idle", n |-> 0, settled |-> 0, result |-> "ok"]
LaneOf == [m \in Messages |-> CHOOSE l \in Lanes : m \in ToSet(LaneLog[l])]
Running == at \in {"top", "select"}

TypeOK ==
  /\ confirmed \subseteq Messages /\ events \subseteq Messages
  /\ terminal \subseteq Messages /\ mailed \subseteq Messages
  /\ load \in {"admit", "keep", "stop"}
  /\ fetched \subseteq Messages /\ receipts \subseteq Messages /\ held \in BOOLEAN
  /\ paused \subseteq Lanes /\ flowPaused \in BOOLEAN /\ allowed \in BOOLEAN
  /\ owned \subseteq Lanes /\ revokeEvent \subseteq Lanes /\ lostEvent \subseteq Lanes
  /\ pendingRevoke \subseteq Lanes /\ revoking \subseteq Lanes
  /\ receive \in {"idle", "asked", "polled", "ok", "empty", "err"}
  /\ limit \in 0..MaxBatchMessages /\ polled \subseteq Messages
  /\ entries \in [Lanes -> Seq(Messages)]
  /\ st \in [Messages -> {"away", "job", "retry", "stuck", "ready"}]
  /\ prog \in [Messages -> {"none", "discard", "stored", "mailed"}]
  /\ attempt \in [Messages -> 0..RetryMaxAttempts]
  /\ batch \in [Lanes -> [phase : {"idle", "store", "enqueue", "confirm", "send", "sent"},
                          n : 0..MaxBatchMessages, settled : 0..MaxBatchMessages,
                          result : {"ok", "err"}]]
  /\ laneAttempt \in [Lanes -> 0..RetryMaxAttempts]
  /\ timer \in [Timers -> {"zero", "ahead", "past"}]
  /\ slots \in 0..MaxConcurrentBatches /\ leaving \in 0..MaxConcurrentBatches
  /\ inflight \in Nat /\ shuttingDown \in BOOLEAN
  /\ at \in {"top", "select", "stopping", "stopped"}
  /\ answered \subseteq Messages /\ again \subseteq Messages /\ faults \in 0..MaxFaults

Fault == faults < MaxFaults /\ faults' = faults + 1

(* A call may fail: because something is broken, or because Run has        *)
(* cancelled the context of its goroutines.                                *)
MayFail == Fault \/ (at = "stopping" /\ UNCHANGED faults)

-----------------------------------------------------------------------------
(* A generation. *)

Init ==
  /\ confirmed = {} /\ events = {} /\ terminal = {} /\ mailed = {}
  /\ load = "admit" /\ fetched = {} /\ receipts = {} /\ held = FALSE
  /\ paused = {} /\ flowPaused = FALSE /\ owned = Lanes
  /\ revokeEvent = {} /\ lostEvent = {} /\ pendingRevoke = {} /\ revoking = {}
  /\ allowed = TRUE /\ receive = "idle" /\ limit = 0 /\ polled = {}
  /\ entries = [l \in Lanes |-> <<>>]
  /\ st = [m \in Messages |-> "away"] /\ prog = [m \in Messages |-> "none"]
  /\ attempt = [m \in Messages |-> 0]
  /\ batch = [l \in Lanes |-> NoBatch] /\ slots = 0 /\ leaving = 0
  /\ laneAttempt = [l \in Lanes |-> 0]
  /\ timer = [t \in Timers |-> "zero"]
  /\ inflight = 0 /\ shuttingDown = FALSE /\ at = "top"
  /\ answered = {} /\ again = {} /\ faults = 0

(* Only the stores and the committed offsets outlive the process. *)
NewGeneration ==
  /\ fetched' = {} /\ receipts' = {} /\ held' = FALSE
  /\ paused' = {} /\ flowPaused' = FALSE /\ owned' = Lanes
  /\ revokeEvent' = {} /\ lostEvent' = {} /\ pendingRevoke' = {} /\ revoking' = {}
  /\ allowed' = TRUE /\ receive' = "idle" /\ limit' = 0 /\ polled' = {}
  /\ entries' = [l \in Lanes |-> <<>>]
  /\ st' = [m \in Messages |-> "away"] /\ prog' = [m \in Messages |-> "none"]
  /\ attempt' = [m \in Messages |-> 0]
  /\ batch' = [l \in Lanes |-> NoBatch] /\ slots' = 0 /\ leaving' = 0
  /\ laneAttempt' = [l \in Lanes |-> 0]
  /\ timer' = [t \in Timers |-> "zero"]
  /\ inflight' = 0 /\ shuttingDown' = FALSE /\ at' = "top"
  /\ answered' = {}
  /\ UNCHANGED <<storeVars, load, again>>

(* The process dies; while it is shutting down its supervisor may also     *)
(* lose patience.                                                          *)
Crash ==
  /\ Running
  /\ Fault \/ (shuttingDown /\ UNCHANGED faults)
  /\ NewGeneration

(* batchWG.Wait and background.Wait are over and Run returns. *)
Stop ==
  /\ at = "stopping"
  /\ \A l \in Lanes : batch[l].phase \in {"idle", "sent"}
  /\ at' = "stopped"
  /\ UNCHANGED <<outerVars, entryVars, batchVars, laneVars, inflight,
                 shuttingDown, historyVars>>

Restart == at = "stopped" /\ NewGeneration /\ UNCHANGED faults

-----------------------------------------------------------------------------
(* The head of the loop. *)

IsDrained(l) == entries[l] = <<>> /\ batch[l].phase = "idle"
RevokeDrained == pendingRevoke # {} /\ \A l \in pendingRevoke : IsDrained(l)
(* Mutant: retries of the transformation are not picked up. *)
NoRetries == {}

(* The entries whose transformation is to be tried again now. *)
DueRetries == {m \in Messages : st[m] = "retry" /\ timer[m] = "past"}

(* maybeStartBatch: the ready entries at the head of lane l. *)
ReadyCount(l) ==
  Max({n \in 0..Min({Len(entries[l]), MaxBatchMessages}) :
         \A i \in 1..n : st[entries[l][i]] = "ready"})
Startable ==
  {l \in Lanes : batch[l].phase = "idle" /\ timer[l] # "ahead" /\ ReadyCount(l) > 0}
(* The lanes whose batch does not wait for BatchWaitMilliseconds. *)
Urgent(stopping) ==
  {l \in Startable : stopping \/ l \in revoking \/ ReadyCount(l) = MaxBatchMessages}

(* Mutant: an entry counts when its event is stored. *)
StoredPrefix(l, n, p) ==
  Max({k \in 0..n : \A i \in 1..k : p[entries[l][i]] # "none"})

(* finishLanePrefix: how many of the first n entries of lane l need no     *)
(* further side effect when the progress is p.                             *)
SettledPrefix(l, n, p) ==
  Max({k \in 0..n : \A i \in 1..k : p[entries[l][i]] \in {"discard", "mailed"}})

(* Mutant: entries that are not stored are passed over. *)
FirstStored(l, n, p) ==
  LET todo == {i \in 1..n : p[entries[l][i]] = "stored"}
  IN  IF todo = {} THEN 0 ELSE Min(todo)

(* The position of the entry to enqueue next, 0 if there is none: the one  *)
(* behind the settled prefix, if it is stored.                             *)
NextToEnqueue(l, n, p) ==
  LET i == SettledPrefix(l, n, p) + 1
  IN  IF i <= n /\ p[entries[l][i]] = "stored" THEN i ELSE 0

(* What finishLanePrefix does next; it confirms the prefix at the end. *)
NextPhase(l, n, p) ==
  IF NextToEnqueue(l, n, p) # 0 THEN "enqueue"
  ELSE IF SettledPrefix(l, n, p) > 0 THEN "confirm" ELSE "send"

NewBatch(l) ==
  LET n == ReadyCount(l)
  IN  [NoBatch EXCEPT
         !.n = n,
         !.phase = IF \E i \in 1..n : prog[entries[l][i]] = "none"
                     THEN "store" ELSE NextPhase(l, n, prog)]

(* Mutant: what is in flight is not subtracted. *)
BatchLimit == MaxBatchMessages

(* ReceiveLimits.MaxMessages *)
ReceiveLimit == Min({MaxBatchMessages, MaxInflightMessages - inflight})
MayReceive == receive = "idle" /\ inflight < MaxInflightMessages

(* SignalBackpressureChecker.Check, sampling: above the high watermark, or *)
(* without the consumer group, nothing is admitted; below the low one, or  *)
(* when the backlog cannot be had, it is; in between the decision stays.   *)
Sampled == IF load = "keep" THEN allowed ELSE load = "admit"

(* Revocation (late: its deadline is over), due retries, batches (a slot   *)
(* each, the lanes are visited in any order; aged: their head has been     *)
(* ready long enough), admission (sampled or cached), a request to the     *)
(* receive goroutine, and the loop's two exits.                            *)
LoopTop(late, aged) ==
  LET expired == late /\ pendingRevoke # {} /\ ~RevokeDrained
      stopping == shuttingDown \/ expired
      due == Urgent(stopping) \cup (Startable \cap aged)
  IN  /\ at = "top"
      /\ IF RevokeDrained \/ expired
           THEN /\ owned' = owned \ pendingRevoke /\ pendingRevoke' = {}
                /\ revoking' = IF expired THEN revoking ELSE revoking \ pendingRevoke
           ELSE UNCHANGED <<owned, pendingRevoke, revoking>>
      /\ shuttingDown' = stopping
      /\ timer' = [t \in Timers |->
           IF t \in DueRetries THEN "zero"
           ELSE IF t = "shutdown" /\ expired THEN "past" ELSE timer[t]]
      /\ st' = [m \in Messages |-> IF m \in DueRetries THEN "job" ELSE st[m]]
      /\ \E S \in SUBSET due :
           /\ Cardinality(S) = Min({Cardinality(due), MaxConcurrentBatches - slots})
           /\ batch' = [l \in Lanes |-> IF l \in S THEN NewBatch(l) ELSE batch[l]]
           /\ slots' = slots + Cardinality(S)
      /\ IF MayReceive /\ ~stopping
           THEN /\ allowed' \in {allowed, Sampled}
                /\ flowPaused' = ~allowed'
                /\ receive' = "asked"
                /\ limit' = ReceiveLimit
           ELSE UNCHANGED <<allowed, flowPaused, receive, limit>>
      /\ at' = IF stopping /\ (inflight = 0 \/ timer'["shutdown"] = "past")
                 THEN "stopping" ELSE "select"
      /\ UNCHANGED <<storeVars, load, sessionVars, revokeEvent, lostEvent,
                     polled, entries, prog, attempt, paused, leaving,
                     laneAttempt, inflight, historyVars>>

(* nextWake: the times of lane l the loop's timer is armed for.  Neither   *)
(* the deadline of a shutdown nor that of a revocation is among them.      *)
RetryTimes(l) == {t \in {l} \cup ToSet(entries[l]) : timer[t] # "zero"}
HeadReady(l) == entries[l] # <<>> /\ st[Head(entries[l])] = "ready"
WakeIsDue(l) ==
  \/ \E t \in RetryTimes(l) : timer[t] = "past"
  \/ RetryTimes(l) = {} /\ ~shuttingDown /\ HeadReady(l)

(* select, case <-timerC *)
TimerFires ==
  /\ at = "select" /\ at' = "top"
  /\ \E l \in Lanes : WakeIsDue(l)
  /\ UNCHANGED <<outerVars, entryVars, batchVars, laneVars, inflight,
                 shuttingDown, historyVars>>

(* The clock reaches a time. *)
Elapse(t) ==
  /\ Running /\ timer[t] = "ahead"
  /\ timer' = [timer EXCEPT ![t] = "past"]
  /\ UNCHANGED <<outerVars, entryVars, batchVars, laneAttempt,
                 loopVars, historyVars>>

(* Run begins to end and has until the deadline to drain; times t are set. *)
ShutDown(t) ==
  /\ shuttingDown' = TRUE
  /\ timer' = [t EXCEPT !["shutdown"] = "ahead"]

(* select, case <-runDone: the process is asked to stop. *)
Cancel ==
  /\ at = "select" /\ at' = "top"
  /\ ~shuttingDown
  /\ Fault
  /\ ShutDown(timer)
  /\ UNCHANGED <<outerVars, entryVars, batchVars, laneAttempt,
                 inflight, answered, again>>

-----------------------------------------------------------------------------
(* The receive goroutine and the Kafka session. *)

Moving == revokeEvent \cup pendingRevoke
Fetchable == {m \in Messages : /\ m \notin confirmed \cup fetched
                               /\ LaneOf[m] \in owned \ (paused \cup Moving)}
Deliverable ==
  {b \in SUBSET Fetchable :
     /\ b # {} /\ Cardinality(b) <= limit
     /\ \A l \in Lanes :
          IsPrefix(Filter(LaneLog[l], b), Filter(LaneLog[l], Fetchable))}

(* PollRecords returns records; the client holds rebalances back. *)
Poll(b) ==
  /\ Running /\ receive = "asked" /\ ~flowPaused
  /\ receive' = "polled" /\ polled' = b
  /\ fetched' = fetched \cup b
  /\ held' = TRUE
  /\ UNCHANGED <<storeVars, gateVars, receipts, ownerVars, limit, innerVars,
                 historyVars>>

(* Session.Receive issues their receipts under its lock and returns. *)
IssueReceipts ==
  /\ Running /\ receive = "polled"
  /\ receive' = "ok"
  /\ receipts' = receipts \cup polled
  /\ UNCHANGED <<storeVars, gateVars, fetched, held, ownerVars, limit, polled,
                 innerVars, historyVars>>

(* A poll of a paused flow ends empty after a second; another one lasts    *)
(* until there are records or it fails (allowRebalanceIfIdle in both).     *)
PollNothing(answer) ==
  /\ Running /\ receive = "asked"
  /\ \/ answer = "empty" /\ flowPaused /\ UNCHANGED faults
     \/ answer = "err" /\ Fault
  /\ receive' = answer
  /\ held' = (held /\ receipts # {})
  /\ UNCHANGED <<storeVars, gateVars, fetched, receipts, ownerVars, limit,
                 polled, innerVars, answered, again>>

(* select, case <-receiveResults with deliveries: they are handed to the   *)
(* workers, lanes at their high-water mark are paused, and the session may *)
(* give lanes away again.                                                  *)
TakeOver ==
  /\ at = "select" /\ at' = "top"
  /\ receive = "ok"
  /\ receive' = "idle" /\ polled' = {}
  /\ entries' = [l \in Lanes |->
       entries[l] \o Filter(LaneLog[l], polled)]
  /\ st' = [m \in Messages |-> IF m \in polled THEN "job" ELSE st[m]]
  /\ inflight' = inflight + Cardinality(polled)
  /\ paused' = paused \cup
       {l \in {LaneOf[m] : m \in polled} : Len(entries'[l]) >= MaxInflightPerLane}
  /\ held' = FALSE
  /\ UNCHANGED <<storeVars, gateVars, fetched, receipts, ownerVars, limit,
                 prog, attempt, batchVars, laneVars, shuttingDown,
                 historyVars>>

(* The same case with no deliveries, or with an error. *)
TakeNothing ==
  /\ at = "select" /\ at' = "top"
  /\ receive \in {"empty", "err"}
  /\ receive' = "idle"
  /\ IF receive = "err" /\ ~shuttingDown
       THEN ShutDown(timer) ELSE UNCHANGED <<shuttingDown, timer>>
  /\ UNCHANGED <<storeVars, gateVars, sessionVars, ownerVars, limit, polled,
                 entryVars, batchVars, laneAttempt, inflight,
                 historyVars>>

(* select, case <-processed: the transformation of m succeeded or rejected *)
(* the record.                                                             *)
Processed(m) ==
  /\ at = "select" /\ at' = "top"
  /\ st[m] = "job"
  /\ st' = [st EXCEPT ![m] = "ready"]
  /\ prog' = [prog EXCEPT ![m] = IF m \in Malformed THEN "discard" ELSE "none"]
  /\ attempt' = [attempt EXCEPT ![m] = 0]
  /\ UNCHANGED <<outerVars, entries, paused, batchVars, laneVars, inflight,
                 shuttingDown, historyVars>>

(* Mutant: one attempt too many. *)
ExhaustedLate(a, elapsed) == a > RetryMaxAttempts \/ (a > 0 /\ elapsed)

(* Whether a retry after a attempts is one too many; elapsed says whether  *)
(* RetryMaxElapsed is over, counted from the first failure.                *)
Exhausted(a, elapsed) == a >= RetryMaxAttempts \/ (a > 0 /\ elapsed)

(* The same case with an error (scheduleProcessRetry). *)
ProcessFailed(m, elapsed) ==
  /\ at = "select" /\ at' = "top"
  /\ st[m] = "job"
  /\ Fault
  /\ IF Exhausted(attempt[m], elapsed)
       THEN /\ st' = [st EXCEPT ![m] = "stuck"]
            /\ ShutDown(timer)
            /\ UNCHANGED attempt
       ELSE /\ st' = [st EXCEPT ![m] = "retry"]
            /\ timer' = [timer EXCEPT ![m] = "ahead"]
            /\ attempt' = [attempt EXCEPT ![m] = @ + 1]
            /\ UNCHANGED shuttingDown
  /\ UNCHANGED <<outerVars, entries, prog, paused, batchVars, laneAttempt,
                 inflight, answered, again>>

-----------------------------------------------------------------------------
(* The batch goroutine of lane l (runLaneBatch, finishLanePrefix). *)

NextEntry(l) == entries[l][NextToEnqueue(l, batch[l].n, prog)]

(* Mutant: a retry stores every event of the batch again. *)
StoreAll(l) == {m \in {entries[l][i] : i \in 1..batch[l].n} : prog[m] # "discard"}

ToStore(l) == {m \in {entries[l][i] : i \in 1..batch[l].n} : prog[m] = "none"}

Advance(l, p, r) ==
  batch' = [batch EXCEPT ![l].phase = NextPhase(l, batch[l].n, p), ![l].result = r]
Report(l, k, r) ==
  batch' = [batch EXCEPT ![l].phase = "send", ![l].settled = k, ![l].result = r]

(* CreateEvents answers; the items of failed were refused for now.  A      *)
(* replayed event that is terminal already needs no mailbox.               *)
StoreEvents(l, failed) ==
  LET done == ToStore(l) \ failed
      p == [m \in Messages |->
              IF m \notin done THEN prog[m]
              ELSE IF m \in Refused THEN "discard"
              ELSE IF m \in terminal THEN "mailed" ELSE "stored"]
  IN  /\ batch[l].phase = "store"
      /\ IF failed = {} THEN UNCHANGED faults ELSE MayFail
      /\ events' = events \cup (done \ Refused)
      /\ prog' = p
      /\ Advance(l, p, IF failed = {} THEN "ok" ELSE "err")
      /\ UNCHANGED <<confirmed, terminal, mailed, gateVars, sessionVars,
                     ownerVars, receiveVars, entries, st, attempt, paused,
                     slots, leaving, laneVars, loopVars, answered, again>>

(* The whole call fails; what it had written by then stays.  (All writers  *)
(* answer with as many items as they were asked for.)                      *)
StoreFails(l, written) ==
  /\ batch[l].phase = "store"
  /\ MayFail
  /\ events' = events \cup (written \ Refused)
  /\ Report(l, 0, "err")
  /\ UNCHANGED <<confirmed, terminal, mailed, gateVars, sessionVars, ownerVars,
                 receiveVars, entryVars, slots, leaving, laneVars, loopVars,
                 answered, again>>

(* EnqueueBatch of the entry behind the settled prefix. *)
Enqueue(l) ==
  LET p == [prog EXCEPT ![NextEntry(l)] = "mailed"]
  IN  /\ batch[l].phase = "enqueue"
      /\ mailed' = mailed \cup {NextEntry(l)}
      /\ answered' = answered \cup {NextEntry(l)}
      /\ again' = again \cup ({NextEntry(l)} \cap answered)
      /\ prog' = p
      /\ Advance(l, p, batch[l].result)
      /\ UNCHANGED <<confirmed, events, terminal, gateVars, sessionVars,
                     ownerVars, receiveVars, entries, st, attempt, paused,
                     slots, leaving, laneVars, loopVars, faults>>

(* It fails: not applied (Redis is away, or the mailbox is full), or       *)
(* applied with the reply lost.                                            *)
EnqueueFails(l, applied) ==
  /\ batch[l].phase = "enqueue"
  /\ MayFail
  /\ mailed' = IF applied THEN mailed \cup {NextEntry(l)} ELSE mailed
  /\ IF SettledPrefix(l, batch[l].n, prog) > 0
       THEN batch' = [batch EXCEPT ![l].phase = "confirm", ![l].result = "err"]
       ELSE Report(l, 0, "err")
  /\ UNCHANGED <<confirmed, events, terminal, gateVars, sessionVars,
                 ownerVars, receiveVars, entryVars, slots, leaving, laneVars,
                 loopVars, answered, again>>

Prefix(l) ==
  {entries[l][i] : i \in 1..SettledPrefix(l, batch[l].n, prog)}

(* Session.Confirm of the settled prefix, as long as the lane is owned.    *)
(* With no receipt left the client need not hold rebalances back.          *)
Confirm(l) ==
  /\ batch[l].phase = "confirm"
  /\ l \in owned
  /\ confirmed' = confirmed \cup Prefix(l)
  /\ receipts' = receipts \ Prefix(l)
  /\ held' = (held /\ receipts' # {})
  /\ Report(l, Cardinality(Prefix(l)), batch[l].result)
  /\ UNCHANGED <<events, terminal, mailed, gateVars, fetched, ownerVars,
                 receiveVars, entryVars, slots, leaving, laneVars, loopVars,
                 historyVars>>

(* The commit fails, with or without having been applied; the session      *)
(* keeps the receipts, the entries keep what was done for them.            *)
ConfirmFails(l, applied) ==
  /\ batch[l].phase = "confirm"
  /\ \/ l \notin owned /\ ~applied /\ UNCHANGED faults
     \/ l \in owned /\ MayFail
  /\ confirmed' = IF applied THEN confirmed \cup Prefix(l) ELSE confirmed
  /\ Report(l, 0, "err")
  /\ UNCHANGED <<events, terminal, mailed, gateVars, sessionVars, ownerVars,
                 receiveVars, entryVars, slots, leaving, laneVars, loopVars,
                 answered, again>>

(* The goroutine puts its result into the channel; its deferred release of *)
(* the slot comes after that.                                              *)
SendResult(l) ==
  /\ batch[l].phase = "send"
  /\ batch' = [batch EXCEPT ![l].phase = "sent"]
  /\ leaving' = leaving + 1
  /\ UNCHANGED <<outerVars, entryVars, slots, laneVars, loopVars,
                 historyVars>>

ReleaseSlot ==
  /\ leaving > 0
  /\ leaving' = leaving - 1 /\ slots' = slots - 1
  /\ UNCHANGED <<outerVars, entryVars, batch, laneVars, loopVars,
                 historyVars>>

(* Mutant: a lane is resumed below its low-water mark only. *)
BelowLowWater(left) == left < ResumeInflightPerLane

(* A paused lane with so many entries left is fetched from again. *)
AtLowWater(left) == left <= ResumeInflightPerLane

(* select, case <-batches: the settled prefix leaves the window, a paused  *)
(* lane is resumed at its low-water mark, and what failed is retried       *)
(* (scheduleLaneRetry) or ends the flow.                                   *)
BatchResult(l, elapsed) ==
  LET k == batch[l].settled
      tries == IF k > 0 THEN 0 ELSE laneAttempt[l]
      t == IF k > 0 THEN [timer EXCEPT ![l] = "zero"] ELSE timer
      settled == {entries[l][i] : i \in 1..k}
  IN  /\ at = "select" /\ at' = "top"
      /\ batch[l].phase = "sent"
      /\ batch' = [batch EXCEPT ![l] = NoBatch]
      /\ inflight' = inflight - k
      /\ entries' = [entries EXCEPT ![l] = SubSeq(@, k + 1, Len(@))]
      /\ st' = [m \in Messages |-> IF m \in settled THEN "away" ELSE st[m]]
      /\ prog' = [m \in Messages |-> IF m \in settled THEN "none" ELSE prog[m]]
      /\ paused' = IF k > 0 /\ AtLowWater(Len(entries'[l]))
                     THEN paused \ {l} ELSE paused
      /\ CASE batch[l].result = "ok" ->
                /\ timer' = t /\ laneAttempt' = [laneAttempt EXCEPT ![l] = tries]
                /\ UNCHANGED shuttingDown
           [] batch[l].result = "err" /\ Exhausted(tries, elapsed) ->
                /\ ShutDown(t) /\ laneAttempt' = [laneAttempt EXCEPT ![l] = tries]
           [] OTHER ->
                /\ timer' = [t EXCEPT ![l] = "ahead"]
                /\ laneAttempt' = [laneAttempt EXCEPT ![l] = tries + 1]
                /\ UNCHANGED shuttingDown
      /\ UNCHANGED <<outerVars, attempt, slots, leaving, historyVars>>

-----------------------------------------------------------------------------
(* The consumer group, the other members and the lifecycle. *)

(* ownershipBridge.revoked: the client waits for the event's Complete. *)
Revoke(S) ==
  /\ Running /\ Fault
  /\ ~held /\ Moving = {} /\ lostEvent = {}
  /\ revokeEvent' = S
  /\ UNCHANGED <<storeVars, gateVars, sessionVars, owned, lostEvent,
                 pendingRevoke, revoking, receiveVars, innerVars, answered, again>>

(* ownershipBridge.lost: another member has the lanes already. *)
Lose(S) ==
  /\ Running /\ Fault
  /\ ~held /\ Moving = {} /\ lostEvent = {}
  /\ owned' = owned \ S
  /\ lostEvent' = S
  /\ UNCHANGED <<storeVars, gateVars, sessionVars, revokeEvent, pendingRevoke,
                 revoking, receiveVars, innerVars, answered, again>>

(* select, case <-ownershipEvents, revoked: the lanes in the map are       *)
(* flushed from now on.                                                    *)
HandleRevoked ==
  /\ at = "select" /\ at' = "top"
  /\ revokeEvent # {}
  /\ pendingRevoke' = revokeEvent /\ revokeEvent' = {}
  /\ revoking' = {l \in revokeEvent : ToSet(LaneLog[l]) \cap (fetched \ polled) # {}}
  /\ UNCHANGED <<storeVars, gateVars, sessionVars, owned, lostEvent,
                 receiveVars, entryVars, batchVars, laneVars,
                 inflight, shuttingDown, historyVars>>

(* The same case, lost: the loop ends at its next head. *)
HandleLost ==
  /\ at = "select" /\ at' = "top"
  /\ lostEvent # {} /\ lostEvent' = {}
  /\ shuttingDown' = TRUE
  /\ timer' = [timer EXCEPT !["shutdown"] = "past"]
  /\ UNCHANGED <<storeVars, gateVars, sessionVars, owned, revokeEvent,
                 pendingRevoke, revoking, receiveVars, entryVars, batchVars,
                 laneAttempt, inflight, historyVars>>

(* The member that has lane l handles its next record, completely. *)
OtherOwner(l) ==
  LET left == Filter(LaneLog[l], Messages \ confirmed)
      drop == Head(left) \in Malformed \cup Refused
  IN  /\ l \notin owned /\ left # <<>>
      /\ confirmed' = confirmed \cup {Head(left)}
      /\ events' = IF drop THEN events ELSE events \cup {Head(left)}
      /\ mailed' = IF drop THEN mailed ELSE mailed \cup {Head(left)}
      /\ UNCHANGED <<terminal, gateVars, sessionVars, ownerVars, receiveVars,
                     innerVars, historyVars>>

(* The lifecycle finishes with an event of a mailbox.  Once its record is  *)
(* confirmed the cleaner cannot see the difference.                        *)
Lifecycle(m) ==
  /\ m \in mailed /\ m \notin terminal \cup confirmed
  /\ terminal' = terminal \cup {m}
  /\ UNCHANGED <<confirmed, events, mailed, gateVars, sessionVars, ownerVars,
                 receiveVars, innerVars, historyVars>>

(* Signals pile up or cannot be counted; the lifecycle works them off. *)
LoadChanges(x) ==
  /\ load # x /\ load' = x
  /\ IF x = "admit" THEN UNCHANGED faults ELSE Fault
  /\ UNCHANGED <<storeVars, allowed, flowPaused, sessionVars, ownerVars,
                 receiveVars, innerVars, answered, again>>

-----------------------------------------------------------------------------
BatchSteps(l) ==
  \/ \E F \in SUBSET ToStore(l) : StoreEvents(l, F)
  \/ \E W \in SUBSET ToStore(l) : StoreFails(l, W)
  \/ Enqueue(l)
  \/ \E applied \in BOOLEAN : EnqueueFails(l, applied)
  \/ Confirm(l)
  \/ \E applied \in BOOLEAN : ConfirmFails(l, applied)
  \/ SendResult(l)

Coordinator ==
  \/ \E late \in {FALSE, pendingRevoke # {}}, aged \in SUBSET Startable :
       LoopTop(late, aged)
  \/ TimerFires \/ Cancel
  \/ TakeOver \/ TakeNothing
  \/ \E m \in Messages :
       Processed(m) \/ \E elapsed \in BOOLEAN : ProcessFailed(m, elapsed)
  \/ \E l \in Lanes, elapsed \in BOOLEAN : BatchResult(l, elapsed)
  \/ HandleRevoked \/ HandleLost

Next ==
  \/ Crash \/ Stop \/ Restart
  \/ Coordinator
  \/ \E t \in Timers : Elapse(t)
  \/ \E l \in Lanes : BatchSteps(l) \/ OtherOwner(l)
  \/ ReleaseSlot
  \/ \E b \in Deliverable : Poll(b)
  \/ IssueReceipts
  \/ \E answer \in {"empty", "err"} : PollNothing(answer)
  \/ \E S \in SUBSET owned \ {{}} : Revoke(S) \/ Lose(S)
  \/ \E m \in Messages : Lifecycle(m)
  \/ \E x \in {"admit", "keep", "stop"} : LoadChanges(x)

Spec == Init /\ [][Next]_vars

(* Goroutines run, calls return, clocks advance, the other members of the  *)
(* group and the lifecycle work.  A select chooses among its ready cases   *)
(* at random, so a case that is ready again and again is taken: strong     *)
(* fairness.  Nothing is assumed about crashes, failures, rebalances,      *)
(* cancellations and growing load.                                         *)
Fairness ==
  /\ WF_vars(LoopTop(FALSE, {})) /\ WF_vars(Stop \/ Restart)
  /\ SF_vars(TimerFires) /\ SF_vars(TakeOver \/ TakeNothing)
  /\ SF_vars(HandleRevoked \/ HandleLost)
  /\ SF_vars(\E m \in Messages : Processed(m))
  /\ SF_vars(\E l \in Lanes, elapsed \in BOOLEAN : BatchResult(l, elapsed))
  /\ SF_vars(LoopTop(FALSE, {}) /\ receive = "idle" /\ receive' = "asked"
               /\ allowed' = Sampled)
  /\ WF_vars(\E t \in Timers : Elapse(t))
  /\ WF_vars((\E b \in Deliverable : Poll(b)) \/ IssueReceipts \/ PollNothing("empty"))
  /\ WF_vars(ReleaseSlot) /\ WF_vars(LoadChanges("admit"))
  /\ WF_vars(\E l \in Lanes : OtherOwner(l))
  /\ \A l \in Lanes :
       /\ SF_vars(LoopTop(FALSE, Startable) /\ batch[l].phase = "idle"
                    /\ batch'[l].phase # "idle")
       /\ WF_vars(\/ StoreEvents(l, {}) \/ Enqueue(l) \/ SendResult(l)
                  \/ Confirm(l) \/ ConfirmFails(l, FALSE))

FairSpec == Spec /\ Fairness

-----------------------------------------------------------------------------
(* Properties. *)

Dropped == Malformed \cup Refused

(* finishLanePrefix: Kafka is told to forget a record only when its event  *)
(* is stored and was put into its mailbox, or is rejected for good, across *)
(* failures of every call, lost replies, rebalances and restarts.  Nothing *)
(* else would ever bring such an event to the lifecycle.                   *)
ConfirmedAreHandedOn ==
  \A m \in confirmed : m \in Dropped \/ m \in events \cap mailed

Earlier(m) ==
  LET log == LaneLog[LaneOf[m]]
  IN  {log[i] : i \in 1..(CHOOSE j \in DOMAIN log : log[j] = m) - 1}

(* "A later event must never pass a gap" (runtime.go, finishLanePrefix):   *)
(* an event enters its mailbox only after every earlier event of its lane  *)
(* has been in one, whoever put it there and whatever became of batches in *)
(* between.                                                                *)
NoOvertaking ==
  [][\A m \in mailed' \ mailed : Earlier(m) \subseteq Dropped \cup mailed]_vars

(* entry.mailbox: failures of the store, of the confirmation or of other   *)
(* entries never make the flow enqueue an event again; only a lost reply,  *)
(* a restart or another owner does.                                        *)
NoNeedlessDuplicates == again = {}

(* inflightMessages is exact and bounded, so sending to the job channel    *)
(* (whose capacity it is) never blocks the coordinator, and batches never  *)
(* exceed their slots.                                                     *)
WindowIsExact ==
  /\ inflight = Cardinality(UNION {ToSet(entries[l]) : l \in Lanes})
  /\ inflight + Cardinality(polled) <= MaxInflightMessages
  /\ Cardinality({l \in Lanes : batch[l].phase \notin {"idle", "sent"}}) + leaving = slots

(* A lane whose fetching is paused has more entries than its low-water     *)
(* mark, so a batch that will resume it is still to come.                  *)
PausedLaneDrains ==
  \A l \in paused : Len(entries[l]) > ResumeInflightPerLane

(* Every record is confirmed by somebody, through failures, retries,       *)
(* rebalances, back-pressure and restarts, unless a shutdown hangs (see    *)
(* ShutdownEnds): no other wait of the coordinator lasts for ever.         *)
EveryMessageConfirmed ==
  <>[]shuttingDown \/ <>(confirmed = Messages)

(* "Bounded drain" (README.md:81): a flow that is told to stop, or gives   *)
(* up, ends at its deadline at the latest and is started anew.  It may not *)
(* rely on anything else to wake the loop: not on the slot of a batch that *)
(* has reported already, nor on a transformation that is not tried again.  *)
ShutdownEnds == shuttingDown ~> ~shuttingDown
=============================================================================
