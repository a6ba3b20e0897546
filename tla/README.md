# Formal models of linkd's alert lifecycle

This directory holds TLA+ specifications of `src/pkg/linkd`, the service of
bkmonitor-datalink that turns raw events into alerts. TLC checks them on small
instances; TLAPS proves for every instance what the runs check of safety: of the
cleaner, of the delivery path, which implements a simple abstract queue, of the
consume runtime, of the alert processor, which decides a lane as its decision
table says, and of the Elasticsearch repository with its archiver. Liveness is
left to TLC. `PROJECT.json` maps every definition to the lines it models and
lists runs, mutants, hazards, findings and theorems.

## 1. The system

### 1.1 The repository

`src/pkg` holds sixteen Go services and libraries. Most of them collect, convert
or proxy telemetry (`bkmonitorbeat`, `collector`, `ingester`, `influxdb-proxy`,
`unify-query`, `libgse`, `bkm-ksm-exporter`, `bk-log-sidecar`, `sliwebhook`,
`utils`), or reconcile Kubernetes objects (`operator`). Three carry
coordination protocols of their own besides linkd: `alarmd` (fenced ownership of
shards), `bk-monitor-worker` (task broker and daemon scheduler), `transfer`
(cluster scheduler). linkd has the densest own logic: at-least-once transports,
leases without fencing, non-transactional writes over several documents, and
documentation precise enough to be compared with the code. It comes first.

### 1.2 linkd's parts

| Part | State | Operations | Hard because |
|---|---|---|---|
| cleaner (`internal/cleaner`) | lanes of upstream deliveries, batches | map, persist, enqueue, confirm upstream | confirms only after persist and enqueue; repeats either |
| mailbox (`lifecycle/mailbox`) | one Redis list per fingerprint lane, the signal stream | `EnqueueBatch`, `Peek`, `AckHead` | the wakeup is written only on empty to non-empty |
| redis stream session (`consume/redisstream`) | consumer group cursor, pending entries list | `Receive`, `claim`, `Confirm` | redelivery, duplicate confirmation |
| consume runtime (`consume/runtime.go`) | per order key queues, retry queue, settlement batches | dispatch, retry, defer, settle, shutdown | concurrency limits, prefix settlement |
| lease (`scheduler/lock.go`) | one Redis key with a TTL per mailbox | `Acquire`, `Renew`, `Release` | no fencing token reaches the stores |
| lifecycle handler (`scheduler/handler.go`) | locals of one invocation | `Handle`, `drain`, `renewLoop` | everything it reads can be stale when used |
| stream trimmer (`controlplane/redisstream`) | one computed boundary | `ReconcileOnce` | several commands, none atomic with the next |
| processor (`lifecycle/processor.go`) | locals of one invocation | `ProcessEvent`, `CloseAlert` | five writes without a transaction; must be resumable at every point |
| repository (`store/memory`, `mysql`, `elasticsearch`) | events, alerts, alert logs with versions | create, find, compare-and-set, append | uniqueness of the active alert, idempotence |
| final hook (`lifecycle/kafkahook`) | published messages | `Execute` | fails independently |
| archive (`store/elasticsearch/archive.go`) | active and ended indices | copy, verify, delete | moves documents that are being read |

The path of an event: the cleaner stores it and runs `enqueueScript`, which
pushes the event id on the list of its lane and, if the list was empty, first
adds a signal to the stream. A lifecycle process receives the signal, takes the
lane's lease, and drains the list: peek the head, `ProcessEvent`, pop the head
if it is still the same; then it releases the lease and, if the list was empty,
confirms the signal. The trimmer removes confirmed signals. Operators close
alerts through `CloseAlert` at any time.

### 1.3 What makes it correct

* mailbox, session, handler, trimmer: no wakeup lost, no event lost, events of a
  lane decided in arrival order, no owed signal trimmed, leases not stolen,
  everything drains and settles in the end;
* processor and repository: one active alert per lane, final states final, a
  result only when all it stands for is durable, the same results as a serial
  execution of the decision table in spite of crashes, closes answered
  truthfully, every event finishes;
* consume runtime: nothing is confirmed that no handler finished, deliveries of
  an order key run one at a time and in order, the window is exact, a shutdown
  drains, every message is confirmed in the end;
* cleaner: a record is confirmed upstream only after its event is stored and in
  its mailbox, no event overtakes an earlier one of its lane, no failure makes
  the flow enqueue an event twice, windows and pauses are exact, every record is
  confirmed in the end, a shutdown ends;
* archive: ended alerts are moved without loss or change under concurrent reads
  and writes, an alert that cannot be moved does not hold up the others, and
  searches that lag behind do not lead to a second active alert.

## 2. Modules

| Module | What it is |
|---|---|
| `LifecycleScheduler` | mailbox, signal stream and consumer group, lease, `Handle`/`drain`, trimmer |
| `MCLifecycleScheduler` | its small instances |
| `EventLanes` | abstract specification: a queue per lane, decided from its front |
| `LifecycleSchedulerProofs` | theorems on types, wakeups, trimming, leases |
| `LifecycleOrderProofs` | theorems on loss and order of events, and the refinement of `EventLanes`; extends the previous one |
| `AlertProcessor` | `ProcessEvent` and `CloseAlert` over the repository |
| `MCAlertProcessor` | its small instances |
| `AlertProcessorProofs` | theorems on active alerts, final states, results, closes |
| `AlertSerialProofs` | theorems on the serial outcome and on repeated logs; extends the previous one |
| `ConsumeRuntime` | the consume runtime with the sessions it runs on |
| `MCConsumeRuntime` | its small instances |
| `SequenceFilter` | the part of a sequence that lies in a set |
| `SequenceFacts` | lemmas on sequences: order, prefixes, concatenation, filtering |
| `ConsumeRuntimeProofs` | theorems on confirmation, keys, window, receipts, shutdown |
| `Cleaner` | the cleaner flow on a Kafka session: coordinator, batches, rebalances |
| `MCCleaner` | its small instances |
| `CleanerProofs` | theorems on confirmation, order, duplicates, window, pauses |
| `AlertArchive` | `AlertProcessor` on the Elasticsearch repository, with the archiver; extends it |
| `MCAlertArchive` | its small instances |
| `AlertArchiveProofs` | theorems on types, ended alerts and active documents; extends `AlertProcessorProofs` |

How they fit together: `Cleaner` ends where an event enters its mailbox
(`Enqueue`), which is where `LifecycleScheduler` begins. `LifecycleScheduler`
treats `ProcessEvent` as one step, `AlertProcessor` opens that step up and
assumes the order that `LifecycleScheduler` guarantees. `ConsumeRuntime` is the
loop that calls `Handle`. `AlertArchive` replaces the repository under
`AlertProcessor`.

Operators introduced by a comment "Mutant:" are wrong variants of the
definition that follows them. No specification uses them; replacing the
definition by its variant must break a property.

### 2.1 LifecycleScheduler

State. `mailbox[m]` is the Redis list of lane `m`. `stream`, `lastSig`,
`sigMailbox`, `delivered` and `pel` are the signal stream and its group: ids
are numbers, because only their order matters. `lease[m]` is `Free`, a
consumer, or `Stale` when the key exists but nobody living knows its token.
`pc`, `sig`, `ev`, `drained`, `outcome` are the locals of one handler
invocation; a consumer is a slot for one invocation in some process. `mgrPc` and
`boundary` belong to the trimmer. `refs`, `arrival` and `done` are history:
how often each event was enqueued, the order of first arrivals, which events
have results.

Actions. One per Redis command or script, so that everything else can happen
between two of them.

| Code | Actions |
|---|---|
| `Store.EnqueueBatch`, `enqueueScript` | `Enqueue`, `EnqueueTorn` (the script dies after `XADD`) |
| `Session.Receive`, `claim`, `Confirm` | `Receive`, `Claim`, `Confirm`, `ConfirmLost` |
| `RedisLocker` | `Acquire`, `AcquireLost`, `Release`, `ReleaseLost`, `LeaseExpire` |
| `Handler.drain` | `Peek`, `Process`, `ProcessFails`, `AckHead`, `AckRefused`, `AckLost` |
| `Handler.renewLoop`, timeouts | `Cancel` |
| death of a process, `failLane` | `Crash` |
| `Manager.ReconcileOnce` | `InspectStream`, `InspectGroups`, `InspectPending`, `Trim`, `InspectFails` |

Abstractions.
* A busy lease makes `Handle` return `Defer`, which changes no modelled state,
  so it is no step. Retry delays and backoff are left out: a delivery that was
  not completed can be handled again at any moment.
* `Claim` may take any pending entry, also one whose handler is alive. The code
  claims only after `ClaimMinIdle` and filters entries its own process already
  holds, so the model allows more.
* A failed `Peek` is a `Cancel` with a fault; a failed `GetEvent` is
  `ProcessFails`. `Discard` of undecodable signals and `Block` on an event of
  another lane are left out: `EnqueueBatch` produces neither.
* One consumer group. `Manager.inspect` takes the minimum of the boundaries of
  all groups, so more groups only lower it.
* `XTRIM MINID ~ ... LIMIT` removes some prefix below the boundary: `Trim`
  chooses any. A failed trimmer cycle costs no fault, since it changes nothing.
* `ProcessEvent` is one atomic "the event has a result"; `AlertProcessor` opens
  it up.

### 2.2 AlertProcessor

The events `1..N` of one lane, in lane order; the alert opened by event `e` has
the id `e`, as `AlertIDGenerator` derives alert ids from events. `kind[e]` is
chosen in the initial state, so one run covers all lanes of that length.
`alert[a].rev` stands for both the version token and `update_at`:
`nextAlertUpdateTime` makes update times strictly increase, and every write
changes the version. `proc[p]` holds the locals of worker or command `p`; `hooks`,
`todo` and `fin` are what is still to be published, logged and stored.
`sent` are message ids of the final hook.

Each repository call is one action named after the call. `decide`,
`resumeActiveEvent`, `resumeEndedEvent` and `finishRotation` are the pure parts
of the code between two calls, and map a record of locals to the next one. The
outputs that `createAlert`, `updateAlert`, `terminateAlert`, `suppressEvent`
and their resumptions share are a `Job`: run the hooks, append the logs, store
the result. `Abort` ends an invocation between any two calls. `LoseLease` frees
the lane under a worker that goes on. `Begin` requires that all earlier events
have results, which is `InArrivalOrder` of `LifecycleScheduler`, a theorem there.

Abstractions. The `rejected` result of an unknown action and the error for an
unconfigured severity are left out, since cleaned events have neither.
Enrichment is part of `newAlert` and never fails the event. The repository is
the memory one; MySQL has the same contract, with a unique key in place of the
reservation. The hook always produces a record; the no-op hook would only drop it.

### 2.3 ConsumeRuntime

`consume/runtime.go`, which the lifecycle process runs on a Redis stream session
and which is written for Kafka and RabbitMQ sessions as well. The coordinator
goroutine owns `runtimeState`; the model's variables are its fields, plus the
unread answers in its channels (`receive`, `settle`, and worker results as
delivery states). One iteration of `loop` is two steps: `LoopTop`
(`dispatchReadyRetries`, `tryReceive`, `trySettle`, the two exits) and one case
of the `select`.

| Code | Actions |
|---|---|
| `loop`, head | `LoopTop` |
| `select`: `timerC`, `ctxDone` | `TimerFires`, `Cancel` |
| `handleReceiveResult` | `HandleDeliveries`, `HandleEmpty`, `HandleReceiveError` |
| `handleWorkerResult` | `HandleDone`, `HandleNotDone` |
| `handleSettleResult` | `HandleSettled`, `HandleSettleError` |
| `receiveLoop`, `Session.Receive` | `SessionReceive`, `SessionReceiveNothing` |
| `workerLoop`, `handle` | `WorkerStart`, `WorkerFinish` |
| `settleLoop`, `Session.Confirm` | `SessionConfirm` |
| time, process end | `Elapse`, `Crash`, `Restart` |

`mode` is chosen initially, so each run covers both kinds of settlement. `tokens`
and `ReceiptsAccepted` are the session's receipts and Kafka's check that they
form a continuous prefix; `Covered` is the broker's reading of a commit.

Abstractions.
* Wake-up times are a set `later` of times ahead. `Elapse` may let them pass in
  any order and at any moment; `passed` are those the loop has not looked at.
  `RetryMaxElapsed` may be exceeded at any retry.
* The order of the job channel is left out: an idle worker takes any job.
* Bytes are left out. The byte window is computed, judged and released beside
  the message window, by the same statements.
* Deliveries without id, tenant or lane and batches with too many bytes make
  `validateReceived` or the session fail; they are `SessionReceiveNothing("err")`.
* A confirmed lane is not lost to another consumer: rebalance is not modelled.
* `Pause` on the session only affects polls after the one under way, and a
  failing runtime makes none. The branch of `dispatchReadyRetries` that puts
  back a retry of a blocked lane cannot be reached, since a lane is blocked only
  together with `startShutdown`.
* Individual sessions may return unconfirmed messages in any order.

### 2.4 Cleaner

`cleaner/runtime.go` on a Kafka session. The coordinator owns the lanes, the
window and the timers; one iteration of `Run` is `LoopTop` (revocation, due
retries, new batches, admission, receive request, exits) and one case of the
`select`. A batch is a goroutine per lane that stores events, enqueues them one
by one and confirms the settled prefix; each call is a step that can fail, or be
applied with its answer lost.

| Code | Actions |
|---|---|
| `Run`, head of the loop | `LoopTop` |
| `select`: timer, `runDone` | `TimerFires`, `Cancel` |
| `select`: `receiveResults` | `TakeOver`, `TakeNothing` |
| `select`: `processed`, `scheduleProcessRetry` | `Processed`, `ProcessFailed` |
| `select`: `batches`, `scheduleLaneRetry` | `BatchResult` |
| `select`: `ownershipEvents` | `HandleRevoked`, `HandleLost` |
| `runLaneBatch`, `finishLanePrefix` | `StoreEvents`, `StoreFails`, `Enqueue`, `EnqueueFails`, `Confirm`, `ConfirmFails`, `SendResult`, `ReleaseSlot` |
| `receiveLoop`, Kafka `Session.Receive` | `Poll`, `IssueReceipts`, `PollNothing` |
| `ownershipBridge` | `Revoke`, `Lose` |
| end and start of a process | `Stop`, `Restart`, `Crash` |
| the rest of the world | `OtherOwner`, `Lifecycle`, `LoadChanges`, `Elapse` |

State. `entries`, `st`, `prog`, `attempt` are the lanes' entries: where the
transformation stands and which side effects were made (`prog` folds the flags
for discarded, stored and enqueued). `timer` holds the time fields, each zero, ahead of
now or past; `Elapse` moves them. `confirmed`, `events`, `mailed`, `terminal`
are Kafka, the event store and the mailboxes, and survive a restart. `answered`
and `again` are history.

Abstractions.
* The transformation has no side effect, so it happens in the step that reads
  its result. A record gives one event, or none if it is in `Malformed`; the
  store refuses the events of `Refused` for good. `Malformed` and `Refused` are
  constants: the verdict about a record does not change when it is replayed.
* Bytes are left out, as in `ConsumeRuntime`. Errors of `Pause`, `Resume` and
  the flow pause, deliveries without identity, answers with a wrong number of
  items and sessions without lane or flow control are left out. So is the
  capacity of the batch result channel: a goroutine that finds it full waits for
  the coordinator, and in the model does not have to.
* One revocation or loss at a time, and a lane that was taken away does not
  return within a generation; the other owner handles its records completely.
* A batch that has waited long enough is an arbitrary set `aged`, a deadline of
  a revocation that has passed an arbitrary flag `late`; both are clock readings
  that the loop makes without a timer of its own.
* A supervisor may end a process that is shutting down. Only `Crash` of a
  running process counts as a fault.

### 2.5 AlertArchive

`alert` is what searches see and `stored` what realtime reads and conditional
writes see; `Refresh` makes them equal, and so does a write that is answered
(`refresh=wait_for`). `history` is the History index; `item` and `cursor` belong
to the archiver. The calls that differ from the memory repository replace those
of `AlertProcessor`: `FindActiveAlert` fails on two hits, `CreateAlert` is a
search and then a `PUT _create`, `CompareAndSetAlert` a search and then a `PUT` by
sequence number, `GetAlert` looks into both indices and fails when the copies
differ, `FindAlertEndedByEvent` looks into the Active index only, as the code
does. Everything else is `AlertProcessor`'s.

| Code | Actions |
|---|---|
| `Repository.FindActiveAlert`, `FindAlertEndedByEvent` | `SearchActiveAlert`, `SearchEndedByEvent` |
| `Repository.CreateAlert` | `CreateSearch`, `CreatePut`, `ReadConflicting` |
| `Repository.CompareAndSetAlert` | `ReplaceAlert`, `ReplaceToClose` |
| `Repository.GetAlert` in `CloseAlert` | `ReadToClose` |
| `Manager.ArchiveTerminalAlerts` | `Scan` |
| `archivePreparedChunk`, `verifyArchiveConflicts`, `deleteArchivedActiveAlerts` | `CreateHistory`, `VerifyHistory`, `DeleteActive` |
| the archive task of the control plane | `RestartArchiver` |

Abstractions. The search and the conditional `PUT` of `CompareAndSetAlert` are
one step: the sequence number makes the `PUT` fail if anything came between.
The items of a bulk request are worked on in any order. A History document is
visible to searches at once. `NoBucket` are alerts whose History index is
missing, the way an item fails again and again. The lease is exclusive here,
which `CreateAlert`'s comment asks of its caller. Responses that are too large,
documents that do not decode, the static router and requests that are carried out after
their caller gave up and went on are left out.

### 2.6 EventLanes

What the lifecycle stage promises whoever hands it events: an event joins its
lane once, and the events of a lane are decided one at a time, from the front,
for good. `LifecycleScheduler` maps its history `arrival` to the queue and
`done` to the decided events (`INSTANCE EventLanes WITH ...`); signals, leases,
redelivery, stale handlers and trimming must then all be invisible.
`LanesImplemented` says so.

## 3. Runs

All runs but the two of `ConsumeRuntime`, which polls for ever, set
`CHECK_DEADLOCK FALSE`: when all events are processed, or the signal budget or
the fault budget is used up, nothing is left to do, and that is a proper end.
That nothing stops before it should is what the liveness properties say.

| Run | Checks | Instance |
|---|---|---|
| `scheduler_safety` | `TypeOK`, `NoLostWakeup`, `TrimKeepsOwed`, `NoEventLost`, `InArrivalOrder`, `LeaseHandedOverSafely`, `LanesImplemented` | 1 lane, 2 events enqueued up to twice, 2 handlers, 3 signals, drain limit 2, trimming above 1 entry, 2 faults; 3.4 million states |
| `scheduler_liveness` | `EveryEventProcessed`, `SettlesDown` | 2 lanes, 3 events, 2 handlers, drain limit 1, 1 fault |
| `processor_serial` | `SerialOutcome`, `LogsAbsorbed`, `EveryEventFinishes` | every lane of 4 events over 3 severities, 1 worker, 2 faults |
| `processor_stale` | `OneActiveAlert`, `ResultIsBacked`, `FinalStatesKept` | 3 events over 2 severities, 2 workers, one lost lease, 1 fault |
| `processor_close` | `TypeOK`, `CloseAnswered`, `FinalStatesKept` | 2 events, 1 worker, 2 equal close commands, 1 fault |
| `consume_safety` | `TypeOK`, `ConfirmedWereHandled`, `KeySerial`, `KeyOrder`, `WindowExact`, `ReceiveFits`, `ReceiptsFit`, `DrainsBeforeStop` | both modes, 4 messages on 2 lanes, 3 of them with one key, 2 workers, window of 3 and of 2 per lane, 2 attempts, retry queue of 1, 2 faults; 1.1 million states |
| `consume_liveness` | `EveryMessageConfirmed` | both modes, 3 messages on 2 lanes, 2 of them with one key, 1 worker, window of 2, 2 faults |
| `cleaner_safety` | `TypeOK`, `ConfirmedAreHandedOn`, `NoNeedlessDuplicates`, `WindowIsExact`, `PausedLaneDrains`, `NoOvertaking` | 3 records on 2 lanes, one refused by the store, batches of 2, one batch at a time, window of 2, 1 retry, 2 faults; 2.7 million states |
| `cleaner_liveness` | `EveryMessageConfirmed` | 2 records on 2 lanes, one malformed, 1 fault |
| `cleaner_shutdown` | `ShutdownEnds`, violated | 1 record on each of 2 lanes, one batch at a time, 1 fault; section 5 |
| `archive_safety` | `ArchiveTypeOK`, `OneActiveDocument`, `EndedKept`, `EndedAreArchived` | 2 events over 2 severities, 1 worker, 1 operator, pages of 1, the second alert cannot be archived, 1 fault; 0.12 million states |
| `archive_recovery` | `EndedByIsRecorded`, violated | 2 events over 2 severities, 1 worker, 1 fault; section 5 |

Why the bounds are enough. The races of the delivery path are between one
handler with a lost lease, its successor, a repeated enqueue and the trimmer:
two handlers, two references and three signals allow all of them, and the
theorems of section 4 remove the bound. `MaxPending` equals 2, so the limit is
reached. Three severities allow a rotated alert to be rotated again, four
events put something before and after it. One lost lease makes two workers run
at once; two faults allow a resumption to be interrupted. Symmetry over
handlers, workers and commands is used in runs without liveness only.

`ConsumeRuntime`: the first lane has a message without a key before two of the
shared key, so a completed delivery can stand behind an unfinished one, and two
of a key can be outstanding in both modes. The window is smaller than the log and
the lane window smaller than the window, so both limits bind; two faults exhaust
the attempts, fill the retry queue, or combine a cancellation, a failed lane, a
lost confirmation or a crash with one another.

`Cleaner`: the window holds two of the three records, so a batch of two, a lane
at its high-water mark and a receive limit of zero all occur; the lane of two
allows overtaking; one slot for two lanes makes batches compete. Two faults
allow a failure of one call and then of its retry, or a failure followed by a
rebalance or a crash.

`AlertArchive`: two events open, change, rotate and end an alert while the operator
closes it; pages of one with an alert that cannot be moved make the cursor
matter. One fault is one lost answer, one crash of the worker or one failed
archive request. What more faults do is in section 5.

Fairness. `LifecycleScheduler`: a process with spare capacity keeps calling
`Receive`, a delivered message is run by a worker goroutine, keys with a TTL
expire (weak fairness). `Acquire` gets strong fairness: a deferred delivery is
tried again after `LockRetryDelay` as long as the process lives, and the lease is
free again and again but not continuously. Nothing is assumed of the cleaner or
the trimmer; faults are finitely many because they are counted.
`AlertProcessor`: an invocation goes on, and the scheduler starts the first
event without a result again (weak fairness).

`ConsumeRuntime`: goroutines and time go on, a session answers, a handler returns
(its context has `ProcessTimeout`), a process that ended is started again (weak
fairness). The cases of the `select` get strong fairness: each is ready only
while the loop is in its `select`, and Go chooses at random among ready cases.

`Cleaner`: goroutines, clocks, the other members of the group and the lifecycle
go on (weak fairness); the cases of the `select`, and the start of a lane's batch when
several lanes compete for a slot, get strong fairness: Go chooses at random among ready
cases and iterates over the lanes' map in random order. Back-pressure ends, since
the lifecycle works signals off. Nothing is assumed of failures, rebalances and
cancellations. `EveryMessageConfirmed` there makes one exception, a shutdown that
never ends, because the code has it (section 5).

`AlertArchive`: Elasticsearch refreshes its indices periodically, the archive
task scans for ever, and its requests return (weak fairness).

`processor_serial` has no stale worker and no operator. Both can stop an event for good:
with a stale worker, the alert that an event just opened can be ended on behalf
of an earlier event, after which the retry of the second event always fails in
`resumeActiveEvent`; with operators, see section 5.

## 4. Proofs

All theorems hold for every value of the constants that satisfies the named
assumptions of the module: any number of lanes, events, messages, consumers,
workers and operators, any limits and any fault budgets. The assumptions say what
the constants are (`LimitsType`, `BoundsType`, `LaneType`, `KindsType`,
`LimitType`, `FaultsType`, `CleanerFaultsType`...), that markers such as "nobody"
or "not found" are not values of what they mark (`LeaseValues`, `NoneNotEvent`,
`NobodyType`, `NoAlertType`), that every event has a lane and every message is one
record of one lane (`MailboxOfType`, `MessagesType`, `RecordsType`), and that the
configuration is one that `Config.Validate` or `CleanerRuntimeConfig.Validate`
accepts (`ConfigValid`, `CleanerConfigValid`). TLC evaluates them in every run.

Three theorems have a hypothesis of their own, because without it the property is
false: `DecidedAsSerial` and `RepeatedLogsAbsorbed` take a lane without operators
and lost leases (`Commands = {}`, `MaxLost = 0`), `ActiveDocumentUnique` a lane
without operators (`AlertArchive` loses no leases). `processor_serial` is such an
instance; `archive_safety` has an operator, and a single fault.

| Theorem | States | Along |
|---|---|---|
| `TypeCorrect` | `TypeOK` always | `BaseInv` |
| `WakeupNeverLost` | `NoLostWakeup` always | `WakeupInv` |
| `OwedNeverTrimmed` | `TrimKeepsOwed` always | `WakeupInv` |
| `LeaseSafe` | `LeaseHandedOverSafely` | case analysis of the step, on `BaseInv` |
| `EventNeverLost` | `NoEventLost` always | `OrderInv` |
| `ProcessedInOrder` | `InArrivalOrder` always | `OrderInv` |
| `LanesRefined` | `LanesImplemented`: the scheduler implements `EventLanes` | `RefinementInv` |
| `ProcessorTypeCorrect` | `TypeOK` of `AlertProcessor` always | `ProcInv` |
| `ActiveAlertUnique` | `OneActiveAlert` always | `ProcInv` |
| `ResultsBacked` | `ResultIsBacked` always | `ProcInv` |
| `ClosesAnswered` | `CloseAnswered` always | `ProcInv` |
| `FinalStatesStay` | `FinalStatesKept` | every step `Grows` |
| `DecidedAsSerial` | `SerialOutcome` always, without operators and lost leases | `SerialInv` |
| `RepeatedLogsAbsorbed` | `LogsAbsorbed` always, without operators and lost leases | `SerialInv` |
| `ArchiveTypeCorrect` | `ArchiveTypeOK` always | `ArchiveInv` |
| `EndedAlertsKept` | `EndedKept` | every step is an `EndedStep`, from `ArchiveInv` |
| `ActiveDocumentUnique` | `OneActiveDocument` always, without operators | `DocumentInv` |
| `ConsumeTypeCorrect` | `TypeOK` of `ConsumeRuntime` always | `ConsumeInv` |
| `NothingLost` | `ConfirmedWereHandled` always | `ConsumeInv` |
| `KeysSerial`, `KeysInOrder` | `KeySerial`, `KeyOrder` always | `ConsumeInv` |
| `WindowCounted`, `AnswersFit` | `WindowExact`, `ReceiveFits` always | `ConsumeInv` |
| `ReceiptsAlwaysFit` | `ReceiptsFit` always | `ConsumeInv` |
| `ShutdownDrains` | `DrainsBeforeStop` always | `ConsumeInv` |
| `CleanerTypeCorrect` | `TypeOK` of `Cleaner` always | `CleanerInv` |
| `NothingForgotten` | `ConfirmedAreHandedOn` always | `CleanerInv` |
| `NeverOvertaken` | `NoOvertaking` | every step, from `CleanerInv` |
| `EnqueuedOnce` | `NoNeedlessDuplicates` always | `CleanerInv` |
| `CleanerWindowExact`, `PausedLanesDrain` | `WindowIsExact`, `PausedLaneDrains` always | `CleanerInv` |

### 4.1 LifecycleScheduler

* `BaseInv` adds to `TypeOK` that signal ids are ordered (stream and pending
  entries below the counters) and that a handler's locals agree with its program
  counter. Without it a handler's lane need not be a lane.
* `WakeupInv`. `NoLostWakeup` is not inductive: when a drain found the list
  empty but has not confirmed yet, its signal is still pending and would count
  as a wakeup for a reference pushed meanwhile. `WakeupState` therefore asks for
  a signal that no completing handler is about to confirm. It holds because the
  list was empty, so the push added a newer signal. `TrimState` says that a
  boundary once computed stays at or below everything owed: the group's cursor
  only advances, and what it passes becomes pending.
* `OrderInv`. The lease is not fenced, so order cannot come from mutual
  exclusion. `QueueState` says that each reference in a list stands behind
  references to all events that arrived earlier and are not done; the head is
  then always the oldest event that is not done. `HandledState` says that a
  handler past its peek holds an event whose predecessors are done, which stays
  true however stale the handler is, and that it pops only what is done. Both
  invariants were model-checked before they were proved.
* `RefinementInv` adds to `OrderInv` that whatever was ever enqueued stands among
  the arrivals of its lane, once. Without it a first enqueue need not be an
  `Arrive`, and `Decide` would not find the position of the event a handler
  finishes. Every step of the scheduler is then an `Arrive` (`EnqueueArrives`), a
  `Decide` (`FinishDecides`, from `HandledState`) or a stutter (`RefinementStep`).

### 4.2 AlertProcessor

Workers are not exclusive, because a lost lease does not stop its former holder;
the proofs do not use the lease. Processes meet only in the repository, and
`Grows` says all that a step may do to it: logs and results stay, an alert
changes only while it is active and gets a new revision when it does. `LocalState`
says what a process knows at each point, in terms that growth by others cannot
falsify: what it has read is still stored or has a later revision (`Reads`), and
for the result it is about to store, everything the result stands for is stored
or still on its own list of things to write (`Promise`, `ClosePromise`).
`ResultIsBacked` alone is not inductive: a worker about to store a result could
have forgotten a log. That a process preserves its own `LocalState` is shown per
action; that it preserves everybody else's follows once, from `Grows`.

`OneActiveAlert` rests on the reservation: an alert is created only when none is
active and only for an event whose predecessors have results (`StoreState`).

The serial outcome does need the lease: when none is lost, the running worker is
the only one. What is left is that an invocation may end between any two of its
writes. `LaneState` says what the repository can then look like: the first events
have results, the others have none, and of the first one without a result
(`Frontier`) nothing is stored yet (`Decided`), or the old alert of a rotation is
closed and the new one not opened (`HalfRotated`), or every alert write is made
(`Written`), each with the alerts that `TableResult` gives. The states can be told
apart by what the processor reads, and `Concluded` says that it does: at each
point of an invocation the branch that was taken is the table's branch, so a
resumption finishes what the first attempt began and begins nothing else.
`ActiveAfter` is a recursive function over the lane; `LaneUpTo` and a set
induction unfold it. `LogState` is why a repeated log is absorbed: the time in it
is that of a write that is made once, an alert's first or its last (`LogFixed`).

Neither holds with an operator or a lost lease: then a worker may find its alert
ended by someone else between two attempts (end of section 3, section 5).

### 4.3 AlertArchive

`Known` says that a process which is about to replace
an alert has read it as active, so that the write, which names the document it
replaces, cannot touch an ended one. `Copied` says that the archiver deletes only
the document whose copy is in the History index. `EndedKept` then holds for any
number of operators and faults.

`OneActiveDocument` cannot rest on a reservation, as there is none. A write whose
answer was lost may be hidden from searches, so a worker that searches for the
active alert before it creates one may look at the past. `DocumentState` limits
what can be hidden: an alert whose event has a result is seen as what it is
(`Seen`), because the worker that stored the result had its write answered, which
waits for a refresh, or found the alert by a search. So the only document that may be
hidden as active is that of the first event without a result; it is as it was
opened (`AsOpened`), not copied and not about to be, and its id is the one that the
next attempt's conditional create uses. `Sure` says what a worker relies on between
its search and its `PUT`, and needs the exclusive lease (`OneWriter`). An operator
breaks `AsOpened`: he can close the alert of an event without a result, the
archiver moves it, and the id is free again (section 5.2). `DocumentInv` was
model-checked with three events and three faults, and with two workers, before it
was proved.

### 4.4 ConsumeRuntime

The invariants are proved together, as `ConsumeInv`, since each needs the others.
A commit covers everything on the lane before its last record. To cover handled
messages only (`Settlement`), the receipts of a batch must be a prefix of the
outstanding ones (`TokensSplit`: batch, queue of the lane and unread answer, in
this order), those must be in the order of the log without a gap (`LogOrder`),
and the batch must hold completed deliveries only (`QueuedEntries`,
`TerminalEntries`). The lane's queue follows the receipts only because an answer
is never rejected, which is where the counters come in (`Window`: they
equal what they count, and an outstanding request fits in what is left).

Serial execution per key is `KeyQueues` (a key is active as long as a delivery of
it is begun or waits) with `KeySerial`; order per key is `KeyRanks`: of two deliveries
of a key on one lane, the later one begins after the earlier one is finished, and
while both wait they wait in the order of their receipts, also when the lane of
one is blocked. `Stopping` says what the end of the loop has established.
`ConsumeInv` was model-checked on the instance of `consume_safety` before it was
proved; the first clause of `LogOrder`, that receipts are in the order of the
log, was added during the proof.

`SequenceFacts` carries what these proofs need about sequences: that distinct
elements, order and content survive appending, concatenation, cutting and
filtering. Where that takes induction, it is done over a set of numbers or
sequences (`NatSetInduction`, `SeqSetInduction`, from a least element of a set),
because the library's induction theorems take an operator as parameter. For the
same reason `ConsumeRuntime` uses `Filter`, a recursive function, and not
`SelectSeq`; an assumption of `MCConsumeRuntime` compares the two.

### 4.5 Cleaner

The coordinator and the goroutines of the batches share the entries of a lane
without a lock. `Batches` says why they do not meet: a batch works on the first
`n` entries, which are transformed and stay at the front until the coordinator
has read its result; the coordinator appends behind them and touches only
entries that are not ready.

* `HandedOn`: the flags of an entry are true of the world (`Backed`), so a prefix
  whose flags are all final can be confirmed. A flag may lag behind when a reply
  is lost, never run ahead.
* `LogOrder`: what stands before an entry in the partition is confirmed or stands
  before it in the lane. A commit then covers nothing unfinished. It also gives
  `NoOvertaking`, as a batch enqueues its first entry that needs it (`NextIs`).
  Between `Poll` and `IssueReceipts` the polled records are in no lane yet; the
  second clause carries them over.
* `Records`: a record fetched in a generation is confirmed, polled or an entry
  of its lane, where it stands once. Without it a record could be transformed
  twice.
* `Window`: the counters equal what they count, and an outstanding request fits
  in what is left. It is what the records of an answer are admitted by.
* `Once`: the flag of an answered enqueue lives as long as the entry, and the
  record is not fetched again, so a retry of the batch passes it over.
* `PausedLaneDrains` is inductive with the others: only the result of a batch
  shortens a lane, and it resumes the lane when it falls to the mark.

`Cleaner` uses `Filter` as `ConsumeRuntime` does, and an assumption of `MCCleaner`
compares it with `SelectSeq`.

### 4.6 Only model-checked

The liveness properties: `EveryEventProcessed`, `SettlesDown`,
`EveryEventFinishes`, both `EveryMessageConfirmed` and `EndedAreArchived`.
Fairness and `ENABLED` are out of TLAPS's reach. `OneActiveDocument` with an
operator and a single fault, as in `archive_safety`, is model-checked too: the
theorem is about lanes without operators. Every other invariant and action
property of a passing run is a theorem.

## 5. Findings

### 5.1 Shown by a run

* `cleaner_shutdown`. A batch's goroutine sends its result before its deferred
  `<-slots` (`cleaner/runtime.go:565`). The coordinator reads the result (line 384),
  finds no slot for the batch of another lane (line 557) and waits in its `select`.
  The release of the slot is no event. `nextWake` (line 762) arms the timer of the
  loop for retry times and, unless the flow shuts down, for the age of a ready head
  (line 771), but never for `shutdownDeadline`, which the head of the loop only
  looks at when something else wakes it. So a flow that is asked to stop at this
  moment waits for ever, with a slot free and an entry ready. `README.md:81` of
  linkd promises a bounded drain, `docs/modules/cleaner.md:183` says what happens
  at its deadline. The trace has two lanes, one slot and one cancellation.
* `archive_recovery`. `FindAlertEndedByEvent` (`store/elasticsearch/alert.go:238`)
  asks `ActiveAlertTargets`, which is the Active index alone
  (`bucket_router.go:167`); its neighbour `TerminalAlertTargets` covers both
  indices and is what `FindActiveAlert` uses, so the two look swapped. If an
  event ends an alert, its worker crashes, and the archiver moves the alert
  before the retry, the retry does not find it: the event is recorded as orphaned
  and the alert's logs are not written, against `lifecycle.md:231` and `:248`.
  With a lookup over both indices the property holds, also with two faults.

### 5.2 Observations without a run

* `suppressEvent` stores the active alert's id with the event; `lifecycle.md`
  line 197 says it does not.
* The time in an operation log is the alert's current `update_at` (`processor.go:327`),
  the log id does not contain it, and stores compare whole logs. If an operator
  closes the alert after a crashed worker has appended its log, all retries of the
  event fail with an identity conflict, against `log.go` line 70. `LogsAbsorbed` is
  violated by the instance of `processor_close`.
* A rotation crashes after it created the successor; an operator closes the
  successor; `completeRotation` (`processor.go:256`) then returns
  `errRetryDecision` at every attempt, for ever, against `lifecycle.md` line 248.
* A worker that lost its lease between `GetEvent` and `FindActiveAlert` changes
  an alert on behalf of an event that already has its result
  (`processor.go:35`), against `lifecycle.md` line 251.
* On Elasticsearch an alert id can be used twice: an event creates its alert and its
  worker crashes, an operator closes the alert, the retry searches and finds nothing
  active, the archiver moves the alert, and the retry's create-only `PUT`
  (`store/elasticsearch/alert.go:88`) succeeds, because it looks at the Active index
  alone. The copies then differ and `GetAlert` fails until someone repairs them.
  If the answer of that `PUT` is lost, which is a second fault, it goes further: the
  next retry sees the archived copy only, takes it for its own alert and stores the
  result; the next event does not see the hidden document and opens a second
  active one, against `docs/design/core-storage-contract.md:43`.
  `archive_safety` with `MaxFaults = 2` shows it; `OneActiveDocument` holds
  there with one fault, and with any number of faults when there are no operators
  (section 4.3).
* The hang of `cleaner_shutdown` needs no race when a transformation has used up its
  retries: `scheduleProcessRetry` (`cleaner/runtime.go:745`) makes the flow shut
  down and leaves the entry neither ready nor with a retry time, so nothing wakes
  the loop. `ShutdownEnds` is violated this way by a single record on one lane with
  `MaxFaults = 2`; with one fault, too few to use up the retries, it holds there. A
  revocation has the same gap: `revokeDeadline` is not armed either.
* `scheduleLaneRetry` of the cleaner sets `shutdownDeadline` again at every
  failure after the last attempt, so a flow that shuts down with failing lanes
  can go past its first deadline.
* Kafka's `Confirm` of the last receipt allows rebalances while a poll may be
  under way whose receipts are not issued yet. The model has this race
  (`Poll` and `IssueReceipts` are two steps) and no property of `Cleaner` fails
  by it.

## 6. Not modelled

Not modelled, in linkd:

* the MySQL store: its contract is that of the memory store, its compare-and-set
  operations are transactions that lock the one row they change;
* index, alias and bucket management of Elasticsearch, listings and queries;
* RabbitMQ's one-message buffer and the connection handling of the sessions;
* configuration, command line, telemetry, event generators and test kits (no
  protocol state); field mapping and validation in the cleaner (data conversion
  without interleaving);
* what sections 2.1 to 2.5 name as abstractions.

Not modelled, in the repository: everything outside `src/pkg/linkd`. The
repository has some 700,000 lines of Go, a large part generated parsers and
protocol code, and most of the rest converts, queries or proxies telemetry:
there is little state to check, and the data cannot be abstracted without
leaving out what the code is for. `alarmd`, `bk-monitor-worker` and `transfer`
have protocols of their own (shard ownership, task broker, cluster scheduler)
that would be projects beside this one; they share no state with linkd.
