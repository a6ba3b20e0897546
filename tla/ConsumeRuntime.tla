--------------------------- MODULE ConsumeRuntime ---------------------------
(***************************************************************************)
(* linkd's transport-neutral consumer, consume/runtime.go: one coordinator *)
(* goroutine that owns every piece of bookkeeping, a receive goroutine, a  *)
(* settle goroutine and a pool of workers, joined by channels.             *)
(*                                                                         *)
(* The coordinator alternates between the head of its loop (at = "top":    *)
(* dispatch due retries, ask for a batch, ask for a confirmation, decide   *)
(* to stop) and one case of its select (at = "select").  Each of the two   *)
(* is one step: nothing else reads the coordinator's state.  The other     *)
(* goroutines, the broker and the clock may step in between.               *)
(*                                                                         *)
(* The broker keeps one log per lane.  With "individual" settlement        *)
(* (RabbitMQ, Redis Streams) each message is confirmed by itself; with     *)
(* "cumulative" settlement (Kafka) confirming a message confirms all the   *)
(* messages before it in its lane.  A generation ends when Run returns or  *)
(* the process dies; the next one is given what the broker has no          *)
(* confirmation for.                                                       *)
(***************************************************************************)
EXTENDS Integers, Sequences, FiniteSets, FiniteSetsExt, SequencesExt, SequenceFilter

CONSTANTS
  Messages,          \* messages of the broker
  Lanes,             \* DeliveryMeta.Lane: partition, queue or stream
  LaneLog,           \* LaneLog[l]: the messages of lane l in broker order
  Keys,              \* order keys
  KeyOf,             \* KeyOf[m]: Message.OrderKey of m, or NoKey
  NoKey,             \* the empty order key
  WorkerCount, MaxBatchMessages, MaxInflightMessages, MaxInflightPerLane,
  RetryMaxAttempts, MaxRetryMessages,     \* fields of consume.Config
  MaxFaults          \* bound: crashes, failures, cancellations, non-final outcomes

LaneOf == [m \in Messages |-> CHOOSE l \in Lanes : m \in ToSet(LaneLog[l])]
OfLane(s, l) == Filter(s, {m \in Messages : LaneOf[m] = l})

(* What Config.Validate accepts. *)
Validate ==
  /\ {WorkerCount, MaxBatchMessages, MaxInflightMessages, MaxInflightPerLane,
      RetryMaxAttempts, MaxRetryMessages} \subseteq Nat \ {0}
  /\ MaxBatchMessages <= MaxInflightMessages
  /\ MaxBatchMessages <= MaxInflightPerLane
  /\ MaxRetryMessages <= MaxInflightMessages
ASSUME ConfigValid == Validate
(* A message is one record of one lane. *)
ASSUME MessagesType ==
  /\ IsFiniteSet(Messages) /\ Lanes # {}
  /\ LaneLog \in [Lanes -> Seq(Messages)]
  /\ \A m \in Messages : \E l \in Lanes : m \in ToSet(LaneLog[l])
  /\ \A k, l \in Lanes : \A i \in DOMAIN LaneLog[k], j \in DOMAIN LaneLog[l] :
       LaneLog[k][i] = LaneLog[l][j] => k = l /\ i = j
  /\ KeyOf \in [Messages -> Keys \cup {NoKey}] /\ NoKey \notin Keys
ASSUME FaultsType == MaxFaults \in Nat

VARIABLES
  mode,          \* Capabilities.Settlement of the session
  confirmed,     \* broker: messages it will not deliver again
  fetched,       \* session: messages it has returned in this generation
  tokens,        \* session: tokens[l], receipts of lane l not yet confirmed
  st,            \* st[m]: where the delivery of m is
  attempt,       \* attempt[m]: trackedDelivery.attempt
  waiting,       \* waitingByKey
  activeKeys,    \* activeOrderKeys
  laneQueue,     \* lane.queue: deliveries not yet put into a settlement batch
  laneSettling,  \* lane.settling
  blocked,       \* lane.blocked
  laneInflight,  \* lane.inflight
  inflight,      \* inflightMessages
  workCount,     \* deliveries handed to the workers
  settleQueue,   \* settlement batches, the head being confirmed
  settle,        \* "idle", "asked", or the answer "ok" or "err" not yet read
  receive,       \* "idle", "asked", or the answer "ok", "empty" or "err"
  limit,         \* ReceiveLimits.MaxMessages of the outstanding request
  batch,         \* the deliveries of an unread answer
  later, passed, \* wake-up times still ahead, and passed since the last "top"
  shuttingDown,
  at,            \* "top", "select", and after Run's loop: "drained", "expired"
  handled,       \* history: messages a handler completed or discarded
  faults         \* faults spent so far

brokerVars == <<mode, confirmed>>
sessionVars == <<fetched, tokens>>
entryVars == <<st, attempt>>
keyVars == <<waiting, activeKeys>>
laneVars == <<laneQueue, laneSettling>>
windowVars == <<laneInflight, inflight>>
settleVars == <<settleQueue, settle>>
receiveVars == <<receive, limit, batch>>
timerVars == <<later, passed>>
vars == <<brokerVars, sessionVars, entryVars, keyVars, laneVars, blocked,
          windowVars, workCount, settleVars, receiveVars, timerVars,
          shuttingDown, at, handled, faults>>

(* The results a worker reports.  "gotDone" stands for Complete and        *)
(* Discard, which the coordinator treats alike.                            *)
Results == {"gotDone", "gotRetry", "gotBlock", "gotDefer"}
AtWorker == {"job", "run"} \cup Results

(* "held": taken over on a blocked lane and never dispatched; "dropped":   *)
(* no longer scheduled, left to the next generation.                       *)
DeliveryStates == {"away", "held", "waiting", "retry", "dropped", "terminal",
                   "settled"} \cup AtWorker
Tracked == {m \in Messages : st[m] \notin {"away", "settled"}}
Timers == Messages \cup {"receive", "settle", "deadline"}
Batches == [lane : Lanes, entries : Seq(Messages)]

TypeOK ==
  /\ mode \in {"individual", "cumulative"}
  /\ confirmed \subseteq Messages /\ fetched \subseteq Messages
  /\ tokens \in [Lanes -> Seq(Messages)]
  /\ st \in [Messages -> DeliveryStates]
  /\ attempt \in [Messages -> 1..RetryMaxAttempts]
  /\ waiting \in [Keys -> Seq(Messages)] /\ activeKeys \subseteq Keys
  /\ laneQueue \in [Lanes -> Seq(Messages)]
  /\ laneSettling \in [Lanes -> BOOLEAN] /\ blocked \in [Lanes -> BOOLEAN]
  /\ laneInflight \in [Lanes -> Nat] /\ inflight \in Nat /\ workCount \in Nat
  /\ settleQueue \in Seq(Batches) /\ settle \in {"idle", "asked", "ok", "err"}
  /\ receive \in {"idle", "asked", "ok", "empty", "err"}
  /\ limit \in 0..MaxBatchMessages /\ batch \in Seq(Messages)
  /\ later \subseteq Timers /\ passed \subseteq Timers
  /\ shuttingDown \in BOOLEAN
  /\ at \in {"top", "select", "drained", "expired"}
  /\ handled \subseteq Messages /\ faults \in 0..MaxFaults

Fault == faults < MaxFaults /\ faults' = faults + 1

-----------------------------------------------------------------------------
(* A generation: a new session and the start of Run. *)

Init ==
  /\ mode \in {"individual", "cumulative"}
  /\ confirmed = {} /\ handled = {} /\ faults = 0
  /\ fetched = {} /\ tokens = [l \in Lanes |-> <<>>]
  /\ st = [m \in Messages |-> "away"] /\ attempt = [m \in Messages |-> 1]
  /\ waiting = [k \in Keys |-> <<>>] /\ activeKeys = {}
  /\ laneQueue = [l \in Lanes |-> <<>>]
  /\ laneSettling = [l \in Lanes |-> FALSE] /\ blocked = [l \in Lanes |-> FALSE]
  /\ laneInflight = [l \in Lanes |-> 0] /\ inflight = 0 /\ workCount = 0
  /\ settleQueue = <<>> /\ settle = "idle"
  /\ receive = "idle" /\ limit = 0 /\ batch = <<>>
  /\ later = {} /\ passed = {} /\ shuttingDown = FALSE /\ at = "top"

(* What the broker has confirmed outlives the process; nothing else does. *)
NewGeneration ==
  /\ fetched' = {} /\ tokens' = [l \in Lanes |-> <<>>]
  /\ st' = [m \in Messages |-> "away"] /\ attempt' = [m \in Messages |-> 1]
  /\ waiting' = [k \in Keys |-> <<>>] /\ activeKeys' = {}
  /\ laneQueue' = [l \in Lanes |-> <<>>]
  /\ laneSettling' = [l \in Lanes |-> FALSE] /\ blocked' = [l \in Lanes |-> FALSE]
  /\ laneInflight' = [l \in Lanes |-> 0] /\ inflight' = 0 /\ workCount' = 0
  /\ settleQueue' = <<>> /\ settle' = "idle"
  /\ receive' = "idle" /\ limit' = 0 /\ batch' = <<>>
  /\ later' = {} /\ passed' = {} /\ shuttingDown' = FALSE /\ at' = "top"
  /\ UNCHANGED <<brokerVars, handled>>

(* Run returned and its process was started again. *)
Restart ==
  /\ at \in {"drained", "expired"}
  /\ NewGeneration
  /\ UNCHANGED faults

Crash == Fault /\ at \in {"top", "select"} /\ NewGeneration

-----------------------------------------------------------------------------
(* The head of the loop. *)

(* dispatchReadyRetries *)
ReadyRetries ==
  IF shuttingDown THEN {}
  ELSE {m \in passed \cap Messages : st[m] = "retry" /\ ~blocked[LaneOf[m]]}

(* Mutant: only the whole window limits the batch. *)
IgnoreLanes == Min({MaxBatchMessages, MaxInflightMessages - inflight})

(* tryReceive: the session does not know which lanes it will deliver from, *)
(* so the fullest lane limits the batch.                                   *)
ReceiveLimit ==
  Min({MaxBatchMessages, MaxInflightMessages - inflight,
       MaxInflightPerLane - Max({laneInflight[l] : l \in Lanes})})

MayReceive ==
  /\ ~shuttingDown
  /\ receive = "idle"
  /\ "receive" \notin later
  /\ ReceiveLimit > 0

(* trySettle *)
MaySettle == settle = "idle" /\ settleQueue # <<>> /\ "settle" \notin later

(* Mutant: the loop ends while confirmations are still due. *)
DrainedOfWork == shuttingDown /\ workCount = 0

(* The loop's first exit: no work, nothing to confirm.  It is evaluated    *)
(* after dispatchReadyRetries and trySettle.                               *)
Drained == shuttingDown /\ workCount = 0 /\ settle = "idle" /\ settleQueue = <<>>

LoopTop ==
  /\ at = "top"
  /\ st' = [m \in Messages |-> IF m \in ReadyRetries THEN "job" ELSE st[m]]
  /\ workCount' = workCount + Cardinality(ReadyRetries)
  /\ receive' = IF MayReceive THEN "asked" ELSE receive
  /\ limit' = IF MayReceive THEN ReceiveLimit ELSE limit
  /\ settle' = IF MaySettle THEN "asked" ELSE settle
  /\ at' = IF Drained THEN "drained"
           ELSE IF "deadline" \in passed THEN "expired" ELSE "select"
  /\ passed' = {}
  /\ UNCHANGED <<brokerVars, sessionVars, attempt, keyVars, laneVars, blocked,
                 windowVars, settleQueue, batch, later, shuttingDown, handled,
                 faults>>

(* nextWake: the times the loop's timer is armed for. *)
NextWake ==
  {t \in later \cup passed :
     \/ t = "receive"
     \/ t \in Messages /\ st[t] = "retry"
     \/ t = "settle" /\ settleQueue # <<>>
     \/ t = "deadline" /\ shuttingDown}

(* The clock reaches a wake-up time while the loop runs. *)
Elapse(t) ==
  /\ at \in {"top", "select"}
  /\ t \in later
  /\ later' = later \ {t}
  /\ passed' = passed \cup {t}
  /\ UNCHANGED <<brokerVars, sessionVars, entryVars, keyVars, laneVars, blocked,
                 windowVars, workCount, settleVars, receiveVars, shuttingDown,
                 at, handled, faults>>

(* select, case <-timerC *)
TimerFires ==
  /\ at = "select" /\ at' = "top"
  /\ NextWake \cap passed # {}
  /\ UNCHANGED <<brokerVars, sessionVars, entryVars, keyVars, laneVars, blocked,
                 windowVars, workCount, settleVars, receiveVars, timerVars,
                 shuttingDown, handled, faults>>

(* startShutdown, from delivery states s: the retry queue is dropped. *)
StartShutdown(s) ==
  /\ shuttingDown' = TRUE
  /\ st' = [m \in Messages |-> IF s[m] = "retry" THEN "dropped" ELSE s[m]]
  /\ later' = IF shuttingDown THEN later ELSE (later \ Messages) \cup {"deadline"}
  /\ passed' = passed \ Messages

(* select, case <-ctxDone: the process is asked to stop. *)
Cancel ==
  /\ at = "select" /\ at' = "top"
  /\ ~shuttingDown
  /\ Fault
  /\ StartShutdown(st)
  /\ UNCHANGED <<brokerVars, sessionVars, attempt, keyVars, laneVars, blocked,
                 windowVars, workCount, settleVars, receiveVars, handled>>

-----------------------------------------------------------------------------
(* The receive goroutine and the session. *)

(* What the session may deliver: anything not confirmed nor already        *)
(* returned, and from a Kafka partition only the next records in order.    *)
Available == Messages \ (confirmed \cup fetched)
Deliverable ==
  {b \in SeqOf(Available, limit) :
     /\ b # <<>> /\ Cardinality(ToSet(b)) = Len(b)
     /\ mode = "cumulative" =>
          \A l \in Lanes :
            IsPrefix(OfLane(b, l), Filter(LaneLog[l], Available))}

(* Session.Receive returns deliveries; their receipts are issued.  It may  *)
(* do so even when the receive context has just been cancelled.            *)
SessionReceive(b) ==
  /\ receive = "asked"
  /\ receive' = "ok" /\ batch' = b
  /\ fetched' = fetched \cup ToSet(b)
  /\ tokens' = [l \in Lanes |-> tokens[l] \o OfLane(b, l)]
  /\ UNCHANGED <<brokerVars, entryVars, keyVars, laneVars, blocked, windowVars,
                 workCount, settleVars, limit, timerVars, shuttingDown, at,
                 handled, faults>>

(* An empty poll (a poll that times out although messages are available    *)
(* counts as a fault), or an error: the broker's, the context's after      *)
(* shutdown, or a delivery that validateReceived rejects.                  *)
SessionReceiveNothing(answer) ==
  /\ receive = "asked"
  /\ receive' = answer
  /\ \/ answer = "empty" /\ Available = {} /\ UNCHANGED faults
     \/ answer = "err" /\ shuttingDown /\ UNCHANGED faults
     \/ Fault
  /\ UNCHANGED <<brokerVars, sessionVars, entryVars, keyVars, laneVars, blocked,
                 windowVars, workCount, settleVars, limit, batch, timerVars,
                 shuttingDown, at, handled>>

(* validateReceived's limits. *)
WithinLimits(b) ==
  /\ Len(b) <= MaxBatchMessages
  /\ Len(b) <= MaxInflightMessages - inflight
  /\ \A l \in Lanes :
       Len(OfLane(b, l)) + laneInflight[l] <= MaxInflightPerLane

(* dispatch, for all the deliveries of a batch: on a lane that is not      *)
(* blocked, the first arrival of an inactive key goes to the workers, the  *)
(* others queue up behind their key.                                       *)
Arrivals(k) == Filter(batch, {m \in Messages : KeyOf[m] = k /\ ~blocked[LaneOf[m]]})
Submitted ==
  {m \in ToSet(batch) :
     /\ ~blocked[LaneOf[m]]
     /\ KeyOf[m] # NoKey => KeyOf[m] \notin activeKeys /\ m = Head(Arrivals(KeyOf[m]))}
Queued(k) == Filter(Arrivals(k), Messages \ Submitted)
TakenOver(m) ==
  IF blocked[LaneOf[m]] THEN "held"
  ELSE IF m \in Submitted THEN "job" ELSE "waiting"

(* select, case <-receiveResults with deliveries (handleReceiveResult). *)
HandleDeliveries ==
  /\ at = "select" /\ at' = "top"
  /\ receive = "ok"
  /\ receive' = "idle" /\ batch' = <<>>
  /\ IF WithinLimits(batch)
       THEN /\ st' = [m \in Messages |->
                        IF m \in ToSet(batch) THEN TakenOver(m) ELSE st[m]]
            /\ waiting' = [k \in Keys |-> waiting[k] \o Queued(k)]
            /\ activeKeys' = activeKeys
                 \cup {KeyOf[m] : m \in {n \in Submitted : KeyOf[n] # NoKey}}
            /\ workCount' = workCount + Cardinality(Submitted)
            /\ laneQueue' = [l \in Lanes |->
                 IF mode = "cumulative" THEN laneQueue[l] \o OfLane(batch, l)
                 ELSE laneQueue[l]]
            /\ laneInflight' = [l \in Lanes |->
                 laneInflight[l] + Len(OfLane(batch, l))]
            /\ inflight' = inflight + Len(batch)
            /\ UNCHANGED <<timerVars, shuttingDown>>
       ELSE /\ StartShutdown(st)
            /\ UNCHANGED <<keyVars, workCount, laneQueue, windowVars>>
  /\ UNCHANGED <<brokerVars, sessionVars, attempt, laneSettling, blocked,
                 settleVars, limit, handled, faults>>

HandleEmpty ==
  /\ at = "select" /\ at' = "top"
  /\ receive = "empty"
  /\ receive' = "idle"
  /\ later' = later \cup {"receive"}
  /\ UNCHANGED <<brokerVars, sessionVars, entryVars, keyVars, laneVars, blocked,
                 windowVars, workCount, settleVars, limit, batch, passed,
                 shuttingDown, handled, faults>>

HandleReceiveError ==
  /\ at = "select" /\ at' = "top"
  /\ receive = "err"
  /\ receive' = "idle"
  /\ StartShutdown(st)
  /\ UNCHANGED <<brokerVars, sessionVars, attempt, keyVars, laneVars, blocked,
                 windowVars, workCount, settleVars, limit, batch, handled, faults>>

-----------------------------------------------------------------------------
(* The workers. *)

WorkerStart(m) ==
  /\ st[m] = "job"
  /\ Cardinality({n \in Messages : st[n] = "run"}) < WorkerCount
  /\ st' = [st EXCEPT ![m] = "run"]
  /\ UNCHANGED <<brokerVars, sessionVars, attempt, keyVars, laneVars, blocked,
                 windowVars, workCount, settleVars, receiveVars, timerVars,
                 shuttingDown, at, handled, faults>>

(* handle: the handler returns.  A panic or an invalid outcome is a Block, *)
(* a success after ProcessTimeout a Retry.                                 *)
WorkerFinish(m, result) ==
  /\ st[m] = "run"
  /\ st' = [st EXCEPT ![m] = result]
  /\ IF result = "gotDone"
       THEN handled' = handled \cup {m} /\ UNCHANGED faults
       ELSE Fault /\ UNCHANGED handled
  /\ UNCHANGED <<brokerVars, sessionVars, attempt, keyVars, laneVars, blocked,
                 windowVars, workCount, settleVars, receiveVars, timerVars,
                 shuttingDown, at>>

-----------------------------------------------------------------------------
(* select, case <-workerResults (handleWorkerResult). *)

(* Mutant: the newest waiting delivery runs next. *)
NewestWaiting(m) ==
  {n \in Messages : /\ KeyOf[m] # NoKey
                    /\ waiting[KeyOf[m]] # <<>>
                    /\ n = Last(waiting[KeyOf[m]])}

(* Mutant: nobody is resumed when a delivery of a key finishes. *)
NobodyWaiting(m) == {}

(* releaseOrderKey: who of m's key runs next.  A head on a blocked lane    *)
(* stops its key.                                                          *)
Successor(m) ==
  {n \in Messages : /\ KeyOf[m] # NoKey
                    /\ waiting[KeyOf[m]] # <<>>
                    /\ n = Head(waiting[KeyOf[m]])
                    /\ ~blocked[LaneOf[n]]}

(* Mutant: the key becomes inactive although its next delivery runs. *)
ForgetOrderKey(m) ==
  /\ waiting' = [k \in Keys |->
       IF k = KeyOf[m] /\ Successor(m) # {} THEN Tail(waiting[k]) ELSE waiting[k]]
  /\ activeKeys' = activeKeys \ {KeyOf[m]}

ReleaseOrderKey(m) ==
  /\ waiting' = [k \in Keys |->
       IF k = KeyOf[m] /\ Successor(m) # {} THEN Tail(waiting[k]) ELSE waiting[k]]
  /\ activeKeys' = {k \in activeKeys : k = KeyOf[m] => waiting[k] # <<>>}

(* Mutant: the gaps before the last terminal delivery are skipped. *)
UpToLastTerminal(q, s) ==
  LET finished == {i \in DOMAIN q : s[q[i]] = "terminal"}
  IN  IF finished = {} THEN 0 ELSE Max(finished)

(* The length of the longest prefix of terminal deliveries of q. *)
TerminalPrefix(q, s) ==
  LET unfinished == {i \in DOMAIN q : s[q[i]] # "terminal"}
  IN  IF unfinished = {} THEN Len(q) ELSE Min(unfinished) - 1

(* queueCumulativePrefix of lane l, the other batches being those of rest. *)
QueueCumulativePrefix(l, s, rest) ==
  LET n == TerminalPrefix(laneQueue[l], s)
  IN  /\ laneQueue' = [laneQueue EXCEPT ![l] = SubSeq(@, n + 1, Len(@))]
      /\ laneSettling' = [laneSettling EXCEPT ![l] = n > 0]
      /\ settleQueue' =
           IF n = 0 THEN rest
           ELSE Append(rest, [lane |-> l, entries |-> SubSeq(laneQueue[l], 1, n)])

(* Mutant: every delivery is confirmed alone, whatever the mode. *)
SettleAlone(m, s) ==
  /\ settleQueue' = Append(settleQueue, [lane |-> LaneOf[m], entries |-> <<m>>])
  /\ UNCHANGED laneVars

(* queueSettlement of m, whose completion has led to delivery states s. *)
QueueSettlement(m, s) ==
  IF mode = "individual"
    THEN /\ settleQueue' = Append(settleQueue, [lane |-> LaneOf[m], entries |-> <<m>>])
         /\ UNCHANGED laneVars
  ELSE IF laneSettling[LaneOf[m]]
    THEN UNCHANGED <<settleQueue, laneVars>>
  ELSE QueueCumulativePrefix(LaneOf[m], s, settleQueue)

HandleDone(m) ==
  /\ at = "select" /\ at' = "top"
  /\ st[m] = "gotDone"
  /\ st' = [n \in Messages |-> IF n = m THEN "terminal"
                               ELSE IF n \in Successor(m) THEN "job" ELSE st[n]]
  /\ workCount' = workCount - 1 + Cardinality(Successor(m))
  /\ ReleaseOrderKey(m)
  /\ QueueSettlement(m, st')
  /\ UNCHANGED <<brokerVars, sessionVars, attempt, blocked, windowVars, settle,
                 receiveVars, timerVars, shuttingDown, handled, faults>>

(* failLane and pauseLane: the lane of m is blocked and Run begins to end. *)
FailLane(m) ==
  /\ blocked' = [blocked EXCEPT ![LaneOf[m]] = TRUE]
  /\ StartShutdown([st EXCEPT ![m] = "dropped"])
  /\ UNCHANGED attempt

(* m goes into the retry queue, its key stays active. *)
Reschedule(m) ==
  /\ st' = [st EXCEPT ![m] = "retry"]
  /\ later' = later \cup {m}
  /\ UNCHANGED <<passed, shuttingDown, blocked>>

RetryQueueFull ==
  Cardinality({n \in Messages : st[n] = "retry"}) >= MaxRetryMessages

(* Mutant: attempts are not limited. *)
RetryForever(m, elapsed) ==
  IF RetryQueueFull \/ elapsed
    THEN FailLane(m)
    ELSE Reschedule(m) /\ attempt' = [attempt EXCEPT ![m] = @ + 1]

(* scheduleRetry; elapsed says whether RetryMaxElapsed would be exceeded. *)
ScheduleRetry(m, elapsed) ==
  IF attempt[m] >= RetryMaxAttempts \/ RetryQueueFull \/ elapsed
    THEN FailLane(m)
    ELSE Reschedule(m) /\ attempt' = [attempt EXCEPT ![m] = @ + 1]

(* scheduleDefer: no attempt is consumed. *)
ScheduleDefer(m) ==
  IF RetryQueueFull THEN FailLane(m) ELSE Reschedule(m) /\ UNCHANGED attempt

(* Retry and Defer during shutdown: the delivery is left unconfirmed. *)
LeaveUnconfirmed(m) ==
  /\ st' = [st EXCEPT ![m] = "dropped"]
  /\ UNCHANGED <<attempt, timerVars, shuttingDown, blocked>>

HandleNotDone(m) ==
  /\ at = "select" /\ at' = "top"
  /\ workCount' = workCount - 1
  /\ \/ st[m] = "gotBlock" /\ FailLane(m)
     \/ st[m] \in {"gotRetry", "gotDefer"} /\ shuttingDown /\ LeaveUnconfirmed(m)
     \/ st[m] = "gotDefer" /\ ~shuttingDown /\ ScheduleDefer(m)
     \/ /\ st[m] = "gotRetry" /\ ~shuttingDown
        /\ \E elapsed \in BOOLEAN : ScheduleRetry(m, elapsed)
  /\ UNCHANGED <<brokerVars, sessionVars, keyVars, laneVars, windowVars,
                 settleVars, receiveVars, handled, faults>>

-----------------------------------------------------------------------------
(* The settle goroutine and the session. *)

Receipts == ToSet(Head(settleQueue).entries)
ConfirmedLane == Head(settleQueue).lane

(* Kafka's Confirm insists that the receipts are the oldest ones of their  *)
(* lane that are outstanding; the others only look them up.                *)
ReceiptsAccepted ==
  IF mode = "cumulative"
    THEN IsPrefix(Head(settleQueue).entries, tokens[ConfirmedLane])
    ELSE Receipts \subseteq ToSet(tokens[ConfirmedLane])

(* The broker's reading of the call: Kafka moves the lane's offset past    *)
(* the last record, which covers every record before it.                   *)
Covered ==
  IF mode = "individual" THEN Receipts
  ELSE {m \in Messages :
          LET log == LaneLog[ConfirmedLane]
          IN  \E i, j \in DOMAIN log :
                i <= j /\ log[i] = m /\ log[j] = Last(Head(settleQueue).entries)}

(* Session.Confirm: refused, failed (not applied), lost (applied, but the  *)
(* call returns an error) or answered.  The call may still be under way    *)
(* when the loop has ended.                                                *)
SessionConfirm(applied, answered) ==
  /\ settle = "asked"
  /\ answered => applied
  /\ IF ReceiptsAccepted /\ applied
       THEN confirmed' = confirmed \cup Covered ELSE UNCHANGED confirmed
  /\ IF ReceiptsAccepted /\ answered
       THEN /\ settle' = "ok"
            /\ tokens' = [tokens EXCEPT ![ConfirmedLane] =
                            Filter(@, Messages \ Receipts)]
       ELSE settle' = "err" /\ UNCHANGED tokens
  /\ IF answered THEN UNCHANGED faults ELSE Fault
  /\ UNCHANGED <<mode, fetched, entryVars, keyVars, laneVars, blocked, windowVars,
                 workCount, settleQueue, receiveVars, timerVars, shuttingDown,
                 at, handled>>

(* Mutant: a batch frees one place of its lane. *)
OnePerBatch(l) == IF l = ConfirmedLane THEN 1 ELSE 0

(* The places of lane l that the confirmed batch frees. *)
Freed(l) == IF l = ConfirmedLane THEN Cardinality(Receipts) ELSE 0

(* select, case <-settleResults (handleSettleResult). *)
HandleSettled ==
  /\ at = "select" /\ at' = "top"
  /\ settle = "ok"
  /\ settle' = "idle"
  /\ st' = [m \in Messages |-> IF m \in Receipts THEN "settled" ELSE st[m]]
  /\ inflight' = inflight - Cardinality(Receipts)
  /\ laneInflight' = [l \in Lanes |-> laneInflight[l] - Freed(l)]
  /\ IF mode = "cumulative"
       THEN QueueCumulativePrefix(ConfirmedLane, st, Tail(settleQueue))
       ELSE settleQueue' = Tail(settleQueue) /\ UNCHANGED laneVars
  /\ UNCHANGED <<brokerVars, sessionVars, attempt, keyVars, blocked, workCount,
                 receiveVars, timerVars, shuttingDown, handled, faults>>

HandleSettleError ==
  /\ at = "select" /\ at' = "top"
  /\ settle = "err"
  /\ settle' = "idle"
  /\ later' = later \cup {"settle"}
  /\ UNCHANGED <<brokerVars, sessionVars, entryVars, keyVars, laneVars, blocked,
                 windowVars, workCount, settleQueue, receiveVars, passed,
                 shuttingDown, handled, faults>>

-----------------------------------------------------------------------------
HandleReceive == HandleDeliveries \/ HandleEmpty \/ HandleReceiveError
HandleSettle == HandleSettled \/ HandleSettleError
HandleResult(m) == HandleDone(m) \/ HandleNotDone(m)
SessionReceives == \E b \in Deliverable : SessionReceive(b)
SessionConfirms == \E applied, answered \in BOOLEAN : SessionConfirm(applied, answered)
Finish(m) == \E result \in Results : WorkerFinish(m, result)

Next ==
  \/ LoopTop \/ TimerFires \/ Cancel \/ HandleReceive \/ HandleSettle
  \/ SessionReceives \/ SessionConfirms
  \/ \E answer \in {"empty", "err"} : SessionReceiveNothing(answer)
  \/ \E m \in Messages : WorkerStart(m) \/ Finish(m) \/ HandleResult(m)
  \/ \E t \in Timers : Elapse(t)
  \/ Crash \/ Restart

Spec == Init /\ [][Next]_vars

(* The goroutines and the clock make progress, the session answers, a      *)
(* handler returns, an ended process is started again.  Go's select picks  *)
(* among the cases that are ready at random, so a case that is ready again *)
(* and again is taken: strong fairness for the cases.                      *)
Fairness ==
  /\ WF_vars(LoopTop) /\ WF_vars(Restart)
  /\ WF_vars(SessionReceives) /\ WF_vars(SessionConfirms)
  /\ WF_vars(\E answer \in {"empty", "err"} : SessionReceiveNothing(answer))
  /\ SF_vars(HandleReceive) /\ SF_vars(HandleSettle) /\ SF_vars(TimerFires)
  /\ \A m \in Messages :
       WF_vars(WorkerStart(m)) /\ WF_vars(Finish(m)) /\ SF_vars(HandleResult(m))
  /\ \A t \in Timers : WF_vars(Elapse(t))

FairSpec == Spec /\ Fairness

-----------------------------------------------------------------------------
(* Properties. *)

(* The broker is only told to forget messages whose handler completed or   *)
(* discarded them, whatever the order in which workers finish, retries and *)
(* confirmations fail and generations end.  With cumulative settlement a   *)
(* confirmation covers every earlier message of the lane, so this is what  *)
(* queueCumulativePrefix is for.                                           *)
ConfirmedWereHandled == confirmed \subseteq handled

SameKey(m, n) == m # n /\ KeyOf[m] = KeyOf[n] /\ KeyOf[m] # NoKey
Begun == AtWorker \cup {"retry", "dropped"}

(* dispatch and releaseOrderKey: of one order key, at most one delivery of *)
(* a generation is begun and unfinished, on whichever lanes they came.  A  *)
(* delivery keeps its key while it waits for a retry, after a Defer, and   *)
(* when it is given up.                                                    *)
KeySerial ==
  \A m, n \in Messages : SameKey(m, n) => ~(st[m] \in Begun /\ st[n] \in Begun)

(* Of one key and one lane, deliveries begin in the order the session      *)
(* returned them, each after its predecessor has finished.                 *)
KeyOrder ==
  \A l \in Lanes : \A i, j \in DOMAIN tokens[l] :
    /\ i < j
    /\ SameKey(tokens[l][i], tokens[l][j])
    /\ st[tokens[l][j]] \in Begun \cup {"terminal"}
    => st[tokens[l][i]] \in {"terminal", "settled"}

(* The counters that bound the window are exact, so the window is bounded  *)
(* and never leaks; submit can then never block on the job channel, whose  *)
(* capacity is MaxInflightMessages.                                        *)
WindowExact ==
  /\ inflight = Cardinality(Tracked) /\ inflight <= MaxInflightMessages
  /\ \A l \in Lanes :
       /\ laneInflight[l] = Cardinality({m \in Tracked : LaneOf[m] = l})
       /\ laneInflight[l] <= MaxInflightPerLane
  /\ at \in {"top", "select"} =>
       workCount = Cardinality({m \in Messages : st[m] \in AtWorker})

(* A session that keeps to the limit of the request is never found to have *)
(* exceeded a limit when its answer is read (validateReceived), although   *)
(* the limit was computed before the answer and per batch, not per lane:   *)
(* otherwise Run would fail on conforming input.                           *)
ReceiveFits == receive = "ok" => WithinLimits(batch)

(* The session never refuses the receipts of a batch, in particular Kafka  *)
(* never finds that they are not a continuous prefix: a refused batch      *)
(* would be retried for ever and hold up the whole settlement queue.       *)
ReceiptsFit == settle = "asked" => ReceiptsAccepted

(* Run's promise for a shutdown that ends in time: everything taken over   *)
(* has been processed and everything that may be confirmed is confirmed.   *)
(* What is left behind is a completed delivery behind an unfinished one of *)
(* its lane, where settlement is cumulative, or a delivery whose key is    *)
(* held by one that was given up or stopped at a blocked lane.             *)
DrainsBeforeStop ==
  at = "drained" =>
    /\ \A m \in Messages : st[m] \notin AtWorker \cup {"retry"}
    /\ \A m \in Messages : st[m] = "terminal" =>
         \E i, j \in DOMAIN laneQueue[LaneOf[m]] :
           /\ i < j /\ laneQueue[LaneOf[m]][j] = m
           /\ st[laneQueue[LaneOf[m]][i]] # "terminal"
    /\ \A m \in Messages : st[m] = "waiting" =>
         \/ \E n \in Messages : SameKey(m, n) /\ st[n] = "dropped"
         \/ blocked[LaneOf[Head(waiting[KeyOf[m]])]]

(* After finitely many crashes, failed calls and non-final outcomes every  *)
(* message is confirmed: no retry, deferral, backoff or waiting delivery   *)
(* is forgotten, and the loop is woken for each of them (nextWake).        *)
EveryMessageConfirmed == \A m \in Messages : <>(m \in confirmed)
=============================================================================
