------------------------ MODULE LifecycleScheduler ------------------------
(***************************************************************************)
(* The delivery path of linkd's lifecycle stage: the Redis mailbox of each *)
(* fingerprint lane, the signal stream with its consumer group, the        *)
(* per-mailbox lease, the handler that drains a mailbox, and the control   *)
(* plane's stream trimmer.                                                 *)
(*                                                                         *)
(*   lifecycle/mailbox/store.go        Enqueue, Peek, AckHead              *)
(*   consume/redisstream/session.go    Receive, Claim, Confirm             *)
(*   lifecycle/scheduler/lock.go       Acquire, Release, LeaseExpire       *)
(*   lifecycle/scheduler/handler.go    Handle and drain                    *)
(*   controlplane/redisstream/manager.go  the trimmer                      *)
(*                                                                         *)
(* A consumer is one handler invocation slot of one lifecycle process; a   *)
(* process that handles several signals at once is several consumers.      *)
(* Every Redis command or Lua script is one step, and between any two of   *)
(* them other consumers, the cleaner and the trimmer may run.  What        *)
(* Processor.ProcessEvent does to alerts is the subject of AlertProcessor; *)
(* here it is the promise "on success the event has a result".             *)
(***************************************************************************)
EXTENDS Integers, Sequences, FiniteSets

CONSTANTS
  Mailboxes,      \* correlation keys: tenant, event source and fingerprint
  Events,         \* event ids persisted by the cleaner
  Consumers,      \* handler invocation slots over all lifecycle processes
  MailboxOf,      \* the lane of each event (mailbox.CorrelationKey)
  MaxPending,     \* mailbox.Config.MaxPendingPerMailbox
  MaxDrain,       \* scheduler.Config.MaxDrainEvents
  MaxEntries,     \* control plane: soft length above which the stream is trimmed
  None,           \* "no event"
  Free,           \* the lease key does not exist
  Stale,          \* the lease key exists but no live handler knows its token
  MaxRefs,        \* bound: how often the cleaner may enqueue the same event
  MaxSignals,     \* bound: entries ever added to the signal stream
  MaxFaults       \* bound: crashes, lost replies, lost leases, failed steps

ASSUME MailboxOfType == MailboxOf \in [Events -> Mailboxes]
ASSUME LimitsType == /\ MaxPending \in Nat \ {0}
                     /\ MaxDrain \in Nat \ {0}
                     /\ MaxEntries \in Nat
ASSUME BoundsType == MaxRefs \in Nat /\ MaxSignals \in Nat /\ MaxFaults \in Nat
ASSUME LeaseValues == Free \notin Consumers /\ Stale \notin Consumers /\ Free # Stale
ASSUME NoneNotEvent == None \notin Events

VARIABLES
  mailbox,     \* mailbox[m]: the Redis list of event references of lane m
  refs,        \* refs[e]: how many times the cleaner has enqueued e
  arrival,     \* arrival[m]: the events of lane m in the order first enqueued
  done,        \* events whose result is stored
  lastSig,     \* id of the newest entry ever added to the signal stream
  stream,      \* ids of the entries the signal stream still holds
  sigMailbox,  \* sigMailbox[i]: the mailbox entry i points to
  delivered,   \* the consumer group's last-delivered-id
  pel,         \* the consumer group's pending entries list
  lease,       \* lease[m]: a consumer, Free or Stale
  pc,          \* pc[c]: where consumer c is in receive - Handle - confirm
  sig,         \* sig[c]: the stream entry c is handling, 0 if none
  ev,          \* ev[c]: the head that drain peeked
  drained,     \* drained[c]: drain's counter "processed"
  outcome,     \* outcome[c]: what Handle will return
  mgrPc,       \* the trimmer: which command it runs next
  boundary,    \* the trimmer: the MINID it computed
  faults       \* faults spent so far

redisVars == <<mailbox, lastSig, stream, sigMailbox, delivered, pel, lease>>
consumerVars == <<pc, sig, ev, drained, outcome>>
mgrVars == <<mgrPc, boundary>>
historyVars == <<refs, arrival, done>>
vars == <<redisVars, consumerVars, mgrVars, historyVars, faults>>

SignalIds == 1..MaxSignals

LaneTypes ==
  /\ mailbox \in [Mailboxes -> Seq(Events)]
  /\ refs \in [Events -> 0..MaxRefs]
  /\ arrival \in [Mailboxes -> Seq(Events)]
  /\ done \in SUBSET Events
  /\ lease \in [Mailboxes -> Consumers \cup {Free, Stale}]

StreamTypes ==
  /\ lastSig \in 0..MaxSignals
  /\ stream \in SUBSET SignalIds
  /\ sigMailbox \in [SignalIds -> Mailboxes \cup {None}]
  /\ delivered \in 0..MaxSignals
  /\ pel \in SUBSET SignalIds
  /\ mgrPc \in {"idle", "groups", "pending", "trim"}
  /\ boundary \in 0..(MaxSignals + 1)
  /\ faults \in 0..MaxFaults

HandlerTypes ==
  /\ pc \in [Consumers -> {"idle", "ready", "drain", "process", "ack", "release", "settle"}]
  /\ sig \in [Consumers -> 0..MaxSignals]
  /\ ev \in [Consumers -> Events \cup {None}]
  /\ drained \in [Consumers -> 0..MaxDrain]
  /\ outcome \in [Consumers -> {"none", "complete", "retry", "defer"}]

TypeOK == LaneTypes /\ StreamTypes /\ HandlerTypes

Init ==
  /\ mailbox = [m \in Mailboxes |-> <<>>]
  /\ refs = [e \in Events |-> 0]
  /\ arrival = [m \in Mailboxes |-> <<>>]
  /\ done = {}
  /\ lastSig = 0
  /\ stream = {}
  /\ sigMailbox = [i \in SignalIds |-> None]
  /\ delivered = 0
  /\ pel = {}
  /\ lease = [m \in Mailboxes |-> Free]
  /\ pc = [c \in Consumers |-> "idle"]
  /\ sig = [c \in Consumers |-> 0]
  /\ ev = [c \in Consumers |-> None]
  /\ drained = [c \in Consumers |-> 0]
  /\ outcome = [c \in Consumers |-> "none"]
  /\ mgrPc = "idle"
  /\ boundary = 0
  /\ faults = 0

Fault == faults < MaxFaults /\ faults' = faults + 1

(* The mailbox whose signal consumer c handles. *)
Lane(c) == sigMailbox[sig[c]]

-----------------------------------------------------------------------------
(* The cleaner's side: mailbox.Store.EnqueueBatch, one script per event. *)

(* XADD of a signal that points to mailbox m. *)
AddSignal(m) ==
  /\ lastSig < MaxSignals
  /\ lastSig' = lastSig + 1
  /\ stream' = stream \cup {lastSig + 1}
  /\ sigMailbox' = [sigMailbox EXCEPT ![lastSig + 1] = m]

(* enqueueScript: refused at the limit; a mailbox that was empty gets its  *)
(* signal before the reference is pushed.                                  *)
Enqueue(e) ==
  LET m == MailboxOf[e] IN
  /\ refs[e] < MaxRefs
  /\ Len(mailbox[m]) < MaxPending
  /\ IF mailbox[m] = <<>> THEN AddSignal(m)
                          ELSE UNCHANGED <<lastSig, stream, sigMailbox>>
  /\ mailbox' = [mailbox EXCEPT ![m] = Append(@, e)]
  /\ refs' = [refs EXCEPT ![e] = @ + 1]
  /\ arrival' = IF refs[e] = 0 THEN [arrival EXCEPT ![m] = Append(@, e)] ELSE arrival
  /\ UNCHANGED <<done, delivered, pel, lease, consumerVars, mgrVars, faults>>

(* Mutant: RPUSH comes before XADD, and the script dies in between. *)
TornAfterPush(e) ==
  LET m == MailboxOf[e] IN
  /\ refs[e] < MaxRefs
  /\ mailbox[m] = <<>>
  /\ mailbox' = [mailbox EXCEPT ![m] = <<e>>]
  /\ Fault
  /\ UNCHANGED <<lastSig, stream, sigMailbox, refs, arrival, done, delivered, pel, lease,
                 consumerVars, mgrVars>>

(* The script dies between its two writes: Redis does not roll back the    *)
(* first one.  The cleaner sees an error and will enqueue again.           *)
EnqueueTorn(e) ==
  LET m == MailboxOf[e] IN
  /\ refs[e] < MaxRefs
  /\ mailbox[m] = <<>>
  /\ AddSignal(m)
  /\ Fault
  /\ UNCHANGED <<mailbox, refs, arrival, done, delivered, pel, lease, consumerVars, mgrVars>>

-----------------------------------------------------------------------------
(* The redis stream session of the consume runtime. *)

(* XREADGROUP ">": the oldest entry after the group's cursor enters the    *)
(* pending entries list.                                                   *)
Receive(c) ==
  /\ pc[c] = "idle"
  /\ \E i \in stream :
       /\ i > delivered
       /\ \A j \in stream : j > delivered => i <= j
       /\ delivered' = i
       /\ pel' = pel \cup {i}
       /\ sig' = [sig EXCEPT ![c] = i]
  /\ pc' = [pc EXCEPT ![c] = "ready"]
  /\ UNCHANGED <<mailbox, lastSig, stream, sigMailbox, lease, ev, drained, outcome,
                 mgrVars, historyVars, faults>>

(* Mutant: idle entries are never claimed. *)
NeverClaims(c) == FALSE

(* XAUTOCLAIM of a pending entry that has been idle for long enough: its   *)
(* consumer crashed, or keeps deferring.                                   *)
Claim(c) ==
  /\ pc[c] = "idle"
  /\ \E i \in pel \cap stream : sig' = [sig EXCEPT ![c] = i]
  /\ pc' = [pc EXCEPT ![c] = "ready"]
  /\ UNCHANGED <<redisVars, ev, drained, outcome, mgrVars, historyVars, faults>>

(* XACK, whoever the entry belongs to by now. *)
Confirm(c) ==
  /\ pc[c] = "settle"
  /\ pel' = pel \ {sig[c]}
  /\ pc' = [pc EXCEPT ![c] = "idle"]
  /\ sig' = [sig EXCEPT ![c] = 0]
  /\ UNCHANGED <<mailbox, lastSig, stream, sigMailbox, delivered, lease, ev, drained, outcome,
                 mgrVars, historyVars, faults>>

(* XACK is applied but its reply is lost: the batch stays queued and the   *)
(* runtime confirms it again.                                              *)
ConfirmLost(c) ==
  /\ pc[c] = "settle"
  /\ pel' = pel \ {sig[c]}
  /\ Fault
  /\ UNCHANGED <<mailbox, lastSig, stream, sigMailbox, delivered, lease, consumerVars,
                 mgrVars, historyVars>>

-----------------------------------------------------------------------------
(* Handler.Handle. *)

(* SET NX PX.  When the key exists Handle returns Defer, which changes     *)
(* nothing: the delivery stays with this consumer and is handled again.    *)
Acquire(c) ==
  /\ pc[c] = "ready"
  /\ lease[Lane(c)] = Free
  /\ lease' = [lease EXCEPT ![Lane(c)] = c]
  /\ pc' = [pc EXCEPT ![c] = "drain"]
  /\ drained' = [drained EXCEPT ![c] = 0]
  /\ outcome' = [outcome EXCEPT ![c] = "none"]
  /\ UNCHANGED <<mailbox, lastSig, stream, sigMailbox, delivered, pel, sig, ev,
                 mgrVars, historyVars, faults>>

(* The key is set but the reply is lost: Handle returns Retry, and nobody  *)
(* holds the token until the key expires.                                  *)
AcquireLost(c) ==
  /\ pc[c] = "ready"
  /\ lease[Lane(c)] = Free
  /\ lease' = [lease EXCEPT ![Lane(c)] = Stale]
  /\ Fault
  /\ UNCHANGED <<mailbox, lastSig, stream, sigMailbox, delivered, pel, consumerVars,
                 mgrVars, historyVars>>

(* Mutant: the newest reference is read instead of the oldest. *)
NewestReference(m) == mailbox[m][Len(mailbox[m])]

(* LINDEX 0 of a mailbox that is not empty. *)
HeadReference(m) == Head(mailbox[m])

(* drain: Peek.  An empty mailbox completes the signal. *)
Peek(c) ==
  /\ pc[c] = "drain"
  /\ IF mailbox[Lane(c)] = <<>>
     THEN /\ pc' = [pc EXCEPT ![c] = "release"]
          /\ outcome' = [outcome EXCEPT ![c] = "complete"]
          /\ UNCHANGED ev
     ELSE /\ pc' = [pc EXCEPT ![c] = "process"]
          /\ ev' = [ev EXCEPT ![c] = HeadReference(Lane(c))]
          /\ UNCHANGED outcome
  /\ UNCHANGED <<redisVars, sig, drained, mgrVars, historyVars, faults>>

(* drain: ProcessEvent succeeded. *)
Process(c) ==
  /\ pc[c] = "process"
  /\ done' = done \cup {ev[c]}
  /\ pc' = [pc EXCEPT ![c] = "ack"]
  /\ UNCHANGED <<redisVars, sig, ev, drained, outcome, mgrVars, refs, arrival, faults>>

(* Mutant: an attempt that fails clears the event's stored result. *)
ProcessRollsBack(c) ==
  /\ pc[c] = "process"
  /\ done' = done \ {ev[c]}
  /\ pc' = [pc EXCEPT ![c] = "release"]
  /\ outcome' = [outcome EXCEPT ![c] = "retry"]
  /\ Fault
  /\ UNCHANGED <<redisVars, sig, ev, drained, mgrVars, refs, arrival>>

(* ProcessEvent returns an error, before or after the result was stored. *)
ProcessFails(c) ==
  /\ pc[c] = "process"
  /\ done' \in {done, done \cup {ev[c]}}
  /\ pc' = [pc EXCEPT ![c] = "release"]
  /\ outcome' = [outcome EXCEPT ![c] = "retry"]
  /\ Fault
  /\ UNCHANGED <<redisVars, sig, ev, drained, mgrVars, refs, arrival>>

(* Mutant: the head is popped whatever it is. *)
HasHead(m, e) == mailbox[m] # <<>>

(* ackHeadScript pops the head only while it is still the event given. *)
IsHead(m, e) == mailbox[m] # <<>> /\ Head(mailbox[m]) = e

PopHead(m, e) ==
  /\ IsHead(m, e)
  /\ mailbox' = [mailbox EXCEPT ![m] = Tail(@)]

(* Mutant: one event more than the limit. *)
DrainsOnAtLimit(n) == n <= MaxDrain

(* The loop condition of drain. *)
DrainsOn(n) == n < MaxDrain

(* drain: AckHead popped the event; go on until the mailbox is empty or    *)
(* MaxDrainEvents were processed.                                          *)
AckHead(c) ==
  /\ pc[c] = "ack"
  /\ PopHead(Lane(c), ev[c])
  /\ drained' = [drained EXCEPT ![c] = @ + 1]
  /\ IF DrainsOn(drained[c] + 1)
     THEN /\ pc' = [pc EXCEPT ![c] = "drain"]
          /\ UNCHANGED outcome
     ELSE /\ pc' = [pc EXCEPT ![c] = "release"]
          /\ outcome' = [outcome EXCEPT ![c] = "defer"]
  /\ UNCHANGED <<lastSig, stream, sigMailbox, delivered, pel, lease, sig, ev,
                 mgrVars, historyVars, faults>>

(* AckHead found another head, or none: somebody else drained meanwhile. *)
AckRefused(c) ==
  /\ pc[c] = "ack"
  /\ ~IsHead(Lane(c), ev[c])
  /\ pc' = [pc EXCEPT ![c] = "release"]
  /\ outcome' = [outcome EXCEPT ![c] = "retry"]
  /\ UNCHANGED <<redisVars, sig, ev, drained, mgrVars, historyVars, faults>>

(* AckHead popped the event but its reply is lost. *)
AckLost(c) ==
  /\ pc[c] = "ack"
  /\ PopHead(Lane(c), ev[c])
  /\ pc' = [pc EXCEPT ![c] = "release"]
  /\ outcome' = [outcome EXCEPT ![c] = "retry"]
  /\ Fault
  /\ UNCHANGED <<lastSig, stream, sigMailbox, delivered, pel, lease, sig, ev, drained,
                 mgrVars, historyVars>>

(* renewLoop fails and cancels the work, or the process timeout ends it.   *)
(* A renewal that failed while drain was returning still wins over         *)
(* "complete".  When the lease is gone this is certain to happen, so it    *)
(* spends no fault.                                                        *)
Cancel(c) ==
  /\ pc[c] \in {"drain", "process", "ack"} \/ (pc[c] = "release" /\ outcome[c] # "retry")
  /\ pc' = [pc EXCEPT ![c] = "release"]
  /\ outcome' = [outcome EXCEPT ![c] = "retry"]
  /\ \/ lease[Lane(c)] # c /\ UNCHANGED faults
     \/ lease[Lane(c)] = c /\ Fault
  /\ UNCHANGED <<redisVars, sig, ev, drained, mgrVars, historyVars>>

(* Mutant: a completed signal is handled again like any other. *)
NeverCompletes(c) ==
  /\ pc' = [pc EXCEPT ![c] = "ready"]
  /\ outcome' = [outcome EXCEPT ![c] = "none"]
  /\ ev' = [ev EXCEPT ![c] = None]
  /\ drained' = [drained EXCEPT ![c] = 0]

(* The end of Handle: a completed signal goes to confirmation, any other   *)
(* is handled again.                                                       *)
FinishHandle(c) ==
  /\ pc' = [pc EXCEPT ![c] = IF outcome[c] = "complete" THEN "settle" ELSE "ready"]
  /\ outcome' = [outcome EXCEPT ![c] = "none"]
  /\ ev' = [ev EXCEPT ![c] = None]
  /\ drained' = [drained EXCEPT ![c] = 0]

(* Mutant: the key is deleted whoever set it. *)
AnyToken(m, c) == TRUE

(* releaseScript: the key is deleted only if the token still matches. *)
TokenMatches(m, c) == lease[m] = c

Release(c) ==
  /\ pc[c] = "release"
  /\ lease' = IF TokenMatches(Lane(c), c) THEN [lease EXCEPT ![Lane(c)] = Free] ELSE lease
  /\ FinishHandle(c)
  /\ UNCHANGED <<mailbox, lastSig, stream, sigMailbox, delivered, pel, sig,
                 mgrVars, historyVars, faults>>

(* The release does not reach Redis; that is only logged. *)
ReleaseLost(c) ==
  /\ pc[c] = "release"
  /\ lease[Lane(c)] = c
  /\ lease' = [lease EXCEPT ![Lane(c)] = Stale]
  /\ FinishHandle(c)
  /\ Fault
  /\ UNCHANGED <<mailbox, lastSig, stream, sigMailbox, delivered, pel, sig,
                 mgrVars, historyVars>>

(* The process dies, or its runtime fails the lane (retries exhausted) and *)
(* is restarted: the pending entry and the lease key stay behind.          *)
Crash(c) ==
  /\ pc[c] # "idle"
  /\ lease' = [m \in Mailboxes |-> IF lease[m] = c THEN Stale ELSE lease[m]]
  /\ pc' = [pc EXCEPT ![c] = "idle"]
  /\ sig' = [sig EXCEPT ![c] = 0]
  /\ ev' = [ev EXCEPT ![c] = None]
  /\ drained' = [drained EXCEPT ![c] = 0]
  /\ outcome' = [outcome EXCEPT ![c] = "none"]
  /\ Fault
  /\ UNCHANGED <<mailbox, lastSig, stream, sigMailbox, delivered, pel, mgrVars, historyVars>>

(* The TTL passes: surely when nobody renews, by a fault when the holder   *)
(* could not renew in time.                                                *)
LeaseExpire(m) ==
  /\ lease[m] # Free
  /\ lease' = [lease EXCEPT ![m] = Free]
  /\ \/ lease[m] = Stale /\ UNCHANGED faults
     \/ lease[m] \in Consumers /\ Fault
  /\ UNCHANGED <<mailbox, lastSig, stream, sigMailbox, delivered, pel, consumerVars,
                 mgrVars, historyVars>>

-----------------------------------------------------------------------------
(* Manager.ReconcileOnce: separate Redis commands, none of them atomic     *)
(* with the next.                                                          *)

(* XINFO STREAM: only a stream above its soft limit is trimmed. *)
InspectStream ==
  /\ mgrPc = "idle"
  /\ Cardinality(stream) > MaxEntries
  /\ mgrPc' = "groups"
  /\ UNCHANGED <<redisVars, consumerVars, boundary, historyVars, faults>>

(* Mutant: pending entries are not looked at. *)
IgnorePending ==
  /\ mgrPc = "groups"
  /\ mgrPc' = "trim"
  /\ boundary' = delivered + 1
  /\ UNCHANGED <<redisVars, consumerVars, historyVars, faults>>

(* XINFO GROUPS: with nothing pending the boundary is the successor of     *)
(* last-delivered-id; otherwise XPENDING decides.                          *)
InspectGroups ==
  /\ mgrPc = "groups"
  /\ IF pel = {} THEN mgrPc' = "trim" /\ boundary' = delivered + 1
                 ELSE mgrPc' = "pending" /\ UNCHANGED boundary
  /\ UNCHANGED <<redisVars, consumerVars, historyVars, faults>>

(* XPENDING - + 1: the oldest pending entry; if the last one was confirmed *)
(* meanwhile this round does not trim.                                     *)
InspectPending ==
  /\ mgrPc = "pending"
  /\ IF pel = {}
     THEN mgrPc' = "idle" /\ UNCHANGED boundary
     ELSE /\ mgrPc' = "trim"
          /\ \E i \in pel : (\A j \in pel : i <= j) /\ boundary' = i
  /\ UNCHANGED <<redisVars, consumerVars, historyVars, faults>>

(* XTRIM MINID ~ boundary LIMIT n: some prefix of the entries below the    *)
(* boundary disappears.                                                    *)
Trim ==
  /\ mgrPc = "trim"
  /\ \E b \in 0..boundary : stream' = {i \in stream : i >= b}
  /\ mgrPc' = "idle"
  /\ boundary' = 0
  /\ UNCHANGED <<mailbox, lastSig, sigMailbox, delivered, pel, lease,
                 consumerVars, historyVars, faults>>

(* A command fails: the cycle ends and the manager is restarted. *)
InspectFails ==
  /\ mgrPc # "idle"
  /\ mgrPc' = "idle"
  /\ boundary' = 0
  /\ UNCHANGED <<redisVars, consumerVars, historyVars, faults>>

-----------------------------------------------------------------------------
Handle(c) ==
  \/ Acquire(c) \/ Peek(c) \/ Process(c) \/ AckHead(c) \/ AckRefused(c)
  \/ Release(c) \/ Confirm(c)

HandleFails(c) ==
  \/ AcquireLost(c) \/ ProcessFails(c) \/ AckLost(c) \/ Cancel(c)
  \/ ReleaseLost(c) \/ ConfirmLost(c) \/ Crash(c)

Reconcile == InspectStream \/ InspectGroups \/ InspectPending \/ Trim \/ InspectFails

Next ==
  \/ \E e \in Events : Enqueue(e) \/ EnqueueTorn(e)
  \/ \E c \in Consumers : Receive(c) \/ Claim(c) \/ Handle(c) \/ HandleFails(c)
  \/ \E m \in Mailboxes : LeaseExpire(m)
  \/ Reconcile

Spec == Init /\ [][Next]_vars

(***************************************************************************)
(* Fairness.  A process that has spare capacity keeps calling Receive,     *)
(* which claims idle entries and reads new ones; a handler that has been   *)
(* given a delivery is run by a worker goroutine; a Redis key with a TTL   *)
(* expires.  The lease is free infinitely often rather than for ever, so   *)
(* Acquire needs strong fairness: a deferred delivery is retried after     *)
(* LockRetryDelay for as long as the process lives.  Nothing is assumed    *)
(* about the cleaner, the trimmer or faults.                               *)
(***************************************************************************)
Fairness ==
  /\ \A c \in Consumers : /\ WF_vars(Receive(c) \/ Claim(c))
                          /\ SF_vars(Acquire(c))
                          /\ WF_vars(Handle(c))
  /\ \A m \in Mailboxes : WF_vars(LeaseExpire(m) /\ lease[m] = Stale)

FairSpec == Spec /\ Fairness

-----------------------------------------------------------------------------
(* A signal the group still owes to somebody: not yet read, or pending. *)
Owed(i) == i > delivered \/ i \in pel

(* No lost wakeup (store.go:95, lifecycle.md section 3): a mailbox that    *)
(* holds references has a signal in the stream that is unread or pending.  *)
(* It has to survive a drain that completes while the cleaner enqueues,    *)
(* redelivered and duplicate signals, a torn enqueue script, confirmation  *)
(* by a consumer that no longer owns the entry, and trimming.              *)
NoLostWakeup ==
  \A m \in Mailboxes :
    mailbox[m] # <<>> => \E i \in stream : sigMailbox[i] = m /\ Owed(i)

(* The trimmer removes confirmed entries only (manager.go:97): whatever    *)
(* the group still owes is in the stream, although the boundary was        *)
(* computed from commands that other clients ran between.                  *)
TrimKeepsOwed == \A i \in 1..lastSig : Owed(i) => i \in stream

(* Nothing enqueued is dropped (handler.go:174): an event reference leaves *)
(* its mailbox only after the event's result is stored, also when a        *)
(* consumer that lost its lease acknowledges late.                         *)
NoEventLost ==
  \A e \in Events :
    refs[e] > 0 => e \in done \/ \E k \in 1..Len(mailbox[MailboxOf[e]]) :
                                     mailbox[MailboxOf[e]][k] = e

(* The events of a lane get their results in the order of their first      *)
(* arrival, without any fencing of the lease: an event is processed only   *)
(* when everything that arrived before it is done.                         *)
InArrivalOrder ==
  \A m \in Mailboxes : \A k \in 1..Len(arrival[m]) :
    arrival[m][k] \in done => \A j \in 1..k : arrival[m][j] \in done

(* The abstract lanes, seen through the scheduler's history. *)
L == INSTANCE EventLanes WITH Lanes <- Mailboxes, LaneOf <- MailboxOf,
                              queue <- arrival, decided <- done

(* The scheduler implements the lanes (handler.go:146, store.go:95): seen  *)
(* from outside, at-least-once signals, a lease without fencing, repeated  *)
(* enqueues, crashes and trimming amount to a queue per lane whose events  *)
(* are decided one at a time from its front, each once and for good.       *)
LanesImplemented == L!Spec

LeaseTakenOnlyFromItsHolder ==
  \A m \in Mailboxes : \A c \in Consumers :
    lease[m] = c /\ lease'[m] # c =>
      \/ faults' > faults
      \/ pc[c] = "release" /\ pc'[c] # "release"

(* lock.go's release and renewal compare tokens: a handler that lost its   *)
(* lease never takes the lease away from the new owner; short of a fault,  *)
(* a consumer loses a lease only by its own release.                       *)
LeaseHandedOverSafely == [][LeaseTakenOnlyFromItsHolder]_vars

(* Every enqueued event is eventually processed and its mailbox drained,   *)
(* when faults are finitely many.                                          *)
EveryEventProcessed == \A e \in Events : refs[e] > 0 ~> e \in done

(* Redundant signals do not circulate for ever: when the cleaner and the   *)
(* faults have stopped, every mailbox is drained and every signal confirmed. *)
SettlesDown ==
  <>[](pel = {} /\ delivered = lastSig /\ \A m \in Mailboxes : mailbox[m] = <<>>)
=============================================================================
