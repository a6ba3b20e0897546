------------------------ MODULE LifecycleOrderProofs ------------------------
(***************************************************************************)
(* Proofs that LifecycleScheduler neither drops nor overtakes an event,    *)
(* although the lease is not fenced and signals are delivered again, and   *)
(* that it implements EventLanes.                                          *)
(***************************************************************************)
EXTENDS LifecycleSchedulerProofs

USE DEF SignalIds, redisVars, consumerVars, mgrVars, historyVars

-----------------------------------------------------------------------------
(* Order.  In a mailbox, every reference to an event stands behind         *)
(* references to all events that arrived before it and are not done, so    *)
(* that the head is always the oldest one that is not done.                *)

HandledState ==
  /\ \A e \in done : refs[e] > 0
  /\ \A c \in Consumers :
       /\ pc[c] = "ack" => ev[c] \in done
       /\ pc[c] \in {"process", "ack"} =>
            /\ refs[ev[c]] > 0
            /\ \A m \in Mailboxes : \A k \in 1..Len(arrival[m]) :
                 arrival[m][k] = ev[c] => \A j \in 1..(k - 1) : arrival[m][j] \in done

Before(m, e, p) == \E q \in 1..(p - 1) : mailbox[m][q] = e

QueueState ==
  \A m \in Mailboxes :
    /\ \A p \in 1..Len(mailbox[m]) : /\ refs[mailbox[m][p]] > 0
                                     /\ MailboxOf[mailbox[m][p]] = m
    /\ \A k \in 1..Len(arrival[m]) : /\ refs[arrival[m][k]] > 0
                                     /\ MailboxOf[arrival[m][k]] = m
    /\ \A p \in 1..Len(mailbox[m]) : \A k \in 1..Len(arrival[m]) :
         mailbox[m][p] = arrival[m][k] =>
           \A j \in 1..(k - 1) : arrival[m][j] \in done \/ Before(m, arrival[m][j], p)

OrderInv == BaseInv /\ NoEventLost /\ InArrivalOrder /\ HandledState /\ QueueState

-----------------------------------------------------------------------------
(* The steps by their effect on references and results.                    *)

(* Nothing is queued, popped or finished, and no handler takes an event.   *)
Neutral ==
  /\ UNCHANGED <<mailbox, refs, arrival, done>>
  /\ \A c \in Consumers :
       pc'[c] \in {"process", "ack"} => pc'[c] = pc[c] /\ ev'[c] = ev[c]

(* Handler c finishes its event, or fails with or without its result. *)
Finishes(c) ==
  /\ pc[c] = "process"
  /\ done' \in {done, done \cup {ev[c]}}
  /\ pc'[c] = "ack" => ev[c] \in done'
  /\ pc'[c] # "process"
  /\ \A d \in Consumers : d # c => pc'[d] = pc[d]
  /\ UNCHANGED <<mailbox, refs, arrival, ev>>

(* Handler c pops the head it has finished. *)
Pops(c) ==
  /\ pc[c] = "ack"
  /\ PopHead(Lane(c), ev[c])
  /\ pc'[c] \notin {"process", "ack"}
  /\ \A d \in Consumers : d # c => pc'[d] = pc[d]
  /\ UNCHANGED <<refs, arrival, done, ev>>

(* Every step of the handlers, the cleaner, Redis and the trimmer does one *)
(* of five things to the order of a lane.                                  *)
LEMMA StepKinds ==
  ASSUME BaseInv, [Next]_vars
  PROVE  \/ Neutral
         \/ \E e \in Events : Enqueue(e)
         \/ \E c \in Consumers : Peek(c) \/ Finishes(c) \/ Pops(c)
<1> USE DEF BaseInv, TypeOK, HandlerTypes
<1>1. ASSUME NEW e \in Events, EnqueueTorn(e) PROVE Neutral
  BY <1>1 DEF Neutral, EnqueueTorn
<1>2. ASSUME NEW c \in Consumers, Receive(c) PROVE Neutral
  BY <1>2 DEF Neutral, Receive
<1>3. ASSUME NEW c \in Consumers, Claim(c) PROVE Neutral
  BY <1>3 DEF Neutral, Claim
<1>4. ASSUME NEW c \in Consumers, Acquire(c) PROVE Neutral
  BY <1>4 DEF Neutral, Acquire
<1>5. ASSUME NEW c \in Consumers, AckRefused(c) PROVE Neutral
  BY <1>5 DEF Neutral, AckRefused
<1>6. ASSUME NEW c \in Consumers, Release(c) PROVE Neutral
  BY <1>6 DEF Neutral, Release, FinishHandle
<1>7. ASSUME NEW c \in Consumers, Confirm(c) PROVE Neutral
  BY <1>7 DEF Neutral, Confirm
<1>8. ASSUME NEW c \in Consumers, AcquireLost(c) PROVE Neutral
  BY <1>8 DEF Neutral, AcquireLost
<1>9. ASSUME NEW c \in Consumers, Cancel(c) PROVE Neutral
  BY <1>9 DEF Neutral, Cancel
<1>10. ASSUME NEW c \in Consumers, ReleaseLost(c) PROVE Neutral
  BY <1>10 DEF Neutral, ReleaseLost, FinishHandle
<1>11. ASSUME NEW c \in Consumers, ConfirmLost(c) PROVE Neutral
  BY <1>11 DEF Neutral, ConfirmLost
<1>12. ASSUME NEW c \in Consumers, Crash(c) PROVE Neutral
  BY <1>12 DEF Neutral, Crash
<1>13. ASSUME NEW m \in Mailboxes, LeaseExpire(m) PROVE Neutral
  BY <1>13 DEF Neutral, LeaseExpire
<1>14. ASSUME InspectStream PROVE Neutral
  BY <1>14 DEF Neutral, InspectStream
<1>15. ASSUME InspectGroups PROVE Neutral
  BY <1>15 DEF Neutral, InspectGroups
<1>16. ASSUME InspectPending PROVE Neutral
  BY <1>16 DEF Neutral, InspectPending
<1>17. ASSUME Trim PROVE Neutral
  BY <1>17 DEF Neutral, Trim
<1>18. ASSUME InspectFails PROVE Neutral
  BY <1>18 DEF Neutral, InspectFails
<1>19. ASSUME NEW c \in Consumers, Process(c) PROVE Finishes(c)
  BY <1>19 DEF Finishes, Process
<1>20. ASSUME NEW c \in Consumers, ProcessFails(c) PROVE Finishes(c)
  BY <1>20 DEF Finishes, ProcessFails
<1>21. ASSUME NEW c \in Consumers, AckHead(c) PROVE Pops(c)
  BY <1>21 DEF Pops, AckHead
<1>22. ASSUME NEW c \in Consumers, AckLost(c) PROVE Pops(c)
  BY <1>22 DEF Pops, AckLost
<1>23. CASE UNCHANGED vars
  BY <1>23 DEF Neutral, vars
<1> QED
  BY <1>1, <1>2, <1>3, <1>4, <1>5, <1>6, <1>7, <1>8, <1>9, <1>10, <1>11, <1>12, <1>13,
     <1>14, <1>15, <1>16, <1>17, <1>18, <1>19, <1>20, <1>21, <1>22, <1>23
  DEF Next, Handle, HandleFails, Reconcile

-----------------------------------------------------------------------------
(* Claims, leases, confirmations and trimming do not touch the order.      *)
LEMMA NeutralKeepsOrder ==
  ASSUME OrderInv, Neutral
  PROVE  NoEventLost' /\ InArrivalOrder' /\ HandledState' /\ QueueState'
<1>1. NoEventLost' /\ InArrivalOrder'
  BY DEF OrderInv, Neutral, NoEventLost, InArrivalOrder
<1>2. QueueState'
  BY DEF OrderInv, Neutral, QueueState, Before
<1>3. HandledState'
  BY DEF OrderInv, Neutral, HandledState
<1> QED BY <1>1, <1>2, <1>3

(* A new reference goes to the end of its lane, and to the end of the      *)
(* lane's arrivals when it is the first.                                   *)
LEMMA EnqueueKeepsOrder ==
  ASSUME OrderInv, NEW e \in Events, Enqueue(e)
  PROVE  NoEventLost' /\ InArrivalOrder' /\ HandledState' /\ QueueState'
<1> DEFINE l == MailboxOf[e]
<1> USE MailboxOfType, BoundsType DEF OrderInv, BaseInv, TypeOK
<1>1. /\ l \in Mailboxes /\ mailbox[l] \in Seq(Events) /\ arrival[l] \in Seq(Events)
      /\ mailbox' = [mailbox EXCEPT ![l] = Append(mailbox[l], e)]
      /\ refs' = [refs EXCEPT ![e] = refs[e] + 1]
      /\ arrival' = IF refs[e] = 0 THEN [arrival EXCEPT ![l] = Append(arrival[l], e)]
                                   ELSE arrival
      /\ UNCHANGED <<done, pc, ev>>
  BY DEF LaneTypes, Enqueue
<1>2. /\ \A m \in Mailboxes : m # l => mailbox'[m] = mailbox[m] /\ arrival'[m] = arrival[m]
      /\ mailbox'[l] = Append(mailbox[l], e)
      /\ arrival'[l] = IF refs[e] = 0 THEN Append(arrival[l], e) ELSE arrival[l]
  BY <1>1 DEF LaneTypes
<1>3. /\ Len(mailbox'[l]) = Len(mailbox[l]) + 1
      /\ mailbox'[l][Len(mailbox[l]) + 1] = e
      /\ \A p \in 1..Len(mailbox[l]) : mailbox'[l][p] = mailbox[l][p]
  BY <1>1, <1>2
<1>4. \A d \in Events : refs'[d] > 0 <=> refs[d] > 0 \/ d = e
  BY <1>1 DEF LaneTypes
<1>5. /\ Len(arrival'[l]) \in {Len(arrival[l]), Len(arrival[l]) + 1}
      /\ \A k \in 1..Len(arrival[l]) : arrival'[l][k] = arrival[l][k]
      /\ Len(arrival'[l]) = Len(arrival[l]) + 1 =>
           arrival'[l][Len(arrival[l]) + 1] = e /\ refs[e] = 0
  BY <1>1, <1>2
<1>6. NoEventLost'
  <2> SUFFICES ASSUME NEW d \in Events, refs'[d] > 0, d \notin done'
               PROVE  \E k \in 1..Len(mailbox'[MailboxOf[d]]) : mailbox'[MailboxOf[d]][k] = d
    BY DEF NoEventLost
  <2>1. CASE d = e
    BY <1>1, <1>3, <2>1
  <2>2. CASE d # e
    <3>1. PICK k \in 1..Len(mailbox[MailboxOf[d]]) : mailbox[MailboxOf[d]][k] = d
      BY <1>1, <1>4, <2>2 DEF NoEventLost
    <3>2. CASE MailboxOf[d] = l
      BY <1>1, <1>3, <3>1, <3>2
    <3>3. CASE MailboxOf[d] # l
      BY <1>2, <3>1, <3>3
    <3> QED BY <3>2, <3>3
  <2> QED BY <2>1, <2>2
<1>7. InArrivalOrder'
  <2> SUFFICES ASSUME NEW m \in Mailboxes, NEW k \in 1..Len(arrival'[m]),
                      arrival'[m][k] \in done, NEW j \in 1..k
               PROVE  arrival'[m][j] \in done
    BY <1>1 DEF InArrivalOrder
  <2>1. CASE m # l
    BY <1>2, <2>1 DEF InArrivalOrder
  <2>2. CASE m = l
    <3>1. k \in 1..Len(arrival[l])
      BY <1>1, <1>5, <2>2 DEF HandledState
    <3> QED BY <1>1, <1>5, <2>2, <3>1 DEF InArrivalOrder
  <2> QED BY <2>1, <2>2
<1>8. HandledState'
  <2>1. \A d \in done' : refs'[d] > 0
    BY <1>1, <1>4 DEF HandledState, LaneTypes
  <2>2. ASSUME NEW c \in Consumers, pc[c] \in {"process", "ack"}
        PROVE  /\ refs'[ev[c]] > 0
               /\ \A m \in Mailboxes : \A k \in 1..Len(arrival'[m]) :
                    arrival'[m][k] = ev[c] => \A j \in 1..(k - 1) : arrival'[m][j] \in done
    <3>1. ev[c] \in Events /\ refs[ev[c]] > 0
      BY <2>2 DEF HandledState, HandlerState
    <3>2. ASSUME NEW m \in Mailboxes, NEW k \in 1..Len(arrival'[m]), arrival'[m][k] = ev[c],
                 NEW j \in 1..(k - 1)
          PROVE  arrival'[m][j] \in done
      <4>1. CASE m # l
        BY <1>2, <2>2, <3>2, <4>1 DEF HandledState
      <4>2. CASE m = l
        <5>1. k \in 1..Len(arrival[l])
          BY <1>1, <1>5, <3>1, <3>2, <4>2
        <5>2. arrival'[m][k] = arrival[m][k] /\ arrival'[m][j] = arrival[m][j]
          BY <1>1, <1>5, <4>2, <5>1
        <5> QED BY <2>2, <3>2, <4>2, <5>1, <5>2 DEF HandledState
      <4> QED BY <4>1, <4>2
    <3> QED BY <1>4, <3>1, <3>2
  <2> QED BY <1>1, <2>1, <2>2 DEF HandledState
<1>9. QueueState'
  <2>1. ASSUME NEW m \in Mailboxes, m # l
        PROVE  /\ \A p \in 1..Len(mailbox'[m]) : /\ refs'[mailbox'[m][p]] > 0
                                                /\ MailboxOf[mailbox'[m][p]] = m
               /\ \A k \in 1..Len(arrival'[m]) : /\ refs'[arrival'[m][k]] > 0
                                                /\ MailboxOf[arrival'[m][k]] = m
    <3>1. /\ \A p \in 1..Len(mailbox[m]) : mailbox[m][p] \in Events
          /\ \A k \in 1..Len(arrival[m]) : arrival[m][k] \in Events
      <4>1. mailbox[m] \in Seq(Events) /\ arrival[m] \in Seq(Events)
        BY DEF LaneTypes
      <4> QED BY ONLY <4>1
    <3>2. mailbox'[m] = mailbox[m] /\ arrival'[m] = arrival[m]
      BY <1>2, <2>1
    <3> QED BY <1>4, <3>1, <3>2 DEF QueueState
  <2>2. /\ \A p \in 1..Len(mailbox'[l]) : /\ refs'[mailbox'[l][p]] > 0
                                         /\ MailboxOf[mailbox'[l][p]] = l
        /\ \A k \in 1..Len(arrival'[l]) : /\ refs'[arrival'[l][k]] > 0
                                         /\ MailboxOf[arrival'[l][k]] = l
    BY <1>1, <1>3, <1>4, <1>5 DEF QueueState
  <2>3. ASSUME NEW m \in Mailboxes, NEW p \in 1..Len(mailbox'[m]), NEW k \in 1..Len(arrival'[m]),
               mailbox'[m][p] = arrival'[m][k], NEW j \in 1..(k - 1)
        PROVE  arrival'[m][j] \in done' \/ \E q \in 1..(p - 1) : mailbox'[m][q] = arrival'[m][j]
    <3>1. CASE m # l
      <4>1. mailbox'[m] = mailbox[m] /\ arrival'[m] = arrival[m] /\ done' = done
        BY <1>1, <1>2, <3>1
      <4> QED BY <2>3, <4>1 DEF QueueState, Before
    <3>2. CASE m = l
      <4>1. j \in 1..Len(arrival[l]) /\ arrival'[l][j] = arrival[l][j] /\ arrival[l][j] \in Events
        BY <1>1, <1>5, <3>2
      <4>2. CASE p = Len(mailbox[l]) + 1
        <5>1. arrival[l][j] \in done \/ \E q \in 1..Len(mailbox[l]) : mailbox[l][q] = arrival[l][j]
          <6>1. refs[arrival[l][j]] > 0 /\ MailboxOf[arrival[l][j]] = l
            BY <1>1, <4>1 DEF QueueState
          <6> QED BY <4>1, <6>1 DEF NoEventLost
        <5> QED BY <1>1, <1>3, <3>2, <4>1, <4>2, <5>1
      <4>3. CASE p # Len(mailbox[l]) + 1
        <5>1. p \in 1..Len(mailbox[l])
          BY <1>1, <1>3, <3>2, <4>3
        <5>2. mailbox[l][p] = mailbox'[l][p] /\ refs[mailbox[l][p]] > 0
          BY <1>1, <1>3, <5>1 DEF QueueState
        <5>3. k \in 1..Len(arrival[l])
          BY <1>1, <1>5, <2>3, <3>2, <5>2
        <5>4. arrival[l][j] \in done \/ \E q \in 1..(p - 1) : mailbox[l][q] = arrival[l][j]
          <6>1. mailbox[l][p] = arrival[l][k]
            BY <1>5, <2>3, <3>2, <5>2, <5>3
          <6>2. \A i \in 1..(k - 1) : arrival[l][i] \in done \/ Before(l, arrival[l][i], p)
            BY <1>1, <5>1, <5>3, <6>1 DEF QueueState
          <6> QED BY <6>2 DEF Before
        <5> QED BY <1>1, <1>3, <3>2, <4>1, <5>1, <5>4
      <4> QED BY <4>2, <4>3
    <3> QED BY <3>1, <3>2
  <2> QED BY <2>1, <2>2, <2>3 DEF QueueState, Before
<1> QED BY <1>6, <1>7, <1>8, <1>9

(* The head of a mailbox is the oldest event there that is not done. *)
LEMMA PeekKeepsOrder ==
  ASSUME OrderInv, NEW c \in Consumers, Peek(c)
  PROVE  NoEventLost' /\ InArrivalOrder' /\ HandledState' /\ QueueState'
<1> USE DEF OrderInv, BaseInv, TypeOK
<1>1. UNCHANGED <<mailbox, refs, arrival, done>>
  BY DEF Peek
<1>2. NoEventLost' /\ InArrivalOrder'
  BY <1>1 DEF NoEventLost, InArrivalOrder
<1>3. QueueState'
  BY <1>1 DEF QueueState, Before
<1>4. CASE mailbox[Lane(c)] = <<>>
  <2>1. Neutral
    BY <1>1, <1>4 DEF Peek, Neutral, HandlerTypes
  <2> QED BY <2>1, NeutralKeepsOrder
<1>5. CASE mailbox[Lane(c)] # <<>>
  <2> DEFINE l == Lane(c)
             h == Head(mailbox[l])
  <2>1. l \in Mailboxes /\ mailbox[l] \in Seq(Events)
    BY LaneIsMailbox DEF Peek, LaneTypes
  <2>2. 1 \in 1..Len(mailbox[l]) /\ h = mailbox[l][1]
    BY <1>5, <2>1
  <2>3. refs[h] > 0 /\ MailboxOf[h] = l
    BY <2>1, <2>2 DEF QueueState
  <2>4. ASSUME NEW m \in Mailboxes, NEW k \in 1..Len(arrival[m]), arrival[m][k] = h,
               NEW j \in 1..(k - 1)
        PROVE  arrival[m][j] \in done
    <3>1. m = l
      BY <2>3, <2>4 DEF QueueState
    <3> QED BY <2>1, <2>2, <2>4, <3>1 DEF QueueState, Before
  <2>5. /\ pc' = [pc EXCEPT ![c] = "process"]
        /\ ev' = [ev EXCEPT ![c] = h]
    BY <1>5 DEF Peek, HeadReference
  <2>6. ASSUME NEW d \in Consumers
        PROVE  /\ pc'[d] = "ack" => ev'[d] \in done
               /\ pc'[d] \in {"process", "ack"} =>
                    /\ refs[ev'[d]] > 0
                    /\ \A m \in Mailboxes : \A k \in 1..Len(arrival[m]) :
                         arrival[m][k] = ev'[d] => \A j \in 1..(k - 1) : arrival[m][j] \in done
    <3>1. CASE d = c
      <4>1. pc'[d] = "process" /\ ev'[d] = h
        BY <2>5, <3>1 DEF HandlerTypes
      <4> QED BY <2>3, <2>4, <4>1
    <3>2. CASE d # c
      <4>1. pc'[d] = pc[d] /\ ev'[d] = ev[d]
        BY <2>5, <3>2 DEF HandlerTypes
      <4> QED BY <4>1 DEF HandledState
    <3> QED BY <3>1, <3>2
  <2>7. HandledState'
    BY <1>1, <2>6 DEF HandledState
  <2> QED BY <1>2, <1>3, <2>7
<1> QED BY <1>4, <1>5

(* A result is stored only for the event a handler peeked. *)
LEMMA FinishKeepsOrder ==
  ASSUME OrderInv, NEW c \in Consumers, Finishes(c)
  PROVE  NoEventLost' /\ InArrivalOrder' /\ HandledState' /\ QueueState'
<1> USE DEF OrderInv, Finishes
<1>1. done \subseteq done' /\ done' \subseteq done \cup {ev[c]}
  OBVIOUS
<1>2. NoEventLost'
  BY <1>1 DEF NoEventLost
<1>3. InArrivalOrder'
  <2> SUFFICES ASSUME NEW m \in Mailboxes, NEW k \in 1..Len(arrival[m]),
                      arrival[m][k] \in done', NEW j \in 1..k
               PROVE  arrival[m][j] \in done'
    BY DEF InArrivalOrder
  <2>1. CASE arrival[m][k] \in done
    BY <1>1, <2>1 DEF InArrivalOrder
  <2>2. CASE arrival[m][k] = ev[c]
    <3>1. CASE j = k
      BY <3>1
    <3>2. CASE j # k
      <4>1. j \in 1..(k - 1)
        BY <3>2
      <4>2. arrival[m][j] \in done
        BY <2>2, <4>1 DEF HandledState
      <4> QED BY <1>1, <4>2
    <3> QED BY <3>1, <3>2
  <2> QED BY <1>1, <2>1, <2>2
<1>4. HandledState'
  <2>1. \A e \in done' : refs[e] > 0
    BY <1>1 DEF HandledState
  <2>2. ASSUME NEW d \in Consumers
        PROVE  /\ pc'[d] = "ack" => ev[d] \in done'
               /\ pc'[d] \in {"process", "ack"} => pc[d] \in {"process", "ack"}
    BY <1>1 DEF HandledState
  <2> QED BY <1>1, <2>1, <2>2 DEF HandledState
<1>5. QueueState'
  <2>1. ASSUME NEW m \in Mailboxes, NEW p \in 1..Len(mailbox[m]), NEW k \in 1..Len(arrival[m]),
               mailbox[m][p] = arrival[m][k], NEW j \in 1..(k - 1)
        PROVE  arrival[m][j] \in done' \/ \E q \in 1..(p - 1) : mailbox[m][q] = arrival[m][j]
    BY <1>1, <2>1 DEF QueueState, Before
  <2>2. UNCHANGED <<mailbox, refs, arrival>>
    OBVIOUS
  <2> QED BY <2>1, <2>2 DEF QueueState, Before
<1> QED BY <1>2, <1>3, <1>4, <1>5

(* Only a reference whose event is done is removed, and only the head.     *)
LEMMA PopKeepsOrder ==
  ASSUME OrderInv, NEW c \in Consumers, Pops(c)
  PROVE  NoEventLost' /\ InArrivalOrder' /\ HandledState' /\ QueueState'
<1> USE DEF OrderInv, BaseInv, TypeOK
<1> DEFINE l == Lane(c)
           b == mailbox[l]
<1>1. l \in Mailboxes /\ b \in Seq(Events) /\ b # <<>> /\ b[1] = ev[c] /\ ev[c] \in done
  BY LaneIsMailbox DEF Pops, PopHead, IsHead, LaneTypes, HandledState
<1>2. /\ UNCHANGED <<refs, arrival, done, ev>>
      /\ \A m \in Mailboxes : m # l => mailbox'[m] = mailbox[m]
      /\ mailbox'[l] = Tail(b)
  BY <1>1 DEF Pops, PopHead, LaneTypes
<1>3. /\ Len(mailbox'[l]) = Len(b) - 1
      /\ \A p \in 1..(Len(b) - 1) : mailbox'[l][p] = b[p + 1]
  BY <1>1, <1>2
<1>4. NoEventLost'
  <2> SUFFICES ASSUME NEW d \in Events, refs[d] > 0, d \notin done
               PROVE  \E k \in 1..Len(mailbox'[MailboxOf[d]]) : mailbox'[MailboxOf[d]][k] = d
    BY <1>2 DEF NoEventLost
  <2>1. PICK k \in 1..Len(mailbox[MailboxOf[d]]) : mailbox[MailboxOf[d]][k] = d
    BY DEF NoEventLost
  <2>2. CASE MailboxOf[d] = l
    <3>1. k # 1
      BY <1>1, <2>1, <2>2
    <3>2. k - 1 \in 1..Len(mailbox'[l]) /\ mailbox'[l][k - 1] = d
      BY <1>1, <1>3, <2>1, <2>2, <3>1
    <3> QED BY <2>2, <3>2
  <2>3. CASE MailboxOf[d] # l
    BY <1>2, <2>1, <2>3, MailboxOfType
  <2> QED BY <2>2, <2>3
<1>5. InArrivalOrder'
  BY <1>2 DEF InArrivalOrder
<1>6. HandledState'
  <2>1. \A d \in Consumers : pc'[d] \in {"process", "ack"} => pc'[d] = pc[d]
    BY DEF Pops
  <2> QED BY <1>2, <2>1 DEF HandledState
<1>7. QueueState'
  <2>1. ASSUME NEW m \in Mailboxes
        PROVE  \A p \in 1..Len(mailbox'[m]) : /\ refs[mailbox'[m][p]] > 0
                                              /\ MailboxOf[mailbox'[m][p]] = m
    <3>1. CASE m = l
      <4>1. \A p \in 1..Len(b) : refs[b[p]] > 0 /\ MailboxOf[b[p]] = l
        BY <1>1 DEF QueueState
      <4>2. Len(b) \in Nat /\ \A p \in 1..(Len(b) - 1) : p + 1 \in 1..Len(b)
        BY <1>1
      <4> QED BY <1>3, <3>1, <4>1, <4>2
    <3>2. CASE m # l
      BY <1>2, <3>2 DEF QueueState
    <3> QED BY <3>1, <3>2
  <2>2. ASSUME NEW m \in Mailboxes, NEW p \in 1..Len(mailbox'[m]), NEW k \in 1..Len(arrival[m]),
               mailbox'[m][p] = arrival[m][k], NEW j \in 1..(k - 1)
        PROVE  arrival[m][j] \in done \/ \E q \in 1..(p - 1) : mailbox'[m][q] = arrival[m][j]
    <3>1. CASE m = l
      <4>1. p + 1 \in 1..Len(b) /\ b[p + 1] = arrival[l][k]
        BY <1>1, <1>3, <2>2, <3>1
      <4>2. arrival[l][j] \in done \/ \E q \in 1..p : b[q] = arrival[l][j]
        <5>1. arrival[l][j] \in done \/ Before(l, arrival[l][j], p + 1)
          BY <1>1, <3>1, <4>1 DEF QueueState
        <5> QED BY <5>1 DEF Before
      <4>3. ASSUME NEW q \in 1..p, b[q] = arrival[l][j], arrival[l][j] \notin done
            PROVE  q - 1 \in 1..(p - 1) /\ mailbox'[l][q - 1] = arrival[l][j]
        <5>1. q # 1
          BY <1>1, <4>3
        <5>2. q - 1 \in 1..(p - 1) /\ q - 1 \in 1..(Len(b) - 1)
          BY <1>1, <4>1, <5>1
        <5>3. mailbox'[l][q - 1] = b[(q - 1) + 1]
          BY <1>3, <5>2
        <5> QED BY <4>3, <5>2, <5>3
      <4> QED BY <3>1, <4>2, <4>3
    <3>2. CASE m # l
      <4>1. mailbox'[m] = mailbox[m]
        BY <1>2, <3>2
      <4>2. p \in 1..Len(mailbox[m]) /\ mailbox[m][p] = arrival[m][k]
        BY <2>2, <4>1
      <4>3. arrival[m][j] \in done \/ Before(m, arrival[m][j], p)
        BY <4>2 DEF QueueState
      <4> QED BY <4>1, <4>3 DEF Before
    <3> QED BY <3>1, <3>2
  <2> QED BY <1>2, <2>1, <2>2 DEF QueueState, Before
<1> QED BY <1>4, <1>5, <1>6, <1>7

(* Every step preserves the inductive invariant of the order.              *)
LEMMA OrderStep == OrderInv /\ [Next]_vars => OrderInv'
<1> SUFFICES ASSUME OrderInv, [Next]_vars PROVE OrderInv'
  OBVIOUS
<1>1. BaseInv'
  BY BaseStep DEF OrderInv
<1>2. NoEventLost' /\ InArrivalOrder' /\ HandledState' /\ QueueState'
  BY StepKinds, NeutralKeepsOrder, EnqueueKeepsOrder, PeekKeepsOrder, FinishKeepsOrder,
     PopKeepsOrder
  DEF OrderInv
<1> QED BY <1>1, <1>2 DEF OrderInv

(* The empty mailboxes are in order.                                       *)
LEMMA OrderInit == Init => OrderInv
<1> SUFFICES ASSUME Init PROVE OrderInv
  OBVIOUS
<1>1. BaseInv
  BY BaseInit
<1>2. NoEventLost /\ InArrivalOrder
  BY DEF Init, NoEventLost, InArrivalOrder
<1>3. HandledState /\ QueueState
  BY DEF Init, HandledState, QueueState
<1> QED BY <1>1, <1>2, <1>3 DEF OrderInv

(* No event that was enqueued leaves its mailbox without a result, however *)
(* many handlers work on the lane with a lost lease.                       *)
THEOREM EventNeverLost == Spec => []NoEventLost
<1>1. OrderInv => NoEventLost
  BY DEF OrderInv
<1> QED BY <1>1, OrderInit, OrderStep, PTL DEF Spec

(* Results are stored in the order of first arrival in every lane: the     *)
(* comparison in ackHeadScript is enough, no fencing of the lease needed.  *)
THEOREM ProcessedInOrder == Spec => []InArrivalOrder
<1>1. OrderInv => InArrivalOrder
  BY DEF OrderInv
<1> QED BY <1>1, OrderInit, OrderStep, PTL DEF Spec

-----------------------------------------------------------------------------
(* Refinement of EventLanes.  StepKinds sorts the steps of the scheduler   *)
(* by their effect: a first enqueue is an arrival, storing a result is a   *)
(* decision, and everything else is invisible.                             *)

(* Whatever was ever enqueued stands among the arrivals of its lane. *)
ArrivedState ==
  \A e \in Events : refs[e] > 0 =>
    \E k \in 1..Len(arrival[MailboxOf[e]]) : arrival[MailboxOf[e]][k] = e

RefinementInv == OrderInv /\ ArrivedState

(* The first reference to an event is its arrival; later ones change       *)
(* neither the lane's order nor any result.                                *)
LEMMA EnqueueArrives ==
  ASSUME RefinementInv, NEW e \in Events, Enqueue(e)
  PROVE  ArrivedState' /\ (L!Arrive(e) \/ UNCHANGED L!vars)
<1> DEFINE l == MailboxOf[e]
<1> USE MailboxOfType, BoundsType DEF RefinementInv, OrderInv, BaseInv, TypeOK, LaneTypes
<1>1. /\ l \in Mailboxes /\ arrival[l] \in Seq(Events)
      /\ refs' = [refs EXCEPT ![e] = refs[e] + 1]
      /\ arrival' = IF refs[e] = 0 THEN [arrival EXCEPT ![l] = Append(arrival[l], e)]
                                   ELSE arrival
      /\ UNCHANGED done
  BY DEF Enqueue
<1>2. CASE refs[e] # 0
  <2>1. \A d \in Events : refs'[d] > 0 => refs[d] > 0
    BY <1>1, <1>2
  <2> QED BY <1>1, <1>2, <2>1 DEF ArrivedState, L!vars
<1>3. CASE refs[e] = 0
  <2>1. ~L!Waiting(e)
    BY <1>1, <1>3 DEF QueueState, L!Waiting
  <2>2. L!Arrive(e)
    BY <1>1, <1>3, <2>1 DEF L!Arrive
  <2>3. ASSUME NEW d \in Events, refs'[d] > 0
        PROVE  \E k \in 1..Len(arrival'[MailboxOf[d]]) : arrival'[MailboxOf[d]][k] = d
    <3>1. CASE d = e
      <4>1. arrival'[l] = Append(arrival[l], e)
        BY <1>1, <1>3
      <4> QED BY <1>1, <3>1, <4>1
    <3>2. CASE d # e
      <4> DEFINE x == MailboxOf[d]
      <4>1. PICK k \in 1..Len(arrival[x]) : arrival[x][k] = d
        BY <1>1, <2>3, <3>2 DEF ArrivedState
      <4>2. CASE x = l
        <5>1. arrival'[x] = Append(arrival[x], e)
          BY <1>1, <1>3, <4>2
        <5> QED BY <1>1, <4>1, <4>2, <5>1
      <4>3. CASE x # l
        <5>1. arrival'[x] = arrival[x]
          BY <1>1, <4>3
        <5> QED BY <4>1, <5>1
      <4> QED BY <4>2, <4>3
    <3> QED BY <3>1, <3>2
  <2> QED BY <2>2, <2>3 DEF ArrivedState
<1> QED BY <1>2, <1>3

(* A handler that stores a result decides the oldest undecided event of    *)
(* its lane, or repeats a decision already taken.                          *)
LEMMA FinishDecides ==
  ASSUME RefinementInv, NEW c \in Consumers, Finishes(c)
  PROVE  ArrivedState' /\ (L!Decide(ev[c]) \/ UNCHANGED L!vars) /\ ev[c] \in Events
<1> USE MailboxOfType DEF RefinementInv, OrderInv, BaseInv
<1>1. /\ pc[c] = "process"
      /\ done' \in {done, done \cup {ev[c]}}
      /\ UNCHANGED <<refs, arrival>>
  BY DEF Finishes
<1>2. ArrivedState'
  BY <1>1 DEF ArrivedState
<1>3. ev[c] \in Events /\ refs[ev[c]] > 0
  BY <1>1 DEF HandledState, HandlerState
<1>4. CASE done' = done
  BY <1>1, <1>2, <1>3, <1>4 DEF L!vars
<1>5. CASE done' # done
  <2> DEFINE x == MailboxOf[ev[c]]
  <2>1. PICK k \in 1..Len(arrival[x]) : arrival[x][k] = ev[c]
    BY <1>3 DEF ArrivedState
  <2>2. \A j \in 1..(k - 1) : arrival[x][j] \in done
    BY <1>1, <1>3, <2>1 DEF HandledState
  <2>3. L!Decide(ev[c])
    BY <1>1, <1>5, <2>1, <2>2 DEF L!Decide
  <2> QED BY <1>2, <1>3, <2>3
<1> QED BY <1>4, <1>5

(* Every step of the scheduler is a step of the lanes or is invisible.     *)
LEMMA RefinementStep ==
  RefinementInv /\ [Next]_vars => RefinementInv' /\ [L!Next]_(L!vars)
<1> SUFFICES ASSUME RefinementInv, [Next]_vars
             PROVE  RefinementInv' /\ [L!Next]_(L!vars)
  OBVIOUS
<1>1. OrderInv'
  BY OrderStep DEF RefinementInv
<1>2. ASSUME UNCHANGED <<refs, arrival, done>>
      PROVE  ArrivedState' /\ UNCHANGED L!vars
  BY <1>2 DEF RefinementInv, ArrivedState, L!vars
<1>3. CASE Neutral
  BY <1>1, <1>2, <1>3 DEF Neutral, RefinementInv
<1>4. ASSUME NEW e \in Events, Enqueue(e) PROVE RefinementInv' /\ [L!Next]_(L!vars)
  BY <1>1, <1>4, EnqueueArrives DEF RefinementInv, L!Next
<1>5. ASSUME NEW c \in Consumers, Peek(c) PROVE RefinementInv' /\ [L!Next]_(L!vars)
  BY <1>1, <1>2, <1>5 DEF Peek, historyVars, RefinementInv
<1>6. ASSUME NEW c \in Consumers, Finishes(c) PROVE RefinementInv' /\ [L!Next]_(L!vars)
  BY <1>1, <1>6, FinishDecides DEF RefinementInv, L!Next
<1>7. ASSUME NEW c \in Consumers, Pops(c) PROVE RefinementInv' /\ [L!Next]_(L!vars)
  BY <1>1, <1>2, <1>7 DEF Pops, RefinementInv
<1> QED
  BY StepKinds, <1>3, <1>4, <1>5, <1>6, <1>7 DEF RefinementInv, OrderInv

(* The scheduler starts with empty lanes and no results. *)
LEMMA RefinementInit == Init => RefinementInv /\ L!Init
<1> SUFFICES ASSUME Init PROVE RefinementInv /\ L!Init
  OBVIOUS
<1>1. ArrivedState
  BY DEF Init, ArrivedState
<1>2. L!Init
  BY DEF Init, L!Init
<1> QED BY <1>1, <1>2, OrderInit DEF RefinementInv

(* Every behaviour of the scheduler is a behaviour of the abstract lanes   *)
(* (handler.go:146, store.go:95): whatever the number of consumers, lanes, *)
(* events, faults and redeliveries, the events of a lane are decided one   *)
(* at a time in the order of arrival and no decision is taken back.        *)
THEOREM LanesRefined == Spec => LanesImplemented
<1>1. Init => RefinementInv /\ L!Init
  BY RefinementInit
<1>2. RefinementInv /\ [Next]_vars => RefinementInv' /\ [L!Next]_(L!vars)
  BY RefinementStep
<1> QED BY <1>1, <1>2, PTL DEF Spec, LanesImplemented, L!Spec
=============================================================================
