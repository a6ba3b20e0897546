---------------------- MODULE LifecycleSchedulerProofs ----------------------
(***************************************************************************)
(* Proofs about LifecycleScheduler, for every number of lanes, events,     *)
(* consumers and every value of the limits and bounds.                     *)
(***************************************************************************)
EXTENDS LifecycleScheduler, TLAPS

USE DEF SignalIds, redisVars, consumerVars, mgrVars, historyVars

-----------------------------------------------------------------------------
(* Types.  TypeOK is not inductive: a handler's step is well typed because *)
(* the handler points to a delivered signal, that signal to a mailbox, and *)
(* its counter and its event agree with its program counter.               *)

SignalState ==
  /\ stream \subseteq 1..lastSig
  /\ pel \subseteq 1..delivered
  /\ delivered <= lastSig
  /\ \A i \in 1..lastSig : sigMailbox[i] \in Mailboxes

HandlerState ==
  \A c \in Consumers :
    /\ pc[c] # "idle" => sig[c] \in 1..delivered
    /\ pc[c] \in {"process", "ack"} => ev[c] \in Events
    /\ pc[c] \in {"drain", "process", "ack"} => drained[c] < MaxDrain

BaseInv == TypeOK /\ SignalState /\ HandlerState

(* A handler that is not idle works on a mailbox. *)
LEMMA LaneIsMailbox ==
  ASSUME BaseInv, NEW c \in Consumers, pc[c] # "idle"
  PROVE  Lane(c) \in Mailboxes
<1>1. sig[c] \in 1..lastSig
  BY BoundsType DEF BaseInv, TypeOK, StreamTypes, SignalState, HandlerState
<1> QED BY <1>1 DEF BaseInv, SignalState, Lane

(* Every step preserves the types of mailboxes, leases and history. *)
LEMMA LaneTypesStep == BaseInv /\ [Next]_vars => LaneTypes'
<1> SUFFICES ASSUME BaseInv, [Next]_vars PROVE LaneTypes'
  OBVIOUS
<1> USE MailboxOfType, LimitsType, BoundsType DEF BaseInv, TypeOK
<1>1. ASSUME NEW e \in Events, Enqueue(e) PROVE LaneTypes'
  BY <1>1 DEF LaneTypes, Enqueue, AddSignal
<1>2. ASSUME NEW e \in Events, EnqueueTorn(e) PROVE LaneTypes'
  BY <1>2 DEF LaneTypes, EnqueueTorn, AddSignal, Fault
<1>3. ASSUME NEW c \in Consumers, Receive(c) PROVE LaneTypes'
  BY <1>3 DEF LaneTypes, Receive
<1>4. ASSUME NEW c \in Consumers, Claim(c) PROVE LaneTypes'
  BY <1>4 DEF LaneTypes, Claim
<1>5. ASSUME NEW c \in Consumers, Acquire(c) PROVE LaneTypes'
  BY <1>5 DEF LaneTypes, Acquire
<1>6. ASSUME NEW c \in Consumers, Peek(c) PROVE LaneTypes'
  BY <1>6 DEF LaneTypes, Peek, Lane
<1>7. ASSUME NEW c \in Consumers, Process(c) PROVE LaneTypes'
  BY <1>7 DEF LaneTypes, Process, HandlerState
<1>8. ASSUME NEW c \in Consumers, AckHead(c) PROVE LaneTypes'
  <2>1. Lane(c) \in Mailboxes /\ mailbox[Lane(c)] \in Seq(Events)
    BY <1>8, LaneIsMailbox DEF LaneTypes, AckHead
  <2>2. mailbox' = [mailbox EXCEPT ![Lane(c)] = Tail(@)] /\ mailbox[Lane(c)] # <<>>
    BY <1>8 DEF AckHead, PopHead, IsHead
  <2>3. Tail(mailbox[Lane(c)]) \in Seq(Events)
    BY <2>1, <2>2
  <2> QED BY <1>8, <2>1, <2>2, <2>3 DEF LaneTypes, AckHead
<1>9. ASSUME NEW c \in Consumers, AckRefused(c) PROVE LaneTypes'
  BY <1>9 DEF LaneTypes, AckRefused
<1>10. ASSUME NEW c \in Consumers, Release(c) PROVE LaneTypes'
  BY <1>10 DEF LaneTypes, Release, FinishHandle, TokenMatches
<1>11. ASSUME NEW c \in Consumers, Confirm(c) PROVE LaneTypes'
  BY <1>11 DEF LaneTypes, Confirm
<1>12. ASSUME NEW c \in Consumers, AcquireLost(c) PROVE LaneTypes'
  BY <1>12 DEF LaneTypes, AcquireLost, Fault
<1>13. ASSUME NEW c \in Consumers, ProcessFails(c) PROVE LaneTypes'
  BY <1>13 DEF LaneTypes, ProcessFails, Fault, HandlerState
<1>14. ASSUME NEW c \in Consumers, AckLost(c) PROVE LaneTypes'
  <2>1. Lane(c) \in Mailboxes /\ mailbox[Lane(c)] \in Seq(Events)
    BY <1>14, LaneIsMailbox DEF LaneTypes, AckLost
  <2>2. mailbox' = [mailbox EXCEPT ![Lane(c)] = Tail(@)] /\ mailbox[Lane(c)] # <<>>
    BY <1>14 DEF AckLost, PopHead, IsHead
  <2>3. Tail(mailbox[Lane(c)]) \in Seq(Events)
    BY <2>1, <2>2
  <2> QED BY <1>14, <2>1, <2>2, <2>3 DEF LaneTypes, AckLost
<1>15. ASSUME NEW c \in Consumers, Cancel(c) PROVE LaneTypes'
  BY <1>15 DEF LaneTypes, Cancel, Fault
<1>16. ASSUME NEW c \in Consumers, ReleaseLost(c) PROVE LaneTypes'
  BY <1>16 DEF LaneTypes, ReleaseLost, FinishHandle, Fault
<1>17. ASSUME NEW c \in Consumers, ConfirmLost(c) PROVE LaneTypes'
  BY <1>17 DEF LaneTypes, ConfirmLost, Fault
<1>18. ASSUME NEW c \in Consumers, Crash(c) PROVE LaneTypes'
  BY <1>18 DEF LaneTypes, Crash, Fault
<1>19. ASSUME NEW m \in Mailboxes, LeaseExpire(m) PROVE LaneTypes'
  BY <1>19 DEF LaneTypes, LeaseExpire, Fault
<1>20. CASE InspectStream
  BY <1>20 DEF LaneTypes, InspectStream
<1>21. CASE InspectGroups
  BY <1>21 DEF LaneTypes, InspectGroups
<1>22. CASE InspectPending
  BY <1>22 DEF LaneTypes, InspectPending
<1>23. CASE Trim
  BY <1>23 DEF LaneTypes, Trim
<1>24. CASE InspectFails
  BY <1>24 DEF LaneTypes, InspectFails
<1>25. CASE UNCHANGED vars
  BY <1>25 DEF LaneTypes, vars
<1> QED
  BY <1>1, <1>2, <1>3, <1>4, <1>5, <1>6, <1>7, <1>8, <1>9, <1>10, <1>11, <1>12, <1>13,
     <1>14, <1>15, <1>16, <1>17, <1>18, <1>19, <1>20, <1>21, <1>22, <1>23, <1>24, <1>25
  DEF Next, Handle, HandleFails, Reconcile

(* Every step preserves the types of the signal stream and the trimmer. *)
LEMMA StreamTypesStep == BaseInv /\ [Next]_vars => StreamTypes'
<1> SUFFICES ASSUME BaseInv, [Next]_vars PROVE StreamTypes'
  OBVIOUS
<1> USE MailboxOfType, LimitsType, BoundsType DEF BaseInv, TypeOK
<1>1. ASSUME NEW e \in Events, Enqueue(e) PROVE StreamTypes'
  <2>1. CASE mailbox[MailboxOf[e]] = <<>>
    <3>1. AddSignal(MailboxOf[e])
      BY <1>1, <2>1 DEF Enqueue
    <3>2. UNCHANGED <<delivered, pel, mgrPc, boundary, faults>>
      BY <1>1 DEF Enqueue
    <3> QED BY <3>1, <3>2 DEF StreamTypes, AddSignal
  <2>2. CASE mailbox[MailboxOf[e]] # <<>>
    BY <1>1, <2>2 DEF StreamTypes, Enqueue
  <2> QED BY <2>1, <2>2
<1>2. ASSUME NEW e \in Events, EnqueueTorn(e) PROVE StreamTypes'
  BY <1>2 DEF StreamTypes, EnqueueTorn, AddSignal, Fault
<1>3. ASSUME NEW c \in Consumers, Receive(c) PROVE StreamTypes'
  BY <1>3 DEF StreamTypes, Receive
<1>4. ASSUME NEW c \in Consumers, Claim(c) PROVE StreamTypes'
  BY <1>4 DEF StreamTypes, Claim
<1>5. ASSUME NEW c \in Consumers, Acquire(c) PROVE StreamTypes'
  BY <1>5 DEF StreamTypes, Acquire
<1>6. ASSUME NEW c \in Consumers, Peek(c) PROVE StreamTypes'
  BY <1>6 DEF StreamTypes, Peek, Lane
<1>7. ASSUME NEW c \in Consumers, Process(c) PROVE StreamTypes'
  BY <1>7 DEF StreamTypes, Process
<1>8. ASSUME NEW c \in Consumers, AckHead(c) PROVE StreamTypes'
  BY <1>8 DEF StreamTypes, AckHead, PopHead, IsHead, DrainsOn
<1>9. ASSUME NEW c \in Consumers, AckRefused(c) PROVE StreamTypes'
  BY <1>9 DEF StreamTypes, AckRefused
<1>10. ASSUME NEW c \in Consumers, Release(c) PROVE StreamTypes'
  BY <1>10 DEF StreamTypes, Release, FinishHandle, TokenMatches
<1>11. ASSUME NEW c \in Consumers, Confirm(c) PROVE StreamTypes'
  BY <1>11 DEF StreamTypes, Confirm
<1>12. ASSUME NEW c \in Consumers, AcquireLost(c) PROVE StreamTypes'
  BY <1>12 DEF StreamTypes, AcquireLost, Fault
<1>13. ASSUME NEW c \in Consumers, ProcessFails(c) PROVE StreamTypes'
  BY <1>13 DEF StreamTypes, ProcessFails, Fault
<1>14. ASSUME NEW c \in Consumers, AckLost(c) PROVE StreamTypes'
  BY <1>14 DEF StreamTypes, AckLost, PopHead, IsHead, Fault
<1>15. ASSUME NEW c \in Consumers, Cancel(c) PROVE StreamTypes'
  BY <1>15 DEF StreamTypes, Cancel, Fault
<1>16. ASSUME NEW c \in Consumers, ReleaseLost(c) PROVE StreamTypes'
  BY <1>16 DEF StreamTypes, ReleaseLost, FinishHandle, Fault
<1>17. ASSUME NEW c \in Consumers, ConfirmLost(c) PROVE StreamTypes'
  <2>1. pel' \in SUBSET SignalIds
    BY <1>17 DEF StreamTypes, ConfirmLost
  <2> QED BY <1>17, <2>1 DEF StreamTypes, ConfirmLost, Fault
<1>18. ASSUME NEW c \in Consumers, Crash(c) PROVE StreamTypes'
  BY <1>18 DEF StreamTypes, Crash, Fault
<1>19. ASSUME NEW m \in Mailboxes, LeaseExpire(m) PROVE StreamTypes'
  BY <1>19 DEF StreamTypes, LeaseExpire, Fault
<1>20. CASE InspectStream
  BY <1>20 DEF StreamTypes, InspectStream
<1>21. CASE InspectGroups
  BY <1>21 DEF StreamTypes, InspectGroups
<1>22. CASE InspectPending
  BY <1>22 DEF StreamTypes, InspectPending
<1>23. CASE Trim
  <2>1. stream' \in SUBSET SignalIds
    BY <1>23 DEF StreamTypes, Trim
  <2> QED BY <1>23, <2>1 DEF StreamTypes, Trim
<1>24. CASE InspectFails
  BY <1>24 DEF StreamTypes, InspectFails
<1>25. CASE UNCHANGED vars
  BY <1>25 DEF StreamTypes, vars
<1> QED
  BY <1>1, <1>2, <1>3, <1>4, <1>5, <1>6, <1>7, <1>8, <1>9, <1>10, <1>11, <1>12, <1>13,
     <1>14, <1>15, <1>16, <1>17, <1>18, <1>19, <1>20, <1>21, <1>22, <1>23, <1>24, <1>25
  DEF Next, Handle, HandleFails, Reconcile

(* Every step preserves the types of the handlers' locals. *)
LEMMA HandlerTypesStep == BaseInv /\ [Next]_vars => HandlerTypes'
<1> SUFFICES ASSUME BaseInv, [Next]_vars PROVE HandlerTypes'
  OBVIOUS
<1> USE MailboxOfType, LimitsType, BoundsType DEF BaseInv, TypeOK
<1>1. ASSUME NEW e \in Events, Enqueue(e) PROVE HandlerTypes'
  BY <1>1 DEF HandlerTypes, Enqueue, AddSignal
<1>2. ASSUME NEW e \in Events, EnqueueTorn(e) PROVE HandlerTypes'
  BY <1>2 DEF HandlerTypes, EnqueueTorn, AddSignal, Fault
<1>3. ASSUME NEW c \in Consumers, Receive(c) PROVE HandlerTypes'
  BY <1>3 DEF HandlerTypes, Receive, StreamTypes
<1>4. ASSUME NEW c \in Consumers, Claim(c) PROVE HandlerTypes'
  BY <1>4 DEF HandlerTypes, Claim, StreamTypes
<1>5. ASSUME NEW c \in Consumers, Acquire(c) PROVE HandlerTypes'
  BY <1>5 DEF HandlerTypes, Acquire
<1>6. ASSUME NEW c \in Consumers, Peek(c) PROVE HandlerTypes'
  <2>1. Lane(c) \in Mailboxes /\ mailbox[Lane(c)] \in Seq(Events)
    BY <1>6, LaneIsMailbox DEF LaneTypes, Peek
  <2>2. mailbox[Lane(c)] # <<>> => Head(mailbox[Lane(c)]) \in Events
    BY <2>1
  <2> QED BY <1>6, <2>2 DEF HandlerTypes, Peek, HeadReference
<1>7. ASSUME NEW c \in Consumers, Process(c) PROVE HandlerTypes'
  BY <1>7 DEF HandlerTypes, Process
<1>8. ASSUME NEW c \in Consumers, AckHead(c) PROVE HandlerTypes'
  <2>1. drained[c] + 1 \in 0..MaxDrain
    BY <1>8 DEF HandlerTypes, HandlerState, AckHead
  <2> QED BY <1>8, <2>1 DEF HandlerTypes, AckHead
<1>9. ASSUME NEW c \in Consumers, AckRefused(c) PROVE HandlerTypes'
  BY <1>9 DEF HandlerTypes, AckRefused
<1>10. ASSUME NEW c \in Consumers, Release(c) PROVE HandlerTypes'
  BY <1>10 DEF HandlerTypes, Release, FinishHandle, TokenMatches
<1>11. ASSUME NEW c \in Consumers, Confirm(c) PROVE HandlerTypes'
  BY <1>11 DEF HandlerTypes, Confirm
<1>12. ASSUME NEW c \in Consumers, AcquireLost(c) PROVE HandlerTypes'
  BY <1>12 DEF HandlerTypes, AcquireLost, Fault
<1>13. ASSUME NEW c \in Consumers, ProcessFails(c) PROVE HandlerTypes'
  BY <1>13 DEF HandlerTypes, ProcessFails, Fault
<1>14. ASSUME NEW c \in Consumers, AckLost(c) PROVE HandlerTypes'
  BY <1>14 DEF HandlerTypes, AckLost, PopHead, IsHead, Fault
<1>15. ASSUME NEW c \in Consumers, Cancel(c) PROVE HandlerTypes'
  BY <1>15 DEF HandlerTypes, Cancel, Fault
<1>16. ASSUME NEW c \in Consumers, ReleaseLost(c) PROVE HandlerTypes'
  BY <1>16 DEF HandlerTypes, ReleaseLost, FinishHandle, Fault
<1>17. ASSUME NEW c \in Consumers, ConfirmLost(c) PROVE HandlerTypes'
  BY <1>17 DEF HandlerTypes, ConfirmLost, Fault
<1>18. ASSUME NEW c \in Consumers, Crash(c) PROVE HandlerTypes'
  BY <1>18 DEF HandlerTypes, Crash, Fault
<1>19. ASSUME NEW m \in Mailboxes, LeaseExpire(m) PROVE HandlerTypes'
  BY <1>19 DEF HandlerTypes, LeaseExpire, Fault
<1>20. CASE InspectStream
  BY <1>20 DEF HandlerTypes, InspectStream
<1>21. CASE InspectGroups
  BY <1>21 DEF HandlerTypes, InspectGroups
<1>22. CASE InspectPending
  BY <1>22 DEF HandlerTypes, InspectPending
<1>23. CASE Trim
  BY <1>23 DEF HandlerTypes, Trim
<1>24. CASE InspectFails
  BY <1>24 DEF HandlerTypes, InspectFails
<1>25. CASE UNCHANGED vars
  BY <1>25 DEF HandlerTypes, vars
<1> QED
  BY <1>1, <1>2, <1>3, <1>4, <1>5, <1>6, <1>7, <1>8, <1>9, <1>10, <1>11, <1>12, <1>13,
     <1>14, <1>15, <1>16, <1>17, <1>18, <1>19, <1>20, <1>21, <1>22, <1>23, <1>24, <1>25
  DEF Next, Handle, HandleFails, Reconcile

(* Every step keeps the ids of the stream and of its group in order. *)
LEMMA SignalStateStep == BaseInv /\ [Next]_vars => SignalState'
<1> SUFFICES ASSUME BaseInv, [Next]_vars PROVE SignalState'
  OBVIOUS
<1> USE MailboxOfType, LimitsType, BoundsType DEF BaseInv, TypeOK
<1>1. ASSUME NEW e \in Events, Enqueue(e) PROVE SignalState'
  <2>1. CASE mailbox[MailboxOf[e]] = <<>>
    <3>1. AddSignal(MailboxOf[e]) /\ UNCHANGED <<delivered, pel>>
      BY <1>1, <2>1 DEF Enqueue
    <3> QED BY <3>1 DEF SignalState, StreamTypes, AddSignal
  <2>2. CASE mailbox[MailboxOf[e]] # <<>>
    BY <1>1, <2>2 DEF SignalState, Enqueue
  <2> QED BY <2>1, <2>2
<1>2. ASSUME NEW e \in Events, EnqueueTorn(e) PROVE SignalState'
  BY <1>2 DEF SignalState, StreamTypes, EnqueueTorn, AddSignal, Fault
<1>3. ASSUME NEW c \in Consumers, Receive(c) PROVE SignalState'
  BY <1>3 DEF SignalState, StreamTypes, Receive
<1>4. ASSUME NEW c \in Consumers, Claim(c) PROVE SignalState'
  BY <1>4 DEF SignalState, StreamTypes, Claim
<1>5. ASSUME NEW c \in Consumers, Acquire(c) PROVE SignalState'
  BY <1>5 DEF SignalState, StreamTypes, Acquire
<1>6. ASSUME NEW c \in Consumers, Peek(c) PROVE SignalState'
  BY <1>6 DEF SignalState, StreamTypes, Peek, Lane
<1>7. ASSUME NEW c \in Consumers, Process(c) PROVE SignalState'
  BY <1>7 DEF SignalState, StreamTypes, Process
<1>8. ASSUME NEW c \in Consumers, AckHead(c) PROVE SignalState'
  BY <1>8 DEF SignalState, StreamTypes, AckHead, PopHead, IsHead, DrainsOn
<1>9. ASSUME NEW c \in Consumers, AckRefused(c) PROVE SignalState'
  BY <1>9 DEF SignalState, StreamTypes, AckRefused
<1>10. ASSUME NEW c \in Consumers, Release(c) PROVE SignalState'
  BY <1>10 DEF SignalState, StreamTypes, Release, FinishHandle, TokenMatches
<1>11. ASSUME NEW c \in Consumers, Confirm(c) PROVE SignalState'
  BY <1>11 DEF SignalState, StreamTypes, Confirm
<1>12. ASSUME NEW c \in Consumers, AcquireLost(c) PROVE SignalState'
  BY <1>12 DEF SignalState, StreamTypes, AcquireLost, Fault
<1>13. ASSUME NEW c \in Consumers, ProcessFails(c) PROVE SignalState'
  BY <1>13 DEF SignalState, StreamTypes, ProcessFails, Fault
<1>14. ASSUME NEW c \in Consumers, AckLost(c) PROVE SignalState'
  BY <1>14 DEF SignalState, StreamTypes, AckLost, PopHead, IsHead, Fault
<1>15. ASSUME NEW c \in Consumers, Cancel(c) PROVE SignalState'
  BY <1>15 DEF SignalState, StreamTypes, Cancel, Fault
<1>16. ASSUME NEW c \in Consumers, ReleaseLost(c) PROVE SignalState'
  BY <1>16 DEF SignalState, StreamTypes, ReleaseLost, FinishHandle, Fault
<1>17. ASSUME NEW c \in Consumers, ConfirmLost(c) PROVE SignalState'
  BY <1>17 DEF SignalState, StreamTypes, ConfirmLost, Fault
<1>18. ASSUME NEW c \in Consumers, Crash(c) PROVE SignalState'
  BY <1>18 DEF SignalState, StreamTypes, Crash, Fault
<1>19. ASSUME NEW m \in Mailboxes, LeaseExpire(m) PROVE SignalState'
  BY <1>19 DEF SignalState, StreamTypes, LeaseExpire, Fault
<1>20. CASE InspectStream
  BY <1>20 DEF SignalState, StreamTypes, InspectStream
<1>21. CASE InspectGroups
  BY <1>21 DEF SignalState, StreamTypes, InspectGroups
<1>22. CASE InspectPending
  BY <1>22 DEF SignalState, StreamTypes, InspectPending
<1>23. CASE Trim
  BY <1>23 DEF SignalState, StreamTypes, Trim
<1>24. CASE InspectFails
  BY <1>24 DEF SignalState, StreamTypes, InspectFails
<1>25. CASE UNCHANGED vars
  BY <1>25 DEF SignalState, StreamTypes, vars
<1> QED
  BY <1>1, <1>2, <1>3, <1>4, <1>5, <1>6, <1>7, <1>8, <1>9, <1>10, <1>11, <1>12, <1>13,
     <1>14, <1>15, <1>16, <1>17, <1>18, <1>19, <1>20, <1>21, <1>22, <1>23, <1>24, <1>25
  DEF Next, Handle, HandleFails, Reconcile

(* Every step keeps a handler's locals in line with its program counter. *)
LEMMA HandlerStateStep == BaseInv /\ [Next]_vars => HandlerState'
<1> SUFFICES ASSUME BaseInv, [Next]_vars PROVE HandlerState'
  OBVIOUS
<1> USE MailboxOfType, LimitsType, BoundsType DEF BaseInv, TypeOK
<1>1. ASSUME NEW e \in Events, Enqueue(e) PROVE HandlerState'
  BY <1>1 DEF HandlerState, HandlerTypes, StreamTypes, Enqueue, AddSignal
<1>2. ASSUME NEW e \in Events, EnqueueTorn(e) PROVE HandlerState'
  BY <1>2 DEF HandlerState, HandlerTypes, StreamTypes, EnqueueTorn, AddSignal, Fault
<1>3. ASSUME NEW c \in Consumers, Receive(c) PROVE HandlerState'
  BY <1>3 DEF HandlerState, HandlerTypes, StreamTypes, Receive, SignalState
<1>4. ASSUME NEW c \in Consumers, Claim(c) PROVE HandlerState'
  BY <1>4 DEF HandlerState, HandlerTypes, StreamTypes, Claim, SignalState
<1>5. ASSUME NEW c \in Consumers, Acquire(c) PROVE HandlerState'
  BY <1>5 DEF HandlerState, HandlerTypes, StreamTypes, Acquire
<1>6. ASSUME NEW c \in Consumers, Peek(c) PROVE HandlerState'
  <2>1. Lane(c) \in Mailboxes /\ mailbox[Lane(c)] \in Seq(Events)
    BY <1>6, LaneIsMailbox DEF LaneTypes, Peek
  <2>2. mailbox[Lane(c)] # <<>> => Head(mailbox[Lane(c)]) \in Events
    BY <2>1
  <2> QED BY <1>6, <2>2 DEF HandlerState, HandlerTypes, Peek, HeadReference
<1>7. ASSUME NEW c \in Consumers, Process(c) PROVE HandlerState'
  BY <1>7 DEF HandlerState, HandlerTypes, StreamTypes, Process
<1>8. ASSUME NEW c \in Consumers, AckHead(c) PROVE HandlerState'
  BY <1>8 DEF HandlerState, HandlerTypes, StreamTypes, AckHead, PopHead, IsHead, DrainsOn
<1>9. ASSUME NEW c \in Consumers, AckRefused(c) PROVE HandlerState'
  BY <1>9 DEF HandlerState, HandlerTypes, StreamTypes, AckRefused
<1>10. ASSUME NEW c \in Consumers, Release(c) PROVE HandlerState'
  BY <1>10 DEF HandlerState, HandlerTypes, StreamTypes, Release, FinishHandle, TokenMatches
<1>11. ASSUME NEW c \in Consumers, Confirm(c) PROVE HandlerState'
  BY <1>11 DEF HandlerState, HandlerTypes, StreamTypes, Confirm
<1>12. ASSUME NEW c \in Consumers, AcquireLost(c) PROVE HandlerState'
  BY <1>12 DEF HandlerState, HandlerTypes, StreamTypes, AcquireLost, Fault
<1>13. ASSUME NEW c \in Consumers, ProcessFails(c) PROVE HandlerState'
  BY <1>13 DEF HandlerState, HandlerTypes, StreamTypes, ProcessFails, Fault
<1>14. ASSUME NEW c \in Consumers, AckLost(c) PROVE HandlerState'
  BY <1>14 DEF HandlerState, HandlerTypes, StreamTypes, AckLost, PopHead, IsHead, Fault
<1>15. ASSUME NEW c \in Consumers, Cancel(c) PROVE HandlerState'
  BY <1>15 DEF HandlerState, HandlerTypes, StreamTypes, Cancel, Fault
<1>16. ASSUME NEW c \in Consumers, ReleaseLost(c) PROVE HandlerState'
  BY <1>16 DEF HandlerState, HandlerTypes, StreamTypes, ReleaseLost, FinishHandle, Fault
<1>17. ASSUME NEW c \in Consumers, ConfirmLost(c) PROVE HandlerState'
  BY <1>17 DEF HandlerState, HandlerTypes, StreamTypes, ConfirmLost, Fault
<1>18. ASSUME NEW c \in Consumers, Crash(c) PROVE HandlerState'
  BY <1>18 DEF HandlerState, HandlerTypes, StreamTypes, Crash, Fault
<1>19. ASSUME NEW m \in Mailboxes, LeaseExpire(m) PROVE HandlerState'
  BY <1>19 DEF HandlerState, HandlerTypes, StreamTypes, LeaseExpire, Fault
<1>20. CASE InspectStream
  BY <1>20 DEF HandlerState, HandlerTypes, StreamTypes, InspectStream
<1>21. CASE InspectGroups
  BY <1>21 DEF HandlerState, HandlerTypes, StreamTypes, InspectGroups
<1>22. CASE InspectPending
  BY <1>22 DEF HandlerState, HandlerTypes, StreamTypes, InspectPending
<1>23. CASE Trim
  BY <1>23 DEF HandlerState, HandlerTypes, StreamTypes, Trim
<1>24. CASE InspectFails
  BY <1>24 DEF HandlerState, HandlerTypes, StreamTypes, InspectFails
<1>25. CASE UNCHANGED vars
  BY <1>25 DEF HandlerState, HandlerTypes, StreamTypes, vars
<1> QED
  BY <1>1, <1>2, <1>3, <1>4, <1>5, <1>6, <1>7, <1>8, <1>9, <1>10, <1>11, <1>12, <1>13,
     <1>14, <1>15, <1>16, <1>17, <1>18, <1>19, <1>20, <1>21, <1>22, <1>23, <1>24, <1>25
  DEF Next, Handle, HandleFails, Reconcile

(* Every step preserves the base invariant.                                *)
LEMMA BaseStep == BaseInv /\ [Next]_vars => BaseInv'
  BY LaneTypesStep, StreamTypesStep, HandlerTypesStep, SignalStateStep, HandlerStateStep
  DEF BaseInv, TypeOK

(* The base invariant holds when nothing was enqueued yet.                 *)
LEMMA BaseInit == Init => BaseInv
  BY LimitsType, BoundsType
  DEF Init, BaseInv, TypeOK, LaneTypes, StreamTypes, HandlerTypes, SignalState, HandlerState

(* The state keeps its types under every interleaving of cleaner, handlers *)
(* and trimmer, faults included.                                           *)
THEOREM TypeCorrect == Spec => []TypeOK
<1>1. BaseInv => TypeOK
  BY DEF BaseInv
<1> QED BY <1>1, BaseInit, BaseStep, PTL DEF Spec

-----------------------------------------------------------------------------
(* Wakeups.  NoLostWakeup says nothing about the moment between a drain    *)
(* that found the mailbox empty and the confirmation of its signal, when   *)
(* the cleaner may enqueue again: the signal that keeps the mailbox awake  *)
(* must then be another one.                                               *)

(* A handler that will confirm its signal unless it is cancelled. *)
Completing(c) == pc[c] = "settle" \/ (pc[c] = "release" /\ outcome[c] = "complete")

(* Signal i will make a handler look into mailbox m. *)
Wakes(i, m) ==
  sigMailbox[i] = m /\ Owed(i) /\ \A c \in Consumers : Completing(c) => sig[c] # i

WakeupState == \A m \in Mailboxes : mailbox[m] # <<>> => \E i \in 1..lastSig : Wakes(i, m)

(* The boundary stays below all that is owed while other clients read and  *)
(* confirm: the group's cursor only advances, and what it passes becomes   *)
(* pending.                                                                *)
TrimState ==
  mgrPc = "trim" => /\ boundary <= delivered + 1
                    /\ \A i \in 1..lastSig : Owed(i) => boundary <= i

WakeupInv == BaseInv /\ TrimKeepsOwed /\ TrimState /\ WakeupState

(* Every step keeps the trimmer's boundary below all that is owed. *)
LEMMA TrimStateStep == WakeupInv /\ [Next]_vars => TrimState'
<1> SUFFICES ASSUME WakeupInv, [Next]_vars PROVE TrimState'
  OBVIOUS
<1> USE MailboxOfType, LimitsType, BoundsType DEF WakeupInv, BaseInv, TypeOK
<1>1. ASSUME NEW e \in Events, Enqueue(e) PROVE TrimState'
  <2>1. CASE mailbox[MailboxOf[e]] = <<>>
    <3>1. AddSignal(MailboxOf[e]) /\ UNCHANGED <<delivered, pel, mgrPc, boundary>>
      BY <1>1, <2>1 DEF Enqueue
    <3> QED BY <3>1 DEF TrimState, Owed, StreamTypes, SignalState, AddSignal
  <2>2. CASE mailbox[MailboxOf[e]] # <<>>
    BY <1>1, <2>2 DEF TrimState, Owed, Enqueue
  <2> QED BY <2>1, <2>2
<1>2. ASSUME NEW e \in Events, EnqueueTorn(e) PROVE TrimState'
  BY <1>2 DEF TrimState, Owed, StreamTypes, SignalState, EnqueueTorn, AddSignal, Fault
<1>3. ASSUME NEW c \in Consumers, Receive(c) PROVE TrimState'
  BY <1>3 DEF TrimState, Owed, StreamTypes, SignalState, Receive, TrimKeepsOwed
<1>4. ASSUME NEW c \in Consumers, Claim(c) PROVE TrimState'
  BY <1>4 DEF TrimState, Owed, StreamTypes, SignalState, Claim
<1>5. ASSUME NEW c \in Consumers, Acquire(c) PROVE TrimState'
  BY <1>5 DEF TrimState, Owed, StreamTypes, SignalState, Acquire
<1>6. ASSUME NEW c \in Consumers, Peek(c) PROVE TrimState'
  BY <1>6 DEF TrimState, Owed, StreamTypes, SignalState, Peek, Lane
<1>7. ASSUME NEW c \in Consumers, Process(c) PROVE TrimState'
  BY <1>7 DEF TrimState, Owed, StreamTypes, SignalState, Process
<1>8. ASSUME NEW c \in Consumers, AckHead(c) PROVE TrimState'
  BY <1>8 DEF TrimState, Owed, StreamTypes, SignalState, AckHead, PopHead, IsHead, DrainsOn
<1>9. ASSUME NEW c \in Consumers, AckRefused(c) PROVE TrimState'
  BY <1>9 DEF TrimState, Owed, StreamTypes, SignalState, AckRefused
<1>10. ASSUME NEW c \in Consumers, Release(c) PROVE TrimState'
  BY <1>10 DEF TrimState, Owed, StreamTypes, SignalState, Release, FinishHandle, TokenMatches
<1>11. ASSUME NEW c \in Consumers, Confirm(c) PROVE TrimState'
  BY <1>11 DEF TrimState, Owed, StreamTypes, SignalState, Confirm
<1>12. ASSUME NEW c \in Consumers, AcquireLost(c) PROVE TrimState'
  BY <1>12 DEF TrimState, Owed, StreamTypes, SignalState, AcquireLost, Fault
<1>13. ASSUME NEW c \in Consumers, ProcessFails(c) PROVE TrimState'
  BY <1>13 DEF TrimState, Owed, StreamTypes, SignalState, ProcessFails, Fault
<1>14. ASSUME NEW c \in Consumers, AckLost(c) PROVE TrimState'
  BY <1>14 DEF TrimState, Owed, StreamTypes, SignalState, AckLost, PopHead, IsHead, Fault
<1>15. ASSUME NEW c \in Consumers, Cancel(c) PROVE TrimState'
  BY <1>15 DEF TrimState, Owed, StreamTypes, SignalState, Cancel, Fault
<1>16. ASSUME NEW c \in Consumers, ReleaseLost(c) PROVE TrimState'
  BY <1>16 DEF TrimState, Owed, StreamTypes, SignalState, ReleaseLost, FinishHandle, Fault
<1>17. ASSUME NEW c \in Consumers, ConfirmLost(c) PROVE TrimState'
  BY <1>17 DEF TrimState, Owed, StreamTypes, SignalState, ConfirmLost, Fault
<1>18. ASSUME NEW c \in Consumers, Crash(c) PROVE TrimState'
  BY <1>18 DEF TrimState, Owed, StreamTypes, SignalState, Crash, Fault
<1>19. ASSUME NEW m \in Mailboxes, LeaseExpire(m) PROVE TrimState'
  BY <1>19 DEF TrimState, Owed, StreamTypes, SignalState, LeaseExpire, Fault
<1>20. CASE InspectStream
  BY <1>20 DEF TrimState, Owed, StreamTypes, SignalState, InspectStream
<1>21. CASE InspectGroups
  BY <1>21 DEF TrimState, Owed, StreamTypes, SignalState, InspectGroups
<1>22. CASE InspectPending
  BY <1>22 DEF TrimState, Owed, StreamTypes, SignalState, InspectPending
<1>23. CASE Trim
  BY <1>23 DEF TrimState, Owed, StreamTypes, SignalState, Trim
<1>24. CASE InspectFails
  BY <1>24 DEF TrimState, Owed, StreamTypes, SignalState, InspectFails
<1>25. CASE UNCHANGED vars
  BY <1>25 DEF TrimState, Owed, StreamTypes, SignalState, vars
<1> QED
  BY <1>1, <1>2, <1>3, <1>4, <1>5, <1>6, <1>7, <1>8, <1>9, <1>10, <1>11, <1>12, <1>13,
     <1>14, <1>15, <1>16, <1>17, <1>18, <1>19, <1>20, <1>21, <1>22, <1>23, <1>24, <1>25
  DEF Next, Handle, HandleFails, Reconcile

(* Every step keeps what is owed in the stream. *)
LEMMA OwedStep == WakeupInv /\ [Next]_vars => TrimKeepsOwed'
<1> SUFFICES ASSUME WakeupInv, [Next]_vars PROVE TrimKeepsOwed'
  OBVIOUS
<1> USE MailboxOfType, LimitsType, BoundsType DEF WakeupInv, BaseInv, TypeOK
<1>1. ASSUME NEW e \in Events, Enqueue(e) PROVE TrimKeepsOwed'
  <2>1. CASE mailbox[MailboxOf[e]] = <<>>
    <3>1. AddSignal(MailboxOf[e]) /\ UNCHANGED <<delivered, pel>>
      BY <1>1, <2>1 DEF Enqueue
    <3> QED BY <3>1 DEF TrimKeepsOwed, Owed, StreamTypes, SignalState, AddSignal
  <2>2. CASE mailbox[MailboxOf[e]] # <<>>
    BY <1>1, <2>2 DEF TrimKeepsOwed, Owed, Enqueue
  <2> QED BY <2>1, <2>2
<1>2. ASSUME NEW e \in Events, EnqueueTorn(e) PROVE TrimKeepsOwed'
  BY <1>2 DEF TrimKeepsOwed, Owed, StreamTypes, SignalState, EnqueueTorn, AddSignal, Fault
<1>3. ASSUME NEW c \in Consumers, Receive(c) PROVE TrimKeepsOwed'
  BY <1>3 DEF TrimKeepsOwed, Owed, StreamTypes, SignalState, Receive
<1>4. ASSUME NEW c \in Consumers, Claim(c) PROVE TrimKeepsOwed'
  BY <1>4 DEF TrimKeepsOwed, Owed, StreamTypes, SignalState, Claim
<1>5. ASSUME NEW c \in Consumers, Acquire(c) PROVE TrimKeepsOwed'
  BY <1>5 DEF TrimKeepsOwed, Owed, StreamTypes, SignalState, Acquire
<1>6. ASSUME NEW c \in Consumers, Peek(c) PROVE TrimKeepsOwed'
  BY <1>6 DEF TrimKeepsOwed, Owed, StreamTypes, SignalState, Peek, Lane
<1>7. ASSUME NEW c \in Consumers, Process(c) PROVE TrimKeepsOwed'
  BY <1>7 DEF TrimKeepsOwed, Owed, StreamTypes, SignalState, Process
<1>8. ASSUME NEW c \in Consumers, AckHead(c) PROVE TrimKeepsOwed'
  BY <1>8 DEF TrimKeepsOwed, Owed, StreamTypes, SignalState, AckHead, PopHead, IsHead, DrainsOn
<1>9. ASSUME NEW c \in Consumers, AckRefused(c) PROVE TrimKeepsOwed'
  BY <1>9 DEF TrimKeepsOwed, Owed, StreamTypes, SignalState, AckRefused
<1>10. ASSUME NEW c \in Consumers, Release(c) PROVE TrimKeepsOwed'
  BY <1>10
  DEF TrimKeepsOwed, Owed, StreamTypes, SignalState, Release, FinishHandle, TokenMatches
<1>11. ASSUME NEW c \in Consumers, Confirm(c) PROVE TrimKeepsOwed'
  BY <1>11 DEF TrimKeepsOwed, Owed, StreamTypes, SignalState, Confirm
<1>12. ASSUME NEW c \in Consumers, AcquireLost(c) PROVE TrimKeepsOwed'
  BY <1>12 DEF TrimKeepsOwed, Owed, StreamTypes, SignalState, AcquireLost, Fault
<1>13. ASSUME NEW c \in Consumers, ProcessFails(c) PROVE TrimKeepsOwed'
  BY <1>13 DEF TrimKeepsOwed, Owed, StreamTypes, SignalState, ProcessFails, Fault
<1>14. ASSUME NEW c \in Consumers, AckLost(c) PROVE TrimKeepsOwed'
  BY <1>14 DEF TrimKeepsOwed, Owed, StreamTypes, SignalState, AckLost, PopHead, IsHead, Fault
<1>15. ASSUME NEW c \in Consumers, Cancel(c) PROVE TrimKeepsOwed'
  BY <1>15 DEF TrimKeepsOwed, Owed, StreamTypes, SignalState, Cancel, Fault
<1>16. ASSUME NEW c \in Consumers, ReleaseLost(c) PROVE TrimKeepsOwed'
  BY <1>16 DEF TrimKeepsOwed, Owed, StreamTypes, SignalState, ReleaseLost, FinishHandle, Fault
<1>17. ASSUME NEW c \in Consumers, ConfirmLost(c) PROVE TrimKeepsOwed'
  BY <1>17 DEF TrimKeepsOwed, Owed, StreamTypes, SignalState, ConfirmLost, Fault
<1>18. ASSUME NEW c \in Consumers, Crash(c) PROVE TrimKeepsOwed'
  BY <1>18 DEF TrimKeepsOwed, Owed, StreamTypes, SignalState, Crash, Fault
<1>19. ASSUME NEW m \in Mailboxes, LeaseExpire(m) PROVE TrimKeepsOwed'
  BY <1>19 DEF TrimKeepsOwed, Owed, StreamTypes, SignalState, LeaseExpire, Fault
<1>20. CASE InspectStream
  BY <1>20 DEF TrimKeepsOwed, Owed, StreamTypes, SignalState, InspectStream
<1>21. CASE InspectGroups
  BY <1>21 DEF TrimKeepsOwed, Owed, StreamTypes, SignalState, InspectGroups
<1>22. CASE InspectPending
  BY <1>22 DEF TrimKeepsOwed, Owed, StreamTypes, SignalState, InspectPending
<1>23. CASE Trim
  BY <1>23 DEF TrimKeepsOwed, Owed, StreamTypes, SignalState, Trim, TrimState
<1>24. CASE InspectFails
  BY <1>24 DEF TrimKeepsOwed, Owed, StreamTypes, SignalState, InspectFails
<1>25. CASE UNCHANGED vars
  BY <1>25 DEF TrimKeepsOwed, Owed, StreamTypes, SignalState, vars
<1> QED
  BY <1>1, <1>2, <1>3, <1>4, <1>5, <1>6, <1>7, <1>8, <1>9, <1>10, <1>11, <1>12, <1>13,
     <1>14, <1>15, <1>16, <1>17, <1>18, <1>19, <1>20, <1>21, <1>22, <1>23, <1>24, <1>25
  DEF Next, Handle, HandleFails, Reconcile

(* The mailboxes stay awake in a step that fills none of them, keeps a     *)
(* wakeup owed, and in which no handler begins to complete its signal.     *)
LEMMA WakeupKept ==
  ASSUME WakeupState,
         UNCHANGED <<lastSig, sigMailbox>>,
         \A m \in Mailboxes : mailbox'[m] # <<>> => mailbox[m] # <<>>,
         \A m \in Mailboxes : \A i \in 1..lastSig : Wakes(i, m) => Owed(i)',
         \A c \in Consumers : Completing(c)' => Completing(c) /\ sig'[c] = sig[c]
  PROVE  WakeupState'
<1> SUFFICES ASSUME NEW m \in Mailboxes, mailbox[m] # <<>>
             PROVE  \E i \in 1..lastSig' : Wakes(i, m)'
  BY DEF WakeupState
<1>1. PICK i \in 1..lastSig : Wakes(i, m)
  BY DEF WakeupState
<1>2. \A c \in Consumers : Completing(c)' => sig'[c] # i
  BY <1>1 DEF Wakes
<1>3. sigMailbox'[i] = m /\ Owed(i)'
  BY <1>1 DEF Wakes
<1> QED BY <1>2, <1>3 DEF Wakes

(* Every step leaves a mailbox with references a signal that wakes it. *)
LEMMA WakeupStateStep == WakeupInv /\ [Next]_vars => WakeupState'
<1> SUFFICES ASSUME WakeupInv, [Next]_vars PROVE WakeupState'
  OBVIOUS
<1> USE MailboxOfType, LimitsType, BoundsType DEF WakeupInv, BaseInv, TypeOK
<1>1. ASSUME NEW e \in Events, Enqueue(e) PROVE WakeupState'
  <2> DEFINE l == MailboxOf[e]
  <2>1. CASE mailbox[l] = <<>>
    <3>1. AddSignal(l) /\ UNCHANGED <<delivered, pel, pc, sig, outcome>>
      BY <1>1, <2>1 DEF Enqueue
    <3>2. PICK n \in 1..lastSig' : n = lastSig + 1
      BY <3>1 DEF AddSignal, StreamTypes
    <3>4. Wakes(n, l)'
      <4>1. Owed(n)' /\ sigMailbox'[n] = l
        BY <3>1, <3>2 DEF AddSignal, Owed, StreamTypes, SignalState
      <4>2. ASSUME NEW c \in Consumers, Completing(c)' PROVE sig'[c] # n
        BY <3>1, <3>2, <4>2 DEF Completing, HandlerState, SignalState, StreamTypes
      <4> QED BY <4>1, <4>2 DEF Wakes
    <3>3. ASSUME NEW m \in Mailboxes, mailbox[m] # <<>> PROVE \E i \in 1..lastSig' : Wakes(i, m)'
      <4>1. PICK i \in 1..lastSig : Wakes(i, m)
        BY <3>3 DEF WakeupState
      <4>2. i # lastSig + 1 /\ i \in 1..lastSig' /\ sigMailbox'[i] = sigMailbox[i]
        BY <3>1 DEF AddSignal, StreamTypes
      <4> QED BY <3>1, <4>1, <4>2 DEF Wakes, Owed, Completing
    <3>5. \A m \in Mailboxes : m # l => mailbox'[m] = mailbox[m]
      BY <1>1 DEF Enqueue, LaneTypes
    <3> QED BY <2>1, <3>3, <3>4, <3>5 DEF WakeupState
  <2>2. CASE mailbox[l] # <<>>
    <3>1. UNCHANGED <<lastSig, sigMailbox, delivered, pel, pc, sig, outcome>>
      BY <1>1, <2>2 DEF Enqueue
    <3>2. \A m \in Mailboxes : mailbox'[m] # <<>> => mailbox[m] # <<>>
      BY <1>1, <2>2 DEF Enqueue, LaneTypes
    <3> QED BY <3>1, <3>2 DEF WakeupState, Wakes, Owed, Completing
  <2> QED BY <2>1, <2>2
<1>2. ASSUME NEW e \in Events, EnqueueTorn(e) PROVE WakeupState'
  <2> SUFFICES ASSUME NEW m \in Mailboxes, mailbox[m] # <<>>
              PROVE  \E i \in 1..lastSig' : Wakes(i, m)'
    BY <1>2 DEF EnqueueTorn, WakeupState
  <2>1. PICK i \in 1..lastSig : Wakes(i, m)
    BY DEF WakeupState
  <2>2. i # lastSig + 1 /\ i \in 1..lastSig' /\ sigMailbox'[i] = sigMailbox[i]
    BY <1>2 DEF EnqueueTorn, AddSignal, StreamTypes
  <2> QED BY <1>2, <2>1, <2>2 DEF EnqueueTorn, Wakes, Owed, Completing
<1>3. ASSUME NEW c \in Consumers, Receive(c) PROVE WakeupState'
  <2>1. UNCHANGED <<lastSig, sigMailbox>>
    BY <1>3 DEF Receive
  <2>2. \A m \in Mailboxes : mailbox'[m] # <<>> => mailbox[m] # <<>>
    BY <1>3 DEF Receive
  <2>3. \A m \in Mailboxes : \A i \in 1..lastSig : Wakes(i, m) => Owed(i)'
    BY <1>3 DEF Receive, Wakes, Owed, TrimKeepsOwed, StreamTypes, SignalState
  <2>4. \A d \in Consumers : Completing(d)' => Completing(d) /\ sig'[d] = sig[d]
    BY <1>3 DEF Receive, Completing, HandlerTypes
  <2> QED BY <2>1, <2>2, <2>3, <2>4, WakeupKept
<1>4. ASSUME NEW c \in Consumers, Claim(c) PROVE WakeupState'
  <2>1. UNCHANGED <<lastSig, sigMailbox>>
    BY <1>4 DEF Claim
  <2>2. \A m \in Mailboxes : mailbox'[m] # <<>> => mailbox[m] # <<>>
    BY <1>4 DEF Claim
  <2>3. \A m \in Mailboxes : \A i \in 1..lastSig : Wakes(i, m) => Owed(i)'
    BY <1>4 DEF Claim, Wakes, Owed
  <2>4. \A d \in Consumers : Completing(d)' => Completing(d) /\ sig'[d] = sig[d]
    BY <1>4 DEF Claim, Completing, HandlerTypes
  <2> QED BY <2>1, <2>2, <2>3, <2>4, WakeupKept
<1>5. ASSUME NEW c \in Consumers, Acquire(c) PROVE WakeupState'
  <2>1. UNCHANGED <<lastSig, sigMailbox>>
    BY <1>5 DEF Acquire
  <2>2. \A m \in Mailboxes : mailbox'[m] # <<>> => mailbox[m] # <<>>
    BY <1>5 DEF Acquire
  <2>3. \A m \in Mailboxes : \A i \in 1..lastSig : Wakes(i, m) => Owed(i)'
    BY <1>5 DEF Acquire, Wakes, Owed
  <2>4. \A d \in Consumers : Completing(d)' => Completing(d) /\ sig'[d] = sig[d]
    BY <1>5 DEF Acquire, Completing, HandlerTypes
  <2> QED BY <2>1, <2>2, <2>3, <2>4, WakeupKept
<1>6. ASSUME NEW c \in Consumers, Peek(c) PROVE WakeupState'
  <2> SUFFICES ASSUME NEW m \in Mailboxes, mailbox[m] # <<>>
              PROVE  \E i \in 1..lastSig' : Wakes(i, m)'
    BY <1>6 DEF Peek, WakeupState
  <2>1. PICK i \in 1..lastSig : Wakes(i, m)
    BY DEF WakeupState
  <2>2. UNCHANGED <<lastSig, sigMailbox, delivered, pel, sig>>
    BY <1>6 DEF Peek
  <2>3. ASSUME NEW d \in Consumers, Completing(d)' PROVE sig[d] # i
    <3>1. CASE d = c
      <4>1. mailbox[Lane(c)] = <<>>
        BY <1>6, <2>3, <3>1 DEF Peek, Completing, HandlerTypes
      <4> QED BY <2>1, <3>1, <4>1 DEF Lane, Wakes
    <3>2. CASE d # c
      BY <1>6, <2>1, <2>3, <3>2 DEF Peek, Completing, HandlerTypes, Wakes
    <3> QED BY <3>1, <3>2
  <2> QED BY <2>1, <2>2, <2>3 DEF Wakes, Owed
<1>7. ASSUME NEW c \in Consumers, Process(c) PROVE WakeupState'
  <2>1. UNCHANGED <<lastSig, sigMailbox>>
    BY <1>7 DEF Process
  <2>2. \A m \in Mailboxes : mailbox'[m] # <<>> => mailbox[m] # <<>>
    BY <1>7 DEF Process
  <2>3. \A m \in Mailboxes : \A i \in 1..lastSig : Wakes(i, m) => Owed(i)'
    BY <1>7 DEF Process, Wakes, Owed
  <2>4. \A d \in Consumers : Completing(d)' => Completing(d) /\ sig'[d] = sig[d]
    BY <1>7 DEF Process, Completing, HandlerTypes
  <2> QED BY <2>1, <2>2, <2>3, <2>4, WakeupKept
<1>8. ASSUME NEW c \in Consumers, AckHead(c) PROVE WakeupState'
  <2>1. UNCHANGED <<lastSig, sigMailbox>>
    BY <1>8 DEF AckHead
  <2>2. \A m \in Mailboxes : mailbox'[m] # <<>> => mailbox[m] # <<>>
    BY <1>8 DEF AckHead, PopHead, IsHead, LaneTypes
  <2>3. \A m \in Mailboxes : \A i \in 1..lastSig : Wakes(i, m) => Owed(i)'
    BY <1>8 DEF AckHead, Wakes, Owed
  <2>4. \A d \in Consumers : Completing(d)' => Completing(d) /\ sig'[d] = sig[d]
    BY <1>8 DEF AckHead, Completing, HandlerTypes
  <2> QED BY <2>1, <2>2, <2>3, <2>4, WakeupKept
<1>9. ASSUME NEW c \in Consumers, AckRefused(c) PROVE WakeupState'
  <2>1. UNCHANGED <<lastSig, sigMailbox>>
    BY <1>9 DEF AckRefused
  <2>2. \A m \in Mailboxes : mailbox'[m] # <<>> => mailbox[m] # <<>>
    BY <1>9 DEF AckRefused
  <2>3. \A m \in Mailboxes : \A i \in 1..lastSig : Wakes(i, m) => Owed(i)'
    BY <1>9 DEF AckRefused, Wakes, Owed
  <2>4. \A d \in Consumers : Completing(d)' => Completing(d) /\ sig'[d] = sig[d]
    BY <1>9 DEF AckRefused, Completing, HandlerTypes
  <2> QED BY <2>1, <2>2, <2>3, <2>4, WakeupKept
<1>10. ASSUME NEW c \in Consumers, Release(c) PROVE WakeupState'
  <2>1. UNCHANGED <<lastSig, sigMailbox>>
    BY <1>10 DEF Release
  <2>2. \A m \in Mailboxes : mailbox'[m] # <<>> => mailbox[m] # <<>>
    BY <1>10 DEF Release
  <2>3. \A m \in Mailboxes : \A i \in 1..lastSig : Wakes(i, m) => Owed(i)'
    BY <1>10 DEF Release, Wakes, Owed
  <2>4. \A d \in Consumers : Completing(d)' => Completing(d) /\ sig'[d] = sig[d]
    BY <1>10 DEF Release, FinishHandle, Completing, HandlerTypes
  <2> QED BY <2>1, <2>2, <2>3, <2>4, WakeupKept
<1>11. ASSUME NEW c \in Consumers, Confirm(c) PROVE WakeupState'
  <2>1. UNCHANGED <<lastSig, sigMailbox>>
    BY <1>11 DEF Confirm
  <2>2. \A m \in Mailboxes : mailbox'[m] # <<>> => mailbox[m] # <<>>
    BY <1>11 DEF Confirm
  <2>3. \A m \in Mailboxes : \A i \in 1..lastSig : Wakes(i, m) => Owed(i)'
    BY <1>11 DEF Confirm, Wakes, Owed, Completing
  <2>4. \A d \in Consumers : Completing(d)' => Completing(d) /\ sig'[d] = sig[d]
    BY <1>11 DEF Confirm, Completing, HandlerTypes
  <2> QED BY <2>1, <2>2, <2>3, <2>4, WakeupKept
<1>12. ASSUME NEW c \in Consumers, AcquireLost(c) PROVE WakeupState'
  <2>1. UNCHANGED <<lastSig, sigMailbox>>
    BY <1>12 DEF AcquireLost
  <2>2. \A m \in Mailboxes : mailbox'[m] # <<>> => mailbox[m] # <<>>
    BY <1>12 DEF AcquireLost
  <2>3. \A m \in Mailboxes : \A i \in 1..lastSig : Wakes(i, m) => Owed(i)'
    BY <1>12 DEF AcquireLost, Wakes, Owed
  <2>4. \A d \in Consumers : Completing(d)' => Completing(d) /\ sig'[d] = sig[d]
    BY <1>12 DEF AcquireLost, Completing, HandlerTypes
  <2> QED BY <2>1, <2>2, <2>3, <2>4, WakeupKept
<1>13. ASSUME NEW c \in Consumers, ProcessFails(c) PROVE WakeupState'
  <2>1. UNCHANGED <<lastSig, sigMailbox>>
    BY <1>13 DEF ProcessFails
  <2>2. \A m \in Mailboxes : mailbox'[m] # <<>> => mailbox[m] # <<>>
    BY <1>13 DEF ProcessFails
  <2>3. \A m \in Mailboxes : \A i \in 1..lastSig : Wakes(i, m) => Owed(i)'
    BY <1>13 DEF ProcessFails, Wakes, Owed
  <2>4. \A d \in Consumers : Completing(d)' => Completing(d) /\ sig'[d] = sig[d]
    BY <1>13 DEF ProcessFails, Completing, HandlerTypes
  <2> QED BY <2>1, <2>2, <2>3, <2>4, WakeupKept
<1>14. ASSUME NEW c \in Consumers, AckLost(c) PROVE WakeupState'
  <2>1. UNCHANGED <<lastSig, sigMailbox>>
    BY <1>14 DEF AckLost
  <2>2. \A m \in Mailboxes : mailbox'[m] # <<>> => mailbox[m] # <<>>
    BY <1>14 DEF AckLost, PopHead, IsHead, LaneTypes
  <2>3. \A m \in Mailboxes : \A i \in 1..lastSig : Wakes(i, m) => Owed(i)'
    BY <1>14 DEF AckLost, Wakes, Owed
  <2>4. \A d \in Consumers : Completing(d)' => Completing(d) /\ sig'[d] = sig[d]
    BY <1>14 DEF AckLost, Completing, HandlerTypes
  <2> QED BY <2>1, <2>2, <2>3, <2>4, WakeupKept
<1>15. ASSUME NEW c \in Consumers, Cancel(c) PROVE WakeupState'
  <2>1. UNCHANGED <<lastSig, sigMailbox>>
    BY <1>15 DEF Cancel
  <2>2. \A m \in Mailboxes : mailbox'[m] # <<>> => mailbox[m] # <<>>
    BY <1>15 DEF Cancel
  <2>3. \A m \in Mailboxes : \A i \in 1..lastSig : Wakes(i, m) => Owed(i)'
    BY <1>15 DEF Cancel, Wakes, Owed
  <2>4. \A d \in Consumers : Completing(d)' => Completing(d) /\ sig'[d] = sig[d]
    BY <1>15 DEF Cancel, Completing, HandlerTypes
  <2> QED BY <2>1, <2>2, <2>3, <2>4, WakeupKept
<1>16. ASSUME NEW c \in Consumers, ReleaseLost(c) PROVE WakeupState'
  <2>1. UNCHANGED <<lastSig, sigMailbox>>
    BY <1>16 DEF ReleaseLost
  <2>2. \A m \in Mailboxes : mailbox'[m] # <<>> => mailbox[m] # <<>>
    BY <1>16 DEF ReleaseLost
  <2>3. \A m \in Mailboxes : \A i \in 1..lastSig : Wakes(i, m) => Owed(i)'
    BY <1>16 DEF ReleaseLost, Wakes, Owed
  <2>4. \A d \in Consumers : Completing(d)' => Completing(d) /\ sig'[d] = sig[d]
    BY <1>16 DEF ReleaseLost, FinishHandle, Completing, HandlerTypes
  <2> QED BY <2>1, <2>2, <2>3, <2>4, WakeupKept
<1>17. ASSUME NEW c \in Consumers, ConfirmLost(c) PROVE WakeupState'
  <2>1. UNCHANGED <<lastSig, sigMailbox>>
    BY <1>17 DEF ConfirmLost
  <2>2. \A m \in Mailboxes : mailbox'[m] # <<>> => mailbox[m] # <<>>
    BY <1>17 DEF ConfirmLost
  <2>3. \A m \in Mailboxes : \A i \in 1..lastSig : Wakes(i, m) => Owed(i)'
    BY <1>17 DEF ConfirmLost, Wakes, Owed, Completing
  <2>4. \A d \in Consumers : Completing(d)' => Completing(d) /\ sig'[d] = sig[d]
    BY <1>17 DEF ConfirmLost, Completing, HandlerTypes
  <2> QED BY <2>1, <2>2, <2>3, <2>4, WakeupKept
<1>18. ASSUME NEW c \in Consumers, Crash(c) PROVE WakeupState'
  <2>1. UNCHANGED <<lastSig, sigMailbox>>
    BY <1>18 DEF Crash
  <2>2. \A m \in Mailboxes : mailbox'[m] # <<>> => mailbox[m] # <<>>
    BY <1>18 DEF Crash
  <2>3. \A m \in Mailboxes : \A i \in 1..lastSig : Wakes(i, m) => Owed(i)'
    BY <1>18 DEF Crash, Wakes, Owed
  <2>4. \A d \in Consumers : Completing(d)' => Completing(d) /\ sig'[d] = sig[d]
    BY <1>18 DEF Crash, Completing, HandlerTypes
  <2> QED BY <2>1, <2>2, <2>3, <2>4, WakeupKept
<1>19. ASSUME NEW m \in Mailboxes, LeaseExpire(m) PROVE WakeupState'
  BY <1>19 DEF WakeupState, Wakes, Owed, Completing, LeaseExpire
<1>20. CASE InspectStream
  BY <1>20 DEF WakeupState, Wakes, Owed, Completing, InspectStream
<1>21. CASE InspectGroups
  BY <1>21 DEF WakeupState, Wakes, Owed, Completing, InspectGroups
<1>22. CASE InspectPending
  BY <1>22 DEF WakeupState, Wakes, Owed, Completing, InspectPending
<1>23. CASE Trim
  BY <1>23 DEF WakeupState, Wakes, Owed, Completing, Trim
<1>24. CASE InspectFails
  BY <1>24 DEF WakeupState, Wakes, Owed, Completing, InspectFails
<1>25. CASE UNCHANGED vars
  BY <1>25 DEF WakeupState, Wakes, Owed, Completing, vars
<1> QED
  BY <1>1, <1>2, <1>3, <1>4, <1>5, <1>6, <1>7, <1>8, <1>9, <1>10, <1>11, <1>12, <1>13,
     <1>14, <1>15, <1>16, <1>17, <1>18, <1>19, <1>20, <1>21, <1>22, <1>23, <1>24, <1>25
  DEF Next, Handle, HandleFails, Reconcile

(* Every step preserves the inductive invariant of the wakeups.            *)
LEMMA WakeupStep == WakeupInv /\ [Next]_vars => WakeupInv'
  BY BaseStep, TrimStateStep, OwedStep, WakeupStateStep DEF WakeupInv

(* The inductive invariant of the wakeups holds when nothing was enqueued  *)
(* yet.                                                                    *)
LEMMA WakeupInit == Init => WakeupInv
<1> SUFFICES ASSUME Init PROVE WakeupInv
  OBVIOUS
<1>1. BaseInv
  BY BaseInit
<1>2. TrimKeepsOwed /\ TrimState /\ WakeupState
  BY DEF Init, TrimKeepsOwed, TrimState, WakeupState
<1> QED BY <1>1, <1>2 DEF WakeupInv

(* No lost wakeup, for any number of lanes, handlers, signals and faults.  *)
THEOREM WakeupNeverLost == Spec => []NoLostWakeup
<1>1. WakeupInv => NoLostWakeup
  BY DEF WakeupInv, WakeupState, Wakes, TrimKeepsOwed, NoLostWakeup
<1> QED BY <1>1, WakeupInit, WakeupStep, PTL DEF Spec

(* The trimmer never removes an entry that the group still owes.           *)
THEOREM OwedNeverTrimmed == Spec => []TrimKeepsOwed
<1>1. WakeupInv => TrimKeepsOwed
  BY DEF WakeupInv
<1> QED BY <1>1, WakeupInit, WakeupStep, PTL DEF Spec

-----------------------------------------------------------------------------
(* Leases. *)

(* A handler that has lost its lease does not touch its successor's: every *)
(* step that takes a lease from a consumer is that consumer's own release, *)
(* a crash, a lost reply or an expiry.                                     *)
THEOREM LeaseSafe == Spec => LeaseHandedOverSafely
<1>1. ASSUME BaseInv, [Next]_vars PROVE [LeaseTakenOnlyFromItsHolder]_vars
  <2> USE <1>1, BoundsType, LeaseValues DEF BaseInv, TypeOK
  <2>1. ASSUME NEW c \in Consumers, Acquire(c) PROVE LeaseTakenOnlyFromItsHolder
    BY <2>1 DEF Acquire, LeaseTakenOnlyFromItsHolder, LaneTypes
  <2>2. ASSUME NEW c \in Consumers, AcquireLost(c) PROVE LeaseTakenOnlyFromItsHolder
    BY <2>2 DEF AcquireLost, LeaseTakenOnlyFromItsHolder, LaneTypes
  <2>3. ASSUME NEW c \in Consumers, Release(c) PROVE LeaseTakenOnlyFromItsHolder
    <3>1. pc'[c] # "release"
      BY <2>3 DEF Release, FinishHandle, HandlerTypes
    <3> QED BY <2>3, <3>1 DEF Release, TokenMatches, LeaseTakenOnlyFromItsHolder, LaneTypes
  <2>4. ASSUME NEW c \in Consumers, ReleaseLost(c) \/ Crash(c) PROVE LeaseTakenOnlyFromItsHolder
    <3>1. faults' > faults
      BY <2>4 DEF ReleaseLost, Crash, Fault, StreamTypes
    <3> QED BY <3>1 DEF LeaseTakenOnlyFromItsHolder
  <2>5. ASSUME NEW m \in Mailboxes, LeaseExpire(m) PROVE LeaseTakenOnlyFromItsHolder
    <3>1. CASE faults' > faults
      BY <3>1 DEF LeaseTakenOnlyFromItsHolder
    <3>2. CASE lease[m] = Stale
      BY <2>5, <3>2 DEF LeaseExpire, LeaseTakenOnlyFromItsHolder, LaneTypes
    <3> QED BY <2>5, <3>1, <3>2 DEF LeaseExpire, Fault, StreamTypes
  <2>6. ASSUME lease' = lease PROVE LeaseTakenOnlyFromItsHolder
    BY <2>6 DEF LeaseTakenOnlyFromItsHolder
  <2>7. CASE \E e \in Events : Enqueue(e) \/ EnqueueTorn(e)
    BY <2>6, <2>7 DEF Enqueue, EnqueueTorn
  <2>8. CASE \E c \in Consumers : Receive(c) \/ Claim(c)
    BY <2>6, <2>8 DEF Receive, Claim
  <2>9. CASE \E c \in Consumers : Handle(c)
    BY <2>1, <2>3, <2>6, <2>9 DEF Handle, Peek, Process, AckHead, AckRefused, Confirm
  <2>10. CASE \E c \in Consumers : HandleFails(c)
    BY <2>2, <2>4, <2>6, <2>10 DEF HandleFails, ProcessFails, AckLost, Cancel, ConfirmLost
  <2>11. CASE Reconcile
    BY <2>6, <2>11
    DEF Reconcile, InspectStream, InspectGroups, InspectPending, Trim, InspectFails
  <2> QED BY <2>5, <2>7, <2>8, <2>9, <2>10, <2>11 DEF Next
<1> QED BY <1>1, BaseInit, BaseStep, PTL DEF Spec, LeaseHandedOverSafely
=============================================================================
