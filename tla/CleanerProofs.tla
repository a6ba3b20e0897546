--------------------------- MODULE CleanerProofs ---------------------------
(***************************************************************************)
(* The safety of Cleaner, for any number of records and lanes, any valid   *)
(* configuration and any number of faults.                                 *)
(*                                                                         *)
(* The coordinator and the batch goroutines share entries without a lock.  *)
(* What keeps them apart is that a batch works on the first n entries of   *)
(* its lane, which are ready and stay where they are until its result is   *)
(* read (Batches), while the coordinator only touches entries that are not *)
(* ready and appends at the end.                                           *)
(***************************************************************************)
EXTENDS Cleaner, SequenceFacts

(* The parts of the inductive invariant. *)

(* Where a record is that was fetched in this generation. *)
Records ==
  /\ \A l \in Lanes : Distinct(entries[l])
  /\ \A l \in Lanes : \A m \in ToSet(entries[l]) :
       LaneOf[m] = l /\ m \in fetched /\ m \notin polled
  /\ \A m \in Messages : st[m] # "away" => m \in ToSet(entries[LaneOf[m]])
  /\ polled \subseteq fetched
  /\ receive \notin {"polled", "ok"} => polled = {}
  /\ \A m \in fetched : m \in confirmed \cup polled \cup ToSet(entries[LaneOf[m]])

(* Entry i of lane l is the first that needs a side effect, with progress  *)
(* p, and it is stored.                                                    *)
NextIs(l, p, i) ==
  /\ p[entries[l][i]] = "stored"
  /\ \A j \in 1..(i - 1) : p[entries[l][j]] \in {"discard", "mailed"}

(* What the batch of lane l works on, and what it has confirmed. *)
BatchState(l) ==
  batch[l].phase # "idle" =>
    /\ batch[l].n <= Len(entries[l]) /\ batch[l].settled <= batch[l].n
    /\ \A i \in 1..batch[l].n : st[entries[l][i]] = "ready"
    /\ \A i \in 1..batch[l].settled : entries[l][i] \in confirmed
    /\ batch[l].phase = "enqueue" => \E i \in 1..batch[l].n : NextIs(l, prog, i)
Batches == \A l \in Lanes : BatchState(l)

(* The flags of an entry tell what has happened to its event. *)
Backed(m, x) ==
  /\ x = "discard" => m \in Dropped
  /\ x = "stored" => m \in events
  /\ x = "mailed" => m \in events \cap mailed
HandedOn ==
  /\ ConfirmedAreHandedOn /\ terminal \subseteq mailed
  /\ \A m \in Messages : Backed(m, prog[m])

(* What stands before an entry in the log is confirmed or stands before it *)
(* in the lane.                                                            *)
LogOrder ==
  /\ \A l \in Lanes : \A n \in ToSet(entries[l]) : \A m \in Messages :
       Before(LaneLog[l], m, n) => m \in confirmed \/ Before(entries[l], m, n)
  /\ \A n \in polled : \A m \in Messages :
       Before(LaneLog[LaneOf[n]], m, n) =>
         m \in confirmed \cup polled \cup ToSet(entries[LaneOf[n]])

(* The window, and the promise an outstanding request rests on. *)
Window ==
  /\ WindowIsExact
  /\ receive = "asked" => limit <= MaxInflightMessages - inflight

(* An event whose enqueue was answered keeps its flag while its entry      *)
(* lives, and its record is not fetched again.                             *)
Once ==
  /\ NoNeedlessDuplicates
  /\ answered \subseteq fetched /\ answered \cap polled = {}
  /\ \A m \in Messages : st[m] # "ready" => prog[m] = "none"
  /\ \A l \in Lanes : \A m \in ToSet(entries[l]) : m \in answered => prog[m] = "mailed"

CleanerInv ==
  /\ TypeOK /\ Records /\ Batches /\ HandedOn /\ LogOrder /\ Window /\ Once
  /\ PausedLaneDrains

-----------------------------------------------------------------------------
(* The constants. *)

LEMMA CleanerConfig ==
  /\ MaxBatchMessages \in Nat \ {0} /\ MaxConcurrentBatches \in Nat \ {0}
  /\ MaxInflightMessages \in Nat \ {0} /\ MaxInflightPerLane \in Nat \ {0}
  /\ ResumeInflightPerLane \in Nat \ {0} /\ RetryMaxAttempts \in Nat \ {0}
  /\ ResumeInflightPerLane < MaxInflightPerLane
BY CleanerConfigValid DEF Validate

LEMMA LaneFacts ==
  /\ \A m \in Messages : LaneOf[m] \in Lanes /\ m \in ToSet(LaneLog[LaneOf[m]])
  /\ \A l \in Lanes : /\ LaneLog[l] \in Seq(Messages) /\ Distinct(LaneLog[l])
                      /\ \A m \in ToSet(LaneLog[l]) : m \in Messages /\ LaneOf[m] = l
<1>1. ASSUME NEW m \in Messages
      PROVE  LaneOf[m] \in Lanes /\ m \in ToSet(LaneLog[LaneOf[m]])
  BY RecordsType, Zenon DEF LaneOf
<1>2. ASSUME NEW l \in Lanes, NEW m \in ToSet(LaneLog[l])
      PROVE  m \in Messages /\ LaneOf[m] = l
  <2>1. LaneLog[l] \in Seq(Messages)
    BY RecordsType
  <2>2. m \in Messages
    BY <2>1, SetOfSeq
  <2>3. PICK i \in DOMAIN LaneLog[l] : LaneLog[l][i] = m
    BY DEF ToSet
  <2>4. PICK j \in DOMAIN LaneLog[LaneOf[m]] : LaneLog[LaneOf[m]][j] = m
    BY <1>1, <2>2 DEF ToSet
  <2> QED BY <1>1, <2>2, <2>3, <2>4, RecordsType
<1>3. ASSUME NEW l \in Lanes PROVE LaneLog[l] \in Seq(Messages) /\ Distinct(LaneLog[l])
  BY RecordsType DEF Distinct
<1> QED BY <1>1, <1>2, <1>3

(* The entries of a lane. *)
LEMMA EntryFacts ==
  ASSUME TypeOK, NEW l \in Lanes
  PROVE  /\ entries[l] \in Seq(Messages) /\ Len(entries[l]) \in Nat
         /\ DOMAIN entries[l] = 1..Len(entries[l])
         /\ ToSet(entries[l]) \subseteq Messages
         /\ \A i \in 1..Len(entries[l]) :
              entries[l][i] \in Messages /\ entries[l][i] \in ToSet(entries[l])
<1>1. entries[l] \in Seq(Messages)
  BY DEF TypeOK
<1>2. /\ Len(entries[l]) \in Nat /\ DOMAIN entries[l] = 1..Len(entries[l])
      /\ \A i \in 1..Len(entries[l]) : entries[l][i] \in Messages
  BY <1>1, LenProperties, ElementOfSeq
<1>3. ToSet(entries[l]) \subseteq Messages
  BY <1>1, SetOfSeq
<1> QED BY <1>1, <1>2, <1>3 DEF ToSet

-----------------------------------------------------------------------------
(* The prefix of a lane that needs no side effect. *)

LEMMA SettledFacts ==
  ASSUME NEW l, NEW n \in Nat, NEW p
  PROVE  LET k == SettledPrefix(l, n, p) IN
         /\ k \in 0..n
         /\ \A i \in 1..k : p[entries[l][i]] \in {"discard", "mailed"}
         /\ \A i \in 1..n :
              (\A j \in 1..(i - 1) : p[entries[l][j]] \in {"discard", "mailed"}) => i - 1 <= k
<1> DEFINE Ok(i) == p[entries[l][i]] \in {"discard", "mailed"}
           S == {k \in 0..n : \A i \in 1..k : Ok(i)}
<1> HIDE DEF Ok
<1>1. 0 \in S /\ \A x \in S : x \in Nat /\ x <= n
  OBVIOUS
<1>2. SettledPrefix(l, n, p) = Max(S)
  BY DEF SettledPrefix, Ok
<1>3. Max(S) \in S /\ \A x \in S : x <= Max(S)
  <2> HIDE DEF S
  <2> QED BY <1>1, MaxOfCounts
<1>4. Max(S) \in 0..n /\ \A i \in 1..Max(S) : Ok(i)
  BY <1>3
<1>5. ASSUME NEW i \in 1..n, \A j \in 1..(i - 1) : Ok(j) PROVE i - 1 <= Max(S)
  <2>1. i - 1 \in S
    BY <1>5
  <2> QED BY <1>3, <2>1
<1> HIDE DEF S
<1> QED BY <1>2, <1>4, <1>5 DEF Ok

(* NextToEnqueue finds the entry of NextIs. *)
LEMMA NextFacts ==
  ASSUME NEW l, NEW n \in Nat, NEW p
  PROVE  LET k == NextToEnqueue(l, n, p) IN
         /\ k # 0 => k \in 1..n /\ NextIs(l, p, k)
         /\ \A i \in 1..n : NextIs(l, p, i) => k = i
<1> DEFINE s == SettledPrefix(l, n, p)
           k == NextToEnqueue(l, n, p)
<1>1. /\ s \in 0..n
      /\ \A i \in 1..s : p[entries[l][i]] \in {"discard", "mailed"}
      /\ \A i \in 1..n :
           (\A j \in 1..(i - 1) : p[entries[l][j]] \in {"discard", "mailed"}) => i - 1 <= s
  BY SettledFacts
<1>2. k = IF s + 1 <= n /\ p[entries[l][s + 1]] = "stored" THEN s + 1 ELSE 0
  BY DEF NextToEnqueue
<1> HIDE DEF s, k
<1>3. ASSUME k # 0 PROVE k \in 1..n /\ NextIs(l, p, k)
  <2>1. k = s + 1 /\ k \in 1..n /\ k - 1 = s /\ p[entries[l][k]] = "stored"
    BY <1>1, <1>2, <1>3
  <2> QED BY <1>1, <2>1 DEF NextIs
<1>4. ASSUME NEW i \in 1..n, NextIs(l, p, i) PROVE k = i
  <2>1. i - 1 <= s
    BY <1>1, <1>4 DEF NextIs
  <2>2. ~(i <= s)
    <3>1. p[entries[l][i]] = "stored"
      BY <1>4 DEF NextIs
    <3> QED BY <1>1, <3>1
  <2>3. i = s + 1
    BY <1>1, <2>1, <2>2
  <2> QED BY <1>2, <1>4, <2>3 DEF NextIs
<1> QED BY <1>3, <1>4 DEF k

-----------------------------------------------------------------------------
(* What a step preserves by leaving most of the state alone. *)

LEMMA RecordsKept ==
  ASSUME Records, UNCHANGED <<entries, polled, fetched>>, confirmed \subseteq confirmed',
         \A m \in Messages : st'[m] # "away" => st[m] # "away",
         receive' \notin {"polled", "ok"} => receive \notin {"polled", "ok"} \/ polled = {}
  PROVE  Records'
BY Zenon DEF Records

LEMMA BatchKept ==
  ASSUME TypeOK, NEW k \in Lanes, BatchState(k), batch'[k] = batch[k],
         Len(entries'[k]) \in Nat, Len(entries[k]) <= Len(entries'[k]),
         \A i \in 1..Len(entries[k]) : entries'[k][i] = entries[k][i],
         confirmed \subseteq confirmed',
         \A m \in ToSet(entries[k]) : st[m] = "ready" => st'[m] = "ready" /\ prog'[m] = prog[m]
  PROVE  BatchState(k)'
<1> SUFFICES ASSUME batch[k].phase # "idle"
             PROVE  /\ batch[k].n <= Len(entries'[k]) /\ batch[k].settled <= batch[k].n
                    /\ \A i \in 1..batch[k].n : st'[entries'[k][i]] = "ready"
                    /\ \A i \in 1..batch[k].settled : entries'[k][i] \in confirmed'
                    /\ batch[k].phase = "enqueue" => \E i \in 1..batch[k].n : NextIs(k, prog, i)'
  BY DEF BatchState
<1> DEFINE n == batch[k].n
           z == batch[k].settled
<1>1. /\ n \in Nat /\ z \in Nat /\ n <= Len(entries[k]) /\ z <= n /\ Len(entries[k]) \in Nat
      /\ \A i \in 1..n : st[entries[k][i]] = "ready"
      /\ \A i \in 1..z : entries[k][i] \in confirmed
      /\ batch[k].phase = "enqueue" => \E i \in 1..n : NextIs(k, prog, i)
  <2>1. n \in Nat /\ z \in Nat
    BY CleanerConfig DEF TypeOK
  <2>2. Len(entries[k]) \in Nat
    BY EntryFacts
  <2> QED BY <2>1, <2>2, Zenon DEF BatchState
<1>2. \A i \in 1..n : /\ i \in 1..Len(entries[k]) /\ entries'[k][i] = entries[k][i]
                      /\ entries[k][i] \in ToSet(entries[k])
  BY <1>1, EntryFacts
<1>3. \A i \in 1..n : /\ st'[entries'[k][i]] = "ready"
                      /\ prog'[entries'[k][i]] = prog[entries[k][i]]
  BY <1>1, <1>2
<1>4. \A i \in 1..z : i \in 1..n
  BY <1>1
<1>5. ASSUME NEW i \in 1..n, NextIs(k, prog, i) PROVE NextIs(k, prog, i)'
  <2>1. \A j \in 1..(i - 1) : j \in 1..n
    BY <1>1
  <2> QED BY <1>3, <1>5, <2>1 DEF NextIs
<1> QED BY <1>1, <1>2, <1>3, <1>4, <1>5

(* The batches of the lanes a step leaves alone. *)
LEMMA BatchesElsewhere ==
  ASSUME TypeOK, Records, Batches, NEW k \in Lanes, batch'[k] = batch[k],
         entries'[k] = entries[k], confirmed \subseteq confirmed',
         \A m \in Messages : LaneOf[m] = k /\ st[m] = "ready"
                                => st'[m] = "ready" /\ prog'[m] = prog[m]
  PROVE  BatchState(k)'
<1>1. \A m \in ToSet(entries[k]) : m \in Messages /\ LaneOf[m] = k
  BY EntryFacts DEF Records
<1>2. Len(entries[k]) \in Nat
  BY EntryFacts
<1> QED BY <1>1, <1>2, BatchKept DEF Batches

LEMMA HandedKept ==
  ASSUME TypeOK, HandedOn, events \subseteq events', mailed \subseteq mailed',
         terminal' \subseteq mailed',
         \A m \in confirmed' \ confirmed : m \in Dropped \/ m \in events' \cap mailed',
         \A m \in Messages : prog'[m] = prog[m] \/ Backed(m, prog[m])'
  PROVE  HandedOn'
<1>1. ConfirmedAreHandedOn'
  BY DEF HandedOn, ConfirmedAreHandedOn
<1>2. ASSUME NEW m \in Messages PROVE Backed(m, prog[m])'
  <2>1. CASE prog'[m] = prog[m]
    BY <2>1 DEF HandedOn, Backed
  <2>2. CASE Backed(m, prog[m])'
    BY <2>2
  <2> QED BY <2>1, <2>2
<1> QED BY <1>1, <1>2 DEF HandedOn

LEMMA LogKept ==
  ASSUME LogOrder, UNCHANGED <<entries, polled>>, confirmed \subseteq confirmed'
  PROVE  LogOrder'
BY Zenon DEF LogOrder

LEMMA OnceKept ==
  ASSUME Once, UNCHANGED <<entries, fetched, polled, answered, again>>,
         \A m \in Messages : st'[m] # "ready" => prog'[m] = "none",
         \A l \in Lanes : \A m \in ToSet(entries[l]) : prog[m] = "mailed" => prog'[m] = "mailed"
  PROVE  Once'
BY DEF Once, NoNeedlessDuplicates

(* A step of the receive goroutine without records. *)
LEMMA ReceiveStep ==
  ASSUME CleanerInv, TypeOK', UNCHANGED <<confirmed, events, terminal, mailed>>,
         UNCHANGED <<fetched, paused, polled>>,
         UNCHANGED <<entries, st, prog>>, UNCHANGED <<batch, slots, leaving>>,
         UNCHANGED <<inflight, answered, again>>,
         receive' \notin {"polled", "ok"} => receive \notin {"polled", "ok"} \/ polled = {},
         receive' = "asked" => receive = "asked" /\ limit' = limit
  PROVE  CleanerInv'
<1>1. Records'
  BY RecordsKept DEF CleanerInv
<1>2. Batches'
  BY BatchesElsewhere DEF CleanerInv, Batches
<1>3. HandedOn'
  BY HandedKept DEF CleanerInv, HandedOn
<1>4. LogOrder'
  BY LogKept DEF CleanerInv
<1>5. Window' /\ PausedLaneDrains'
  BY DEF CleanerInv, Window, WindowIsExact, PausedLaneDrains
<1>6. Once'
  BY OnceKept DEF CleanerInv, Once
<1> QED BY <1>1, <1>2, <1>3, <1>4, <1>5, <1>6 DEF CleanerInv

(* A step of goroutines and clocks that touches neither stores nor window. *)
LEMMA QuietStep ==
  ASSUME CleanerInv, TypeOK', UNCHANGED <<confirmed, events, terminal, mailed>>,
         UNCHANGED <<fetched, paused, receive, limit, polled>>,
         UNCHANGED <<entries, st, prog>>, UNCHANGED <<batch, slots, leaving>>,
         UNCHANGED <<inflight, answered, again>>
  PROVE  CleanerInv'
BY ReceiveStep

-----------------------------------------------------------------------------
(* Clocks, the end of Run, and the consumer group. *)

LEMMA FaultType ==
  ASSUME TypeOK
  PROVE  Fault \/ MayFail \/ UNCHANGED faults => faults' \in 0..MaxFaults
BY CleanerFaultsType DEF TypeOK, Fault, MayFail

LEMMA ShutDownType ==
  ASSUME NEW t \in [Timers -> {"zero", "ahead", "past"}], ShutDown(t)
  PROVE  timer' \in [Timers -> {"zero", "ahead", "past"}] /\ shuttingDown' \in BOOLEAN
BY DEF ShutDown

LEMMA StopInv == CleanerInv /\ Stop => CleanerInv'
<1> SUFFICES ASSUME CleanerInv, Stop PROVE CleanerInv'
  OBVIOUS
<1>1. TypeOK'
  BY DEF CleanerInv, TypeOK, Stop, outerVars, entryVars, batchVars, laneVars, historyVars,
         storeVars, gateVars, sessionVars, ownerVars, receiveVars
<1> QED BY <1>1, QuietStep DEF Stop, outerVars, entryVars, batchVars, historyVars, storeVars,
           sessionVars, receiveVars

LEMMA TimerFiresInv == CleanerInv /\ TimerFires => CleanerInv'
<1> SUFFICES ASSUME CleanerInv, TimerFires PROVE CleanerInv'
  OBVIOUS
<1>1. TypeOK'
  BY DEF CleanerInv, TypeOK, TimerFires, outerVars, entryVars, batchVars, laneVars,
         historyVars, storeVars, gateVars, sessionVars, ownerVars, receiveVars
<1> QED BY <1>1, QuietStep DEF TimerFires, outerVars, entryVars, batchVars, historyVars,
           storeVars, sessionVars, receiveVars

LEMMA ElapseInv == ASSUME NEW t \in Timers PROVE CleanerInv /\ Elapse(t) => CleanerInv'
<1> SUFFICES ASSUME CleanerInv, Elapse(t) PROVE CleanerInv'
  OBVIOUS
<1>1. timer' \in [Timers -> {"zero", "ahead", "past"}]
  BY DEF CleanerInv, TypeOK, Elapse
<1>2. TypeOK'
  BY <1>1 DEF CleanerInv, TypeOK, Elapse, outerVars, entryVars, batchVars, loopVars,
         historyVars, storeVars, gateVars, sessionVars, ownerVars, receiveVars
<1> QED BY <1>2, QuietStep DEF Elapse, outerVars, entryVars, batchVars, loopVars, historyVars,
           storeVars, sessionVars, receiveVars

LEMMA CancelInv == CleanerInv /\ Cancel => CleanerInv'
<1> SUFFICES ASSUME CleanerInv, Cancel PROVE CleanerInv'
  OBVIOUS
<1>1. timer' \in [Timers -> {"zero", "ahead", "past"}] /\ shuttingDown' \in BOOLEAN
  BY ShutDownType DEF CleanerInv, TypeOK, Cancel
<1>2. faults' \in 0..MaxFaults
  BY FaultType DEF CleanerInv, Cancel
<1>3. TypeOK'
  BY <1>1, <1>2 DEF CleanerInv, TypeOK, Cancel, outerVars, entryVars, batchVars,
         storeVars, gateVars, sessionVars, ownerVars, receiveVars
<1> QED BY <1>3, QuietStep DEF Cancel, outerVars, entryVars, batchVars,
           storeVars, sessionVars, receiveVars

LEMMA RevokeInv ==
  ASSUME NEW S \in SUBSET owned PROVE CleanerInv /\ (Revoke(S) \/ Lose(S)) => CleanerInv'
<1> SUFFICES ASSUME CleanerInv, Revoke(S) \/ Lose(S) PROVE CleanerInv'
  OBVIOUS
<1>1. faults' \in 0..MaxFaults
  BY FaultType DEF CleanerInv, Revoke, Lose
<1>2. TypeOK'
  BY <1>1 DEF CleanerInv, TypeOK, Revoke, Lose, innerVars, entryVars, batchVars, laneVars,
         loopVars, storeVars, gateVars, sessionVars, ownerVars, receiveVars
<1> QED BY <1>2, QuietStep DEF Revoke, Lose, innerVars, entryVars, batchVars, loopVars,
           storeVars, sessionVars, receiveVars

LEMMA HandleRevokedInv == CleanerInv /\ HandleRevoked => CleanerInv'
<1> SUFFICES ASSUME CleanerInv, HandleRevoked PROVE CleanerInv'
  OBVIOUS
<1>1. revoking' \subseteq Lanes
  BY DEF CleanerInv, TypeOK, HandleRevoked
<1>2. TypeOK'
  BY <1>1 DEF CleanerInv, TypeOK, HandleRevoked, entryVars, batchVars, laneVars,
         historyVars, storeVars, gateVars, sessionVars, receiveVars
<1> QED BY <1>2, QuietStep DEF HandleRevoked, entryVars, batchVars, historyVars,
           storeVars, sessionVars, receiveVars

LEMMA HandleLostInv == CleanerInv /\ HandleLost => CleanerInv'
<1> SUFFICES ASSUME CleanerInv, HandleLost PROVE CleanerInv'
  OBVIOUS
<1>1. timer' \in [Timers -> {"zero", "ahead", "past"}]
  BY DEF CleanerInv, TypeOK, HandleLost
<1>2. TypeOK'
  BY <1>1 DEF CleanerInv, TypeOK, HandleLost, entryVars, batchVars,
         historyVars, storeVars, gateVars, sessionVars, receiveVars
<1> QED BY <1>2, QuietStep DEF HandleLost, entryVars, batchVars, historyVars,
           storeVars, sessionVars, receiveVars

LEMMA LoadChangesInv ==
  ASSUME NEW x \in {"admit", "keep", "stop"} PROVE CleanerInv /\ LoadChanges(x) => CleanerInv'
<1> SUFFICES ASSUME CleanerInv, LoadChanges(x) PROVE CleanerInv'
  OBVIOUS
<1>1. faults' \in 0..MaxFaults
  BY FaultType DEF CleanerInv, LoadChanges
<1>2. TypeOK'
  BY <1>1 DEF CleanerInv, TypeOK, LoadChanges, innerVars, entryVars, batchVars, laneVars,
         loopVars, storeVars, sessionVars, ownerVars, receiveVars
<1> QED BY <1>2, QuietStep DEF LoadChanges, innerVars, entryVars, batchVars, loopVars,
           storeVars, sessionVars, receiveVars

-----------------------------------------------------------------------------
(* The start of a generation. *)

Fresh ==
  /\ ConfirmedAreHandedOn /\ terminal \subseteq mailed
  /\ fetched = {} /\ paused = {} /\ receive = "idle" /\ polled = {}
  /\ entries = [l \in Lanes |-> <<>>]
  /\ st = [m \in Messages |-> "away"] /\ prog = [m \in Messages |-> "none"]
  /\ batch = [l \in Lanes |-> NoBatch] /\ slots = 0 /\ leaving = 0 /\ inflight = 0
  /\ answered = {} /\ again = {}

LEMMA FreshInv == TypeOK /\ Fresh => CleanerInv
<1> SUFFICES ASSUME TypeOK, Fresh PROVE CleanerInv
  OBVIOUS
<1>1. \A l \in Lanes : entries[l] = <<>> /\ ToSet(entries[l]) = {} /\ Distinct(entries[l])
  BY EmptyFacts DEF Fresh
<1>2. \A l \in Lanes : batch[l].phase = "idle"
  BY DEF Fresh, NoBatch
<1>3. Records
  BY <1>1 DEF Records, Fresh
<1>4. Batches
  BY <1>2 DEF Batches, BatchState
<1>5. HandedOn
  BY DEF Fresh, HandedOn, Backed
<1>6. LogOrder
  BY <1>1 DEF LogOrder, Fresh
<1>7. Window
  <2>1. UNION {ToSet(entries[l]) : l \in Lanes} = {}
    BY <1>1
  <2>2. {l \in Lanes : batch[l].phase \notin {"idle", "sent"}} = {}
    BY <1>2
  <2>3. Cardinality({}) = 0
    BY FS_EmptySet
  <2>4. /\ receive # "asked" /\ inflight = 0 /\ leaving = 0 /\ slots = 0
        /\ Cardinality(polled) = 0
    BY <2>3 DEF Fresh
  <2>5. 0 + 0 <= MaxInflightMessages /\ 0 + 0 = 0
    BY CleanerConfig
  <2> QED BY <2>1, <2>2, <2>3, <2>4, <2>5, Zenon DEF Window, WindowIsExact
<1>8. Once
  BY <1>1 DEF Once, NoNeedlessDuplicates, Fresh
<1>9. PausedLaneDrains
  BY DEF PausedLaneDrains, Fresh
<1> QED BY <1>3, <1>4, <1>5, <1>6, <1>7, <1>8, <1>9 DEF CleanerInv

LEMMA NoBatchType ==
  NoBatch \in [phase : {"idle", "store", "enqueue", "confirm", "send", "sent"},
               n : 0..MaxBatchMessages, settled : 0..MaxBatchMessages, result : {"ok", "err"}]
BY CleanerConfig DEF NoBatch

LEMMA InitInv == Init => CleanerInv
<1> SUFFICES ASSUME Init PROVE CleanerInv
  OBVIOUS
<1>1. entries \in [Lanes -> Seq(Messages)]
  BY EmptyFacts DEF Init
<1>2. batch \in [Lanes -> [phase : {"idle", "store", "enqueue", "confirm", "send", "sent"},
                          n : 0..MaxBatchMessages, settled : 0..MaxBatchMessages,
                          result : {"ok", "err"}]]
  BY NoBatchType, Zenon DEF Init
<1>3. TypeOK
  <2>1. /\ st \in [Messages -> {"away", "job", "retry", "stuck", "ready"}]
        /\ prog \in [Messages -> {"none", "discard", "stored", "mailed"}]
        /\ timer \in [Timers -> {"zero", "ahead", "past"}]
    BY DEF Init
  <2>2. /\ attempt \in [Messages -> 0..RetryMaxAttempts]
        /\ laneAttempt \in [Lanes -> 0..RetryMaxAttempts]
    BY CleanerConfig DEF Init
  <2>3. /\ limit \in 0..MaxBatchMessages /\ faults \in 0..MaxFaults /\ inflight \in Nat
        /\ slots \in 0..MaxConcurrentBatches /\ leaving \in 0..MaxConcurrentBatches
    BY CleanerConfig, CleanerFaultsType DEF Init
  <2> QED BY <1>1, <1>2, <2>1, <2>2, <2>3 DEF TypeOK, Init
<1>4. Fresh
  BY DEF Fresh, Init, ConfirmedAreHandedOn
<1> QED BY <1>3, <1>4, FreshInv

LEMMA GenerationInv == CleanerInv /\ (Crash \/ Restart) => CleanerInv'
<1> SUFFICES ASSUME CleanerInv, Crash \/ Restart PROVE CleanerInv'
  OBVIOUS
<1>1. NewGeneration /\ faults' \in 0..MaxFaults
  BY FaultType DEF CleanerInv, Crash, Restart
<1>2. entries' \in [Lanes -> Seq(Messages)]
  BY <1>1, EmptyFacts DEF NewGeneration
<1>3. batch' \in [Lanes -> [phase : {"idle", "store", "enqueue", "confirm", "send", "sent"},
                           n : 0..MaxBatchMessages, settled : 0..MaxBatchMessages,
                           result : {"ok", "err"}]]
  BY <1>1, NoBatchType, Zenon DEF NewGeneration
<1>4. TypeOK'
  <2>1. /\ st' \in [Messages -> {"away", "job", "retry", "stuck", "ready"}]
        /\ prog' \in [Messages -> {"none", "discard", "stored", "mailed"}]
        /\ timer' \in [Timers -> {"zero", "ahead", "past"}]
    BY <1>1 DEF NewGeneration
  <2>2. /\ attempt' \in [Messages -> 0..RetryMaxAttempts]
        /\ laneAttempt' \in [Lanes -> 0..RetryMaxAttempts]
    BY <1>1, CleanerConfig DEF NewGeneration
  <2>3. /\ limit' \in 0..MaxBatchMessages /\ inflight' \in Nat
        /\ slots' \in 0..MaxConcurrentBatches /\ leaving' \in 0..MaxConcurrentBatches
    BY <1>1, CleanerConfig DEF NewGeneration
  <2> QED BY <1>1, <1>2, <1>3, <2>1, <2>2, <2>3
          DEF CleanerInv, TypeOK, NewGeneration, storeVars
<1>5. Fresh'
  BY <1>1 DEF CleanerInv, Fresh, NewGeneration, storeVars, HandedOn, ConfirmedAreHandedOn,
              Once, NoNeedlessDuplicates
<1>6. (TypeOK /\ Fresh => CleanerInv)'
  BY FreshInv, PTL
<1> QED BY <1>4, <1>5, <1>6

-----------------------------------------------------------------------------
(* The receive goroutine, the lifecycle and the end of a batch. *)

LEMMA TakeNothingInv == CleanerInv /\ TakeNothing => CleanerInv'
<1> SUFFICES ASSUME CleanerInv, TakeNothing PROVE CleanerInv'
  OBVIOUS
<1>1. timer' \in [Timers -> {"zero", "ahead", "past"}] /\ shuttingDown' \in BOOLEAN
  BY ShutDownType DEF CleanerInv, TypeOK, TakeNothing
<1>2. TypeOK'
  BY <1>1 DEF CleanerInv, TypeOK, TakeNothing, entryVars, batchVars, historyVars,
         storeVars, gateVars, sessionVars, ownerVars
<1> QED BY <1>2, ReceiveStep DEF TakeNothing, entryVars, batchVars, historyVars,
           storeVars, sessionVars

LEMMA PollNothingInv ==
  ASSUME NEW answer \in {"empty", "err"} PROVE CleanerInv /\ PollNothing(answer) => CleanerInv'
<1> SUFFICES ASSUME CleanerInv, PollNothing(answer) PROVE CleanerInv'
  OBVIOUS
<1>1. faults' \in 0..MaxFaults
  BY FaultType DEF CleanerInv, PollNothing
<1>2. held' \in BOOLEAN
  BY DEF PollNothing
<1>3. TypeOK'
  BY <1>1, <1>2 DEF CleanerInv, TypeOK, PollNothing, innerVars, entryVars, batchVars,
         laneVars, loopVars, storeVars, gateVars, ownerVars
<1> QED BY <1>3, ReceiveStep DEF PollNothing, innerVars, entryVars, batchVars, loopVars,
           storeVars

LEMMA IssueReceiptsInv == CleanerInv /\ IssueReceipts => CleanerInv'
<1> SUFFICES ASSUME CleanerInv, IssueReceipts PROVE CleanerInv'
  OBVIOUS
<1>1. TypeOK'
  BY DEF CleanerInv, TypeOK, IssueReceipts, innerVars, entryVars, batchVars,
         laneVars, loopVars, historyVars, storeVars, gateVars, ownerVars
<1> QED BY <1>1, ReceiveStep DEF IssueReceipts, innerVars, entryVars, batchVars, loopVars,
           historyVars, storeVars

LEMMA LifecycleInv ==
  ASSUME NEW m \in Messages PROVE CleanerInv /\ Lifecycle(m) => CleanerInv'
<1> SUFFICES ASSUME CleanerInv, Lifecycle(m) PROVE CleanerInv'
  OBVIOUS
<1>0. /\ UNCHANGED <<confirmed, events, mailed, fetched, paused, polled, receive, limit>>
      /\ UNCHANGED <<entries, st, prog, batch, slots, leaving, inflight, answered, again>>
      /\ terminal' \subseteq mailed
  BY DEF CleanerInv, HandedOn, Lifecycle, sessionVars, receiveVars, innerVars, entryVars,
         batchVars, loopVars, historyVars
<1>1. TypeOK'
  BY DEF CleanerInv, TypeOK, Lifecycle, innerVars, entryVars, batchVars,
         laneVars, loopVars, historyVars, gateVars, sessionVars, ownerVars, receiveVars
<1>2. Records' /\ LogOrder'
  BY <1>0, RecordsKept, LogKept DEF CleanerInv
<1>3. Batches'
  BY <1>0, BatchesElsewhere DEF CleanerInv, Batches
<1>4. HandedOn'
  BY <1>0, HandedKept DEF CleanerInv
<1>5. Window' /\ PausedLaneDrains'
  BY <1>0 DEF CleanerInv, Window, WindowIsExact, PausedLaneDrains
<1>6. Once'
  BY <1>0, OnceKept DEF CleanerInv, Once
<1> QED BY <1>1, <1>2, <1>3, <1>4, <1>5, <1>6 DEF CleanerInv

LEMMA ProcessFailedInv ==
  ASSUME NEW m \in Messages, NEW elapsed
  PROVE  CleanerInv /\ ProcessFailed(m, elapsed) => CleanerInv'
<1> SUFFICES ASSUME CleanerInv, ProcessFailed(m, elapsed) PROVE CleanerInv'
  OBVIOUS
<1>0. /\ UNCHANGED <<confirmed, events, mailed, terminal, fetched, paused, polled>>
      /\ UNCHANGED <<entries, prog, batch, slots, leaving, inflight, answered, again>>
      /\ UNCHANGED <<receive, limit>>
  BY DEF ProcessFailed, outerVars, storeVars, sessionVars, receiveVars, batchVars
<1>1. /\ st[m] = "job" /\ st' \in [Messages -> {"away", "job", "retry", "stuck", "ready"}]
      /\ \A k \in Messages : st'[k] = st[k] \/ (k = m /\ st'[k] \in {"stuck", "retry"})
  BY DEF CleanerInv, TypeOK, ProcessFailed
<1>2. TypeOK'
  <2>1. timer' \in [Timers -> {"zero", "ahead", "past"}] /\ shuttingDown' \in BOOLEAN
    <3>1. m \in Timers
      BY DEF Timers
    <3> QED BY <3>1, ShutDownType DEF CleanerInv, TypeOK, ProcessFailed
  <2>2. attempt' \in [Messages -> 0..RetryMaxAttempts]
    <3>1. attempt \in [Messages -> 0..RetryMaxAttempts]
      BY DEF CleanerInv, TypeOK
    <3>2. CASE Exhausted(attempt[m], elapsed)
      BY <3>1, <3>2 DEF ProcessFailed
    <3>3. CASE ~Exhausted(attempt[m], elapsed)
      <4>1. attempt[m] \in 0..RetryMaxAttempts /\ ~(attempt[m] >= RetryMaxAttempts)
        BY <3>1, <3>3 DEF Exhausted
      <4>2. attempt[m] + 1 \in 0..RetryMaxAttempts
        BY <4>1, CleanerConfig
      <4> QED BY <3>1, <3>3, <4>2 DEF ProcessFailed
    <3> QED BY <3>2, <3>3
  <2>3. faults' \in 0..MaxFaults
    BY FaultType DEF CleanerInv, ProcessFailed
  <2> QED BY <1>0, <1>1, <2>1, <2>2, <2>3 DEF CleanerInv, TypeOK, ProcessFailed, outerVars,
             gateVars, sessionVars, ownerVars
<1>3. Records' /\ LogOrder'
  BY <1>0, <1>1, RecordsKept, LogKept DEF CleanerInv
<1>4. Batches'
  BY <1>0, <1>1, BatchesElsewhere DEF CleanerInv, Batches
<1>5. HandedOn'
  BY <1>0, HandedKept DEF CleanerInv, HandedOn
<1>6. Window' /\ PausedLaneDrains'
  BY <1>0 DEF CleanerInv, Window, WindowIsExact, PausedLaneDrains
<1>7. Once'
  BY <1>0, <1>1, OnceKept DEF CleanerInv, Once
<1> QED BY <1>2, <1>3, <1>4, <1>5, <1>6, <1>7 DEF CleanerInv

LEMMA ProcessedInv ==
  ASSUME NEW m \in Messages PROVE CleanerInv /\ Processed(m) => CleanerInv'
<1> SUFFICES ASSUME CleanerInv, Processed(m) PROVE CleanerInv'
  OBVIOUS
<1>0. /\ UNCHANGED <<confirmed, events, mailed, terminal, fetched, paused, polled>>
      /\ UNCHANGED <<entries, batch, slots, leaving, inflight, answered, again>>
      /\ UNCHANGED <<receive, limit>>
  BY DEF Processed, outerVars, storeVars, sessionVars, receiveVars, batchVars, historyVars
<1>1. /\ st[m] = "job" /\ st' \in [Messages -> {"away", "job", "retry", "stuck", "ready"}]
      /\ \A k \in Messages : k # m => st'[k] = st[k]
      /\ st'[m] = "ready"
  BY DEF CleanerInv, TypeOK, Processed
<1>2. /\ prog' \in [Messages -> {"none", "discard", "stored", "mailed"}]
      /\ \A k \in Messages : k # m => prog'[k] = prog[k]
      /\ prog'[m] \in {"none", "discard"} /\ (prog'[m] = "discard" => m \in Malformed)
  BY DEF CleanerInv, TypeOK, Processed
<1>3. prog[m] = "none"
  BY <1>1 DEF CleanerInv, Once
<1>4. TypeOK'
  <2>1. attempt' \in [Messages -> 0..RetryMaxAttempts]
    BY CleanerConfig DEF CleanerInv, TypeOK, Processed
  <2> QED BY <1>0, <1>1, <1>2, <2>1 DEF CleanerInv, TypeOK, Processed, outerVars,
             gateVars, sessionVars, ownerVars, laneVars, historyVars
<1>5. Records' /\ LogOrder'
  BY <1>0, <1>1, RecordsKept, LogKept DEF CleanerInv
<1>6. Batches'
  BY <1>0, <1>1, <1>2, BatchesElsewhere DEF CleanerInv, Batches
<1>7. HandedOn'
  <2>1. Backed(m, prog[m])'
    BY <1>2 DEF Backed, Dropped
  <2> QED BY <1>0, <1>2, <2>1, HandedKept DEF CleanerInv, HandedOn
<1>8. Window' /\ PausedLaneDrains'
  BY <1>0 DEF CleanerInv, Window, WindowIsExact, PausedLaneDrains
<1>9. Once'
  <2>1. \A k \in Messages : st'[k] # "ready" => prog'[k] = "none"
    BY <1>1, <1>2 DEF CleanerInv, Once
  <2>2. \A l \in Lanes : \A k \in ToSet(entries[l]) : prog[k] = "mailed" => prog'[k] = "mailed"
    BY <1>2, <1>3, EntryFacts DEF CleanerInv
  <2> QED BY <1>0, <2>1, <2>2, OnceKept DEF CleanerInv
<1> QED BY <1>4, <1>5, <1>6, <1>7, <1>8, <1>9 DEF CleanerInv

(* The lanes whose batch goroutine has not reported. *)
Active == {l \in Lanes : batch[l].phase \notin {"idle", "sent"}}

LEMMA ActiveFacts ==
  ASSUME TypeOK, Window
  PROVE  /\ IsFiniteSet(Active) /\ Cardinality(Active) \in Nat
         /\ leaving \in Nat /\ slots \in Nat
         /\ Cardinality(Active) + leaving = slots /\ slots <= MaxConcurrentBatches
<1>1. IsFiniteSet(Active) /\ Cardinality(Active) \in Nat
  BY RecordsType, FS_Subset, FS_CardinalityType DEF Active
<1>2. /\ leaving \in Nat /\ slots \in Nat /\ slots <= MaxConcurrentBatches
  BY CleanerConfig DEF TypeOK
<1>3. Cardinality(Active) + leaving = slots
  BY DEF Window, WindowIsExact, Active
<1> QED BY <1>1, <1>2, <1>3

LEMMA WindowKept ==
  ASSUME TypeOK, Window, UNCHANGED <<entries, polled, inflight>>,
         Cardinality(Active') + leaving' = slots',
         receive' = "asked" => receive = "asked" /\ limit' = limit
  PROVE  Window'
BY DEF Window, WindowIsExact, Active

LEMMA ReleaseSlotInv == CleanerInv /\ ReleaseSlot => CleanerInv'
<1> SUFFICES ASSUME CleanerInv, ReleaseSlot PROVE CleanerInv'
  OBVIOUS
<1>0. /\ UNCHANGED <<confirmed, events, mailed, terminal, fetched, paused, polled, receive>>
      /\ UNCHANGED <<entries, st, prog, batch, inflight, answered, again, limit>>
  BY DEF ReleaseSlot, outerVars, storeVars, sessionVars, receiveVars, entryVars, loopVars,
         historyVars
<1>1. /\ leaving' \in 0..MaxConcurrentBatches /\ slots' \in 0..MaxConcurrentBatches
      /\ Cardinality(Active) + leaving' = slots'
  BY ActiveFacts, CleanerConfig DEF ReleaseSlot, CleanerInv
<1>2. TypeOK'
  BY <1>0, <1>1 DEF CleanerInv, TypeOK, ReleaseSlot, outerVars, gateVars, sessionVars,
         ownerVars, entryVars, laneVars, loopVars, historyVars
<1>3. Records' /\ LogOrder'
  BY <1>0, RecordsKept, LogKept DEF CleanerInv
<1>4. Batches'
  BY <1>0, BatchesElsewhere DEF CleanerInv, Batches
<1>5. HandedOn'
  BY <1>0, HandedKept DEF CleanerInv, HandedOn
<1>6. Window'
  BY <1>0, <1>1, WindowKept DEF CleanerInv, Active
<1>7. PausedLaneDrains'
  BY <1>0 DEF CleanerInv, PausedLaneDrains
<1>8. Once'
  BY <1>0, OnceKept DEF CleanerInv, Once
<1> QED BY <1>2, <1>3, <1>4, <1>5, <1>6, <1>7, <1>8 DEF CleanerInv

-----------------------------------------------------------------------------
(* The batch goroutines. *)

BatchType ==
  [phase : {"idle", "store", "enqueue", "confirm", "send", "sent"},
   n : 0..MaxBatchMessages, settled : 0..MaxBatchMessages, result : {"ok", "err"}]

(* What the batch goroutines and other owners leave alone keeps its type. *)
LEMMA BatchTypes ==
  ASSUME TypeOK, UNCHANGED <<gateVars, sessionVars, ownerVars, attempt, laneVars, loopVars>>,
         UNCHANGED <<terminal, paused, receive, limit, polled, entries, st, slots, leaving>>,
         batch' \in [Lanes -> BatchType],
         prog' \in [Messages -> {"none", "discard", "stored", "mailed"}],
         confirmed' \subseteq Messages, events' \subseteq Messages, mailed' \subseteq Messages,
         answered' \subseteq Messages, again' \subseteq Messages, faults' \in 0..MaxFaults
  PROVE  TypeOK'
<1>1. /\ UNCHANGED <<load, allowed, flowPaused, fetched, receipts, held>>
      /\ UNCHANGED <<owned, revokeEvent, lostEvent, pendingRevoke, revoking>>
      /\ UNCHANGED <<laneAttempt, timer, inflight, shuttingDown, at>>
  BY DEF gateVars, sessionVars, ownerVars, laneVars, loopVars
<1> QED BY <1>1 DEF TypeOK, BatchType

(* A step of the batch of lane l concerns this lane only. *)
LEMMA BatchStep ==
  ASSUME CleanerInv, NEW l \in Lanes, UNCHANGED <<entries, st, fetched, polled, paused>>,
         UNCHANGED receive, confirmed \subseteq confirmed',
         \A k \in Lanes : k # l => batch'[k] = batch[k],
         \A m \in Messages : LaneOf[m] # l => prog'[m] = prog[m],
         BatchState(l)'
  PROVE  Records' /\ LogOrder' /\ Batches' /\ PausedLaneDrains'
<1>1. Records' /\ LogOrder'
  BY RecordsKept, LogKept DEF CleanerInv
<1>2. ASSUME NEW k \in Lanes, k # l PROVE BatchState(k)'
  BY <1>2, BatchesElsewhere DEF CleanerInv
<1>3. PausedLaneDrains'
  BY DEF CleanerInv, PausedLaneDrains
<1> QED BY <1>1, <1>2, <1>3 DEF Batches

LEMMA BatchWindow ==
  ASSUME CleanerInv, NEW l \in Lanes, UNCHANGED <<entries, polled, inflight>>,
         UNCHANGED <<receive, limit>>, UNCHANGED <<slots, leaving>>,
         \A k \in Lanes : k # l => batch'[k] = batch[k],
         batch[l].phase \notin {"idle", "sent"}, batch'[l].phase \notin {"idle", "sent"}
  PROVE  Window'
<1>1. Active' = Active
  BY DEF Active
<1>2. Cardinality(Active) + leaving = slots
  BY ActiveFacts DEF CleanerInv
<1> QED BY <1>1, <1>2, WindowKept DEF CleanerInv

LEMMA BatchLives ==
  ASSUME NEW l \in Lanes, BatchState(l), batch[l].phase # "idle", UNCHANGED <<entries, st>>,
         batch'[l].n = batch[l].n, batch'[l].settled <= batch[l].n,
         \A i \in 1..batch'[l].settled : entries[l][i] \in confirmed',
         batch'[l].phase = "enqueue" => \E i \in 1..batch[l].n : NextIs(l, prog, i)'
  PROVE  BatchState(l)'
BY Zenon DEF BatchState

LEMMA ReportFacts ==
  ASSUME TypeOK, NEW l \in Lanes, NEW k \in 0..MaxBatchMessages, NEW r \in {"ok", "err"},
         Report(l, k, r)
  PROVE  /\ batch' \in [Lanes -> BatchType]
         /\ \A j \in Lanes : j # l => batch'[j] = batch[j]
         /\ batch'[l].n = batch[l].n /\ batch'[l].settled = k /\ batch'[l].phase = "send"
<1>1. batch \in [Lanes -> BatchType]
  BY DEF TypeOK, BatchType
<1> QED BY <1>1 DEF Report, BatchType

LEMMA AdvanceFacts ==
  ASSUME TypeOK, NEW l \in Lanes, NEW p, NEW r \in {"ok", "err"}, Advance(l, p, r)
  PROVE  /\ batch' \in [Lanes -> BatchType]
         /\ \A j \in Lanes : j # l => batch'[j] = batch[j]
         /\ batch'[l].n = batch[l].n /\ batch'[l].settled = batch[l].settled
         /\ batch'[l].phase \in {"enqueue", "confirm", "send"}
         /\ batch'[l].phase = "enqueue" => \E i \in 1..batch[l].n : NextIs(l, p, i)
<1> DEFINE x == NextPhase(l, batch[l].n, p)
<1>1. batch \in [Lanes -> BatchType]
  BY DEF TypeOK, BatchType
<1>2. x \in {"enqueue", "confirm", "send"}
  BY DEF NextPhase
<1>3. ASSUME x = "enqueue" PROVE \E i \in 1..batch[l].n : NextIs(l, p, i)
  <2>1. NextToEnqueue(l, batch[l].n, p) # 0
    BY <1>3 DEF NextPhase
  <2>2. batch[l].n \in Nat
    BY <1>1, CleanerConfig DEF BatchType
  <2> QED BY <2>1, <2>2, NextFacts
<1>4. batch' = [batch EXCEPT ![l].phase = x, ![l].result = r]
  BY DEF Advance
<1> HIDE DEF x
<1>5. batch' \in [Lanes -> BatchType] /\ batch'[l].phase = x
  BY <1>1, <1>2, <1>4 DEF BatchType
<1>6. /\ \A j \in Lanes : j # l => batch'[j] = batch[j]
      /\ batch'[l].n = batch[l].n /\ batch'[l].settled = batch[l].settled
  BY <1>1, <1>4 DEF BatchType
<1> QED BY <1>2, <1>3, <1>5, <1>6

(* What finishLanePrefix confirms. *)
LEMMA ConfirmedPrefix ==
  ASSUME CleanerInv, NEW l \in Lanes, batch[l].phase # "idle"
  PROVE  /\ Cardinality(Prefix(l)) \in 0..batch[l].n
         /\ Prefix(l) = {entries[l][i] : i \in 1..Cardinality(Prefix(l))}
         /\ Prefix(l) \subseteq Messages
         /\ \A m \in Prefix(l) : m \in Dropped \/ m \in events \cap mailed
<1> DEFINE s == SettledPrefix(l, batch[l].n, prog)
<1>1. batch[l].n \in Nat /\ batch[l].n <= Len(entries[l])
  BY CleanerConfig DEF CleanerInv, Batches, BatchState, TypeOK
<1>2. s \in 0..batch[l].n /\ \A i \in 1..s : prog[entries[l][i]] \in {"discard", "mailed"}
  BY <1>1, SettledFacts
<1>3. Prefix(l) = {entries[l][i] : i \in 1..s}
  BY DEF Prefix
<1> HIDE DEF s
<1>4. /\ entries[l] \in Seq(Messages) /\ Distinct(entries[l]) /\ Len(entries[l]) \in Nat
      /\ \A i \in 1..Len(entries[l]) : entries[l][i] \in Messages
  BY EntryFacts DEF CleanerInv, Records
<1>5. s \in 0..Len(entries[l])
  BY <1>1, <1>2, <1>4
<1>6. Cardinality(Prefix(l)) = s
  BY <1>3, <1>4, <1>5, PrefixCount
<1>7. \A i \in 1..s : i \in 1..Len(entries[l])
  BY <1>4, <1>5
<1>8. ASSUME NEW m \in Prefix(l) PROVE m \in Messages /\ (m \in Dropped \/ m \in events \cap mailed)
  <2>1. m \in Messages /\ prog[m] \in {"discard", "mailed"}
    BY <1>2, <1>3, <1>4, <1>7, <1>8
  <2> QED BY <2>1 DEF CleanerInv, HandedOn, Backed
<1> QED BY <1>2, <1>3, <1>6, <1>8

LEMMA SendResultInv ==
  ASSUME NEW l \in Lanes PROVE CleanerInv /\ SendResult(l) => CleanerInv'
<1> SUFFICES ASSUME CleanerInv, SendResult(l) PROVE CleanerInv'
  OBVIOUS
<1>0. /\ UNCHANGED <<confirmed, events, mailed, terminal, fetched, paused, polled, receive>>
      /\ UNCHANGED <<entries, st, prog, slots, inflight, answered, again, limit>>
  BY DEF SendResult, outerVars, storeVars, sessionVars, receiveVars, entryVars, loopVars,
         historyVars
<1>1. /\ batch' \in [Lanes -> BatchType] /\ batch[l].phase = "send"
      /\ \A j \in Lanes : j # l => batch'[j] = batch[j]
      /\ batch'[l].n = batch[l].n /\ batch'[l].settled = batch[l].settled
      /\ batch'[l].phase = "sent"
  <2>1. batch \in [Lanes -> BatchType]
    BY DEF CleanerInv, TypeOK, BatchType
  <2> QED BY <2>1 DEF SendResult, BatchType
<1>2. Active' = Active \ {l} /\ l \in Active
  BY <1>1 DEF Active
<1>3. Cardinality(Active') = Cardinality(Active) - 1
  BY <1>2, ActiveFacts, FS_RemoveElement DEF CleanerInv
<1>4. leaving' = leaving + 1
  BY DEF SendResult
<1>5. leaving' \in 0..MaxConcurrentBatches /\ Cardinality(Active') + leaving' = slots
  <2>1. Cardinality(Active') \in Nat
    BY <1>2, ActiveFacts, FS_RemoveElement, FS_CardinalityType DEF CleanerInv
  <2> QED BY <1>3, <1>4, <2>1, ActiveFacts, CleanerConfig DEF CleanerInv
<1>6. TypeOK'
  <2>1. leaving' \in 0..MaxConcurrentBatches
    BY <1>5
  <2>2. UNCHANGED <<gateVars, sessionVars, ownerVars, attempt, laneVars, loopVars, faults>>
    BY DEF SendResult, outerVars, entryVars, historyVars
  <2> QED BY <1>0, <1>1, <2>1, <2>2 DEF CleanerInv, TypeOK, BatchType, gateVars,
             sessionVars, ownerVars, laneVars, loopVars
<1>7. BatchState(l)'
  BY <1>0, <1>1 DEF CleanerInv, Batches, BatchState
<1>8. Records' /\ LogOrder' /\ Batches' /\ PausedLaneDrains'
  BY <1>0, <1>1, <1>7, BatchStep
<1>9. HandedOn'
  BY <1>0, HandedKept DEF CleanerInv, HandedOn
<1>10. Window'
  BY <1>0, <1>5, WindowKept DEF CleanerInv
<1>11. Once'
  BY <1>0, OnceKept DEF CleanerInv, Once
<1> QED BY <1>6, <1>8, <1>9, <1>10, <1>11 DEF CleanerInv

LEMMA StoreFailsInv ==
  ASSUME NEW l \in Lanes, NEW written \in SUBSET ToStore(l)
  PROVE  CleanerInv /\ StoreFails(l, written) => CleanerInv'
<1> SUFFICES ASSUME CleanerInv, StoreFails(l, written) PROVE CleanerInv'
  OBVIOUS
<1>0. /\ UNCHANGED <<confirmed, mailed, terminal, fetched, paused, polled, receive, limit>>
      /\ UNCHANGED <<entries, st, prog, slots, leaving, inflight, answered, again>>
      /\ events \subseteq events'
  BY DEF StoreFails, sessionVars, receiveVars, entryVars, loopVars
<1>1. /\ batch' \in [Lanes -> BatchType] /\ batch[l].phase = "store"
      /\ \A j \in Lanes : j # l => batch'[j] = batch[j]
      /\ batch'[l].n = batch[l].n /\ batch'[l].settled = 0 /\ batch'[l].phase = "send"
  BY ReportFacts, CleanerConfig DEF StoreFails, CleanerInv
<1>2. batch[l].n \in Nat /\ BatchState(l)
  BY CleanerConfig DEF CleanerInv, Batches, TypeOK
<1>3. BatchState(l)'
  <2>1. 1..0 = {} /\ 0 <= batch[l].n
    BY <1>2
  <2> QED BY <1>0, <1>1, <1>2, <2>1, BatchLives
<1>4. TypeOK'
  <2>1. events' \subseteq Messages
    <3>1. \A i \in 1..batch[l].n : i \in 1..Len(entries[l])
      BY <1>1, <1>2, EntryFacts DEF CleanerInv, BatchState
    <3>2. written \subseteq Messages
      BY <3>1, EntryFacts DEF CleanerInv, ToStore
    <3> QED BY <3>2 DEF CleanerInv, TypeOK, StoreFails
  <2>2. faults' \in 0..MaxFaults
    BY FaultType DEF CleanerInv, StoreFails
  <2> QED BY <1>0, <1>1, <2>1, <2>2 DEF CleanerInv, TypeOK, BatchType, StoreFails, gateVars,
             sessionVars, ownerVars, entryVars, laneVars, loopVars
<1>5. Records' /\ LogOrder' /\ Batches' /\ PausedLaneDrains'
  BY <1>0, <1>1, <1>3, BatchStep
<1>6. HandedOn'
  BY <1>0, HandedKept DEF CleanerInv, HandedOn
<1>7. Window'
  BY <1>0, <1>1, BatchWindow
<1>8. Once'
  BY <1>0, OnceKept DEF CleanerInv, Once
<1> QED BY <1>4, <1>5, <1>6, <1>7, <1>8 DEF CleanerInv

(* The entries a batch works on. *)
LEMMA BatchEntries ==
  ASSUME CleanerInv, NEW l \in Lanes, batch[l].phase # "idle"
  PROVE  /\ batch[l].n \in Nat /\ batch[l].settled \in 0..batch[l].n
         /\ BatchState(l) /\ batch[l].result \in {"ok", "err"}
         /\ \A i \in 1..batch[l].n :
              /\ entries[l][i] \in Messages /\ entries[l][i] \in ToSet(entries[l])
              /\ st[entries[l][i]] = "ready" /\ LaneOf[entries[l][i]] = l
<1>1. /\ batch[l].n \in Nat /\ batch[l].settled \in Nat /\ batch[l].result \in {"ok", "err"}
  BY CleanerConfig DEF CleanerInv, TypeOK
<1>2. /\ BatchState(l) /\ batch[l].n <= Len(entries[l]) /\ batch[l].settled <= batch[l].n
      /\ \A i \in 1..batch[l].n : st[entries[l][i]] = "ready"
  BY DEF CleanerInv, Batches, BatchState
<1>3. \A i \in 1..batch[l].n : i \in 1..Len(entries[l])
  BY <1>1, <1>2, EntryFacts DEF CleanerInv
<1>4. \A i \in 1..batch[l].n :
        entries[l][i] \in Messages /\ entries[l][i] \in ToSet(entries[l])
  BY <1>3, EntryFacts DEF CleanerInv
<1> QED BY <1>1, <1>2, <1>4 DEF CleanerInv, Records

LEMMA StoreEventsInv ==
  ASSUME NEW l \in Lanes, NEW failed \in SUBSET ToStore(l)
  PROVE  CleanerInv /\ StoreEvents(l, failed) => CleanerInv'
<1> SUFFICES ASSUME CleanerInv, StoreEvents(l, failed) PROVE CleanerInv'
  OBVIOUS
<1> DEFINE done == ToStore(l) \ failed
           p == [m \in Messages |->
                   IF m \notin done THEN prog[m]
                   ELSE IF m \in Refused THEN "discard"
                   ELSE IF m \in terminal THEN "mailed" ELSE "stored"]
           r == IF failed = {} THEN "ok" ELSE "err"
<1>0. /\ UNCHANGED <<confirmed, mailed, terminal, fetched, paused, polled, receive, limit>>
      /\ UNCHANGED <<entries, st, slots, leaving, inflight, answered, again>>
      /\ prog' = p /\ events' = events \cup (done \ Refused) /\ Advance(l, p, r)
      /\ batch[l].phase = "store"
  BY DEF StoreEvents, sessionVars, receiveVars, loopVars
<1>1. /\ batch[l].n \in Nat /\ batch[l].settled \in 0..batch[l].n /\ BatchState(l)
      /\ \A m \in done : /\ m \in Messages /\ st[m] = "ready" /\ LaneOf[m] = l
                         /\ prog[m] = "none"
  BY <1>0, BatchEntries DEF ToStore
<1> HIDE DEF done
<1>2. /\ batch' \in [Lanes -> BatchType]
      /\ \A j \in Lanes : j # l => batch'[j] = batch[j]
      /\ batch'[l].n = batch[l].n /\ batch'[l].settled = batch[l].settled
      /\ batch'[l].phase \in {"enqueue", "confirm", "send"}
      /\ batch'[l].phase = "enqueue" => \E i \in 1..batch[l].n : NextIs(l, p, i)
  <2>1. r \in {"ok", "err"}
    OBVIOUS
  <2> HIDE DEF p, r
  <2> QED BY <1>0, <2>1, AdvanceFacts DEF CleanerInv
<1>3. /\ prog' \in [Messages -> {"none", "discard", "stored", "mailed"}]
      /\ \A m \in Messages : m \notin done => prog'[m] = prog[m]
      /\ \A m \in done : \/ prog'[m] = "discard" /\ m \in Refused
                         \/ prog'[m] = "mailed" /\ m \in terminal /\ m \notin Refused
                         \/ prog'[m] = "stored" /\ m \notin Refused
  BY <1>0, <1>1 DEF CleanerInv, TypeOK
<1>4. prog' = p
  BY <1>0
<1> HIDE DEF p, r
<1>5. BatchState(l)'
  <2>1. \A i \in 1..batch[l].settled : entries[l][i] \in confirmed
    BY <1>0, <1>1 DEF BatchState
  <2>2. batch'[l].phase = "enqueue" => \E i \in 1..batch[l].n : NextIs(l, prog, i)'
    BY <1>0, <1>2, <1>4, Zenon DEF NextIs
  <2> QED BY <1>0, <1>1, <1>2, <2>1, <2>2, BatchLives
<1>6. TypeOK'
  <2>1. events' \subseteq Messages
    BY <1>0, <1>1 DEF CleanerInv, TypeOK
  <2>2. faults' \in 0..MaxFaults
    BY FaultType DEF CleanerInv, StoreEvents
  <2>3. UNCHANGED <<gateVars, sessionVars, ownerVars, attempt, laneVars, loopVars>>
    BY DEF StoreEvents
  <2> QED BY <1>0, <1>2, <1>3, <2>1, <2>2, <2>3 DEF CleanerInv, TypeOK, BatchType, gateVars,
             sessionVars, ownerVars, laneVars, loopVars
<1>7. Records' /\ LogOrder' /\ Batches' /\ PausedLaneDrains'
  BY <1>0, <1>1, <1>2, <1>3, <1>5, BatchStep
<1>8. HandedOn'
  <2>1. ASSUME NEW m \in done PROVE Backed(m, prog[m])'
    BY <1>0, <1>3, <2>1 DEF CleanerInv, HandedOn, Backed, Dropped
  <2> QED BY <1>0, <1>3, <2>1, HandedKept DEF CleanerInv, HandedOn
<1>9. Window'
  BY <1>0, <1>2, BatchWindow
<1>10. Once'
  <2>1. \A m \in Messages : st'[m] # "ready" => prog'[m] = "none"
    BY <1>0, <1>1, <1>3 DEF CleanerInv, Once
  <2>2. \A k \in Lanes : \A m \in ToSet(entries[k]) : prog[m] = "mailed" => prog'[m] = "mailed"
    BY <1>1, <1>3, EntryFacts DEF CleanerInv
  <2> QED BY <1>0, <2>1, <2>2, OnceKept DEF CleanerInv
<1> QED BY <1>6, <1>7, <1>8, <1>9, <1>10 DEF CleanerInv

(* The entry that is enqueued next is stored and has not been enqueued. *)
LEMMA NextEntryFacts ==
  ASSUME CleanerInv, NEW l \in Lanes, batch[l].phase = "enqueue"
  PROVE  LET e == NextEntry(l) IN
         /\ e \in Messages /\ e \in ToSet(entries[l]) /\ LaneOf[e] = l
         /\ st[e] = "ready" /\ prog[e] = "stored" /\ e \in events /\ e \notin answered
         /\ \E i \in 1..batch[l].n : e = entries[l][i] /\ NextIs(l, prog, i)
<1>1. PICK i \in 1..batch[l].n : NextIs(l, prog, i)
  BY BatchEntries DEF BatchState
<1>2. NextEntry(l) = entries[l][i]
  BY <1>1, NextFacts, BatchEntries DEF NextEntry
<1>3. prog[entries[l][i]] = "stored"
  BY <1>1 DEF NextIs
<1>4. /\ entries[l][i] \in Messages /\ entries[l][i] \in ToSet(entries[l])
      /\ st[entries[l][i]] = "ready" /\ LaneOf[entries[l][i]] = l
  BY <1>1, BatchEntries
<1>5. entries[l][i] \in events
  BY <1>3, <1>4 DEF CleanerInv, HandedOn, Backed
<1>6. entries[l][i] \notin answered
  BY <1>3, <1>4 DEF CleanerInv, Once
<1> QED BY <1>1, <1>2, <1>3, <1>4, <1>5, <1>6

LEMMA EnqueueInv ==
  ASSUME NEW l \in Lanes PROVE CleanerInv /\ Enqueue(l) => CleanerInv'
<1> SUFFICES ASSUME CleanerInv, Enqueue(l) PROVE CleanerInv'
  OBVIOUS
<1> DEFINE e == NextEntry(l)
           p == [prog EXCEPT ![e] = "mailed"]
<1>0. /\ UNCHANGED <<confirmed, events, terminal, fetched, paused, polled, receive, limit>>
      /\ UNCHANGED <<entries, st, slots, leaving, inflight>>
      /\ mailed' = mailed \cup {e} /\ answered' = answered \cup {e}
      /\ again' = again \cup ({e} \cap answered)
      /\ prog' = p /\ Advance(l, p, batch[l].result) /\ batch[l].phase = "enqueue"
  BY DEF Enqueue, sessionVars, receiveVars, loopVars
<1>1. /\ e \in Messages /\ e \in ToSet(entries[l]) /\ LaneOf[e] = l
      /\ st[e] = "ready" /\ prog[e] = "stored" /\ e \in events /\ e \notin answered
  BY <1>0, NextEntryFacts
<1> HIDE DEF e
<1>2. /\ prog' \in [Messages -> {"none", "discard", "stored", "mailed"}]
      /\ \A m \in Messages : m # e => prog'[m] = prog[m]
      /\ prog'[e] = "mailed"
  BY <1>0, <1>1 DEF CleanerInv, TypeOK
<1>3. prog' = p
  BY <1>0
<1> HIDE DEF p
<1>4. /\ batch' \in [Lanes -> BatchType]
      /\ \A j \in Lanes : j # l => batch'[j] = batch[j]
      /\ batch'[l].n = batch[l].n /\ batch'[l].settled = batch[l].settled
      /\ batch'[l].phase \in {"enqueue", "confirm", "send"}
      /\ batch'[l].phase = "enqueue" => \E i \in 1..batch[l].n : NextIs(l, p, i)
  <2>1. batch[l].result \in {"ok", "err"}
    BY <1>0, BatchEntries
  <2> QED BY <1>0, <2>1, AdvanceFacts DEF CleanerInv
<1>5. batch[l].n \in Nat /\ batch[l].settled \in 0..batch[l].n /\ BatchState(l)
  BY <1>0, BatchEntries
<1>6. BatchState(l)'
  <2>1. \A i \in 1..batch[l].settled : entries[l][i] \in confirmed
    BY <1>0, <1>5 DEF BatchState
  <2>2. batch'[l].phase = "enqueue" => \E i \in 1..batch[l].n : NextIs(l, prog, i)'
    BY <1>0, <1>3, <1>4, Zenon DEF NextIs
  <2> QED BY <1>0, <1>4, <1>5, <2>1, <2>2, BatchLives
<1>7. again' = {}
  BY <1>0, <1>1 DEF CleanerInv, Once, NoNeedlessDuplicates
<1>8. TypeOK'
  <2>1. mailed' \subseteq Messages /\ answered' \subseteq Messages
    BY <1>0, <1>1 DEF CleanerInv, TypeOK
  <2>2. UNCHANGED <<gateVars, sessionVars, ownerVars, attempt, laneVars, loopVars, faults>>
    BY DEF Enqueue
  <2>3. TypeOK /\ confirmed \subseteq Messages /\ events \subseteq Messages /\ faults \in 0..MaxFaults
    BY DEF CleanerInv, TypeOK
  <2> QED BY <1>0, <1>2, <1>4, <1>7, <2>1, <2>2, <2>3, BatchTypes
<1>9. Records' /\ LogOrder' /\ Batches' /\ PausedLaneDrains'
  BY <1>0, <1>1, <1>2, <1>4, <1>6, BatchStep
<1>10. HandedOn'
  <2>1. ASSUME NEW m \in Messages PROVE prog'[m] = prog[m] \/ Backed(m, prog[m])'
    BY <1>0, <1>1, <1>2 DEF Backed
  <2> QED BY <1>0, <1>2, <2>1, HandedKept DEF CleanerInv, HandedOn
<1>11. Window'
  BY <1>0, <1>4, BatchWindow
<1>12. Once'
  <2>1. answered' \subseteq fetched /\ answered' \cap polled = {}
    BY <1>0, <1>1 DEF CleanerInv, Once, Records
  <2>2. \A m \in Messages : st[m] # "ready" => prog'[m] = "none"
    BY <1>1, <1>2 DEF CleanerInv, Once
  <2>3. \A k \in Lanes : \A m \in ToSet(entries[k]) : m \in answered' => prog'[m] = "mailed"
    BY <1>0, <1>1, <1>2, EntryFacts DEF CleanerInv, Once
  <2> QED BY <1>0, <1>7, <2>1, <2>2, <2>3 DEF Once, NoNeedlessDuplicates
<1> QED BY <1>8, <1>9, <1>10, <1>11, <1>12 DEF CleanerInv

LEMMA EnqueueFailsInv ==
  ASSUME NEW l \in Lanes, NEW applied \in BOOLEAN
  PROVE  CleanerInv /\ EnqueueFails(l, applied) => CleanerInv'
<1> SUFFICES ASSUME CleanerInv, EnqueueFails(l, applied) PROVE CleanerInv'
  OBVIOUS
<1>0. /\ UNCHANGED <<confirmed, events, terminal, fetched, paused, polled, receive, limit>>
      /\ UNCHANGED <<entries, st, prog, slots, leaving, inflight, answered, again>>
      /\ batch[l].phase = "enqueue"
  BY DEF EnqueueFails, sessionVars, receiveVars, entryVars, loopVars
<1>1. mailed \subseteq mailed' /\ mailed' \subseteq Messages
  <2>1. NextEntry(l) \in Messages /\ mailed \subseteq Messages
    BY <1>0, NextEntryFacts DEF CleanerInv, TypeOK
  <2>2. mailed' = mailed \/ mailed' = mailed \cup {NextEntry(l)}
    BY DEF EnqueueFails
  <2> QED BY <2>1, <2>2
<1>2. batch[l].n \in Nat /\ batch[l].settled \in 0..batch[l].n /\ BatchState(l)
  BY <1>0, BatchEntries
<1>3. /\ batch' \in [Lanes -> BatchType]
      /\ \A j \in Lanes : j # l => batch'[j] = batch[j]
      /\ batch'[l].n = batch[l].n /\ batch'[l].settled \in {0, batch[l].settled}
      /\ batch'[l].phase \in {"confirm", "send"}
  <2>1. CASE SettledPrefix(l, batch[l].n, prog) > 0
    <3>1. batch \in [Lanes -> BatchType]
      BY DEF CleanerInv, TypeOK, BatchType
    <3>2. batch' = [batch EXCEPT ![l].phase = "confirm", ![l].result = "err"]
      BY <2>1 DEF EnqueueFails
    <3> QED BY <3>1, <3>2 DEF BatchType
  <2>2. CASE ~(SettledPrefix(l, batch[l].n, prog) > 0)
    BY <2>2, ReportFacts, CleanerConfig DEF EnqueueFails, CleanerInv
  <2> QED BY <2>1, <2>2
<1>4. BatchState(l)'
  <2>1. \A i \in 1..batch'[l].settled : entries[l][i] \in confirmed
    <3>1. 1..0 = {}
      OBVIOUS
    <3> QED BY <1>0, <1>2, <1>3, <3>1 DEF BatchState
  <2>2. batch'[l].settled <= batch[l].n
    BY <1>2, <1>3
  <2> QED BY <1>0, <1>2, <1>3, <2>1, <2>2, BatchLives
<1>5. TypeOK'
  <2>1. faults' \in 0..MaxFaults
    BY FaultType DEF CleanerInv, EnqueueFails
  <2>2. UNCHANGED <<gateVars, sessionVars, ownerVars, attempt, laneVars, loopVars>>
    BY DEF EnqueueFails, entryVars
  <2>3. TypeOK
    BY DEF CleanerInv
  <2>4. /\ prog' \in [Messages -> {"none", "discard", "stored", "mailed"}]
        /\ confirmed' \subseteq Messages /\ events' \subseteq Messages
        /\ answered' \subseteq Messages /\ again' \subseteq Messages
    BY <1>0, <2>3 DEF TypeOK
  <2> QED BY <1>0, <1>1, <1>3, <2>1, <2>2, <2>3, <2>4, BatchTypes
<1>6. Records' /\ LogOrder' /\ Batches' /\ PausedLaneDrains'
  BY <1>0, <1>3, <1>4, BatchStep
<1>7. HandedOn'
  BY <1>0, <1>1, HandedKept DEF CleanerInv, HandedOn
<1>8. Window'
  BY <1>0, <1>3, BatchWindow
<1>9. Once'
  BY <1>0, OnceKept DEF CleanerInv, Once
<1> QED BY <1>5, <1>6, <1>7, <1>8, <1>9 DEF CleanerInv

LEMMA ConfirmInv ==
  ASSUME NEW l \in Lanes, NEW applied \in BOOLEAN
  PROVE  CleanerInv /\ (Confirm(l) \/ ConfirmFails(l, applied)) => CleanerInv'
<1> SUFFICES ASSUME CleanerInv, Confirm(l) \/ ConfirmFails(l, applied) PROVE CleanerInv'
  OBVIOUS
<1>0. /\ UNCHANGED <<events, mailed, terminal, fetched, paused, polled, receive, limit>>
      /\ UNCHANGED <<entries, st, prog, slots, leaving, inflight, answered, again>>
      /\ batch[l].phase = "confirm"
  BY DEF Confirm, ConfirmFails, sessionVars, receiveVars, entryVars, loopVars, historyVars
<1> DEFINE c == Cardinality(Prefix(l))
<1>1. batch[l].n \in 0..MaxBatchMessages /\ BatchState(l) /\ batch[l].result \in {"ok", "err"}
  BY <1>0, BatchEntries DEF CleanerInv, TypeOK
<1>2. /\ c \in 0..batch[l].n /\ Prefix(l) = {entries[l][i] : i \in 1..c}
      /\ Prefix(l) \subseteq Messages
      /\ \A m \in Prefix(l) : m \in Dropped \/ m \in events \cap mailed
  BY <1>0, ConfirmedPrefix
<1>3. /\ confirmed \subseteq confirmed' /\ confirmed' \subseteq confirmed \cup Prefix(l)
  BY DEF Confirm, ConfirmFails
<1>4. PICK k \in 0..MaxBatchMessages, r \in {"ok", "err"} :
        /\ Report(l, k, r) /\ k <= batch[l].n
        /\ \A i \in 1..k : entries[l][i] \in confirmed'
  <2>1. CASE Confirm(l)
    <3>1. c \in 0..MaxBatchMessages /\ c <= batch[l].n
      BY <1>1, <1>2, CleanerConfig
    <3>2. \A i \in 1..c : entries[l][i] \in confirmed'
      BY <1>2, <2>1 DEF Confirm
    <3>3. Report(l, c, batch[l].result)
      BY <2>1 DEF Confirm
    <3> HIDE DEF c
    <3> QED BY <1>1, <3>1, <3>2, <3>3
  <2>2. CASE ConfirmFails(l, applied)
    <3>1. 0 \in 0..MaxBatchMessages /\ 0 <= batch[l].n /\ 1..0 = {}
      BY <1>1, CleanerConfig
    <3>2. Report(l, 0, "err")
      BY <2>2 DEF ConfirmFails
    <3> QED BY <3>1, <3>2
  <2> QED BY <2>1, <2>2
<1>5. /\ batch' \in [Lanes -> BatchType]
      /\ \A j \in Lanes : j # l => batch'[j] = batch[j]
      /\ batch'[l].n = batch[l].n /\ batch'[l].settled = k /\ batch'[l].phase = "send"
  BY <1>4, ReportFacts DEF CleanerInv
<1>6. BatchState(l)'
  BY <1>0, <1>1, <1>4, <1>5, BatchLives
<1>7. TypeOK'
  <2>1. faults' \in 0..MaxFaults
    BY FaultType DEF CleanerInv, Confirm, ConfirmFails, historyVars
  <2>2. UNCHANGED <<gateVars, ownerVars, attempt, laneVars, loopVars>>
    BY DEF Confirm, ConfirmFails, entryVars
  <2>3. receipts' \subseteq Messages /\ held' \in BOOLEAN
    BY DEF Confirm, ConfirmFails, CleanerInv, TypeOK, sessionVars
  <2>4. confirmed' \subseteq Messages
    BY <1>2, <1>3 DEF CleanerInv, TypeOK
  <2> QED BY <1>0, <1>5, <2>1, <2>2, <2>3, <2>4 DEF CleanerInv, TypeOK, BatchType, gateVars,
             ownerVars, laneVars, loopVars
<1>8. Records' /\ LogOrder' /\ Batches' /\ PausedLaneDrains'
  BY <1>0, <1>3, <1>5, <1>6, BatchStep
<1>9. HandedOn'
  BY <1>0, <1>2, <1>3, HandedKept DEF CleanerInv, HandedOn
<1>10. Window'
  BY <1>0, <1>5, BatchWindow
<1>11. Once'
  BY <1>0, OnceKept DEF CleanerInv, Once
<1> QED BY <1>7, <1>8, <1>9, <1>10, <1>11 DEF CleanerInv

LEMMA OtherOwnerInv ==
  ASSUME NEW l \in Lanes PROVE CleanerInv /\ OtherOwner(l) => CleanerInv'
<1> SUFFICES ASSUME CleanerInv, OtherOwner(l) PROVE CleanerInv'
  OBVIOUS
<1> DEFINE left == Filter(LaneLog[l], Messages \ confirmed)
           e == Head(left)
<1>0. /\ UNCHANGED <<terminal, fetched, paused, polled, receive, limit>>
      /\ UNCHANGED <<entries, st, prog, batch, slots, leaving, inflight, answered, again>>
      /\ confirmed' = confirmed \cup {e} /\ left # <<>>
      /\ events \subseteq events' /\ events' \subseteq events \cup {e}
      /\ mailed \subseteq mailed' /\ mailed' \subseteq mailed \cup {e}
      /\ e \in Dropped \/ e \in events' \cap mailed'
  BY DEF OtherOwner, sessionVars, receiveVars, innerVars, entryVars, batchVars, loopVars,
         historyVars, Dropped
<1>1. e \in Messages
  <2>1. left \in Seq(Messages)
    BY LaneFacts, FilterKeeps
  <2>2. left # <<>>
    BY <1>0
  <2> HIDE DEF left
  <2>3. Head(left) \in ToSet(left) /\ ToSet(left) \subseteq Messages
    BY <2>1, <2>2, SetOfSeq
  <2> QED BY <2>3
<1> HIDE DEF left, e
<1>2. TypeOK'
  <2>1. UNCHANGED <<gateVars, sessionVars, ownerVars, attempt, laneVars, loopVars, faults>>
    BY DEF OtherOwner, innerVars, entryVars, historyVars
  <2>2. TypeOK
    BY DEF CleanerInv
  <2>3. /\ confirmed' \subseteq Messages /\ events' \subseteq Messages /\ mailed' \subseteq Messages
        /\ answered' \subseteq Messages /\ again' \subseteq Messages /\ faults' \in 0..MaxFaults
        /\ prog' \in [Messages -> {"none", "discard", "stored", "mailed"}]
    BY <1>0, <1>1, <2>1, <2>2 DEF TypeOK
  <2>4. batch' \in [Lanes -> BatchType]
    BY <1>0, <2>2 DEF TypeOK, BatchType
  <2> QED BY <1>0, <2>1, <2>2, <2>3, <2>4, BatchTypes
<1>3. Records' /\ LogOrder'
  BY <1>0, RecordsKept, LogKept DEF CleanerInv
<1>4. Batches'
  BY <1>0, BatchesElsewhere DEF CleanerInv, Batches
<1>5. HandedOn'
  BY <1>0, HandedKept DEF CleanerInv, HandedOn
<1>6. Window' /\ PausedLaneDrains'
  BY <1>0 DEF CleanerInv, Window, WindowIsExact, PausedLaneDrains
<1>7. Once'
  BY <1>0, OnceKept DEF CleanerInv, Once
<1> QED BY <1>2, <1>3, <1>4, <1>5, <1>6, <1>7 DEF CleanerInv

-----------------------------------------------------------------------------
(* The head of the loop. *)

LEMMA MinOfTwo ==
  ASSUME NEW a \in Int, NEW b \in Int
  PROVE  Min({a, b}) \in {a, b} /\ Min({a, b}) <= a /\ Min({a, b}) <= b
<1>1. \E x \in {a, b} : \A y \in {a, b} : x <= y
  <2>1. a <= b \/ b <= a
    OBVIOUS
  <2> QED BY <2>1
<1>2. Min({a, b}) \in {a, b} /\ \A y \in {a, b} : Min({a, b}) <= y
  BY <1>1 DEF Min
<1> QED BY <1>2

LEMMA ReadyFacts ==
  ASSUME TypeOK, NEW l \in Lanes
  PROVE  LET n == ReadyCount(l) IN
         /\ n \in 0..MaxBatchMessages /\ n <= Len(entries[l])
         /\ \A i \in 1..n : st[entries[l][i]] = "ready"
<1> DEFINE b == Min({Len(entries[l]), MaxBatchMessages})
           Ok(i) == st[entries[l][i]] = "ready"
           S == {n \in 0..b : \A i \in 1..n : Ok(i)}
<1>1. b \in Nat /\ b <= Len(entries[l]) /\ b <= MaxBatchMessages
  <2>1. Len(entries[l]) \in Nat /\ MaxBatchMessages \in Nat
    BY EntryFacts, CleanerConfig
  <2>2. Len(entries[l]) \in Int /\ MaxBatchMessages \in Int
    BY <2>1
  <2>3. b \in {Len(entries[l]), MaxBatchMessages} /\ b <= Len(entries[l]) /\ b <= MaxBatchMessages
    BY <2>2, MinOfTwo, Zenon
  <2> QED BY <2>1, <2>3
<1>2. ReadyCount(l) = Max(S)
  BY DEF ReadyCount
<1> HIDE DEF b, Ok
<1>3. 0 \in S /\ \A x \in S : x \in Nat /\ x <= b
  BY <1>1
<1>4. Max(S) \in S
  <2> HIDE DEF S
  <2> QED BY <1>1, <1>3, MaxOfCounts
<1>5. Max(S) \in 0..b /\ \A i \in 1..Max(S) : Ok(i)
  BY <1>4
<1> HIDE DEF S
<1>6. Max(S) \in 0..MaxBatchMessages /\ Max(S) <= Len(entries[l])
  BY <1>1, <1>5, EntryFacts, CleanerConfig
<1> QED BY <1>2, <1>5, <1>6 DEF Ok

LEMMA NewBatchFacts ==
  ASSUME TypeOK, NEW l \in Lanes
  PROVE  LET x == NewBatch(l) IN
         /\ x \in BatchType /\ x.n = ReadyCount(l) /\ x.settled = 0
         /\ x.phase \notin {"idle", "sent"}
         /\ x.phase = "enqueue" => \E i \in 1..ReadyCount(l) : NextIs(l, prog, i)
<1> DEFINE n == ReadyCount(l)
           f == IF \E i \in 1..n : prog[entries[l][i]] = "none"
                  THEN "store" ELSE NextPhase(l, n, prog)
<1>1. n \in 0..MaxBatchMessages
  BY ReadyFacts
<1>2. f \in {"store", "enqueue", "confirm", "send"}
  BY DEF NextPhase
<1>3. ASSUME f = "enqueue" PROVE \E i \in 1..n : NextIs(l, prog, i)
  <2>1. NextToEnqueue(l, n, prog) # 0
    BY <1>3 DEF NextPhase
  <2>2. n \in Nat
    BY <1>1, CleanerConfig
  <2> QED BY <2>1, <2>2, NextFacts
<1>4. NewBatch(l) = [NoBatch EXCEPT !.n = n, !.phase = f]
  BY DEF NewBatch
<1> HIDE DEF n, f
<1>5. NewBatch(l) = [phase |-> f, n |-> n, settled |-> 0, result |-> "ok"]
  BY <1>4 DEF NoBatch
<1>6. /\ NewBatch(l) \in BatchType /\ NewBatch(l).n = n /\ NewBatch(l).settled = 0
      /\ NewBatch(l).phase = f
  BY <1>1, <1>2, <1>5, CleanerConfig DEF BatchType
<1> QED BY <1>2, <1>3, <1>6 DEF n

LEMMA LoopTopInv ==
  ASSUME NEW late, NEW aged PROVE CleanerInv /\ LoopTop(late, aged) => CleanerInv'
<1> SUFFICES ASSUME CleanerInv, LoopTop(late, aged) PROVE CleanerInv'
  OBVIOUS
<1> DEFINE expired == late /\ pendingRevoke # {} /\ ~RevokeDrained
           stopping == shuttingDown \/ expired
           due == Urgent(stopping) \cup (Startable \cap aged)
<1>0. /\ UNCHANGED <<confirmed, events, mailed, terminal, fetched, paused, polled>>
      /\ UNCHANGED <<entries, prog, leaving, inflight, answered, again>>
  BY DEF LoopTop, storeVars, sessionVars, historyVars
<1>1. PICK S \in SUBSET due :
        /\ Cardinality(S) = Min({Cardinality(due), MaxConcurrentBatches - slots})
        /\ batch' = [l \in Lanes |-> IF l \in S THEN NewBatch(l) ELSE batch[l]]
        /\ slots' = slots + Cardinality(S)
  BY DEF LoopTop
<1>2. due \subseteq Lanes /\ \A l \in due : batch[l].phase = "idle"
  BY DEF Urgent, Startable
<1> HIDE DEF due
<1>3. /\ st' \in [Messages -> {"away", "job", "retry", "stuck", "ready"}]
      /\ \A m \in Messages : st'[m] = st[m] \/ (st[m] = "retry" /\ st'[m] = "job")
  BY DEF CleanerInv, TypeOK, LoopTop, DueRetries
<1>4. /\ batch' \in [Lanes -> BatchType]
      /\ \A l \in Lanes : l \notin S => batch'[l] = batch[l]
      /\ \A l \in S : batch'[l] = NewBatch(l)
  <2>1. batch \in [Lanes -> BatchType]
    BY DEF CleanerInv, TypeOK, BatchType
  <2>2. \A l \in Lanes : NewBatch(l) \in BatchType
    BY NewBatchFacts DEF CleanerInv
  <2> QED BY <1>1, <1>2, <2>1, <2>2
<1>5. Cardinality(Active') + leaving = slots' /\ slots' \in 0..MaxConcurrentBatches
  <2>1. IsFiniteSet(due) /\ IsFiniteSet(S) /\ Cardinality(due) \in Nat /\ Cardinality(S) \in Nat
    BY <1>1, <1>2, RecordsType, FS_Subset, FS_CardinalityType
  <2>2. Cardinality(S) <= MaxConcurrentBatches - slots
    <3>1. Cardinality(due) \in Int /\ MaxConcurrentBatches - slots \in Int
      BY <2>1, ActiveFacts, CleanerConfig DEF CleanerInv
    <3> QED BY <1>1, <3>1, MinOfTwo
  <2>3. Active' = Active \cup S /\ Active \cap S = {}
    <3>1. \A l \in S : l \in Lanes /\ batch[l].phase = "idle"
      BY <1>1, <1>2
    <3>2. \A l \in S : batch'[l].phase \notin {"idle", "sent"}
      BY <1>4, <3>1, NewBatchFacts DEF CleanerInv
    <3> QED BY <1>4, <3>1, <3>2 DEF Active
  <2>4. Cardinality(Active') = Cardinality(Active) + Cardinality(S)
    <3>1. Cardinality(Active \cup S) =
            Cardinality(Active) + Cardinality(S) - Cardinality(Active \cap S)
      BY <2>1, ActiveFacts, FS_Union DEF CleanerInv
    <3>2. Cardinality(Active \cap S) = 0
      BY <2>3, FS_EmptySet
    <3> QED BY <2>1, <2>3, <3>1, <3>2, ActiveFacts DEF CleanerInv
  <2> QED BY <1>1, <2>1, <2>2, <2>4, ActiveFacts, CleanerConfig DEF CleanerInv
<1>6. /\ receive' = receive /\ limit' = limit
      \/ /\ receive = "idle" /\ receive' = "asked" /\ limit' = ReceiveLimit
         /\ inflight < MaxInflightMessages
  BY DEF LoopTop, MayReceive
<1>7. limit' \in 0..MaxBatchMessages /\ (receive' = "asked" => limit' <= MaxInflightMessages - inflight)
  <2>1. CASE receive' = receive /\ limit' = limit
    BY <2>1 DEF CleanerInv, TypeOK, Window
  <2>2. CASE limit' = ReceiveLimit /\ inflight < MaxInflightMessages
    <3>1. /\ inflight \in Nat /\ MaxInflightMessages \in Nat /\ MaxBatchMessages \in Nat
          /\ MaxInflightMessages - inflight \in Int
      BY CleanerConfig DEF CleanerInv, TypeOK
    <3>2. /\ ReceiveLimit \in {MaxBatchMessages, MaxInflightMessages - inflight}
          /\ ReceiveLimit <= MaxBatchMessages /\ ReceiveLimit <= MaxInflightMessages - inflight
      BY <3>1, MinOfTwo DEF ReceiveLimit
    <3> QED BY <2>2, <3>1, <3>2
  <2> QED BY <1>6, <2>1, <2>2
<1>8. TypeOK'
  <2>1. timer' \in [Timers -> {"zero", "ahead", "past"}]
    BY DEF LoopTop, CleanerInv, TypeOK
  <2>2. owned' \subseteq Lanes /\ pendingRevoke' \subseteq Lanes /\ revoking' \subseteq Lanes
    BY DEF LoopTop, CleanerInv, TypeOK
  <2>3. shuttingDown' \in BOOLEAN
    BY DEF LoopTop
  <2>4. allowed' \in BOOLEAN /\ flowPaused' \in BOOLEAN
    BY DEF LoopTop, CleanerInv, TypeOK, Sampled
  <2>5. at' \in {"top", "select", "stopping", "stopped"}
    BY DEF LoopTop
  <2>6. UNCHANGED <<load, sessionVars, revokeEvent, lostEvent, attempt, laneAttempt, faults>>
    BY DEF LoopTop, historyVars
  <2>7. receive' \in {"idle", "asked", "polled", "ok", "empty", "err"}
    BY <1>6 DEF CleanerInv, TypeOK
  <2> QED BY <1>0, <1>3, <1>4, <1>5, <1>7, <2>1, <2>2, <2>3, <2>4, <2>5, <2>6, <2>7
          DEF CleanerInv, TypeOK, BatchType, sessionVars
<1>9. Records' /\ LogOrder'
  <2>1. \A m \in Messages : st'[m] # "away" => st[m] # "away"
    BY <1>3
  <2>2. receive' \notin {"polled", "ok"} => receive \notin {"polled", "ok"}
    BY <1>6
  <2> QED BY <1>0, <2>1, <2>2, RecordsKept, LogKept DEF CleanerInv
<1>10. ASSUME NEW l \in Lanes PROVE BatchState(l)'
  <2>1. CASE l \notin S
    BY <1>0, <1>3, <1>4, <2>1, BatchesElsewhere DEF CleanerInv
  <2>2. CASE l \in S
    <3> DEFINE n == ReadyCount(l)
    <3>1. /\ n \in 0..MaxBatchMessages /\ n <= Len(entries[l])
          /\ \A i \in 1..n : st[entries[l][i]] = "ready"
      BY ReadyFacts DEF CleanerInv
    <3>2. /\ batch'[l].n = n /\ batch'[l].settled = 0
          /\ batch'[l].phase = "enqueue" => \E i \in 1..n : NextIs(l, prog, i)
      BY <1>4, <2>2, NewBatchFacts DEF CleanerInv
    <3> HIDE DEF n
    <3>3. \A i \in 1..n : i \in 1..Len(entries[l])
      BY <3>1, EntryFacts, CleanerConfig DEF CleanerInv
    <3>4. \A i \in 1..n : st'[entries[l][i]] = "ready"
      <4>1. \A i \in 1..n : entries[l][i] \in Messages
        BY <3>3, EntryFacts DEF CleanerInv
      <4> QED BY <1>3, <3>1, <4>1
    <3>5. 0 <= n /\ 1..0 = {}
      BY <3>1, CleanerConfig
    <3>6. batch'[l].phase = "enqueue" => \E i \in 1..n : NextIs(l, prog, i)'
      BY <1>0, <3>2, Zenon DEF NextIs
    <3> QED BY <1>0, <3>1, <3>2, <3>4, <3>5, <3>6 DEF BatchState
  <2> QED BY <2>1, <2>2
<1>11. HandedOn'
  BY <1>0, HandedKept DEF CleanerInv, HandedOn
<1>12. Window'
  BY <1>0, <1>5, <1>7 DEF CleanerInv, Window, WindowIsExact, Active
<1>13. Once'
  <2>1. \A m \in Messages : st'[m] # "ready" => prog'[m] = "none"
    BY <1>0, <1>3 DEF CleanerInv, Once
  <2> QED BY <1>0, <2>1, OnceKept DEF CleanerInv
<1>14. PausedLaneDrains'
  BY <1>0 DEF CleanerInv, PausedLaneDrains
<1> QED BY <1>8, <1>9, <1>10, <1>11, <1>12, <1>13, <1>14 DEF CleanerInv, Batches

-----------------------------------------------------------------------------
(* Records enter the session and the window. *)

(* Whatever stands before a delivered record is known already or delivered *)
(* with it: the session goes through the log in order.                     *)
LEMMA DeliveredInOrder ==
  ASSUME CleanerInv, receive = "asked", NEW b \in Deliverable, NEW n \in b, NEW m \in Messages,
         Before(LaneLog[LaneOf[n]], m, n)
  PROVE  m \in confirmed \cup b \cup ToSet(entries[LaneOf[n]])
<1> DEFINE l == LaneOf[n]
           log == LaneLog[l]
           got == Filter(log, b)
           all == Filter(log, Fetchable)
<1>1. /\ n \in Messages /\ n \in Fetchable /\ b \subseteq Fetchable /\ b \subseteq Messages
  BY DEF Deliverable, Fetchable
<1>2. /\ l \in Lanes /\ n \in ToSet(log) /\ log \in Seq(Messages) /\ Distinct(log)
      /\ LaneOf[m] = l
  <2>1. l \in Lanes /\ n \in ToSet(log) /\ log \in Seq(Messages) /\ Distinct(log)
    BY <1>1, LaneFacts
  <2>2. m \in ToSet(log)
    BY <2>1, SetOfSeq
  <2> QED BY <2>1, <2>2, LaneFacts
<1>3. IsPrefix(got, all)
  BY <1>2 DEF Deliverable
<1> HIDE DEF l, log
<1>4. /\ got \in Seq(Messages) /\ ToSet(got) = ToSet(log) \cap b
      /\ all \in Seq(Messages) /\ Distinct(all)
      /\ \A x, y : Before(all, x, y) <=> Before(log, x, y) /\ x \in Fetchable /\ y \in Fetchable
  BY <1>2, FilterKeeps
<1>5. CASE m \in fetched
  <2>1. polled = {}
    BY DEF CleanerInv, Records
  <2> QED BY <1>2, <1>5, <2>1 DEF CleanerInv, Records, l
<1>6. CASE m \notin fetched /\ m \notin confirmed
  <2>1. m \in Fetchable
    BY <1>1, <1>2, <1>6 DEF Fetchable, l
  <2>2. Before(all, m, n)
    BY <1>1, <1>4, <2>1 DEF log, l
  <2>3. n \in ToSet(got)
    BY <1>2, <1>4
  <2> HIDE DEF got, all
  <2>4. Before(got, m, n)
    BY <1>3, <1>4, <2>2, <2>3, PrefixOrder
  <2>5. m \in ToSet(got)
    BY <1>4, <2>4, SetOfSeq
  <2> QED BY <1>4, <2>5
<1> QED BY <1>5, <1>6

LEMMA PollInv ==
  ASSUME NEW b \in Deliverable PROVE CleanerInv /\ Poll(b) => CleanerInv'
<1> SUFFICES ASSUME CleanerInv, Poll(b) PROVE CleanerInv'
  OBVIOUS
<1>0. /\ UNCHANGED <<confirmed, events, mailed, terminal, paused, limit, entries, st, prog>>
      /\ UNCHANGED <<batch, slots, leaving, inflight, answered, again>>
      /\ receive = "asked" /\ receive' = "polled" /\ polled' = b /\ fetched' = fetched \cup b
  BY DEF Poll, storeVars, innerVars, entryVars, batchVars, loopVars, historyVars
<1>1. b \subseteq Messages /\ b \cap fetched = {} /\ Cardinality(b) <= limit
  BY DEF Deliverable, Fetchable
<1>2. polled = {}
  BY <1>0 DEF CleanerInv, Records
<1>3. TypeOK'
  <2>1. UNCHANGED <<gateVars, receipts, ownerVars, attempt, laneVars, loopVars, faults>>
    BY DEF Poll, innerVars, entryVars, historyVars
  <2>2. held' \in BOOLEAN
    BY DEF Poll
  <2> QED BY <1>0, <1>1, <2>1, <2>2 DEF CleanerInv, TypeOK, gateVars, ownerVars,
             laneVars, loopVars
<1>4. Records'
  <2>1. \A l \in Lanes : \A m \in ToSet(entries[l]) : LaneOf[m] = l /\ m \in fetched /\ m \notin b
    BY <1>1 DEF CleanerInv, Records
  <2>2. \A m \in fetched' : m \in confirmed \cup b \cup ToSet(entries[LaneOf[m]])
    BY <1>0, <1>2 DEF CleanerInv, Records
  <2>3. /\ \A l \in Lanes : Distinct(entries[l])
        /\ \A m \in Messages : st[m] # "away" => m \in ToSet(entries[LaneOf[m]])
    BY DEF CleanerInv, Records
  <2> QED BY <1>0, <2>1, <2>2, <2>3 DEF Records
<1>5. LogOrder'
  <2>1. \A n \in b : \A m \in Messages :
          Before(LaneLog[LaneOf[n]], m, n) => m \in confirmed \cup b \cup ToSet(entries[LaneOf[n]])
    BY <1>0, DeliveredInOrder
  <2> QED BY <1>0, <2>1, Zenon DEF CleanerInv, LogOrder
<1>6. Batches'
  BY <1>0, BatchesElsewhere DEF CleanerInv, Batches
<1>7. HandedOn'
  BY <1>0, HandedKept DEF CleanerInv, HandedOn
<1>8. Window'
  <2>1. limit <= MaxInflightMessages - inflight
    BY <1>0 DEF CleanerInv, Window
  <2>2. Cardinality(b) \in Nat
    BY <1>1, RecordsType, FS_Subset, FS_CardinalityType
  <2>3. limit \in Nat /\ inflight \in Nat
    BY CleanerConfig DEF CleanerInv, TypeOK
  <2>4. inflight + Cardinality(b) <= MaxInflightMessages
    BY <1>1, <2>1, <2>2, <2>3, CleanerConfig
  <2> QED BY <1>0, <2>4 DEF CleanerInv, Window, WindowIsExact
<1>9. Once'
  BY <1>0, <1>1 DEF CleanerInv, Once, NoNeedlessDuplicates
<1>10. PausedLaneDrains'
  BY <1>0 DEF CleanerInv, PausedLaneDrains
<1> QED BY <1>3, <1>4, <1>5, <1>6, <1>7, <1>8, <1>9, <1>10 DEF CleanerInv

(* What TakeOver appends to lane l. *)
LEMMA AppendedFacts ==
  ASSUME CleanerInv, NEW l \in Lanes, NEW f, f = Filter(LaneLog[l], polled)
  PROVE  /\ f \in Seq(Messages) /\ Distinct(f) /\ ToSet(f) \cap ToSet(entries[l]) = {}
         /\ \A m : m \in ToSet(f) <=> m \in polled /\ LaneOf[m] = l
         /\ \A m, n \in polled : Before(LaneLog[l], m, n) => Before(f, m, n)
<1>1. LaneLog[l] \in Seq(Messages) /\ Distinct(LaneLog[l])
  BY LaneFacts
<1>2. /\ f \in Seq(Messages) /\ Distinct(f) /\ ToSet(f) = ToSet(LaneLog[l]) \cap polled
      /\ \A m, n : Before(f, m, n) <=> Before(LaneLog[l], m, n) /\ m \in polled /\ n \in polled
  BY <1>1, FilterKeeps
<1>3. polled \subseteq Messages
  BY DEF CleanerInv, TypeOK
<1>4. \A m \in polled : m \in ToSet(LaneLog[l]) <=> LaneOf[m] = l
  BY <1>3, LaneFacts
<1>5. ToSet(f) \cap ToSet(entries[l]) = {}
  BY <1>2 DEF CleanerInv, Records
<1> QED BY <1>2, <1>4, <1>5

(* The lanes after TakeOver. *)
LEMMA TakenOverLane ==
  ASSUME CleanerInv, TakeOver, NEW l \in Lanes
  PROVE  LET f == Filter(LaneLog[l], polled) IN
         /\ entries'[l] = entries[l] \o f /\ entries'[l] \in Seq(Messages)
         /\ Distinct(entries'[l])
         /\ \A m : m \in ToSet(entries'[l])
                     <=> m \in ToSet(entries[l]) \/ (m \in polled /\ LaneOf[m] = l)
         /\ \A m, n : Before(entries[l], m, n) => Before(entries'[l], m, n)
         /\ \A m, n \in polled :
              LaneOf[n] = l /\ Before(LaneLog[l], m, n) => Before(entries'[l], m, n)
         /\ \A m \in ToSet(entries[l]), n \in polled :
              LaneOf[n] = l => Before(entries'[l], m, n)
         /\ Len(entries'[l]) \in Nat /\ Len(entries[l]) <= Len(entries'[l])
         /\ \A i \in 1..Len(entries[l]) : entries'[l][i] = entries[l][i]
<1> DEFINE f == Filter(LaneLog[l], polled)
           s == entries[l]
           t == entries'[l]
<1>1. t = s \o f
  BY DEF TakeOver
<1>2. /\ f \in Seq(Messages) /\ Distinct(f) /\ ToSet(f) \cap ToSet(s) = {}
      /\ \A m : m \in ToSet(f) <=> m \in polled /\ LaneOf[m] = l
      /\ \A m, n \in polled : Before(LaneLog[l], m, n) => Before(f, m, n)
  BY AppendedFacts
<1>3. s \in Seq(Messages) /\ Distinct(s)
  BY EntryFacts DEF CleanerInv, Records
<1> HIDE DEF f, s, t
<1>4. /\ ToSet(t) = ToSet(s) \cup ToSet(f) /\ Distinct(t)
      /\ \A m, n : Before(t, m, n)
                     <=> \/ Before(s, m, n) \/ Before(f, m, n)
                         \/ m \in ToSet(s) /\ n \in ToSet(f)
  BY <1>1, <1>2, <1>3, ConcatOrder
<1>5. /\ t \in Seq(Messages) /\ Len(t) = Len(s) + Len(f)
      /\ Len(t) \in Nat /\ Len(s) <= Len(t)
      /\ \A i \in 1..Len(s) : t[i] = s[i]
  BY <1>1, <1>2, <1>3, ConcatProperties, LenProperties
<1> QED BY <1>1, <1>2, <1>4, <1>5 DEF f, s, t

LEMMA TakeOverInv == CleanerInv /\ TakeOver => CleanerInv'
<1> SUFFICES ASSUME CleanerInv, TakeOver PROVE CleanerInv'
  OBVIOUS
<1>0. /\ UNCHANGED <<confirmed, events, mailed, terminal, fetched, limit, prog>>
      /\ UNCHANGED <<batch, slots, leaving, answered, again>>
      /\ receive' = "idle" /\ polled' = {} /\ inflight' = inflight + Cardinality(polled)
  BY DEF TakeOver, storeVars, batchVars, historyVars
<1>1. polled \subseteq Messages /\ \A m \in polled : LaneOf[m] \in Lanes
  BY LaneFacts DEF CleanerInv, TypeOK
<1>2. /\ st' \in [Messages -> {"away", "job", "retry", "stuck", "ready"}]
      /\ \A m \in Messages : m \in polled => st'[m] = "job"
      /\ \A m \in Messages : m \notin polled => st'[m] = st[m]
  BY DEF CleanerInv, TypeOK, TakeOver
<1>3. ASSUME NEW l \in Lanes
      PROVE  /\ entries'[l] \in Seq(Messages) /\ Distinct(entries'[l])
             /\ \A m : m \in ToSet(entries'[l])
                         <=> m \in ToSet(entries[l]) \/ (m \in polled /\ LaneOf[m] = l)
             /\ Len(entries'[l]) \in Nat /\ Len(entries[l]) <= Len(entries'[l])
             /\ \A i \in 1..Len(entries[l]) : entries'[l][i] = entries[l][i]
  BY TakenOverLane
<1>4. \A l \in Lanes : \A m \in ToSet(entries[l]) :
        m \in Messages /\ LaneOf[m] = l /\ m \in fetched /\ m \notin polled
  BY EntryFacts DEF CleanerInv, Records
<1>5. TypeOK'
  <2>1. entries' \in [Lanes -> Seq(Messages)]
    BY <1>3 DEF TakeOver
  <2>2. inflight' \in Nat
    <3>1. Cardinality(polled) \in Nat
      BY <1>1, RecordsType, FS_Subset, FS_CardinalityType
    <3> QED BY <1>0, <3>1 DEF CleanerInv, TypeOK
  <2>3. paused' \subseteq Lanes
    BY <1>1 DEF CleanerInv, TypeOK, TakeOver
  <2>4. UNCHANGED <<gateVars, receipts, ownerVars, attempt, laneVars, shuttingDown, faults>>
    BY DEF TakeOver, historyVars
  <2>5. held' \in BOOLEAN /\ at' \in {"top", "select", "stopping", "stopped"}
    BY DEF TakeOver
  <2> QED BY <1>0, <1>2, <2>1, <2>2, <2>3, <2>4, <2>5 DEF CleanerInv, TypeOK, gateVars,
             ownerVars, laneVars
<1>6. Records'
  <2>1. \A l \in Lanes : \A m \in ToSet(entries'[l]) : LaneOf[m] = l /\ m \in fetched
    BY <1>3, <1>4 DEF CleanerInv, Records
  <2>2. ASSUME NEW m \in Messages, st'[m] # "away" PROVE m \in ToSet(entries'[LaneOf[m]])
    <3>1. LaneOf[m] \in Lanes
      BY LaneFacts
    <3>2. m \in polled \/ m \in ToSet(entries[LaneOf[m]])
      BY <1>2, <2>2 DEF CleanerInv, Records
    <3> QED BY <1>3, <3>1, <3>2
  <2>3. ASSUME NEW m \in fetched PROVE m \in confirmed \cup ToSet(entries'[LaneOf[m]])
    <3>1. LaneOf[m] \in Lanes
      BY LaneFacts DEF CleanerInv, TypeOK
    <3>2. m \in confirmed \/ m \in polled \/ m \in ToSet(entries[LaneOf[m]])
      BY DEF CleanerInv, Records
    <3> QED BY <1>3, <3>1, <3>2
  <2> QED BY <1>0, <1>3, <2>1, <2>2, <2>3 DEF Records
<1>7. LogOrder'
  <2>1. ASSUME NEW l \in Lanes, NEW n \in ToSet(entries'[l]), NEW m \in Messages,
               Before(LaneLog[l], m, n), m \notin confirmed
        PROVE  Before(entries'[l], m, n)
    <3>1. CASE n \in ToSet(entries[l])
      <4>1. Before(entries[l], m, n)
        BY <2>1, <3>1 DEF CleanerInv, LogOrder
      <4> QED BY <4>1, TakenOverLane
    <3>2. CASE n \in polled /\ LaneOf[n] = l
      <4>1. m \in polled \/ m \in ToSet(entries[l])
        BY <2>1, <3>2 DEF CleanerInv, LogOrder
      <4> QED BY <2>1, <3>2, <4>1, TakenOverLane
    <3> QED BY <1>3, <3>1, <3>2
  <2> QED BY <1>0, <2>1 DEF LogOrder
<1>8. ASSUME NEW k \in Lanes PROVE BatchState(k)'
  BY <1>0, <1>2, <1>3, <1>4, BatchKept DEF CleanerInv, Batches
<1>9. HandedOn'
  BY <1>0, HandedKept DEF CleanerInv, HandedOn
<1>10. Window'
  <2> DEFINE U == UNION {ToSet(entries[l]) : l \in Lanes}
             V == UNION {ToSet(entries'[l]) : l \in Lanes}
  <2>1. V = U \cup polled
    <3>1. \A m : m \in U <=> \E l \in Lanes : m \in ToSet(entries[l])
      OBVIOUS
    <3>2. \A m : m \in V <=> \E l \in Lanes : m \in ToSet(entries'[l])
      OBVIOUS
    <3> HIDE DEF U, V
    <3> QED BY <1>1, <1>3, <3>1, <3>2
  <2>2. U \cap polled = {} /\ U \subseteq Messages
    BY <1>4
  <2>3. inflight = Cardinality(U) /\ inflight + Cardinality(polled) <= MaxInflightMessages
    BY DEF CleanerInv, Window, WindowIsExact
  <2> HIDE DEF U
  <2>4. /\ IsFiniteSet(U) /\ IsFiniteSet(polled)
        /\ Cardinality(U) \in Nat /\ Cardinality(polled) \in Nat
    BY <1>1, <2>2, RecordsType, FS_Subset, FS_CardinalityType
  <2>5. Cardinality(U \cup polled) = Cardinality(U) + Cardinality(polled) - Cardinality(U \cap polled)
    BY <2>4, FS_Union
  <2>6. Cardinality({}) = 0
    BY FS_EmptySet
  <2>7. inflight' = Cardinality(U \cup polled) /\ inflight' + Cardinality({}) <= MaxInflightMessages
    <3>1. Cardinality(U \cap polled) = 0
      BY <2>2, <2>6
    <3>2. Cardinality(U \cup polled) = Cardinality(U) + Cardinality(polled)
      BY ONLY <2>4, <2>5, <3>1
    <3> QED BY ONLY <1>0, <2>3, <2>4, <2>6, <3>2
  <2>8. inflight' = Cardinality(V)
    BY <2>1, <2>7
  <2>9. Cardinality({l \in Lanes : batch[l].phase \notin {"idle", "sent"}}) + leaving = slots
    BY DEF CleanerInv, Window, WindowIsExact
  <2> QED BY <1>0, <2>7, <2>8, <2>9, Zenon DEF Window, WindowIsExact
<1>11. Once'
  <2>1. \A m \in polled : st[m] = "away"
    <3>1. \A m \in polled : m \notin ToSet(entries[LaneOf[m]])
      BY <1>1, <1>4
    <3> QED BY <1>1, <3>1 DEF CleanerInv, Records
  <2>2. \A m \in Messages : st'[m] # "ready" => prog[m] = "none"
    BY <1>2, <2>1 DEF CleanerInv, Once
  <2>3. \A l \in Lanes : \A m \in ToSet(entries'[l]) : m \in answered => prog[m] = "mailed"
    BY <1>3 DEF CleanerInv, Once
  <2> QED BY <1>0, <2>2, <2>3 DEF CleanerInv, Once, NoNeedlessDuplicates
<1>12. PausedLaneDrains'
  <2>1. ASSUME NEW l \in paused' PROVE Len(entries'[l]) > ResumeInflightPerLane
    <3>1. CASE l \in paused
      <4>1. l \in Lanes /\ Len(entries[l]) > ResumeInflightPerLane /\ Len(entries[l]) \in Nat
        BY <3>1, EntryFacts DEF CleanerInv, TypeOK, PausedLaneDrains
      <4> QED BY <1>3, <4>1, CleanerConfig
    <3>2. CASE l \in Lanes /\ Len(entries'[l]) >= MaxInflightPerLane
      BY <1>3, <3>2, CleanerConfig
    <3> QED BY <1>1, <3>1, <3>2 DEF TakeOver
  <2> QED BY <2>1 DEF PausedLaneDrains
<1> QED BY <1>5, <1>6, <1>7, <1>8, <1>9, <1>10, <1>11, <1>12 DEF CleanerInv, Batches

-----------------------------------------------------------------------------
(* Settled entries leave the window. *)

(* The first k entries of lane l, and what is left when they leave. *)
Gone(l, k) == {entries[l][i] : i \in 1..k}
Rest(l, k) == SubSeq(entries[l], k + 1, Len(entries[l]))

LEMMA RestOfLane ==
  ASSUME CleanerInv, NEW l \in Lanes, NEW k \in 0..Len(entries[l])
  PROVE  LET D == Gone(l, k)
             r == Rest(l, k) IN
         /\ r \in Seq(Messages) /\ Distinct(r) /\ Len(r) = Len(entries[l]) - k
         /\ \A m : m \in ToSet(r) <=> m \in ToSet(entries[l]) /\ m \notin D
         /\ D \subseteq ToSet(entries[l]) /\ Cardinality(D) = k
         /\ \A m, n : Before(entries[l], m, n) /\ n \notin D => m \in D \/ Before(r, m, n)
<1> DEFINE s == entries[l]
           a == SubSeq(s, 1, k)
           D == Gone(l, k)
           r == Rest(l, k)
<1>1. s \in Seq(Messages) /\ Distinct(s) /\ k \in 0..Len(s)
  BY EntryFacts DEF CleanerInv, Records
<1>2. r = SubSeq(s, k + 1, Len(s)) /\ \A m : m \in D <=> \E i \in 1..k : m = s[i]
  BY DEF Gone, Rest
<1> HIDE DEF s, D, r
<1>3. /\ a \in Seq(Messages) /\ r \in Seq(Messages) /\ s = a \o r /\ Len(r) = Len(s) - k
      /\ \A x : x \in ToSet(a) <=> \E i \in 1..k : x = s[i]
  BY ONLY <1>1, <1>2, CutSeq
<1> HIDE DEF a
<1>4. ToSet(a) = D
  BY <1>2, <1>3
<1>5. /\ ToSet(s) = ToSet(a) \cup ToSet(r) /\ Distinct(r) /\ ToSet(a) \cap ToSet(r) = {}
      /\ \A m, n : Before(s, m, n)
                     <=> \/ Before(a, m, n) \/ Before(r, m, n)
                         \/ m \in ToSet(a) /\ n \in ToSet(r)
  <2>1. a \in Seq(Messages) /\ r \in Seq(Messages) /\ s = a \o r /\ Distinct(s)
    BY <1>1, <1>3
  <2> QED BY ONLY <2>1, ConcatOrder
<1>6. \A m, n : Before(a, m, n) => n \in ToSet(a)
  BY <1>3, SetOfSeq
<1>7. Cardinality(D) = k
  <2>1. D = {s[i] : i \in 1..k}
    BY <1>2
  <2> QED BY <1>1, <2>1, PrefixCount
<1> QED BY <1>3, <1>4, <1>5, <1>6, <1>7 DEF s, D, r

LEMMA BatchResultType ==
  ASSUME TypeOK, NEW l \in Lanes, NEW elapsed, BatchResult(l, elapsed)
  PROVE  /\ timer' \in [Timers -> {"zero", "ahead", "past"}]
         /\ laneAttempt' \in [Lanes -> 0..RetryMaxAttempts] /\ shuttingDown' \in BOOLEAN
<1> DEFINE k == batch[l].settled
           tries == IF k > 0 THEN 0 ELSE laneAttempt[l]
           t == IF k > 0 THEN [timer EXCEPT ![l] = "zero"] ELSE timer
<1>1. t \in [Timers -> {"zero", "ahead", "past"}]
  BY DEF TypeOK
<1>2. /\ laneAttempt \in [Lanes -> 0..RetryMaxAttempts] /\ tries \in 0..RetryMaxAttempts
      /\ shuttingDown \in BOOLEAN /\ batch[l].result \in {"ok", "err"} /\ l \in Timers
  BY CleanerConfig DEF TypeOK, Timers
<1>3. \/ /\ timer' = t /\ laneAttempt' = [laneAttempt EXCEPT ![l] = tries]
         /\ shuttingDown' = shuttingDown
      \/ ShutDown(t) /\ laneAttempt' = [laneAttempt EXCEPT ![l] = tries]
      \/ /\ ~Exhausted(tries, elapsed) /\ timer' = [t EXCEPT ![l] = "ahead"]
         /\ laneAttempt' = [laneAttempt EXCEPT ![l] = tries + 1]
         /\ shuttingDown' = shuttingDown
  <2> HIDE DEF tries, t
  <2>1. CASE batch[l].result = "ok"
    BY <2>1 DEF BatchResult, tries, t
  <2>2. CASE batch[l].result = "err" /\ Exhausted(tries, elapsed)
    BY <2>2 DEF BatchResult, tries, t
  <2>3. CASE batch[l].result = "err" /\ ~Exhausted(tries, elapsed)
    BY <2>3 DEF BatchResult, tries, t
  <2> QED BY <1>2, <2>1, <2>2, <2>3
<1> HIDE DEF t, tries
<1>4. ~Exhausted(tries, elapsed) => tries + 1 \in 0..RetryMaxAttempts
  BY <1>2, CleanerConfig DEF Exhausted
<1>5. timer' \in [Timers -> {"zero", "ahead", "past"}] /\ shuttingDown' \in BOOLEAN
  BY <1>1, <1>2, <1>3, ShutDownType
<1>6. laneAttempt' \in [Lanes -> 0..RetryMaxAttempts]
  BY <1>2, <1>3, <1>4
<1> QED BY <1>5, <1>6

LEMMA BatchResultInv ==
  ASSUME NEW l \in Lanes, NEW elapsed PROVE CleanerInv /\ BatchResult(l, elapsed) => CleanerInv'
<1> SUFFICES ASSUME CleanerInv, BatchResult(l, elapsed) PROVE CleanerInv'
  OBVIOUS
<1> DEFINE k == batch[l].settled
           D == Gone(l, k)
           r == Rest(l, k)
<1>0. /\ UNCHANGED <<confirmed, events, mailed, terminal, fetched, polled, receive, limit>>
      /\ UNCHANGED <<slots, leaving, answered, again>>
      /\ batch[l].phase = "sent" /\ batch' = [batch EXCEPT ![l] = NoBatch]
      /\ inflight' = inflight - k
  BY DEF BatchResult, outerVars, storeVars, sessionVars, receiveVars, historyVars
<1>1. /\ entries' = [entries EXCEPT ![l] = r]
      /\ st' = [m \in Messages |-> IF m \in D THEN "away" ELSE st[m]]
      /\ prog' = [m \in Messages |-> IF m \in D THEN "none" ELSE prog[m]]
      /\ paused' = IF k > 0 /\ AtLowWater(Len(entries'[l])) THEN paused \ {l} ELSE paused
  BY DEF BatchResult, CleanerInv, TypeOK, Gone, Rest
<1>2. k \in 0..Len(entries[l]) /\ \A i \in 1..k : entries[l][i] \in confirmed
  <2>1. /\ batch[l].n \in Nat /\ k \in 0..batch[l].n
    BY <1>0, BatchEntries
  <2>2. batch[l].n <= Len(entries[l]) /\ \A i \in 1..k : entries[l][i] \in confirmed
    BY <1>0 DEF CleanerInv, Batches, BatchState
  <2>3. Len(entries[l]) \in Nat
    BY EntryFacts DEF CleanerInv
  <2> QED BY <2>1, <2>2, <2>3
<1>5. D \subseteq confirmed
  BY <1>2 DEF Gone
<1> HIDE DEF k, D, r
<1>6. /\ r \in Seq(Messages) /\ Distinct(r) /\ Len(r) = Len(entries[l]) - k
      /\ \A m : m \in ToSet(r) <=> m \in ToSet(entries[l]) /\ m \notin D
      /\ D \subseteq ToSet(entries[l]) /\ Cardinality(D) = k
      /\ \A m, n : Before(entries[l], m, n) /\ n \notin D => m \in D \/ Before(r, m, n)
  BY <1>2, RestOfLane DEF D, r
<1>7. /\ entries' \in [Lanes -> Seq(Messages)] /\ entries'[l] = r
      /\ \A j \in Lanes : j # l => entries'[j] = entries[j]
  BY <1>1, <1>6 DEF CleanerInv, TypeOK
<1>8. /\ st' \in [Messages -> {"away", "job", "retry", "stuck", "ready"}]
      /\ prog' \in [Messages -> {"none", "discard", "stored", "mailed"}]
      /\ \A m \in Messages : m \in D => st'[m] = "away" /\ prog'[m] = "none"
      /\ \A m \in Messages : m \notin D => st'[m] = st[m] /\ prog'[m] = prog[m]
  BY <1>1 DEF CleanerInv, TypeOK
<1>9. \A j \in Lanes : \A m \in ToSet(entries[j]) :
        m \in Messages /\ LaneOf[m] = j /\ m \in fetched /\ m \notin polled
  BY EntryFacts DEF CleanerInv, Records
<1>10. \A j \in Lanes : \A m : m \in ToSet(entries'[j]) <=> m \in ToSet(entries[j]) /\ m \notin D
  <2>1. \A m \in D : LaneOf[m] = l
    BY <1>6, <1>9
  <2>2. ASSUME NEW j \in Lanes, j # l, NEW m
        PROVE  m \in ToSet(entries'[j]) <=> m \in ToSet(entries[j]) /\ m \notin D
    <3>1. entries'[j] = entries[j]
      BY <1>7, <2>2
    <3>2. m \in ToSet(entries[j]) => LaneOf[m] = j
      BY <1>9
    <3> QED BY <2>1, <2>2, <3>1, <3>2
  <2>3. \A m : m \in ToSet(entries'[l]) <=> m \in ToSet(entries[l]) /\ m \notin D
    BY <1>6, <1>7
  <2> QED BY <2>2, <2>3
<1>11. /\ batch' \in [Lanes -> BatchType] /\ batch'[l].phase = "idle"
       /\ \A j \in Lanes : j # l => batch'[j] = batch[j]
  <2>1. NoBatch \in BatchType /\ NoBatch.phase = "idle"
    BY NoBatchType DEF NoBatch, BatchType
  <2>2. batch \in [Lanes -> BatchType]
    BY DEF CleanerInv, TypeOK, BatchType
  <2> QED BY <1>0, <2>1, <2>2
<1>12. Window' /\ inflight' \in Nat
  <2> DEFINE U == UNION {ToSet(entries[j]) : j \in Lanes}
             V == UNION {ToSet(entries'[j]) : j \in Lanes}
  <2>1. V = U \ D
    <3>1. \A m : m \in U <=> \E j \in Lanes : m \in ToSet(entries[j])
      OBVIOUS
    <3>2. \A m : m \in V <=> \E j \in Lanes : m \in ToSet(entries'[j])
      OBVIOUS
    <3> HIDE DEF U, V
    <3> QED BY <1>10, <3>1, <3>2
  <2>2. D \subseteq U /\ U \subseteq Messages /\ U \cap D = D
    BY <1>6, <1>9
  <2>3. inflight = Cardinality(U) /\ inflight + Cardinality(polled) <= MaxInflightMessages
    BY DEF CleanerInv, Window, WindowIsExact
  <2> HIDE DEF U
  <2>4. IsFiniteSet(U) /\ Cardinality(U) \in Nat
    BY <2>2, RecordsType, FS_Subset, FS_CardinalityType
  <2>5. Cardinality(U \ D) = Cardinality(U) - Cardinality(U \cap D)
    BY <2>4, FS_Difference
  <2>6. Cardinality(U \ D) \in Nat
    BY <2>4, FS_Difference, FS_CardinalityType
  <2>7. Cardinality(U \ D) = inflight - k
    BY <1>6, <2>2, <2>3, <2>5
  <2>8. inflight' = Cardinality(V) /\ inflight' \in Nat
    BY <1>0, <2>1, <2>6, <2>7
  <2>9. k \in Nat /\ Cardinality(polled) \in Nat /\ inflight \in Nat /\ limit \in Int
    <3>1. k \in Nat
      BY <1>2, EntryFacts DEF CleanerInv
    <3>2. Cardinality(polled) \in Nat
      BY RecordsType, FS_Subset, FS_CardinalityType DEF CleanerInv, TypeOK
    <3>3. inflight \in Nat /\ limit \in Int
      BY CleanerConfig DEF CleanerInv, TypeOK
    <3> QED BY <3>1, <3>2, <3>3
  <2>10. inflight' + Cardinality(polled) <= MaxInflightMessages
    BY ONLY <1>0, <2>3, <2>9, CleanerConfig
  <2>11. receive' = "asked" => limit' <= MaxInflightMessages - inflight'
    <3>1. receive = "asked" => limit <= MaxInflightMessages - inflight
      BY DEF CleanerInv, Window
    <3> QED BY ONLY <1>0, <2>9, <3>1, CleanerConfig
  <2>12. Cardinality(Active') + leaving' = slots'
    <3>1. Active' = Active
      BY <1>0, <1>11 DEF Active
    <3> QED BY <1>0, <3>1, ActiveFacts DEF CleanerInv
  <2> QED BY <1>0, <2>8, <2>10, <2>11, <2>12, Zenon DEF Window, WindowIsExact, Active
<1>13. TypeOK'
  <2>1. /\ timer' \in [Timers -> {"zero", "ahead", "past"}]
        /\ laneAttempt' \in [Lanes -> 0..RetryMaxAttempts] /\ shuttingDown' \in BOOLEAN
    BY BatchResultType DEF CleanerInv
  <2>2. paused' \subseteq Lanes
    BY <1>1 DEF CleanerInv, TypeOK
  <2>3. UNCHANGED <<gateVars, sessionVars, ownerVars, attempt, faults>>
    BY DEF BatchResult, outerVars, historyVars
  <2>4. at' \in {"top", "select", "stopping", "stopped"}
    BY DEF BatchResult
  <2> QED BY <1>0, <1>7, <1>8, <1>11, <1>12, <2>1, <2>2, <2>3, <2>4 DEF CleanerInv, TypeOK,
             BatchType, gateVars, sessionVars, ownerVars
<1>14. Records'
  <2>1. \A j \in Lanes : Distinct(entries'[j])
    BY <1>6, <1>7 DEF CleanerInv, Records
  <2>2. \A j \in Lanes : \A m \in ToSet(entries'[j]) : LaneOf[m] = j /\ m \in fetched /\ m \notin polled
    BY <1>9, <1>10
  <2>3. ASSUME NEW m \in Messages, st'[m] # "away" PROVE m \in ToSet(entries'[LaneOf[m]])
    <3>1. LaneOf[m] \in Lanes /\ m \notin D /\ st[m] # "away"
      BY <1>8, <2>3, LaneFacts
    <3> QED BY <1>10, <3>1 DEF CleanerInv, Records
  <2>4. ASSUME NEW m \in fetched PROVE m \in confirmed \cup polled \cup ToSet(entries'[LaneOf[m]])
    <3>1. LaneOf[m] \in Lanes
      BY LaneFacts DEF CleanerInv, TypeOK
    <3>2. m \in confirmed \cup polled \cup ToSet(entries[LaneOf[m]])
      BY DEF CleanerInv, Records
    <3> QED BY <1>5, <1>10, <3>1, <3>2
  <2>5. polled \subseteq fetched /\ (receive \notin {"polled", "ok"} => polled = {})
    BY DEF CleanerInv, Records
  <2> QED BY <1>0, <2>1, <2>2, <2>3, <2>4, <2>5 DEF Records
<1>15. LogOrder'
  <2>1. ASSUME NEW j \in Lanes, NEW n \in ToSet(entries'[j]), NEW m \in Messages,
               Before(LaneLog[j], m, n), m \notin confirmed
        PROVE  Before(entries'[j], m, n)
    <3>1. n \in ToSet(entries[j]) /\ n \notin D
      BY <1>10
    <3>2. Before(entries[j], m, n)
      BY <2>1, <3>1 DEF CleanerInv, LogOrder
    <3> QED BY <1>5, <1>6, <1>7, <2>1, <3>1, <3>2
  <2>2. ASSUME NEW n \in polled, NEW m \in Messages, Before(LaneLog[LaneOf[n]], m, n)
        PROVE  m \in confirmed \cup polled \cup ToSet(entries'[LaneOf[n]])
    <3>1. m \in confirmed \cup polled \cup ToSet(entries[LaneOf[n]])
      BY <2>2 DEF CleanerInv, LogOrder
    <3>2. LaneOf[n] \in Lanes
      BY LaneFacts DEF CleanerInv, TypeOK
    <3> QED BY <1>5, <1>10, <3>1, <3>2
  <2> QED BY <1>0, <2>1, <2>2 DEF LogOrder
<1>16. ASSUME NEW j \in Lanes PROVE BatchState(j)'
  <2>1. CASE j = l
    BY <1>11, <2>1 DEF BatchState
  <2>2. CASE j # l
    <3>1. \A m \in Messages : LaneOf[m] = j => m \notin D
      BY <1>6, <1>9, <2>2
    <3> QED BY <1>0, <1>7, <1>8, <1>11, <2>2, <3>1, BatchesElsewhere DEF CleanerInv
  <2> QED BY <2>1, <2>2
<1>17. HandedOn'
  <2>1. \A m \in Messages : prog'[m] = prog[m] \/ Backed(m, prog[m])'
    BY <1>8 DEF Backed
  <2> QED BY <1>0, <2>1, HandedKept DEF CleanerInv, HandedOn
<1>18. Once'
  <2>1. \A m \in Messages : st'[m] # "ready" => prog'[m] = "none"
    BY <1>8 DEF CleanerInv, Once
  <2>2. \A j \in Lanes : \A m \in ToSet(entries'[j]) : m \in answered => prog'[m] = "mailed"
    BY <1>8, <1>9, <1>10 DEF CleanerInv, Once
  <2> QED BY <1>0, <2>1, <2>2 DEF CleanerInv, Once, NoNeedlessDuplicates
<1>19. PausedLaneDrains'
  <2>1. ASSUME NEW j \in paused' PROVE Len(entries'[j]) > ResumeInflightPerLane
    <3>1. j \in paused /\ j \in Lanes /\ Len(entries[j]) > ResumeInflightPerLane
      BY <1>1 DEF CleanerInv, TypeOK, PausedLaneDrains
    <3>2. CASE j # l
      BY <1>7, <3>1, <3>2
    <3>3. CASE j = l
      <4>1. Len(entries[l]) \in Nat /\ k \in Nat /\ Len(r) \in Nat
        BY <1>2, <1>6, EntryFacts DEF CleanerInv
      <4>2. k = 0 \/ ~AtLowWater(Len(r))
        BY <1>1, <1>7, <3>3, <4>1
      <4>3. CASE k = 0
        BY <1>6, <1>7, <3>1, <3>3, <4>1, <4>3, CleanerConfig
      <4>4. CASE ~AtLowWater(Len(r))
        BY <1>7, <3>3, <4>1, <4>4, CleanerConfig DEF AtLowWater
      <4> QED BY <4>2, <4>3, <4>4
    <3> QED BY <3>2, <3>3
  <2> QED BY <2>1 DEF PausedLaneDrains
<1> QED BY <1>12, <1>13, <1>14, <1>15, <1>16, <1>17, <1>18, <1>19 DEF CleanerInv, Batches

-----------------------------------------------------------------------------
(* Every step. *)

LEMMA BatchStepsInv ==
  ASSUME NEW l \in Lanes PROVE CleanerInv /\ BatchSteps(l) => CleanerInv'
BY StoreEventsInv, StoreFailsInv, EnqueueInv, EnqueueFailsInv, ConfirmInv, SendResultInv
   DEF BatchSteps

LEMMA CoordinatorInv == CleanerInv /\ Coordinator => CleanerInv'
<1> SUFFICES ASSUME CleanerInv, Coordinator PROVE CleanerInv'
  OBVIOUS
<1>1. CASE \E late \in {FALSE, pendingRevoke # {}}, aged \in SUBSET Startable : LoopTop(late, aged)
  BY <1>1, LoopTopInv
<1>2. CASE TimerFires \/ Cancel \/ TakeOver \/ TakeNothing \/ HandleRevoked \/ HandleLost
  BY <1>2, TimerFiresInv, CancelInv, TakeOverInv, TakeNothingInv, HandleRevokedInv, HandleLostInv
<1>3. CASE \E m \in Messages : Processed(m) \/ \E elapsed \in BOOLEAN : ProcessFailed(m, elapsed)
  BY <1>3, ProcessedInv, ProcessFailedInv
<1>4. CASE \E l \in Lanes, elapsed \in BOOLEAN : BatchResult(l, elapsed)
  BY <1>4, BatchResultInv
<1> QED BY <1>1, <1>2, <1>3, <1>4 DEF Coordinator

LEMMA CleanerStutter == CleanerInv /\ UNCHANGED vars => CleanerInv'
<1> SUFFICES ASSUME CleanerInv, UNCHANGED vars PROVE CleanerInv'
  OBVIOUS
<1>1. UNCHANGED <<storeVars, gateVars, sessionVars, ownerVars, receiveVars, entryVars,
                  batchVars, laneVars, loopVars, historyVars>>
  BY DEF vars, outerVars, innerVars
<1>2. TypeOK'
  BY <1>1 DEF CleanerInv, TypeOK, storeVars, gateVars, sessionVars, ownerVars, receiveVars,
         entryVars, batchVars, laneVars, loopVars, historyVars
<1> QED BY <1>1, <1>2, QuietStep DEF storeVars, sessionVars, receiveVars, entryVars,
           batchVars, loopVars, historyVars

LEMMA CleanerNext == CleanerInv /\ [Next]_vars => CleanerInv'
<1> SUFFICES ASSUME CleanerInv, [Next]_vars PROVE CleanerInv'
  OBVIOUS
<1>1. CASE Crash \/ Restart \/ Stop
  BY <1>1, GenerationInv, StopInv
<1>2. CASE Coordinator
  BY <1>2, CoordinatorInv
<1>3. CASE \E t \in Timers : Elapse(t)
  BY <1>3, ElapseInv
<1>4. CASE \E l \in Lanes : BatchSteps(l) \/ OtherOwner(l)
  BY <1>4, BatchStepsInv, OtherOwnerInv
<1>5. CASE ReleaseSlot \/ IssueReceipts
  BY <1>5, ReleaseSlotInv, IssueReceiptsInv
<1>6. CASE \E b \in Deliverable : Poll(b)
  BY <1>6, PollInv
<1>7. CASE \E answer \in {"empty", "err"} : PollNothing(answer)
  BY <1>7, PollNothingInv
<1>8. CASE \E S \in SUBSET owned \ {{}} : Revoke(S) \/ Lose(S)
  BY <1>8, RevokeInv
<1>9. CASE \E m \in Messages : Lifecycle(m)
  BY <1>9, LifecycleInv
<1>10. CASE \E x \in {"admit", "keep", "stop"} : LoadChanges(x)
  BY <1>10, LoadChangesInv
<1>11. CASE UNCHANGED vars
  BY <1>11, CleanerStutter
<1> QED BY <1>1, <1>2, <1>3, <1>4, <1>5, <1>6, <1>7, <1>8, <1>9, <1>10, <1>11 DEF Next

LEMMA CleanerInvariant == Spec => []CleanerInv
BY InitInv, CleanerNext, PTL DEF Spec

-----------------------------------------------------------------------------
(* The order in which events enter their mailbox. *)

LEMMA EarlierFacts ==
  ASSUME NEW m \in Messages, NEW x \in Earlier(m)
  PROVE  x \in Messages /\ Before(LaneLog[LaneOf[m]], x, m)
<1> DEFINE log == LaneLog[LaneOf[m]]
           j == CHOOSE p \in DOMAIN log : log[p] = m
<1>1. log \in Seq(Messages) /\ m \in ToSet(log)
  BY LaneFacts
<1>2. PICK i \in 1..(j - 1) : x = log[i]
  BY DEF Earlier
<1> HIDE DEF log
<1>3. j \in DOMAIN log /\ log[j] = m
  BY <1>1 DEF ToSet
<1> HIDE DEF j
<1>4. i \in DOMAIN log /\ i < j /\ DOMAIN log = 1..Len(log)
  BY <1>1, <1>2, <1>3, LenProperties
<1>5. x \in Messages
  BY <1>1, <1>2, <1>4, ElementOfSeq
<1>6. Before(log, x, m)
  BY <1>2, <1>3, <1>4 DEF Before
<1> QED BY <1>5, <1>6 DEF log

LEMMA EnqueuedInOrder ==
  ASSUME CleanerInv, NEW l \in Lanes, batch[l].phase = "enqueue",
         NEW x \in Earlier(NextEntry(l))
  PROVE  x \in Dropped \cup mailed
<1> DEFINE e == NextEntry(l)
<1>1. e \in Messages /\ e \in ToSet(entries[l]) /\ LaneOf[e] = l
  BY NextEntryFacts
<1>2. PICK i \in 1..batch[l].n : e = entries[l][i] /\ NextIs(l, prog, i)
  BY NextEntryFacts
<1>3. x \in Messages /\ Before(LaneLog[l], x, e)
  BY <1>1, EarlierFacts
<1> HIDE DEF e
<1>4. CASE x \in confirmed
  BY <1>4 DEF CleanerInv, HandedOn, ConfirmedAreHandedOn
<1>5. CASE Before(entries[l], x, e)
  <2>1. PICK a, b \in DOMAIN entries[l] : a < b /\ entries[l][a] = x /\ entries[l][b] = e
    BY <1>5 DEF Before
  <2>2. /\ DOMAIN entries[l] = 1..Len(entries[l]) /\ Len(entries[l]) \in Nat
        /\ Distinct(entries[l]) /\ batch[l].n \in Nat /\ batch[l].n <= Len(entries[l])
    BY EntryFacts, BatchEntries DEF CleanerInv, Records, BatchState
  <2>3. i \in DOMAIN entries[l]
    BY <2>2
  <2>4. b = i
    BY <1>2, <2>1, <2>2, <2>3 DEF Distinct
  <2>5. a \in 1..(i - 1)
    BY <2>1, <2>2, <2>4
  <2>6. prog[x] \in {"discard", "mailed"}
    BY <1>2, <2>1, <2>5 DEF NextIs
  <2> QED BY <1>3, <2>6 DEF CleanerInv, HandedOn, Backed
<1> QED BY <1>1, <1>3, <1>4, <1>5 DEF CleanerInv, LogOrder

LEMMA OthersInOrder ==
  ASSUME CleanerInv, NEW l \in Lanes, NEW left, left = Filter(LaneLog[l], Messages \ confirmed),
         left # <<>>, NEW x \in Earlier(Head(left))
  PROVE  x \in Dropped \cup mailed
<1> DEFINE e == Head(left)
           log == LaneLog[l]
<1>1. log \in Seq(Messages) /\ Distinct(log)
  BY LaneFacts
<1>2. /\ left \in Seq(Messages) /\ ToSet(left) = ToSet(log) \cap (Messages \ confirmed)
      /\ Distinct(left)
      /\ \A m, n : Before(left, m, n)
                     <=> Before(log, m, n) /\ m \in Messages \ confirmed /\ n \in Messages \ confirmed
  BY <1>1, FilterKeeps
<1>3. e \in ToSet(left) /\ e \in Messages /\ LaneOf[e] = l
  <2>1. e \in ToSet(left)
    BY <1>2, SetOfSeq
  <2> QED BY <1>2, <2>1, LaneFacts
<1>4. x \in Messages /\ Before(log, x, e)
  BY <1>3, EarlierFacts
<1>5. ~Before(left, x, e)
  <2>1. /\ Before(left, x, e) => Before(Tail(left), x, e) \/ e \in ToSet(Tail(left))
        /\ e \notin ToSet(Tail(left))
    BY <1>2, HeadTailOrder
  <2>2. Tail(left) \in Seq(Messages)
    BY <1>2, HeadTailProperties
  <2>3. Before(Tail(left), x, e) => e \in ToSet(Tail(left))
    BY <2>2, SetOfSeq
  <2> QED BY <2>1, <2>3
<1>6. x \in confirmed
  BY <1>2, <1>3, <1>4, <1>5
<1> QED BY <1>6 DEF CleanerInv, HandedOn, ConfirmedAreHandedOn

(* Only three operations put an event into a mailbox. *)
LEMMA WhoEnqueues ==
  ASSUME Next
  PROVE  \/ UNCHANGED mailed
         \/ \E l \in Lanes : \/ Enqueue(l) \/ OtherOwner(l)
                             \/ \E applied \in BOOLEAN : EnqueueFails(l, applied)
<1>1. CASE Crash \/ Restart \/ Stop
  BY <1>1 DEF Crash, Restart, Stop, NewGeneration, outerVars, storeVars
<1>2. CASE Coordinator
  <2>1. CASE \E late \in {FALSE, pendingRevoke # {}}, aged \in SUBSET Startable : LoopTop(late, aged)
    BY <2>1 DEF LoopTop, storeVars
  <2>2. CASE TimerFires \/ Cancel \/ TakeOver \/ TakeNothing \/ HandleRevoked \/ HandleLost
    BY <2>2 DEF TimerFires, Cancel, TakeOver, TakeNothing, HandleRevoked, HandleLost,
            outerVars, storeVars
  <2>3. CASE \E m \in Messages : Processed(m) \/ \E elapsed \in BOOLEAN : ProcessFailed(m, elapsed)
    BY <2>3 DEF Processed, ProcessFailed, outerVars, storeVars
  <2>4. CASE \E l \in Lanes, elapsed \in BOOLEAN : BatchResult(l, elapsed)
    BY <2>4 DEF BatchResult, outerVars, storeVars
  <2> QED BY <1>2, <2>1, <2>2, <2>3, <2>4 DEF Coordinator
<1>3. CASE \E t \in Timers : Elapse(t)
  BY <1>3 DEF Elapse, outerVars, storeVars
<1>4. CASE \E l \in Lanes : BatchSteps(l) \/ OtherOwner(l)
  <2>1. PICK l \in Lanes : BatchSteps(l) \/ OtherOwner(l)
    BY <1>4
  <2>2. CASE \E F \in SUBSET ToStore(l) : StoreEvents(l, F) \/ StoreFails(l, F)
    BY <2>2 DEF StoreEvents, StoreFails
  <2>3. CASE Confirm(l) \/ \E applied \in BOOLEAN : ConfirmFails(l, applied)
    BY <2>3 DEF Confirm, ConfirmFails
  <2>4. CASE SendResult(l)
    BY <2>4 DEF SendResult, outerVars, storeVars
  <2> QED BY <2>1, <2>2, <2>3, <2>4 DEF BatchSteps
<1>5. CASE ReleaseSlot \/ IssueReceipts
  BY <1>5 DEF ReleaseSlot, IssueReceipts, outerVars, storeVars
<1>6. CASE \E b \in Deliverable : Poll(b)
  BY <1>6 DEF Poll, storeVars
<1>7. CASE \E answer \in {"empty", "err"} : PollNothing(answer)
  BY <1>7 DEF PollNothing, storeVars
<1>8. CASE \E S \in SUBSET owned \ {{}} : Revoke(S) \/ Lose(S)
  BY <1>8 DEF Revoke, Lose, storeVars
<1>9. CASE \E m \in Messages : Lifecycle(m)
  BY <1>9 DEF Lifecycle
<1>10. CASE \E x \in {"admit", "keep", "stop"} : LoadChanges(x)
  BY <1>10 DEF LoadChanges, storeVars
<1> QED BY <1>1, <1>2, <1>3, <1>4, <1>5, <1>6, <1>7, <1>8, <1>9, <1>10 DEF Next

LEMMA OvertakingStep ==
  CleanerInv /\ [Next]_vars =>
    [\A m \in mailed' \ mailed : Earlier(m) \subseteq Dropped \cup mailed]_vars
<1> SUFFICES ASSUME CleanerInv, Next, NEW m \in mailed' \ mailed
             PROVE  Earlier(m) \subseteq Dropped \cup mailed
  OBVIOUS
<1>1. PICK l \in Lanes : \/ Enqueue(l) \/ OtherOwner(l)
                         \/ \E applied \in BOOLEAN : EnqueueFails(l, applied)
  BY WhoEnqueues
<1>2. CASE Enqueue(l) \/ \E applied \in BOOLEAN : EnqueueFails(l, applied)
  <2>1. batch[l].phase = "enqueue" /\ m = NextEntry(l)
    BY <1>2 DEF Enqueue, EnqueueFails
  <2> QED BY <2>1, EnqueuedInOrder
<1>3. CASE OtherOwner(l)
  <2> DEFINE left == Filter(LaneLog[l], Messages \ confirmed)
  <2>1. left # <<>> /\ m = Head(left)
    BY <1>3 DEF OtherOwner
  <2> QED BY <2>1, OthersInOrder, Zenon
<1> QED BY <1>1, <1>2, <1>3

-----------------------------------------------------------------------------
(* The theorems. *)

(* Every variable of the cleaner keeps its type: the batch slots, the      *)
(* attempts and the limit of a request stay within the configuration,      *)
(* which is what lets the coordinator send on its channels without ever    *)
(* blocking.                                                               *)
THEOREM CleanerTypeCorrect == Spec => []TypeOK
BY CleanerInvariant, PTL DEF CleanerInv

(* finishLanePrefix tells Kafka to forget a record only when its event is  *)
(* stored and was put into its mailbox, or is rejected for good; so no     *)
(* failed call, lost reply, rebalance, crash or restart loses an event,    *)
(* for any number of records, lanes and faults.                            *)
THEOREM NothingForgotten == Spec => []ConfirmedAreHandedOn
<1>1. CleanerInv => ConfirmedAreHandedOn
  BY DEF CleanerInv, HandedOn
<1> QED BY <1>1, CleanerInvariant, PTL

(* "A later event must never pass a gap" (runtime.go, finishLanePrefix):   *)
(* an event enters its mailbox only after every earlier event of its       *)
(* partition has been in one, whoever put it there, through retries of     *)
(* batches, rebalances and restarts.                                       *)
THEOREM NeverOvertaken == Spec => NoOvertaking
BY CleanerInvariant, OvertakingStep, PTL DEF Spec, NoOvertaking

(* entry.mailbox: within a generation an event whose enqueue was answered  *)
(* is never enqueued again, whatever fails afterwards.                     *)
THEOREM EnqueuedOnce == Spec => []NoNeedlessDuplicates
<1>1. CleanerInv => NoNeedlessDuplicates
  BY DEF CleanerInv, Once
<1> QED BY <1>1, CleanerInvariant, PTL

(* inflightMessages counts the entries of all lanes exactly and, together  *)
(* with an unread answer, never exceeds MaxInflightMessages; batchSlots    *)
(* counts the batch goroutines exactly.                                    *)
THEOREM CleanerWindowExact == Spec => []WindowIsExact
<1>1. CleanerInv => WindowIsExact
  BY DEF CleanerInv, Window
<1> QED BY <1>1, CleanerInvariant, PTL

(* A lane whose fetching is paused still has more entries than its         *)
(* low-water mark, so a batch result that resumes it is still to come: no  *)
(* lane is left paused with nothing to do.                                 *)
THEOREM PausedLanesDrain == Spec => []PausedLaneDrains
<1>1. CleanerInv => PausedLaneDrains
  BY DEF CleanerInv
<1> QED BY <1>1, CleanerInvariant, PTL
=============================================================================
