------------------------ MODULE ConsumeRuntimeProofs ------------------------
(***************************************************************************)
(* The invariants of ConsumeRuntime, for any number of messages, lanes,    *)
(* keys and workers, any valid limits and any number of faults.            *)
(*                                                                         *)
(* They are proved together, as one inductive invariant: that a            *)
(* confirmation covers only handled messages needs that receipts fit,      *)
(* which needs the order of the queues, which needs that the counters      *)
(* never let a conforming answer be rejected.                              *)
(***************************************************************************)
EXTENDS ConsumeRuntime, SequenceFacts

(* The parts of the inductive invariant. *)

Receipted(i) == ToSet(settleQueue[i].entries)

(* The head of the settlement queue has been confirmed and is not yet      *)
(* taken out.                                                              *)
Answered(i) == i = 1 /\ settle = "ok"

(* What the session has returned: in the unread answer, with a receipt, or *)
(* confirmed.                                                              *)
Session ==
  /\ \A l \in Lanes : Distinct(tokens[l])
  /\ \A l \in Lanes : \A m \in ToSet(tokens[l]) : m \in fetched /\ LaneOf[m] = l
  /\ Distinct(batch)
  /\ receive # "ok" => batch = <<>>
  /\ \A m \in ToSet(batch) : st[m] = "away" /\ m \in ToSet(tokens[LaneOf[m]])
  /\ \A m \in Messages : st[m] # "away" => m \in fetched
  /\ \A m \in fetched : st[m] = "away" => m \in ToSet(batch)
  /\ \A m \in Tracked :
       \/ m \in ToSet(tokens[LaneOf[m]])
       \/ settle = "ok" /\ m \in Receipts
  /\ \A l \in Lanes : \A m, n \in Messages :
       Before(tokens[l], m, n) /\ m \in ToSet(batch) => Before(batch, m, n)

(* Who waits for an order key, and why. *)
KeyQueues ==
  /\ \A k \in Keys : Distinct(waiting[k])
  /\ \A k \in Keys : \A m \in ToSet(waiting[k]) : KeyOf[m] = k /\ st[m] = "waiting"
  /\ \A m \in Messages : st[m] = "waiting" =>
       KeyOf[m] # NoKey /\ m \in ToSet(waiting[KeyOf[m]])
  /\ \A m \in Messages :
       KeyOf[m] # NoKey /\ st[m] \in Begun \cup {"waiting"} => KeyOf[m] \in activeKeys
  /\ \A k \in activeKeys :
       \/ \E m \in Messages : KeyOf[m] = k /\ st[m] \in Begun
       \/ waiting[k] # <<>> /\ blocked[LaneOf[Head(waiting[k])]]
  /\ \A m \in Messages : st[m] = "held" => blocked[LaneOf[m]]

(* Deliveries of one key and one lane, in the order of their receipts. *)
KeyRanks ==
  \A l \in Lanes : \A m, n \in Messages :
    Before(tokens[l], m, n) /\ SameKey(m, n) =>
      /\ st[n] \in Begun \cup {"terminal"} => st[m] \in {"terminal", "settled"}
      /\ st[n] = "waiting" => st[m] # "held"
      /\ st[n] = "waiting" /\ st[m] = "waiting" => Before(waiting[KeyOf[m]], m, n)

(* What is in the settlement queue. *)
Settlement ==
  /\ \A i \in DOMAIN settleQueue :
       /\ settleQueue[i].entries # <<>> /\ Distinct(settleQueue[i].entries)
       /\ \A m \in Receipted(i) : st[m] = "terminal" /\ LaneOf[m] = settleQueue[i].lane
  /\ \A i, j \in DOMAIN settleQueue : i # j => Receipted(i) \cap Receipted(j) = {}
  /\ settle # "idle" => settleQueue # <<>>
  /\ \A m \in Messages : st[m] \in {"gotDone", "terminal"} => m \in handled
  /\ confirmed \subseteq handled
  /\ mode = "individual" =>
       \A m \in Messages : st[m] = "terminal" =>
         \E i \in DOMAIN settleQueue : m \in Receipted(i)

(* Cumulative settlement: a lane has at most one batch. *)
SettlingLanes ==
  /\ \A l \in Lanes : laneSettling[l] <=> \E i \in DOMAIN settleQueue : settleQueue[i].lane = l
  /\ \A i, j \in DOMAIN settleQueue : settleQueue[i].lane = settleQueue[j].lane => i = j

QueuedEntries ==
  \A l \in Lanes :
    /\ Distinct(laneQueue[l])
    /\ \A m \in ToSet(laneQueue[l]) : LaneOf[m] = l /\ m \in Tracked
    /\ \A i \in DOMAIN settleQueue : Receipted(i) \cap ToSet(laneQueue[l]) = {}
    /\ ~laneSettling[l] /\ laneQueue[l] # <<>> => st[Head(laneQueue[l])] # "terminal"

TerminalEntries ==
  \A m \in Messages : st[m] = "terminal" =>
    \/ m \in ToSet(laneQueue[LaneOf[m]])
    \/ \E i \in DOMAIN settleQueue : m \in Receipted(i)

(* The receipts of a lane are its batch, its queue and the unread answer,  *)
(* in this order.                                                          *)
TokensSplit ==
  /\ \A i \in DOMAIN settleQueue : ~Answered(i) =>
       tokens[settleQueue[i].lane] =
         settleQueue[i].entries \o
           (laneQueue[settleQueue[i].lane] \o OfLane(batch, settleQueue[i].lane))
  /\ \A l \in Lanes :
       (\A i \in DOMAIN settleQueue : settleQueue[i].lane = l => Answered(i))
         => tokens[l] = laneQueue[l] \o OfLane(batch, l)

LaneQueues == SettlingLanes /\ QueuedEntries /\ TerminalEntries /\ TokensSplit

(* Cumulative settlement: receipts are in the order of the log, and        *)
(* nothing of it lies unconfirmed before a receipt but earlier receipts.   *)
LogOrder ==
  /\ \A l \in Lanes : \A m, n \in Messages :
       Before(tokens[l], m, n) => Before(LaneLog[l], m, n)
  /\ \A l \in Lanes : \A n \in ToSet(tokens[l]) : \A m \in Messages :
       Before(LaneLog[l], m, n) => m \in confirmed \/ Before(tokens[l], m, n)
  /\ \A m \in fetched : m \in confirmed \/ m \in ToSet(tokens[LaneOf[m]])

(* The counters, and the promise an outstanding request rests on. *)
Window ==
  /\ inflight = Cardinality(Tracked) /\ inflight <= MaxInflightMessages
  /\ \A l \in Lanes :
       /\ laneInflight[l] = Cardinality({m \in Tracked : LaneOf[m] = l})
       /\ laneInflight[l] <= MaxInflightPerLane
  /\ workCount = Cardinality({m \in Messages : st[m] \in AtWorker})
  /\ receive = "asked" =>
       /\ limit <= MaxInflightMessages - inflight
       /\ \A l \in Lanes : limit <= MaxInflightPerLane - laneInflight[l]
  /\ receive = "ok" => WithinLimits(batch)

Stopping ==
  /\ shuttingDown => \A m \in Messages : st[m] # "retry"
  /\ at = "drained" => shuttingDown /\ workCount = 0 /\ settleQueue = <<>>

Queues ==
  /\ Session /\ KeyQueues /\ KeySerial /\ KeyRanks /\ Settlement
  /\ mode = "cumulative" => LaneQueues /\ LogOrder

ConsumeInv == TypeOK /\ Queues /\ Window /\ Stopping

-----------------------------------------------------------------------------
(* The constants. *)

LEMMA LaneFacts ==
  /\ \A m \in Messages : LaneOf[m] \in Lanes /\ m \in ToSet(LaneLog[LaneOf[m]])
  /\ \A l \in Lanes : /\ LaneLog[l] \in Seq(Messages) /\ Distinct(LaneLog[l])
                      /\ \A m \in ToSet(LaneLog[l]) : m \in Messages /\ LaneOf[m] = l
<1>1. ASSUME NEW m \in Messages
      PROVE  LaneOf[m] \in Lanes /\ m \in ToSet(LaneLog[LaneOf[m]])
  BY MessagesType, Zenon DEF LaneOf
<1>2. ASSUME NEW l \in Lanes, NEW m \in ToSet(LaneLog[l])
      PROVE  m \in Messages /\ LaneOf[m] = l
  <2>1. LaneLog[l] \in Seq(Messages)
    BY MessagesType
  <2>2. m \in Messages
    BY <2>1, SetOfSeq
  <2>3. PICK i \in DOMAIN LaneLog[l] : LaneLog[l][i] = m
    BY DEF ToSet
  <2>4. PICK j \in DOMAIN LaneLog[LaneOf[m]] : LaneLog[LaneOf[m]][j] = m
    BY <1>1, <2>2 DEF ToSet
  <2> QED BY <1>1, <2>2, <2>3, <2>4, MessagesType
<1>3. ASSUME NEW l \in Lanes PROVE LaneLog[l] \in Seq(Messages) /\ Distinct(LaneLog[l])
  BY MessagesType DEF Distinct
<1> QED BY <1>1, <1>2, <1>3

LEMMA KeyFacts ==
  \A m \in Messages : KeyOf[m] # NoKey => KeyOf[m] \in Keys
BY MessagesType

LEMMA ConfigFacts ==
  /\ WorkerCount \in Nat /\ MaxBatchMessages \in Nat /\ MaxInflightMessages \in Nat
  /\ MaxInflightPerLane \in Nat /\ RetryMaxAttempts \in Nat /\ RetryMaxAttempts # 0
BY ConfigValid DEF Validate

LEMMA OfLaneFacts ==
  ASSUME NEW s \in Seq(Messages), NEW l
  PROVE  /\ OfLane(s, l) \in Seq(Messages)
         /\ ToSet(OfLane(s, l)) = {m \in ToSet(s) : LaneOf[m] = l}
         /\ \A m, n : Before(OfLane(s, l), m, n)
                        <=> Before(s, m, n) /\ LaneOf[m] = l /\ LaneOf[n] = l
         /\ Distinct(s) => Distinct(OfLane(s, l))
         /\ Len(OfLane(s, l)) <= Len(s)
<1> DEFINE S == {m \in Messages : LaneOf[m] = l}
<1>1. ToSet(s) \subseteq Messages
      /\ \A m, n : Before(s, m, n) => m \in ToSet(s) /\ n \in ToSet(s)
  BY SetOfSeq
<1>2. /\ Filter(s, S) \in Seq(Messages)
      /\ ToSet(Filter(s, S)) = ToSet(s) \cap S
      /\ \A m, n : Before(Filter(s, S), m, n) <=> Before(s, m, n) /\ m \in S /\ n \in S
      /\ Distinct(s) => Distinct(Filter(s, S))
      /\ Len(Filter(s, S)) <= Len(s)
  <2> HIDE DEF S
  <2> QED BY FilterKeeps
<1>3. OfLane(s, l) = Filter(s, S)
  BY DEF OfLane
<1>4. ToSet(s) \cap S = {m \in ToSet(s) : LaneOf[m] = l}
  BY <1>1
<1>5. \A m, n : Before(s, m, n) /\ m \in S /\ n \in S
                  <=> Before(s, m, n) /\ LaneOf[m] = l /\ LaneOf[n] = l
  BY <1>1
<1> HIDE DEF S
<1> QED BY <1>2, <1>3, <1>4, <1>5

LEMMA OfLaneEmpty ==
  ASSUME NEW l
  PROVE  OfLane(<<>>, l) = <<>>
BY FilterEmpty DEF OfLane

-----------------------------------------------------------------------------
(* A generation begins. *)

Fresh ==
  /\ mode \in {"individual", "cumulative"} /\ faults \in 0..MaxFaults
  /\ confirmed \subseteq handled /\ handled \subseteq Messages
  /\ fetched = {} /\ tokens = [l \in Lanes |-> <<>>]
  /\ st = [m \in Messages |-> "away"] /\ attempt = [m \in Messages |-> 1]
  /\ waiting = [k \in Keys |-> <<>>] /\ activeKeys = {}
  /\ laneQueue = [l \in Lanes |-> <<>>]
  /\ laneSettling = [l \in Lanes |-> FALSE] /\ blocked = [l \in Lanes |-> FALSE]
  /\ laneInflight = [l \in Lanes |-> 0] /\ inflight = 0 /\ workCount = 0
  /\ settleQueue = <<>> /\ settle = "idle"
  /\ receive = "idle" /\ limit = 0 /\ batch = <<>>
  /\ later = {} /\ passed = {} /\ shuttingDown = FALSE /\ at = "top"

LEMMA FreshInv == Fresh => ConsumeInv
<1> SUFFICES ASSUME Fresh PROVE ConsumeInv
  OBVIOUS
<1>1. /\ settleQueue = <<>> /\ DOMAIN settleQueue = {} /\ settleQueue \in Seq(Batches)
      /\ batch = <<>> /\ batch \in Seq(Messages)
      /\ waiting \in [Keys -> Seq(Messages)] /\ tokens \in [Lanes -> Seq(Messages)]
      /\ laneQueue \in [Lanes -> Seq(Messages)]
  BY EmptySeq DEF Fresh
<1>2. /\ \A l \in Lanes : tokens[l] = <<>> /\ laneQueue[l] = <<>> /\ laneSettling[l] = FALSE
      /\ \A k \in Keys : waiting[k] = <<>>
      /\ \A m \in Messages : st[m] = "away"
  BY DEF Fresh
<1>3. TypeOK
  <2>1. attempt \in [Messages -> 1..RetryMaxAttempts] /\ limit \in 0..MaxBatchMessages
    BY ConfigValid DEF Fresh, Validate
  <2>2. st \in [Messages -> DeliveryStates]
    BY DEF Fresh, DeliveryStates
  <2>3. laneInflight \in [Lanes -> Nat] /\ laneSettling \in [Lanes -> BOOLEAN]
        /\ blocked \in [Lanes -> BOOLEAN]
    BY DEF Fresh
  <2> QED BY <1>1, <2>1, <2>2, <2>3 DEF Fresh, TypeOK
<1>4. Tracked = {} /\ {m \in Messages : st[m] \in AtWorker} = {}
  BY <1>2 DEF Tracked, AtWorker, Results
<1>5. Session
  BY <1>1, <1>2, <1>4, EmptyFacts DEF Session, Fresh
<1>6. KeyQueues /\ KeySerial /\ KeyRanks
  BY <1>1, <1>2, EmptyFacts DEF KeyQueues, KeySerial, KeyRanks, Begun, AtWorker, Results, Fresh
<1>7. Settlement
  BY <1>1, <1>2 DEF Settlement, Fresh
<1>8. LaneQueues
  <2>1. \A l \in Lanes : tokens[l] = laneQueue[l] \o OfLane(batch, l)
    BY <1>1, <1>2, OfLaneEmpty
  <2> QED BY <1>1, <1>2, <2>1, EmptyFacts
         DEF LaneQueues, SettlingLanes, QueuedEntries, TerminalEntries, TokensSplit
<1>9. LogOrder
  BY <1>1, <1>2, EmptyFacts DEF LogOrder, Fresh
<1>10. Window
  <2>1. \A l \in Lanes : {m \in Tracked : LaneOf[m] = l} = {} /\ laneInflight[l] = 0
    BY <1>4 DEF Fresh
  <2>2. Cardinality({}) = 0
    BY FS_EmptySet
  <2>3. inflight = 0 /\ workCount = 0 /\ receive = "idle"
    BY DEF Fresh
  <2> QED BY <1>4, <2>1, <2>2, <2>3, ConfigFacts DEF Window
<1>11. Stopping
  BY <1>2 DEF Stopping, Fresh
<1> QED BY <1>3, <1>5, <1>6, <1>7, <1>8, <1>9, <1>10, <1>11 DEF ConsumeInv, Queues

LEMMA InitInv == Init => ConsumeInv
<1>1. Init => Fresh
  BY FaultsType DEF Init, Fresh
<1> QED BY <1>1, FreshInv

LEMMA NewGenerationInv ==
  ASSUME ConsumeInv, NewGeneration, faults' \in 0..MaxFaults
  PROVE  ConsumeInv'
<1>1. Fresh'
  BY DEF NewGeneration, Fresh, ConsumeInv, Queues, TypeOK, Settlement, brokerVars
<1> QED BY <1>1, FreshInv, PTL

-----------------------------------------------------------------------------
(* Most steps leave the queues alone and move deliveries between the       *)
(* states in which they keep their key.                                    *)

Moves ==
  /\ UNCHANGED <<mode, confirmed, fetched, tokens, waiting, activeKeys, laneQueue,
                 laneSettling, settleQueue, batch>>
  /\ \A m \in Messages : st'[m] = st[m] \/ (st[m] \in Begun /\ st'[m] \in Begun)
  /\ \A m \in Messages : st'[m] = "gotDone" => m \in handled'
  /\ handled \subseteq handled'
  /\ \A l \in Lanes : blocked[l] => blocked'[l]
  /\ settle' = "ok" <=> settle = "ok"
  /\ settle' # "idle" => settleQueue # <<>>
  /\ receive = "ok" => receive' = "ok"

LEMMA BegunFacts ==
  /\ Begun \cap {"away", "held", "waiting", "terminal", "settled"} = {}
  /\ AtWorker \subseteq Begun /\ "retry" \in Begun /\ "dropped" \in Begun
  /\ AtWorker = {"job", "run", "gotDone", "gotRetry", "gotBlock", "gotDefer"}
BY DEF Begun, AtWorker, Results

LEMMA BatchFacts ==
  ASSUME TypeOK
  PROVE  \A i \in DOMAIN settleQueue :
           /\ settleQueue[i] \in Batches /\ settleQueue[i].lane \in Lanes
           /\ settleQueue[i].entries \in Seq(Messages) /\ Receipted(i) \subseteq Messages
<1> SUFFICES ASSUME NEW i \in DOMAIN settleQueue
             PROVE  /\ settleQueue[i] \in Batches /\ settleQueue[i].lane \in Lanes
                    /\ settleQueue[i].entries \in Seq(Messages) /\ Receipted(i) \subseteq Messages
  OBVIOUS
<1>1. settleQueue \in Seq(Batches)
  BY DEF TypeOK
<1>2. settleQueue[i] \in Batches
  BY <1>1, LenProperties, ElementOfSeq
<1>3. settleQueue[i].lane \in Lanes /\ settleQueue[i].entries \in Seq(Messages)
  BY <1>2 DEF Batches
<1> QED BY <1>2, <1>3, SetOfSeq DEF Receipted

LEMMA MovesQueues ==
  ASSUME TypeOK, Queues, Moves
  PROVE  Queues' /\ Tracked' = Tracked
<1>1. \A m \in Messages : /\ st'[m] \in Begun <=> st[m] \in Begun
                          /\ st[m] \notin Begun => st'[m] = st[m]
                          /\ st'[m] = st[m] \/ (st[m] \in Begun /\ st'[m] \in Begun)
  BY DEF Moves
<1>2. Tracked' = Tracked
  BY <1>1, BegunFacts DEF Tracked
<1>3. /\ mode' = mode /\ confirmed' = confirmed /\ fetched' = fetched /\ tokens' = tokens
      /\ waiting' = waiting /\ activeKeys' = activeKeys /\ laneQueue' = laneQueue
      /\ laneSettling' = laneSettling /\ settleQueue' = settleQueue /\ batch' = batch
  BY DEF Moves
<1>4. \A m \in Messages : \A x \in {"away", "held", "waiting", "terminal", "settled"} :
        st'[m] = x <=> st[m] = x
  BY <1>1, BegunFacts
<1>5. \A m \in Messages : LaneOf[m] \in Lanes
  BY LaneFacts
<1>6. Session'
  <2>1. Receipts' = Receipts
    BY <1>3 DEF Receipts
  <2>2. ToSet(batch) \subseteq Messages /\ fetched \subseteq Messages
    BY SetOfSeq DEF TypeOK
  <2> QED BY <1>2, <1>3, <1>4, <2>1, <2>2 DEF Session, Queues, Moves
<1>7. KeyQueues'
  <2>1. \A k \in Keys : ToSet(waiting[k]) \subseteq Messages
                        /\ (waiting[k] # <<>> => Head(waiting[k]) \in ToSet(waiting[k]))
    BY SetOfSeq DEF TypeOK
  <2>2. \A m \in Messages : blocked[LaneOf[m]] => blocked'[LaneOf[m]]
    BY <1>5 DEF Moves
  <2>3. activeKeys \subseteq Keys
    BY DEF TypeOK
  <2>4. \A k \in activeKeys :
           \/ \E m \in Messages : KeyOf[m] = k /\ st'[m] \in Begun
           \/ waiting[k] # <<>> /\ blocked'[LaneOf[Head(waiting[k])]]
    BY <1>1, <2>1, <2>2, <2>3 DEF KeyQueues, Queues
  <2>5. \A m \in Messages : st[m] = "held" => blocked'[LaneOf[m]]
    BY <2>2 DEF KeyQueues, Queues
  <2> QED BY <1>1, <1>3, <1>4, <2>1, <2>4, <2>5, BegunFacts DEF KeyQueues, Queues
<1>8. KeySerial'
  BY <1>1 DEF KeySerial, Queues, SameKey
<1>9. KeyRanks'
  <2>1. \A m \in Messages : st'[m] \in Begun \cup {"terminal"} <=> st[m] \in Begun \cup {"terminal"}
    BY <1>1, <1>4
  <2> QED BY <1>3, <1>4, <2>1 DEF KeyRanks, Queues, SameKey
<1>10. Settlement'
  <2>1. \A i \in DOMAIN settleQueue : Receipted(i)' = Receipted(i)
    BY <1>3 DEF Receipted
  <2>2. \A i \in DOMAIN settleQueue : Receipted(i) \subseteq Messages
    BY BatchFacts
  <2>3. \A m \in Messages : st'[m] \in {"gotDone", "terminal"} => m \in handled'
    BY <1>4 DEF Settlement, Queues, Moves
  <2> QED BY <1>3, <1>4, <2>1, <2>2, <2>3 DEF Settlement, Queues, Moves
<1>11. ASSUME mode = "cumulative" PROVE LaneQueues'
  <2>1. \A i \in DOMAIN settleQueue : Receipted(i)' = Receipted(i) /\ (Answered(i)' <=> Answered(i))
    BY <1>3 DEF Receipted, Answered, Moves
  <2>2. \A l \in Lanes : laneQueue[l] # <<>> => Head(laneQueue[l]) \in Messages
    BY HeadTailProperties DEF TypeOK
  <2>3. \A l \in Lanes : laneQueue[l] # <<>> /\ st'[Head(laneQueue[l])] = "terminal"
                           => st[Head(laneQueue[l])] = "terminal"
    BY <1>4, <2>2
  <2>4. SettlingLanes'
    BY <1>3, <1>11 DEF SettlingLanes, LaneQueues, Queues
  <2>5. QueuedEntries'
    BY <1>2, <1>3, <1>11, <2>1, <2>3 DEF QueuedEntries, LaneQueues, Queues
  <2>6. TerminalEntries'
    BY <1>3, <1>4, <1>11, <2>1 DEF TerminalEntries, LaneQueues, Queues
  <2>7. TokensSplit'
    BY <1>3, <1>11, <2>1 DEF TokensSplit, LaneQueues, Queues
  <2> QED BY <2>4, <2>5, <2>6, <2>7 DEF LaneQueues
<1>12. ASSUME mode = "cumulative" PROVE LogOrder'
  BY <1>3, <1>12 DEF LogOrder, Queues
<1> QED BY <1>2, <1>3, <1>6, <1>7, <1>8, <1>9, <1>10, <1>11, <1>12 DEF Queues

LEMMA MovesWindow ==
  ASSUME Window, Tracked' = Tracked, UNCHANGED <<laneInflight, inflight, batch>>,
         receive' = "ok" => receive = "ok",
         receive' = "asked" => receive = "asked" /\ limit' = limit,
         workCount' = Cardinality({m \in Messages : st'[m] \in AtWorker})
  PROVE  Window'
<1>1. WithinLimits(batch)' = WithinLimits(batch)
  BY DEF WithinLimits
<1>2. \A l \in Lanes : {m \in Tracked' : LaneOf[m] = l} = {m \in Tracked : LaneOf[m] = l}
  OBVIOUS
<1> QED BY <1>1, <1>2 DEF Window

(* Steps that move no delivery into or out of the hands of the workers. *)
LEMMA SameWork ==
  ASSUME Window, workCount' = workCount,
         \A m \in Messages : st'[m] \in AtWorker <=> st[m] \in AtWorker
  PROVE  workCount' = Cardinality({m \in Messages : st'[m] \in AtWorker})
<1>1. {m \in Messages : st'[m] \in AtWorker} = {m \in Messages : st[m] \in AtWorker}
  OBVIOUS
<1> QED BY <1>1 DEF Window

LEMMA FiniteWork ==
  ASSUME NEW S, S \subseteq Messages
  PROVE  IsFiniteSet(S) /\ Cardinality(S) \in Nat
BY MessagesType, FS_Subset, FS_CardinalityType

(* Elapse, TimerFires, HandleEmpty, HandleSettleError,                     *)
(* SessionReceiveNothing: the deliveries stay where they are.              *)
LEMMA IdleInv ==
  ASSUME ConsumeInv, TypeOK',
         UNCHANGED <<brokerVars, sessionVars, entryVars, keyVars, laneVars, blocked,
                     windowVars, workCount, settleQueue, limit, batch, shuttingDown, handled>>,
         settle' = settle \/ (settle = "err" /\ settle' = "idle"),
         receive' = receive \/ (receive # "ok" /\ receive' \notin {"ok", "asked"}),
         at' = at \/ at' = "top"
  PROVE  ConsumeInv'
<1>1. Moves
  BY DEF Moves, ConsumeInv, Queues, Settlement, brokerVars, sessionVars, entryVars,
         keyVars, laneVars
<1>2. Queues' /\ Tracked' = Tracked
  BY <1>1, MovesQueues DEF ConsumeInv
<1>3. st' = st /\ workCount' = workCount /\ laneInflight' = laneInflight /\ inflight' = inflight
  BY DEF entryVars, windowVars
<1>4. workCount' = Cardinality({m \in Messages : st'[m] \in AtWorker})
  BY <1>3, SameWork DEF ConsumeInv
<1>5. Window'
  BY <1>2, <1>3, <1>4, MovesWindow DEF ConsumeInv
<1>6. Stopping'
  BY <1>3 DEF Stopping, ConsumeInv
<1> QED BY <1>2, <1>5, <1>6 DEF ConsumeInv

LEMMA ElapseInv ==
  ASSUME ConsumeInv, NEW t \in Timers, Elapse(t)
  PROVE  ConsumeInv'
<1>1. TypeOK'
  BY DEF Elapse, ConsumeInv, TypeOK, brokerVars, sessionVars, entryVars, keyVars, laneVars,
         windowVars, settleVars, receiveVars
<1> QED BY <1>1, IdleInv DEF Elapse, settleVars, receiveVars

LEMMA TimerFiresInv ==
  ASSUME ConsumeInv, TimerFires
  PROVE  ConsumeInv'
<1>1. TypeOK'
  BY DEF TimerFires, ConsumeInv, TypeOK, brokerVars, sessionVars, entryVars, keyVars, laneVars,
         windowVars, settleVars, receiveVars, timerVars
<1> QED BY <1>1, IdleInv DEF TimerFires, settleVars, receiveVars

LEMMA HandleEmptyInv ==
  ASSUME ConsumeInv, HandleEmpty
  PROVE  ConsumeInv'
<1>1. TypeOK'
  BY DEF HandleEmpty, ConsumeInv, TypeOK, brokerVars, sessionVars, entryVars, keyVars, laneVars,
         windowVars, settleVars, Timers
<1> QED BY <1>1, IdleInv DEF HandleEmpty, settleVars

LEMMA HandleSettleErrorInv ==
  ASSUME ConsumeInv, HandleSettleError
  PROVE  ConsumeInv'
<1>1. TypeOK'
  BY DEF HandleSettleError, ConsumeInv, TypeOK, brokerVars, sessionVars, entryVars, keyVars,
         laneVars, windowVars, receiveVars, Timers
<1> QED BY <1>1, IdleInv DEF HandleSettleError, receiveVars

LEMMA SessionReceiveNothingInv ==
  ASSUME ConsumeInv, NEW answer \in {"empty", "err"}, SessionReceiveNothing(answer)
  PROVE  ConsumeInv'
<1>1. faults' \in 0..MaxFaults
  BY FaultsType DEF SessionReceiveNothing, Fault, ConsumeInv, TypeOK
<1>2. TypeOK'
  BY <1>1 DEF SessionReceiveNothing, ConsumeInv, TypeOK, brokerVars, sessionVars, entryVars,
         keyVars, laneVars, windowVars, settleVars, timerVars
<1> QED BY <1>2, IdleInv DEF SessionReceiveNothing, settleVars

LEMMA MovesInv ==
  ASSUME ConsumeInv, TypeOK', Moves, UNCHANGED windowVars,
         receive' = "ok" => receive = "ok",
         receive' = "asked" => receive = "asked" /\ limit' = limit,
         workCount' = Cardinality({m \in Messages : st'[m] \in AtWorker}),
         Stopping'
  PROVE  ConsumeInv'
<1>1. Queues' /\ Tracked' = Tracked
  BY MovesQueues DEF ConsumeInv
<1>2. UNCHANGED <<laneInflight, inflight, batch>>
  BY DEF windowVars, Moves
<1>3. Window'
  BY <1>1, <1>2, MovesWindow DEF ConsumeInv
<1> QED BY <1>1, <1>3 DEF ConsumeInv

(* What startShutdown does to the deliveries. *)
LEMMA ShutdownFacts ==
  ASSUME TypeOK, NEW s \in [Messages -> DeliveryStates], StartShutdown(s)
  PROVE  /\ st' \in [Messages -> DeliveryStates]
         /\ later' \subseteq Timers /\ passed' \subseteq Timers /\ shuttingDown' = TRUE
         /\ \A m \in Messages : /\ st'[m] # "retry"
                                /\ s[m] # "retry" => st'[m] = s[m]
                                /\ s[m] = "retry" => st'[m] = "dropped"
         /\ \A m \in Messages : st'[m] \in AtWorker <=> s[m] \in AtWorker
<1>1. "dropped" \in DeliveryStates
  BY DEF DeliveryStates
<1>2. \A m \in Messages : st'[m] = IF s[m] = "retry" THEN "dropped" ELSE s[m]
  BY DEF StartShutdown
<1>3. st' \in [Messages -> DeliveryStates]
  BY <1>1 DEF StartShutdown
<1>4. later' \subseteq Timers /\ passed' \subseteq Timers /\ shuttingDown' = TRUE
  BY DEF StartShutdown, TypeOK, Timers
<1>5. \A m \in Messages : /\ st'[m] # "retry"
                          /\ s[m] # "retry" => st'[m] = s[m]
                          /\ s[m] = "retry" => st'[m] = "dropped"
  BY <1>2
<1>6. \A m \in Messages : st'[m] \in AtWorker <=> s[m] \in AtWorker
  BY <1>2, BegunFacts
<1> QED BY <1>3, <1>4, <1>5, <1>6

LEMMA ShutdownInv ==
  ASSUME ConsumeInv, StartShutdown(st), at' = "top", faults' \in 0..MaxFaults,
         receive' = receive \/ (receive = "err" /\ receive' = "idle"),
         UNCHANGED <<brokerVars, sessionVars, attempt, keyVars, laneVars, blocked,
                     windowVars, workCount, settleVars, limit, batch, handled>>
  PROVE  ConsumeInv'
<1>0. st \in [Messages -> DeliveryStates]
  BY DEF ConsumeInv, TypeOK
<1>1. /\ st' \in [Messages -> DeliveryStates]
      /\ later' \subseteq Timers /\ passed' \subseteq Timers /\ shuttingDown' = TRUE
      /\ \A m \in Messages : /\ st'[m] # "retry"
                             /\ st[m] # "retry" => st'[m] = st[m]
                             /\ st[m] = "retry" => st'[m] = "dropped"
      /\ \A m \in Messages : st'[m] \in AtWorker <=> st[m] \in AtWorker
  BY <1>0, ShutdownFacts DEF ConsumeInv
<1>2. TypeOK'
  BY <1>1 DEF ConsumeInv, TypeOK, brokerVars, sessionVars, keyVars, laneVars, windowVars,
              settleVars
<1>3. Moves
  <2>1. \A m \in Messages : st'[m] = st[m] \/ (st[m] \in Begun /\ st'[m] \in Begun)
    BY <1>1, BegunFacts
  <2>2. \A m \in Messages : st'[m] = "gotDone" => m \in handled'
    BY <1>1 DEF ConsumeInv, Queues, Settlement
  <2> QED BY <2>1, <2>2 DEF Moves, ConsumeInv, Queues, Settlement, brokerVars, sessionVars,
                            keyVars, laneVars, settleVars
<1>4. workCount' = Cardinality({m \in Messages : st'[m] \in AtWorker})
  BY <1>1, SameWork DEF ConsumeInv
<1>5. Stopping'
  BY <1>1 DEF Stopping
<1> QED BY <1>2, <1>3, <1>4, <1>5, MovesInv

LEMMA CancelInv ==
  ASSUME ConsumeInv, Cancel
  PROVE  ConsumeInv'
<1>1. faults' \in 0..MaxFaults
  BY FaultsType DEF Cancel, Fault, ConsumeInv, TypeOK
<1>2. StartShutdown(st) /\ at' = "top"
  BY DEF Cancel
<1>3. UNCHANGED <<brokerVars, sessionVars, attempt, keyVars, laneVars, blocked,
                  windowVars, workCount, settleVars, limit, batch, handled>>
  BY DEF Cancel, receiveVars
<1>4. receive' = receive \/ (receive = "err" /\ receive' = "idle")
  BY DEF Cancel, receiveVars
<1> QED BY <1>1, <1>2, <1>3, <1>4, ShutdownInv

LEMMA HandleReceiveErrorInv ==
  ASSUME ConsumeInv, HandleReceiveError
  PROVE  ConsumeInv'
<1>1. faults' \in 0..MaxFaults
  BY DEF HandleReceiveError, ConsumeInv, TypeOK
<1> QED BY <1>1, ShutdownInv DEF HandleReceiveError

-----------------------------------------------------------------------------
(* The workers. *)

(* A worker's steps: m stays in the hands of the workers. *)
LEMMA WorkerInv ==
  ASSUME ConsumeInv, NEW m \in Messages, NEW x \in AtWorker, st[m] \in AtWorker,
         st' = [st EXCEPT ![m] = x], x = "gotDone" => m \in handled',
         handled \subseteq handled', handled' \subseteq Messages, faults' \in 0..MaxFaults,
         UNCHANGED <<brokerVars, sessionVars, attempt, keyVars, laneVars, blocked,
                     windowVars, workCount, settleVars, receiveVars, timerVars,
                     shuttingDown, at>>
  PROVE  ConsumeInv'
<1>1. \A n \in Messages : st'[n] = IF n = m THEN x ELSE st[n]
  BY DEF ConsumeInv, TypeOK
<1>2. TypeOK'
  <2>1. x \in DeliveryStates
    BY DEF DeliveryStates
  <2>2. st' \in [Messages -> DeliveryStates]
    BY <2>1 DEF ConsumeInv, TypeOK
  <2> QED BY <2>2 DEF ConsumeInv, TypeOK, brokerVars, sessionVars, keyVars, laneVars,
                      windowVars, settleVars, receiveVars, timerVars
<1>3. Moves
  <2>1. \A n \in Messages : st'[n] = st[n] \/ (st[n] \in Begun /\ st'[n] \in Begun)
    BY <1>1, BegunFacts
  <2>2. \A n \in Messages : st'[n] = "gotDone" => n \in handled'
    BY <1>1 DEF ConsumeInv, Queues, Settlement
  <2> QED BY <2>1, <2>2 DEF Moves, ConsumeInv, Queues, Settlement, brokerVars, sessionVars,
                            keyVars, laneVars, settleVars, receiveVars
<1>4. workCount' = Cardinality({n \in Messages : st'[n] \in AtWorker})
  BY <1>1, SameWork DEF ConsumeInv
<1>5. Stopping'
  BY <1>1, BegunFacts DEF Stopping, ConsumeInv, settleVars
<1> QED BY <1>2, <1>3, <1>4, <1>5, MovesInv DEF receiveVars

LEMMA WorkerStartInv ==
  ASSUME ConsumeInv, NEW m \in Messages, WorkerStart(m)
  PROVE  ConsumeInv'
BY WorkerInv, BegunFacts DEF WorkerStart, ConsumeInv, TypeOK

LEMMA WorkerFinishInv ==
  ASSUME ConsumeInv, NEW m \in Messages, NEW result \in Results, WorkerFinish(m, result)
  PROVE  ConsumeInv'
<1>1. faults' \in 0..MaxFaults /\ handled' \subseteq Messages /\ handled \subseteq handled'
      /\ (result = "gotDone" => m \in handled')
  BY FaultsType DEF WorkerFinish, Fault, ConsumeInv, TypeOK
<1>2. result \in AtWorker /\ st[m] \in AtWorker
  BY DEF WorkerFinish, AtWorker
<1> QED BY <1>1, <1>2, WorkerInv DEF WorkerFinish

(* The coordinator takes m back from the workers. *)
LEMMA WorkTaken ==
  ASSUME ConsumeInv, NEW m \in Messages, st[m] \in AtWorker, st'[m] \notin AtWorker,
         \A n \in Messages \ {m} : st'[n] \in AtWorker <=> st[n] \in AtWorker,
         workCount' = workCount - 1
  PROVE  workCount' = Cardinality({n \in Messages : st'[n] \in AtWorker})
<1> DEFINE S == {n \in Messages : st[n] \in AtWorker}
<1>1. {n \in Messages : st'[n] \in AtWorker} = S \ {m}
  OBVIOUS
<1>2. m \in S /\ IsFiniteSet(S)
  BY FiniteWork
<1> HIDE DEF S
<1>3. Cardinality(S \ {m}) = Cardinality(S) - 1
  BY <1>2, FS_RemoveElement
<1> QED BY <1>1, <1>3 DEF S, ConsumeInv, Window

LEMMA HandleNotDoneInv ==
  ASSUME ConsumeInv, NEW m \in Messages, HandleNotDone(m)
  PROVE  ConsumeInv'
<1>1. st[m] \in {"gotBlock", "gotRetry", "gotDefer"} /\ st[m] \in AtWorker
  BY BegunFacts DEF HandleNotDone
<1>2. /\ at' = "top" /\ workCount' = workCount - 1
      /\ UNCHANGED <<brokerVars, sessionVars, keyVars, laneVars, windowVars,
                     settleVars, receiveVars, handled, faults>>
  BY DEF HandleNotDone
<1>3. ASSUME st' \in [Messages -> DeliveryStates], st'[m] \in {"retry", "dropped"},
             \A n \in Messages \ {m} : st'[n] = st[n] \/ (st[n] = "retry" /\ st'[n] = "dropped"),
             \A l \in Lanes : blocked[l] => blocked'[l],
             blocked' \in [Lanes -> BOOLEAN], attempt' \in [Messages -> 1..RetryMaxAttempts],
             later' \subseteq Timers, passed' \subseteq Timers, shuttingDown' \in BOOLEAN,
             shuttingDown' => \A n \in Messages : st'[n] # "retry"
      PROVE  ConsumeInv'
  <2>1. workCount' = Cardinality({n \in Messages : st'[n] \in AtWorker})
    BY <1>1, <1>2, <1>3, WorkTaken, BegunFacts
  <2>2. workCount' \in Nat
    BY <2>1, FiniteWork
  <2>3. TypeOK'
    BY <1>2, <1>3, <2>2 DEF ConsumeInv, TypeOK, brokerVars, sessionVars, keyVars, laneVars,
                            windowVars, settleVars, receiveVars
  <2>4. Moves
    <3>1. \A n \in Messages : st'[n] = st[n] \/ (st[n] \in Begun /\ st'[n] \in Begun)
      BY <1>1, <1>3, BegunFacts
    <3>2. \A n \in Messages : st'[n] = "gotDone" => n \in handled'
      BY <1>2, <1>3 DEF ConsumeInv, Queues, Settlement
    <3> QED BY <1>2, <1>3, <3>1, <3>2
            DEF Moves, ConsumeInv, Queues, Settlement, brokerVars, sessionVars,
                keyVars, laneVars, settleVars, receiveVars
  <2>5. Stopping'
    BY <1>2, <1>3 DEF Stopping
  <2> QED BY <1>2, <2>1, <2>3, <2>4, <2>5, MovesInv DEF receiveVars
<1>4. TypeOK /\ LaneOf[m] \in Lanes
  BY LaneFacts DEF ConsumeInv
<1>5. ASSUME FailLane(m) PROVE ConsumeInv'
  <2> DEFINE s == [st EXCEPT ![m] = "dropped"]
  <2>1. s \in [Messages -> DeliveryStates] /\ s[m] = "dropped"
        /\ \A n \in Messages \ {m} : s[n] = st[n]
    BY <1>4 DEF TypeOK, DeliveryStates
  <2>2. StartShutdown(s)
    BY <1>5 DEF FailLane
  <2> HIDE DEF s
  <2>3. /\ st' \in [Messages -> DeliveryStates]
         /\ later' \subseteq Timers /\ passed' \subseteq Timers /\ shuttingDown' = TRUE
         /\ \A n \in Messages : /\ st'[n] # "retry"
                                /\ s[n] # "retry" => st'[n] = s[n]
                                /\ s[n] = "retry" => st'[n] = "dropped"
    BY <1>4, <2>1, <2>2, ShutdownFacts
  <2>4. /\ blocked' \in [Lanes -> BOOLEAN] /\ attempt' \in [Messages -> 1..RetryMaxAttempts]
        /\ \A l \in Lanes : blocked[l] => blocked'[l]
    BY <1>4, <1>5 DEF FailLane, TypeOK
  <2> QED BY <1>3, <2>1, <2>3, <2>4
<1>6. ASSUME LeaveUnconfirmed(m), shuttingDown PROVE ConsumeInv'
  <2>1. /\ st' \in [Messages -> DeliveryStates] /\ st'[m] = "dropped"
        /\ \A n \in Messages \ {m} : st'[n] = st[n]
    BY <1>4, <1>6 DEF TypeOK, DeliveryStates, LeaveUnconfirmed
  <2>2. /\ UNCHANGED <<attempt, later, passed, shuttingDown, blocked>>
    BY <1>6 DEF LeaveUnconfirmed, timerVars
  <2>3. \A n \in Messages : st'[n] # "retry"
    BY <1>6, <2>1 DEF ConsumeInv, Stopping
  <2> QED BY <1>3, <1>4, <2>1, <2>2, <2>3 DEF TypeOK
<1>7. ASSUME Reschedule(m), ~shuttingDown, attempt' \in [Messages -> 1..RetryMaxAttempts]
      PROVE  ConsumeInv'
  <2>1. /\ st' \in [Messages -> DeliveryStates] /\ st'[m] = "retry"
        /\ \A n \in Messages \ {m} : st'[n] = st[n]
    BY <1>4, <1>7 DEF TypeOK, DeliveryStates, Reschedule
  <2>2. later' \subseteq Timers /\ UNCHANGED <<passed, shuttingDown, blocked>>
    BY <1>4, <1>7 DEF Reschedule, TypeOK, Timers
  <2> QED BY <1>3, <1>4, <1>7, <2>1, <2>2 DEF TypeOK
<1>8. ASSUME ~shuttingDown, ScheduleDefer(m) PROVE ConsumeInv'
  <2>1. CASE RetryQueueFull
    BY <1>5, <1>8, <2>1 DEF ScheduleDefer
  <2>2. CASE ~RetryQueueFull
    BY <1>4, <1>7, <1>8, <2>2 DEF ScheduleDefer, TypeOK
  <2> QED BY <2>1, <2>2
<1>9. ASSUME ~shuttingDown, NEW elapsed \in BOOLEAN, ScheduleRetry(m, elapsed)
      PROVE  ConsumeInv'
  <2> DEFINE full == attempt[m] >= RetryMaxAttempts \/ RetryQueueFull \/ elapsed
  <2>1. CASE full
    BY <1>5, <1>9, <2>1 DEF ScheduleRetry
  <2>2. CASE ~full
    <3>1. Reschedule(m) /\ attempt' = [attempt EXCEPT ![m] = @ + 1]
          /\ ~(attempt[m] >= RetryMaxAttempts)
      BY <1>9, <2>2 DEF ScheduleRetry
    <3>2. attempt' \in [Messages -> 1..RetryMaxAttempts]
      BY <1>4, <3>1, ConfigFacts DEF TypeOK
    <3> QED BY <1>7, <1>9, <3>1, <3>2
  <2> QED BY <2>1, <2>2
<1> QED BY <1>5, <1>6, <1>8, <1>9 DEF HandleNotDone

-----------------------------------------------------------------------------
(* The head of the loop. *)

LEMMA MinOfThree ==
  ASSUME NEW a \in Int, NEW b \in Int, NEW c \in Int
  PROVE  LET x == Min({a, b, c})
         IN  x \in {a, b, c} /\ x <= a /\ x <= b /\ x <= c
<1>1. \E x \in {a, b, c} : \A y \in {a, b, c} : x =< y
  <2>1. CASE a <= b /\ a <= c
    BY <2>1
  <2>2. CASE b <= a /\ b <= c
    BY <2>2
  <2>3. CASE c <= a /\ c <= b
    BY <2>3
  <2> QED BY <2>1, <2>2, <2>3
<1> QED BY <1>1 DEF Min

(* tryReceive's limit leaves room in the window and in every lane. *)
LEMMA ReceiveLimitFits ==
  ASSUME TypeOK, Window
  PROVE  /\ ReceiveLimit \in Int /\ ReceiveLimit <= MaxBatchMessages
         /\ ReceiveLimit <= MaxInflightMessages - inflight
         /\ \A l \in Lanes : ReceiveLimit <= MaxInflightPerLane - laneInflight[l]
<1> DEFINE S == {laneInflight[l] : l \in Lanes}
<1>1. S # {} /\ \A x \in S : x \in Nat /\ x <= MaxInflightPerLane
  <2>1. PICK l \in Lanes : TRUE
    BY MessagesType
  <2>2. \A k \in Lanes : laneInflight[k] \in Nat /\ laneInflight[k] <= MaxInflightPerLane
    BY DEF TypeOK, Window
  <2> QED BY <2>1, <2>2
<1>2. Max(S) \in S /\ \A x \in S : x <= Max(S)
  <2> HIDE DEF S
  <2> QED BY <1>1, ConfigFacts, MaxOfCounts
<1>3. Max(S) \in Nat /\ \A l \in Lanes : laneInflight[l] <= Max(S) /\ laneInflight[l] \in Nat
  BY <1>1, <1>2
<1> DEFINE a == MaxBatchMessages  b == MaxInflightMessages - inflight
           c == MaxInflightPerLane - Max(S)
<1>4. a \in Int /\ b \in Int /\ c \in Int
  BY <1>3, ConfigFacts DEF TypeOK
<1>5. ReceiveLimit = Min({a, b, c})
  BY DEF ReceiveLimit
<1> HIDE DEF a, b, c, S
<1>6. ReceiveLimit \in Int /\ ReceiveLimit <= a /\ ReceiveLimit <= b /\ ReceiveLimit <= c
  BY <1>4, <1>5, MinOfThree
<1>7. \A l \in Lanes : ReceiveLimit <= MaxInflightPerLane - laneInflight[l]
  BY <1>3, <1>4, <1>6, ConfigFacts DEF c
<1> QED BY <1>6, <1>7 DEF a, b

LEMMA LoopTopInv ==
  ASSUME ConsumeInv, LoopTop
  PROVE  ConsumeInv'
<1> DEFINE R == ReadyRetries  W == {m \in Messages : st[m] \in AtWorker}
<1>1. TypeOK /\ Queues /\ Window /\ Stopping
  BY DEF ConsumeInv
<1>2. R \subseteq Messages /\ (\A m \in R : st[m] = "retry") /\ (shuttingDown => R = {})
  BY DEF ReadyRetries
<1>3. \A m \in Messages : st'[m] = IF m \in R THEN "job" ELSE st[m]
  BY DEF LoopTop
<1>4. workCount' = Cardinality({m \in Messages : st'[m] \in AtWorker})
  <2>1. {m \in Messages : st'[m] \in AtWorker} = W \cup R
    BY <1>2, <1>3, BegunFacts
  <2>2. W \cap R = {} /\ W \subseteq Messages
    BY <1>2, BegunFacts
  <2>3. workCount' = Cardinality(W) + Cardinality(R)
    BY <1>1 DEF LoopTop, Window
  <2> HIDE DEF W, R
  <2>4. IsFiniteSet(W) /\ IsFiniteSet(R) /\ Cardinality(W) \in Nat /\ Cardinality(R) \in Nat
    BY <1>2, <2>2, FiniteWork
  <2>5. Cardinality(W \cup R) = Cardinality(W) + Cardinality(R) - Cardinality(W \cap R)
    BY <2>4, FS_Union
  <2>6. Cardinality(W \cap R) = 0
    BY <2>2, FS_EmptySet
  <2>7. workCount' = Cardinality(W \cup R)
    BY <2>3, <2>4, <2>5, <2>6
  <2> QED BY <2>1, <2>7
<1> HIDE DEF R, W
<1>5. /\ ReceiveLimit \in Int /\ ReceiveLimit <= MaxBatchMessages
      /\ ReceiveLimit <= MaxInflightMessages - inflight
      /\ \A l \in Lanes : ReceiveLimit <= MaxInflightPerLane - laneInflight[l]
  BY <1>1, ReceiveLimitFits
<1>6. TypeOK'
  <2>1. workCount' \in Nat
    BY <1>4, FiniteWork
  <2>2. st' \in [Messages -> DeliveryStates]
    BY <1>1 DEF LoopTop, TypeOK, DeliveryStates, AtWorker
  <2>3. limit' \in 0..MaxBatchMessages
    BY <1>1, <1>5, ConfigFacts DEF LoopTop, MayReceive, TypeOK
  <2> QED BY <1>1, <2>1, <2>2, <2>3 DEF LoopTop, TypeOK, brokerVars, sessionVars, keyVars,
                                        laneVars, windowVars
<1>7. Moves
  <2>1. \A m \in Messages : st'[m] = st[m] \/ (st[m] \in Begun /\ st'[m] \in Begun)
    BY <1>2, <1>3, BegunFacts
  <2>2. handled' = handled /\ blocked' = blocked /\ settleQueue' = settleQueue
        /\ settle' = (IF MaySettle THEN "asked" ELSE settle)
        /\ receive' = (IF MayReceive THEN "asked" ELSE receive)
    BY DEF LoopTop
  <2>3. \A m \in Messages : st'[m] = "gotDone" => m \in handled'
    BY <1>1, <1>3, <2>2 DEF Queues, Settlement
  <2>4. (settle' = "ok" <=> settle = "ok") /\ (settle' # "idle" => settleQueue # <<>>)
        /\ (receive = "ok" => receive' = "ok")
    BY <1>1, <2>2 DEF MaySettle, MayReceive, Queues, Settlement
  <2>5. UNCHANGED <<mode, confirmed, fetched, tokens, waiting, activeKeys, laneQueue,
                    laneSettling, settleQueue, batch>>
    BY DEF LoopTop, brokerVars, sessionVars, keyVars, laneVars
  <2> QED BY <2>1, <2>2, <2>3, <2>4, <2>5 DEF Moves
<1>8. Queues' /\ Tracked' = Tracked
  BY <1>1, <1>7, MovesQueues
<1>9. Window'
  <2>1. laneInflight' = laneInflight /\ inflight' = inflight /\ batch' = batch
        /\ receive' = (IF MayReceive THEN "asked" ELSE receive)
        /\ limit' = (IF MayReceive THEN ReceiveLimit ELSE limit)
    BY DEF LoopTop, windowVars
  <2>2. CASE ~MayReceive
    BY <1>1, <1>4, <1>8, <2>1, <2>2, MovesWindow
  <2>3. CASE MayReceive
    <3>1. receive' = "asked" /\ limit' = ReceiveLimit
      BY <2>1, <2>3
    <3>2. \A l \in Lanes : {m \in Tracked' : LaneOf[m] = l} = {m \in Tracked : LaneOf[m] = l}
      BY <1>8
    <3> QED BY <1>1, <1>4, <1>5, <1>8, <2>1, <3>1, <3>2 DEF Window
  <2> QED BY <2>2, <2>3
<1>10. Stopping'
  <2>1. shuttingDown' = shuttingDown /\ settleQueue' = settleQueue
    BY DEF LoopTop
  <2>2. shuttingDown' => \A m \in Messages : st'[m] # "retry"
    BY <1>1, <1>2, <1>3, <2>1 DEF Stopping
  <2>3. ASSUME at' = "drained" PROVE shuttingDown' /\ workCount' = 0 /\ settleQueue' = <<>>
    <3>1. Drained
      BY <2>3 DEF LoopTop
    <3>2. R = {} /\ workCount' = workCount + Cardinality(R)
      BY <1>2, <3>1 DEF Drained, LoopTop, R
    <3> QED BY <2>1, <3>1, <3>2, FS_EmptySet DEF Drained
  <2> QED BY <2>2, <2>3 DEF Stopping
<1> QED BY <1>6, <1>8, <1>9, <1>10 DEF ConsumeInv

-----------------------------------------------------------------------------
(* The session returns deliveries. *)

LEMMA DeliverableFacts ==
  ASSUME TypeOK, NEW b \in Deliverable
  PROVE  /\ b \in Seq(Messages) /\ Len(b) \in Nat /\ Len(b) <= limit /\ Distinct(b)
         /\ ToSet(b) \subseteq Available
         /\ mode = "cumulative" =>
              \A l \in Lanes : IsPrefix(OfLane(b, l), Filter(LaneLog[l], Available))
<1>1. /\ b \in SeqOf(Available, limit) /\ Cardinality(ToSet(b)) = Len(b)
      /\ mode = "cumulative" =>
              \A l \in Lanes : IsPrefix(OfLane(b, l), Filter(LaneLog[l], Available))
  BY DEF Deliverable
<1>2. limit \in Nat
  BY ConfigFacts DEF TypeOK
<1>3. b \in Seq(Available) /\ Len(b) \in Nat /\ Len(b) <= limit
  BY <1>1, <1>2, BoundedSeqFacts
<1>4. Available \subseteq Messages
  BY DEF Available
<1>5. b \in Seq(Messages)
  BY <1>3, <1>4, SeqMonotonic
<1>6. Distinct(b)
  BY <1>1, <1>5, LengthDistinct
<1>7. ToSet(b) \subseteq Available
  BY <1>3, SetOfSeq
<1> QED BY <1>1, <1>3, <1>5, <1>6, <1>7

LEMMA SessionReceiveInv ==
  ASSUME ConsumeInv, NEW b \in Deliverable, SessionReceive(b)
  PROVE  ConsumeInv'
<1>1. TypeOK /\ Queues /\ Window /\ Stopping
  BY DEF ConsumeInv
<1>2. /\ b \in Seq(Messages) /\ Len(b) \in Nat /\ Len(b) <= limit /\ Distinct(b)
      /\ ToSet(b) \subseteq Available
      /\ mode = "cumulative" =>
           \A l \in Lanes : IsPrefix(OfLane(b, l), Filter(LaneLog[l], Available))
  BY <1>1, DeliverableFacts
<1>3. /\ receive = "asked" /\ receive' = "ok" /\ batch' = b /\ batch = <<>>
      /\ fetched' = fetched \cup ToSet(b)
      /\ tokens' = [l \in Lanes |-> tokens[l] \o OfLane(b, l)]
  BY <1>1 DEF SessionReceive, Queues, Session
<1>4. /\ mode' = mode /\ confirmed' = confirmed /\ st' = st /\ attempt' = attempt
      /\ waiting' = waiting /\ activeKeys' = activeKeys /\ laneQueue' = laneQueue
      /\ laneSettling' = laneSettling /\ blocked' = blocked /\ laneInflight' = laneInflight
      /\ inflight' = inflight /\ workCount' = workCount /\ settleQueue' = settleQueue
      /\ settle' = settle /\ limit' = limit /\ later' = later /\ passed' = passed
      /\ shuttingDown' = shuttingDown /\ at' = at /\ handled' = handled /\ faults' = faults
  BY DEF SessionReceive, brokerVars, entryVars, keyVars, laneVars, windowVars, settleVars,
         timerVars
<1>5. \A l \in Lanes : tokens[l] \in Seq(Messages) /\ ToSet(tokens[l]) \subseteq fetched
                       /\ Distinct(tokens[l]) /\ \A m \in ToSet(tokens[l]) : LaneOf[m] = l
  BY <1>1 DEF TypeOK, Queues, Session
<1>6. \A m \in ToSet(b) : /\ m \in Messages /\ m \notin fetched /\ m \notin confirmed
                          /\ st[m] = "away" /\ LaneOf[m] \in Lanes
  BY <1>1, <1>2, LaneFacts DEF Available, Queues, Session
<1>7. \A l \in Lanes :
        /\ OfLane(b, l) \in Seq(Messages)
        /\ ToSet(OfLane(b, l)) = {m \in ToSet(b) : LaneOf[m] = l}
        /\ \A m, n : Before(OfLane(b, l), m, n)
                       <=> Before(b, m, n) /\ LaneOf[m] = l /\ LaneOf[n] = l
        /\ Distinct(OfLane(b, l))
        /\ Len(OfLane(b, l)) <= Len(b)
  BY <1>2, OfLaneFacts
<1>8. ASSUME NEW l \in Lanes
      PROVE  /\ tokens'[l] = tokens[l] \o OfLane(b, l)
             /\ tokens'[l] \in Seq(Messages)
             /\ ToSet(tokens'[l]) = ToSet(tokens[l]) \cup ToSet(OfLane(b, l))
             /\ \A m, n : Before(tokens'[l], m, n)
                            <=> \/ Before(tokens[l], m, n) \/ Before(OfLane(b, l), m, n)
                                \/ m \in ToSet(tokens[l]) /\ n \in ToSet(OfLane(b, l))
             /\ Distinct(tokens'[l])
  <2> DEFINE s == tokens[l]  t == OfLane(b, l)
  <2>1. tokens'[l] = s \o t
    BY <1>3
  <2>2. /\ s \in Seq(Messages) /\ t \in Seq(Messages) /\ Distinct(s) /\ Distinct(t)
        /\ ToSet(s) \cap ToSet(t) = {}
    BY <1>5, <1>6, <1>7
  <2> HIDE DEF s, t
  <2>3. /\ s \o t \in Seq(Messages)
        /\ ToSet(s \o t) = ToSet(s) \cup ToSet(t)
        /\ \A m, n : Before(s \o t, m, n)
                       <=> \/ Before(s, m, n) \/ Before(t, m, n)
                           \/ m \in ToSet(s) /\ n \in ToSet(t)
        /\ Distinct(s \o t)
    BY <2>2, ConcatOrder, ConcatProperties
  <2> QED BY <2>1, <2>3 DEF s, t
<1>9. TypeOK'
  <2>1. tokens' \in [Lanes -> Seq(Messages)]
    BY <1>3, <1>8
  <2>2. fetched' \subseteq Messages
    BY <1>1, <1>3, <1>6 DEF TypeOK
  <2> QED BY <1>1, <1>2, <1>3, <1>4, <2>1, <2>2 DEF TypeOK
<1>10. \A l \in Lanes : \A m, n : Before(tokens[l], m, n) => m \in fetched /\ n \in fetched
  BY <1>5, SetOfSeq
<1>11. Session'
  <2>1. \A l \in Lanes : \A m \in ToSet(tokens'[l]) : m \in fetched' /\ LaneOf[m] = l
    BY <1>3, <1>5, <1>7, <1>8
  <2>2. \A m \in ToSet(b) : st[m] = "away" /\ m \in ToSet(tokens'[LaneOf[m]])
    BY <1>6, <1>7, <1>8
  <2>3. \A m \in Messages : st[m] # "away" => m \in fetched'
    BY <1>1, <1>3 DEF Queues, Session
  <2>4. \A m \in fetched' : st[m] = "away" => m \in ToSet(b)
    <3>1. \A m \in fetched : st[m] = "away" => m \in ToSet(<<>>)
      BY <1>1, <1>3 DEF Queues, Session
    <3> QED BY <1>3, <3>1, EmptyFacts
  <2>5. Tracked' = Tracked /\ Receipts' = Receipts
    BY <1>4 DEF Tracked, Receipts
  <2>6. \A m \in Tracked :
         \/ m \in ToSet(tokens'[LaneOf[m]])
         \/ settle = "ok" /\ m \in Receipts
    <3>1. \A m \in Tracked : LaneOf[m] \in Lanes
      BY LaneFacts DEF Tracked
    <3> QED BY <1>1, <1>8, <3>1 DEF Queues, Session
  <2>7. ASSUME NEW l \in Lanes, NEW m \in Messages, NEW n \in Messages,
               Before(tokens'[l], m, n), m \in ToSet(b)
        PROVE  Before(b, m, n)
    BY <1>5, <1>6, <1>7, <1>8, <1>10, <2>7
  <2> QED BY <1>2, <1>3, <1>4, <1>8, <2>1, <2>2, <2>3, <2>4, <2>5, <2>6, <2>7 DEF Session
<1>12. KeyQueues' /\ KeySerial'
  BY <1>1, <1>4 DEF Queues, KeyQueues, KeySerial, SameKey
<1>13. KeyRanks'
  <2>1. ASSUME NEW l \in Lanes, NEW m \in Messages, NEW n \in Messages,
               Before(tokens'[l], m, n), st[n] # "away"
        PROVE  Before(tokens[l], m, n)
    <3>1. n \notin ToSet(OfLane(b, l))
      BY <1>6, <1>7, <2>1
    <3>2. ~Before(OfLane(b, l), m, n)
      BY <1>7, <3>1, SetOfSeq
    <3> QED BY <1>8, <2>1, <3>1, <3>2
  <2> QED BY <1>1, <1>4, <2>1, BegunFacts DEF Queues, KeyRanks, SameKey
<1>14. Settlement'
  BY <1>1, <1>4 DEF Queues, Settlement, Receipted
<1>15. ASSUME mode = "cumulative" PROVE LaneQueues'
  <2>1. SettlingLanes' /\ QueuedEntries' /\ TerminalEntries'
    BY <1>1, <1>4, <1>15
       DEF Queues, LaneQueues, SettlingLanes, QueuedEntries, TerminalEntries, Receipted, Tracked
  <2>2. \A l \in Lanes : laneQueue[l] \in Seq(Messages) /\ laneQueue[l] \o OfLane(batch, l) = laneQueue[l]
    BY <1>1, <1>3, OfLaneEmpty, ConcatEmptySeq DEF TypeOK
  <2>3. ASSUME NEW i \in DOMAIN settleQueue, ~Answered(i)
        PROVE  tokens'[settleQueue[i].lane] =
                 settleQueue[i].entries \o
                   (laneQueue[settleQueue[i].lane] \o OfLane(b, settleQueue[i].lane))
    <3> DEFINE l == settleQueue[i].lane  e == settleQueue[i].entries  q == laneQueue[l]
               t == OfLane(b, l)
    <3>1. l \in Lanes /\ e \in Seq(Messages) /\ q \in Seq(Messages) /\ t \in Seq(Messages)
      BY <1>1, <1>7, <2>2, BatchFacts
    <3>2. tokens[l] = e \o q
      BY <1>1, <1>15, <2>2, <2>3, <3>1 DEF Queues, LaneQueues, TokensSplit
    <3>3. tokens'[l] = (e \o q) \o t
      BY <1>3, <3>1, <3>2
    <3> HIDE DEF l, e, q, t
    <3>4. (e \o q) \o t = e \o (q \o t)
      BY <3>1, ConcatAssociative
    <3> QED BY <3>3, <3>4 DEF l, e, q, t
  <2>4. \A l \in Lanes :
         (\A i \in DOMAIN settleQueue : settleQueue[i].lane = l => Answered(i))
           => tokens'[l] = laneQueue[l] \o OfLane(b, l)
    BY <1>1, <1>8, <1>15, <2>2 DEF Queues, LaneQueues, TokensSplit
  <2>5. \A i \in DOMAIN settleQueue : Answered(i)' <=> Answered(i)
    BY <1>4 DEF Answered
  <2>6. TokensSplit'
    BY <1>3, <1>4, <2>3, <2>4, <2>5 DEF TokensSplit
  <2> QED BY <2>1, <2>6 DEF LaneQueues
<1>16. ASSUME mode = "cumulative" PROVE LogOrder'
  <2>1. LogOrder
    BY <1>1, <1>16 DEF Queues
  <2>2. ASSUME NEW l \in Lanes, NEW n \in ToSet(tokens'[l]), NEW m \in Messages,
               Before(LaneLog[l], m, n)
        PROVE  m \in confirmed \/ Before(tokens'[l], m, n)
    <3>1. CASE n \in ToSet(tokens[l])
      BY <1>8, <2>1, <2>2, <3>1 DEF LogOrder
    <3>2. CASE n \in ToSet(OfLane(b, l))
      <4>1. m \in ToSet(LaneLog[l]) /\ LaneOf[m] = l /\ LaneLog[l] \in Seq(Messages)
            /\ Distinct(LaneLog[l])
        BY <2>2, LaneFacts, SetOfSeq
      <4>2. CASE m \in fetched
        BY <1>8, <2>1, <3>2, <4>1, <4>2 DEF LogOrder
      <4>3. CASE m \notin fetched /\ m \notin confirmed
        <5> DEFINE f == Filter(LaneLog[l], Available)  p == OfLane(b, l)
        <5>1. m \in Available /\ n \in Available
          BY <1>2, <1>7, <3>2, <4>3 DEF Available
        <5>2. f \in Seq(Messages) /\ Distinct(f) /\ Before(f, m, n)
          BY <2>2, <4>1, <5>1, FilterKeeps
        <5>3. IsPrefix(p, f) /\ p \in Seq(Messages) /\ n \in ToSet(p)
          BY <1>2, <1>7, <1>16, <3>2
        <5> HIDE DEF f, p
        <5>4. Before(p, m, n)
          BY <5>2, <5>3, PrefixOrder
        <5> QED BY <1>8, <5>4 DEF p
      <4> QED BY <4>2, <4>3
    <3> QED BY <1>8, <2>2, <3>1, <3>2
  <2>3. \A m \in fetched' : m \in confirmed \/ m \in ToSet(tokens'[LaneOf[m]])
    <3>1. \A m \in fetched : LaneOf[m] \in Lanes
      BY <1>1, LaneFacts DEF TypeOK
    <3>2. \A m \in fetched : m \in confirmed \/ m \in ToSet(tokens'[LaneOf[m]])
      BY <1>8, <2>1, <3>1 DEF LogOrder
    <3>3. \A m \in ToSet(b) : m \in ToSet(tokens'[LaneOf[m]])
      BY <1>6, <1>7, <1>8
    <3> QED BY <1>3, <3>2, <3>3
  <2>4. ASSUME NEW l \in Lanes, NEW m \in Messages, NEW n \in Messages, Before(tokens'[l], m, n)
        PROVE  Before(LaneLog[l], m, n)
    <3>1. CASE Before(tokens[l], m, n)
      BY <2>1, <3>1 DEF LogOrder
    <3>2. CASE Before(OfLane(b, l), m, n)
      <4> DEFINE f == Filter(LaneLog[l], Available)  p == OfLane(b, l)
      <4>1. LaneLog[l] \in Seq(Messages)
        BY LaneFacts
      <4>2. f \in Seq(Messages) /\ (Before(f, m, n) => Before(LaneLog[l], m, n))
        BY <4>1, FilterKeeps
      <4>3. IsPrefix(p, f) /\ p \in Seq(Messages) /\ Before(p, m, n)
        BY <1>2, <1>7, <1>16, <3>2
      <4> HIDE DEF f, p
      <4> QED BY <4>2, <4>3, PrefixBefore
    <3>3. CASE m \in ToSet(tokens[l]) /\ n \in ToSet(OfLane(b, l))
      <4>1. /\ LaneOf[m] = l /\ LaneOf[n] = l /\ n \notin fetched /\ n \notin confirmed
            /\ m \in fetched
        BY <1>5, <1>6, <1>7, <3>3
      <4>2. m \in ToSet(LaneLog[l]) /\ n \in ToSet(LaneLog[l]) /\ m # n
            /\ LaneLog[l] \in Seq(Messages)
        BY <4>1, LaneFacts
      <4>3. ~Before(LaneLog[l], n, m)
        BY <1>10, <2>1, <3>3, <4>1 DEF LogOrder
      <4> QED BY <4>2, <4>3, TotalOrder
    <3> QED BY <1>8, <2>4, <3>1, <3>2, <3>3
  <2> QED BY <1>4, <2>2, <2>3, <2>4 DEF LogOrder
<1>17. Window'
  <2>1. WithinLimits(b)
    <3>1. /\ inflight \in Nat /\ limit \in Nat /\ limit <= MaxBatchMessages
          /\ limit <= MaxInflightMessages - inflight
          /\ \A l \in Lanes : limit <= MaxInflightPerLane - laneInflight[l]
                              /\ laneInflight[l] \in Nat
      BY <1>1, <1>3, ConfigFacts DEF Window, TypeOK
    <3>2. \A l \in Lanes : Len(OfLane(b, l)) \in Nat
      BY <1>7, LenProperties
    <3>3. \A l \in Lanes : Len(OfLane(b, l)) + laneInflight[l] <= MaxInflightPerLane
      BY <1>2, <1>7, <3>1, <3>2, ConfigFacts
    <3> QED BY <1>2, <3>1, <3>3, ConfigFacts DEF WithinLimits
  <2>2. WithinLimits(batch)' = WithinLimits(b)
    BY <1>3, <1>4 DEF WithinLimits
  <2>3. Tracked' = Tracked
    BY <1>4 DEF Tracked
  <2> QED BY <1>1, <1>3, <1>4, <2>1, <2>2, <2>3 DEF Window
<1>18. Stopping'
  BY <1>1, <1>4 DEF Stopping
<1> QED BY <1>4, <1>9, <1>11, <1>12, <1>13, <1>14, <1>15, <1>16, <1>17, <1>18
        DEF ConsumeInv, Queues

-----------------------------------------------------------------------------
(* The coordinator takes deliveries over. *)

LEMMA ArrivalFacts ==
  ASSUME TypeOK, Queues, NEW k
  PROVE  /\ Arrivals(k) \in Seq(Messages) /\ Distinct(Arrivals(k))
         /\ ToSet(Arrivals(k)) = {m \in ToSet(batch) : KeyOf[m] = k /\ ~blocked[LaneOf[m]]}
         /\ \A m \in ToSet(Arrivals(k)), n \in ToSet(Arrivals(k)) :
              Before(batch, m, n) => Before(Arrivals(k), m, n)
         /\ Queued(k) \in Seq(Messages) /\ Distinct(Queued(k))
         /\ ToSet(Queued(k)) = ToSet(Arrivals(k)) \ Submitted
         /\ \A m \in ToSet(Queued(k)), n \in ToSet(Queued(k)) :
              Before(batch, m, n) => Before(Queued(k), m, n)
         /\ \A m \in ToSet(Arrivals(k)) : ~Before(Arrivals(k), m, Head(Arrivals(k)))
         /\ ToSet(Arrivals(k)) # {} => Head(Arrivals(k)) \in ToSet(Arrivals(k))
<1> DEFINE S == {m \in Messages : KeyOf[m] = k /\ ~blocked[LaneOf[m]]}
           a == Arrivals(k)  U == Messages \ Submitted  q == Queued(k)
<1>1. batch \in Seq(Messages) /\ Distinct(batch)
  BY DEF TypeOK, Queues, Session
<1>2. a = Filter(batch, S) /\ q = Filter(a, U)
  BY DEF Arrivals, Queued
<1>3. ToSet(batch) \subseteq Messages
  BY <1>1, SetOfSeq
<1>4. /\ \A m \in S : m \in Messages /\ KeyOf[m] = k /\ ~blocked[LaneOf[m]]
      /\ \A m \in Messages : m \in S <=> KeyOf[m] = k /\ ~blocked[LaneOf[m]]
      /\ \A m : m \in U <=> m \in Messages /\ m \notin Submitted
  OBVIOUS
<1> HIDE DEF a, q, S, U
<1>5. /\ a \in Seq(Messages) /\ ToSet(a) = ToSet(batch) \cap S /\ Distinct(a)
      /\ \A m, n : Before(a, m, n) <=> Before(batch, m, n) /\ m \in S /\ n \in S
  BY <1>1, <1>2, FilterKeeps
<1>6. /\ q \in Seq(Messages) /\ ToSet(q) = ToSet(a) \cap U /\ Distinct(q)
      /\ \A m, n : Before(q, m, n) <=> Before(a, m, n) /\ m \in U /\ n \in U
  BY <1>2, <1>5, FilterKeeps
<1>7. ToSet(a) = {m \in ToSet(batch) : KeyOf[m] = k /\ ~blocked[LaneOf[m]]}
  BY <1>3, <1>4, <1>5
<1>8. ToSet(q) = ToSet(a) \ Submitted
  BY <1>3, <1>4, <1>5, <1>6
<1>9. \A m \in ToSet(a), n \in ToSet(a) : Before(batch, m, n) => Before(a, m, n)
  BY <1>5
<1>10. \A m \in ToSet(q), n \in ToSet(q) : Before(batch, m, n) => Before(q, m, n)
  BY <1>5, <1>6
<1>11. ToSet(a) # {} => a # <<>> /\ Head(a) \in ToSet(a)
  BY <1>5, SetOfSeq
<1>12. ASSUME NEW m \in ToSet(a) PROVE ~Before(a, m, Head(a))
  <2>1. a # <<>>
    BY <1>11
  <2>2. /\ \A x, y : Before(a, x, y)
                       <=> Before(Tail(a), x, y) \/ (x = Head(a) /\ y \in ToSet(Tail(a)))
        /\ Head(a) \notin ToSet(Tail(a)) /\ Tail(a) \in Seq(Messages)
    BY <1>5, <2>1, HeadTailOrder, HeadTailProperties
  <2>3. \A x, y : Before(Tail(a), x, y) => y \in ToSet(Tail(a))
    BY <2>2, SetOfSeq
  <2> QED BY <2>2, <2>3
<1> QED BY <1>5, <1>6, <1>7, <1>8, <1>9, <1>10, <1>11, <1>12 DEF a, q

(* What is taken over, and as what. *)
Takes ==
  /\ \A m \in Messages \ ToSet(batch) : st'[m] = st[m]
  /\ \A m \in ToSet(batch) :
       /\ m \in Messages /\ LaneOf[m] \in Lanes /\ st[m] = "away" /\ m \in fetched
       /\ m \in ToSet(tokens[LaneOf[m]])
       /\ blocked[LaneOf[m]] => st'[m] = "held" /\ m \notin Submitted
       /\ m \in Submitted => st'[m] = "job"
       /\ ~blocked[LaneOf[m]] /\ m \notin Submitted => st'[m] = "waiting"
  /\ \A m \in ToSet(batch) \ Submitted : ~blocked[LaneOf[m]] => KeyOf[m] \in Keys
  /\ \A m \in Submitted : KeyOf[m] # NoKey =>
       KeyOf[m] \notin activeKeys /\ m = Head(Arrivals(KeyOf[m]))
  /\ Submitted \subseteq ToSet(batch)
  /\ waiting' = [k \in Keys |-> waiting[k] \o Queued(k)]
  /\ activeKeys' = activeKeys \cup {KeyOf[m] : m \in {n \in Submitted : KeyOf[n] # NoKey}}
  /\ workCount' = workCount + Cardinality(Submitted)
  /\ laneQueue' = [l \in Lanes |->
       IF mode = "cumulative" THEN laneQueue[l] \o OfLane(batch, l) ELSE laneQueue[l]]
  /\ laneInflight' = [l \in Lanes |-> laneInflight[l] + Len(OfLane(batch, l))]
  /\ inflight' = inflight + Len(batch)
  /\ WithinLimits(batch)
  /\ at' = "top" /\ receive = "ok" /\ receive' = "idle" /\ batch' = <<>>
  /\ st' \in [Messages -> DeliveryStates]
  /\ mode' = mode /\ confirmed' = confirmed /\ fetched' = fetched /\ tokens' = tokens
  /\ attempt' = attempt /\ laneSettling' = laneSettling /\ blocked' = blocked
  /\ settleQueue' = settleQueue /\ settle' = settle /\ limit' = limit
  /\ later' = later /\ passed' = passed /\ shuttingDown' = shuttingDown
  /\ handled' = handled /\ faults' = faults

LEMMA HandleDeliveriesTakes ==
  ASSUME ConsumeInv, HandleDeliveries
  PROVE  Takes
<1>1. TypeOK /\ Queues /\ Window
  BY DEF ConsumeInv
<1>2. WithinLimits(batch)
  BY <1>1 DEF HandleDeliveries, Window
<1>3. ToSet(batch) \subseteq Messages
  BY <1>1, SetOfSeq DEF TypeOK
<1>4. /\ st' = [m \in Messages |-> IF m \in ToSet(batch) THEN TakenOver(m) ELSE st[m]]
      /\ waiting' = [k \in Keys |-> waiting[k] \o Queued(k)]
      /\ activeKeys' = activeKeys \cup {KeyOf[m] : m \in {n \in Submitted : KeyOf[n] # NoKey}}
      /\ workCount' = workCount + Cardinality(Submitted)
      /\ laneQueue' = [l \in Lanes |->
           IF mode = "cumulative" THEN laneQueue[l] \o OfLane(batch, l) ELSE laneQueue[l]]
      /\ laneInflight' = [l \in Lanes |-> laneInflight[l] + Len(OfLane(batch, l))]
      /\ inflight' = inflight + Len(batch)
      /\ UNCHANGED <<timerVars, shuttingDown>>
  BY <1>2 DEF HandleDeliveries
<1>5. /\ at' = "top" /\ receive = "ok" /\ receive' = "idle" /\ batch' = <<>>
      /\ mode' = mode /\ confirmed' = confirmed /\ fetched' = fetched /\ tokens' = tokens
      /\ attempt' = attempt /\ laneSettling' = laneSettling /\ blocked' = blocked
      /\ settleQueue' = settleQueue /\ settle' = settle /\ limit' = limit
      /\ handled' = handled /\ faults' = faults
  BY DEF HandleDeliveries, brokerVars, sessionVars, settleVars
<1>6. later' = later /\ passed' = passed /\ shuttingDown' = shuttingDown
  BY <1>4 DEF timerVars
<1>7. st' \in [Messages -> DeliveryStates]
  <2>1. \A m \in ToSet(batch) : TakenOver(m) \in DeliveryStates
    BY DEF TakenOver, DeliveryStates, AtWorker
  <2> QED BY <1>1, <1>4, <2>1 DEF TypeOK
<1>8. \A m \in Messages \ ToSet(batch) : st'[m] = st[m]
  BY <1>4
<1>9. Submitted \subseteq ToSet(batch)
      /\ (\A m \in Submitted : ~blocked[LaneOf[m]])
      /\ (\A m \in Submitted : KeyOf[m] # NoKey =>
           KeyOf[m] \notin activeKeys /\ m = Head(Arrivals(KeyOf[m])))
      /\ (\A m \in ToSet(batch) \ Submitted : ~blocked[LaneOf[m]] => KeyOf[m] # NoKey)
  BY DEF Submitted
<1>10. \A m \in ToSet(batch) \ Submitted : ~blocked[LaneOf[m]] => KeyOf[m] \in Keys
  BY <1>3, <1>9, KeyFacts
<1>11. ASSUME NEW m \in ToSet(batch)
      PROVE  /\ m \in Messages /\ LaneOf[m] \in Lanes /\ st[m] = "away" /\ m \in fetched
             /\ m \in ToSet(tokens[LaneOf[m]])
             /\ blocked[LaneOf[m]] => st'[m] = "held" /\ m \notin Submitted
             /\ m \in Submitted => st'[m] = "job"
             /\ ~blocked[LaneOf[m]] /\ m \notin Submitted => st'[m] = "waiting"
  <2>1. m \in Messages /\ LaneOf[m] \in Lanes /\ st'[m] = TakenOver(m)
    BY <1>3, <1>4, LaneFacts
  <2>2. st[m] = "away" /\ m \in ToSet(tokens[LaneOf[m]]) /\ m \in fetched
    BY <1>1, <2>1 DEF Queues, Session
  <2> QED BY <1>9, <2>1, <2>2 DEF TakenOver
<1> QED BY <1>2, <1>4, <1>5, <1>6, <1>7, <1>8, <1>9, <1>10, <1>11 DEF Takes

LEMMA TakesSession ==
  ASSUME TypeOK, Queues, Takes
  PROVE  Session' /\ Tracked' = Tracked \cup ToSet(batch)
<1>1. Session
  BY DEF Queues
<1>2. ToSet(batch) \subseteq Messages /\ fetched \subseteq Messages
  BY SetOfSeq DEF TypeOK
<1>3. \A m \in ToSet(batch) : st'[m] \in {"held", "job", "waiting"} /\ st[m] = "away"
                              /\ m \in fetched /\ m \in ToSet(tokens[LaneOf[m]])
  BY DEF Takes
<1>4. Tracked' = Tracked \cup ToSet(batch)
  BY <1>2, <1>3 DEF Takes, Tracked
<1>5. \A m \in Messages : st'[m] # "away" => m \in fetched
  BY <1>1, <1>3 DEF Takes, Session
<1>6. \A m \in fetched : st'[m] # "away"
  BY <1>1, <1>2, <1>3 DEF Takes, Session
<1>7. Receipts' = Receipts
  BY DEF Takes, Receipts
<1>8. batch' = <<>> /\ tokens' = tokens /\ fetched' = fetched /\ settle' = settle
  BY DEF Takes
<1>9. \A m \in Tracked' : \/ m \in ToSet(tokens[LaneOf[m]])
                          \/ settle = "ok" /\ m \in Receipts
  BY <1>1, <1>3, <1>4 DEF Session
<1> QED BY <1>1, <1>4, <1>5, <1>6, <1>7, <1>8, <1>9, EmptyFacts DEF Session

LEMMA TakesKeys ==
  ASSUME TypeOK, Queues, Takes
  PROVE  KeyQueues' /\ KeySerial' /\ waiting' \in [Keys -> Seq(Messages)]
         /\ activeKeys' \subseteq Keys
<1>1. KeyQueues /\ KeySerial
  BY DEF Queues
<1> DEFINE B == ToSet(batch)
<1>2. B \subseteq Messages
  BY SetOfSeq DEF TypeOK
<1>3. \A m \in Messages \ B : st'[m] = st[m]
  BY DEF Takes
<1>4. /\ \A m \in B : /\ st[m] = "away" /\ LaneOf[m] \in Lanes
                      /\ blocked[LaneOf[m]] => st'[m] = "held" /\ m \notin Submitted
                      /\ m \in Submitted => st'[m] = "job"
                      /\ ~blocked[LaneOf[m]] /\ m \notin Submitted =>
                           st'[m] = "waiting" /\ KeyOf[m] \in Keys
      /\ \A m \in Submitted : KeyOf[m] # NoKey =>
           KeyOf[m] \notin activeKeys /\ m = Head(Arrivals(KeyOf[m]))
      /\ Submitted \subseteq B /\ blocked' = blocked
      /\ activeKeys' = activeKeys \cup {KeyOf[m] : m \in {n \in Submitted : KeyOf[n] # NoKey}}
  BY DEF Takes
<1>5. ASSUME NEW k \in Keys
      PROVE  /\ waiting'[k] \in Seq(Messages) /\ Distinct(waiting'[k])
             /\ ToSet(waiting'[k]) = ToSet(waiting[k]) \cup ToSet(Queued(k))
             /\ waiting[k] # <<>> => waiting'[k] # <<>> /\ Head(waiting'[k]) = Head(waiting[k])
  <2> DEFINE w == waiting[k]  q == Queued(k)
  <2>1. waiting'[k] = w \o q
    BY DEF Takes
  <2>2. w \in Seq(Messages) /\ q \in Seq(Messages) /\ Distinct(w) /\ Distinct(q)
    BY <1>1, ArrivalFacts DEF TypeOK, KeyQueues
  <2>3. ToSet(w) \cap ToSet(q) = {}
    <3>1. ToSet(q) \subseteq B
      BY ArrivalFacts
    <3>2. \A m \in ToSet(w) : st[m] = "waiting"
      BY <1>1 DEF KeyQueues
    <3> QED BY <1>4, <3>1, <3>2
  <2> HIDE DEF w, q
  <2>4. /\ w \o q \in Seq(Messages) /\ Distinct(w \o q)
        /\ ToSet(w \o q) = ToSet(w) \cup ToSet(q)
    BY <2>2, <2>3, ConcatProperties, ConcatOrder
  <2>5. w # <<>> => w \o q # <<>> /\ Head(w \o q) = Head(w)
    BY <2>2
  <2> QED BY <2>1, <2>4, <2>5 DEF w, q
<1>6. \A k \in Keys :
        /\ ToSet(Queued(k)) = {m \in B : KeyOf[m] = k /\ ~blocked[LaneOf[m]] /\ m \notin Submitted}
        /\ ToSet(Arrivals(k)) = {m \in B : KeyOf[m] = k /\ ~blocked[LaneOf[m]]}
        /\ ToSet(Arrivals(k)) # {} => Head(Arrivals(k)) \in ToSet(Arrivals(k))
  BY ArrivalFacts
<1> HIDE DEF B
<1>7. waiting' \in [Keys -> Seq(Messages)]
  BY <1>5 DEF Takes
<1>8. activeKeys' \subseteq Keys
  BY <1>2, <1>4, KeyFacts DEF TypeOK
<1>9. \A k \in Keys : \A m \in ToSet(waiting'[k]) : KeyOf[m] = k /\ st'[m] = "waiting"
  <2> SUFFICES ASSUME NEW k \in Keys, NEW m \in ToSet(waiting'[k])
               PROVE  KeyOf[m] = k /\ st'[m] = "waiting"
    OBVIOUS
  <2>1. CASE m \in ToSet(Queued(k))
    BY <1>4, <1>6, <2>1
  <2>2. CASE m \in ToSet(waiting[k])
    <3>1. m \in Messages
      BY <1>5, SetOfSeq
    <3> QED BY <1>1, <1>3, <1>4, <2>2, <3>1 DEF KeyQueues
  <2> QED BY <1>5, <2>1, <2>2
<1>10. ASSUME NEW m \in Messages, st'[m] = "waiting"
       PROVE  KeyOf[m] # NoKey /\ m \in ToSet(waiting'[KeyOf[m]])
  <2>1. CASE m \in B
    <3>1. ~blocked[LaneOf[m]] /\ m \notin Submitted /\ KeyOf[m] \in Keys
      BY <1>4, <1>10, <2>1
    <3>2. m \in ToSet(Queued(KeyOf[m]))
      BY <1>6, <2>1, <3>1
    <3> QED BY <1>5, <3>1, <3>2, MessagesType
  <2>2. CASE m \notin B
    <3>1. st[m] = "waiting"
      BY <1>3, <1>10, <2>2
    <3> QED BY <1>1, <1>5, <3>1, KeyFacts DEF KeyQueues
  <2> QED BY <2>1, <2>2
<1>11. ASSUME NEW m \in Messages, KeyOf[m] # NoKey, st'[m] \in Begun \cup {"waiting"}
       PROVE  KeyOf[m] \in activeKeys'
  <2>1. KeyOf[m] \in Keys
    BY <1>11, KeyFacts
  <2>2. CASE m \notin B
    BY <1>1, <1>3, <1>4, <1>11, <2>2 DEF KeyQueues
  <2>3. CASE m \in Submitted
    BY <1>4, <1>11, <2>3
  <2>4. CASE m \in B /\ m \notin Submitted
    <3>1. ~blocked[LaneOf[m]]
      BY <1>4, <1>11, <2>4, BegunFacts
    <3> DEFINE h == Head(Arrivals(KeyOf[m]))
    <3>2. h \in B /\ KeyOf[h] = KeyOf[m] /\ ~blocked[LaneOf[h]]
      BY <1>6, <2>1, <2>4, <3>1
    <3>3. CASE KeyOf[m] \in activeKeys
      BY <1>4, <3>3
    <3>4. CASE KeyOf[m] \notin activeKeys
      <4>1. h \in Submitted
        BY <3>2, <3>4 DEF Submitted, B
      <4> QED BY <1>4, <1>11, <3>2, <4>1
    <3> QED BY <3>3, <3>4
  <2> QED BY <2>2, <2>3, <2>4
<1>12. ASSUME NEW k \in activeKeys'
       PROVE  \/ \E m \in Messages : KeyOf[m] = k /\ st'[m] \in Begun
              \/ waiting'[k] # <<>> /\ blocked[LaneOf[Head(waiting'[k])]]
  <2>1. CASE k \in activeKeys
    <3>1. k \in Keys
      BY <2>1 DEF TypeOK
    <3>2. CASE \E m \in Messages : KeyOf[m] = k /\ st[m] \in Begun
      BY <1>3, <1>4, <3>2, BegunFacts
    <3>3. CASE waiting[k] # <<>> /\ blocked[LaneOf[Head(waiting[k])]]
      BY <1>5, <3>1, <3>3
    <3> QED BY <1>1, <2>1, <3>2, <3>3 DEF KeyQueues
  <2>2. CASE k \notin activeKeys
    <3>1. PICK m \in Submitted : KeyOf[m] = k
      BY <1>4, <2>2
    <3> QED BY <1>2, <1>4, <3>1, BegunFacts
  <2> QED BY <2>1, <2>2
<1>13. \A m \in Messages : st'[m] = "held" => blocked[LaneOf[m]]
  BY <1>1, <1>3, <1>4 DEF KeyQueues
<1>14. KeyQueues'
  BY <1>4, <1>5, <1>9, <1>10, <1>11, <1>12, <1>13 DEF KeyQueues
<1>15. KeySerial'
  <2> SUFFICES ASSUME NEW m \in Messages, NEW n \in Messages, SameKey(m, n),
                      st'[m] \in Begun, st'[n] \in Begun
               PROVE  FALSE
    BY DEF KeySerial, SameKey
  <2>1. m # n /\ KeyOf[m] = KeyOf[n] /\ KeyOf[m] # NoKey
    BY DEF SameKey
  <2>2. ASSUME NEW x \in Messages, st'[x] \in Begun, KeyOf[x] # NoKey
        PROVE  \/ x \in Submitted
               \/ st[x] \in Begun /\ KeyOf[x] \in activeKeys
    BY <1>1, <1>3, <1>4, <2>2, BegunFacts DEF KeyQueues
  <2>3. CASE m \in Submitted /\ n \in Submitted
    BY <1>4, <2>1, <2>3
  <2>4. CASE m \notin Submitted /\ n \notin Submitted
    BY <1>1, <2>1, <2>2, <2>4 DEF KeySerial
  <2>5. CASE m \in Submitted /\ n \notin Submitted
    BY <1>4, <2>1, <2>2, <2>5
  <2>6. CASE m \notin Submitted /\ n \in Submitted
    BY <1>4, <2>1, <2>2, <2>6
  <2> QED BY <2>3, <2>4, <2>5, <2>6
<1> QED BY <1>7, <1>8, <1>14, <1>15

LEMMA TakesRanks ==
  ASSUME TypeOK, Queues, Takes
  PROVE  KeyRanks'
<1>1. Session /\ KeyQueues /\ KeyRanks
  BY DEF Queues
<1> DEFINE B == ToSet(batch)
<1>2. /\ \A m \in Messages \ B : st'[m] = st[m]
      /\ \A m \in B : /\ blocked[LaneOf[m]] => st'[m] = "held" /\ m \notin Submitted
                      /\ m \in Submitted => st'[m] = "job"
                      /\ ~blocked[LaneOf[m]] /\ m \notin Submitted =>
                           st'[m] = "waiting" /\ KeyOf[m] \in Keys
      /\ \A m \in Submitted : KeyOf[m] # NoKey =>
           KeyOf[m] \notin activeKeys /\ m = Head(Arrivals(KeyOf[m]))
      /\ Submitted \subseteq B /\ tokens' = tokens
      /\ \A k \in Keys : waiting'[k] = waiting[k] \o Queued(k)
  BY DEF Takes
<1> SUFFICES ASSUME NEW l \in Lanes, NEW m \in Messages, NEW n \in Messages,
                    Before(tokens[l], m, n), SameKey(m, n)
             PROVE  /\ st'[n] \in Begun \cup {"terminal"} => st'[m] \in {"terminal", "settled"}
                    /\ st'[n] = "waiting" => st'[m] # "held"
                    /\ st'[n] = "waiting" /\ st'[m] = "waiting" =>
                         Before(waiting'[KeyOf[m]], m, n)
  BY <1>2 DEF KeyRanks, SameKey
<1> DEFINE k == KeyOf[m]
<1>3. m # n /\ k = KeyOf[n] /\ k # NoKey /\ k \in Keys
  BY KeyFacts DEF SameKey
<1>4. m \in ToSet(tokens[l]) /\ n \in ToSet(tokens[l])
  BY SetOfSeq DEF TypeOK
<1>5. LaneOf[m] = l /\ LaneOf[n] = l /\ m \in fetched /\ n \in fetched
  BY <1>1, <1>4 DEF Session
<1>6. m \in B => Before(batch, m, n) /\ n \in B
  BY <1>1, SetOfSeq DEF Session, TypeOK
<1>7. /\ waiting[k] \in Seq(Messages) /\ Queued(k) \in Seq(Messages)
      /\ ToSet(Queued(k)) = ToSet(Arrivals(k)) \ Submitted
      /\ ToSet(Arrivals(k)) = {x \in B : KeyOf[x] = k /\ ~blocked[LaneOf[x]]}
      /\ \A x \in ToSet(Queued(k)), y \in ToSet(Queued(k)) :
           Before(batch, x, y) => Before(Queued(k), x, y)
      /\ \A x \in ToSet(Arrivals(k)), y \in ToSet(Arrivals(k)) :
           Before(batch, x, y) => Before(Arrivals(k), x, y)
      /\ \A x \in ToSet(Arrivals(k)) : ~Before(Arrivals(k), x, Head(Arrivals(k)))
  BY <1>3, ArrivalFacts DEF TypeOK
<1>8. \A x, y : \/ Before(waiting[k], x, y) \/ Before(Queued(k), x, y)
                \/ x \in ToSet(waiting[k]) /\ y \in ToSet(Queued(k))
                => Before(waiting'[k], x, y)
  <2> DEFINE w == waiting[k]  q == Queued(k)
  <2>1. w \in Seq(Messages) /\ q \in Seq(Messages) /\ waiting'[k] = w \o q
    BY <1>2, <1>3, <1>7
  <2> HIDE DEF w, q
  <2>2. \A x, y : Before(w \o q, x, y)
                    <=> \/ Before(w, x, y) \/ Before(q, x, y)
                        \/ x \in ToSet(w) /\ y \in ToSet(q)
    BY <2>1, ConcatOrder
  <2> QED BY <2>1, <2>2 DEF w, q
<1> HIDE DEF B, k
<1>9. CASE n \notin B
  <2>1. m \notin B /\ st'[m] = st[m] /\ st'[n] = st[n]
    BY <1>2, <1>6, <1>9
  <2> QED BY <1>1, <1>8, <2>1 DEF KeyRanks, k
<1>10. CASE n \in Submitted
  <2>1. ~blocked[l] /\ k \notin activeKeys /\ n = Head(Arrivals(k)) /\ st'[n] = "job"
        /\ n \in ToSet(Arrivals(k))
    BY <1>2, <1>3, <1>5, <1>7, <1>10
  <2>2. m \notin B
    <3> SUFFICES ASSUME m \in B PROVE FALSE
      OBVIOUS
    <3>1. m \in ToSet(Arrivals(k))
      BY <1>5, <1>7, <2>1 DEF k
    <3> QED BY <1>6, <1>7, <2>1, <3>1
  <2>3. st'[m] = st[m] /\ st[m] # "away"
    BY <1>1, <1>2, <1>5, <2>2 DEF Session, B
  <2>4. st[m] # "held" /\ st[m] \notin Begun \cup {"waiting"}
    BY <1>1, <1>3, <1>5, <2>1 DEF KeyQueues, k
  <2>5. st[m] \in {"terminal", "settled"}
    BY <2>3, <2>4 DEF TypeOK, DeliveryStates, Begun
  <2> QED BY <2>1, <2>3, <2>5
<1>11. CASE n \in B /\ n \notin Submitted
  <2>1. CASE blocked[l]
    <3>1. st'[n] = "held"
      BY <1>2, <1>5, <1>11, <2>1
    <3> QED BY <3>1, BegunFacts
  <2>2. CASE ~blocked[l]
    <3>1. st'[n] = "waiting" /\ n \in ToSet(Queued(k))
      BY <1>2, <1>3, <1>5, <1>7, <1>11, <2>2
    <3>2. CASE m \in B
      <4>1. st'[m] # "held"
        BY <1>2, <1>5, <2>2, <3>2
      <4>2. ASSUME st'[m] = "waiting" PROVE Before(waiting'[k], m, n)
        <5>1. m \in ToSet(Queued(k))
          BY <1>2, <1>5, <1>7, <2>2, <3>2, <4>2 DEF k
        <5> QED BY <1>6, <1>7, <1>8, <3>1, <3>2, <5>1
      <4> QED BY <3>1, <4>1, <4>2, BegunFacts DEF k
    <3>3. CASE m \notin B
      <4>1. st'[m] = st[m]
        BY <1>2, <3>3
      <4>2. st[m] # "held"
        BY <1>1, <1>5, <2>2 DEF KeyQueues
      <4>3. ASSUME st[m] = "waiting" PROVE Before(waiting'[k], m, n)
        <5>1. m \in ToSet(waiting[k])
          BY <1>1, <4>3 DEF KeyQueues, k
        <5> QED BY <1>8, <3>1, <5>1
      <4> QED BY <3>1, <4>1, <4>2, <4>3, BegunFacts DEF k
    <3> QED BY <3>2, <3>3
  <2> QED BY <2>1, <2>2
<1> QED BY <1>9, <1>10, <1>11

LEMMA TakesSettlement ==
  ASSUME TypeOK, Queues, Takes
  PROVE  Settlement'
<1>1. Settlement
  BY DEF Queues
<1>2. \A m \in Messages : \A x \in {"gotDone", "terminal"} : st'[m] = x <=> st[m] = x
  BY DEF Takes
<1>3. \A i \in DOMAIN settleQueue : Receipted(i)' = Receipted(i) /\ Receipted(i) \subseteq Messages
  BY BatchFacts DEF Takes, Receipted
<1>4. /\ settleQueue' = settleQueue /\ settle' = settle /\ handled' = handled
      /\ confirmed' = confirmed /\ mode' = mode
  BY DEF Takes
<1> QED BY <1>1, <1>2, <1>3, <1>4 DEF Settlement

LEMMA TakesLanes ==
  ASSUME TypeOK, Queues, Takes, mode = "cumulative"
  PROVE  LaneQueues' /\ LogOrder'
<1>1. LaneQueues /\ LogOrder /\ Session /\ Settlement
  BY DEF Queues
<1>2. /\ settleQueue' = settleQueue /\ settle' = settle /\ laneSettling' = laneSettling
      /\ tokens' = tokens /\ batch' = <<>> /\ confirmed' = confirmed /\ fetched' = fetched
      /\ \A l \in Lanes : laneQueue'[l] = laneQueue[l] \o OfLane(batch, l)
  BY DEF Takes
<1>3. LogOrder'
  BY <1>1, <1>2 DEF LogOrder
<1>4. SettlingLanes'
  BY <1>1, <1>2 DEF LaneQueues, SettlingLanes
<1>5. \A i \in DOMAIN settleQueue :
        /\ Receipted(i)' = Receipted(i) /\ Receipted(i) \subseteq Messages
        /\ Answered(i)' <=> Answered(i)
        /\ \A m \in Receipted(i) : st[m] = "terminal"
  BY <1>1, <1>2, BatchFacts DEF Receipted, Answered, Settlement
<1>6. Tracked' = Tracked \cup ToSet(batch)
  BY TakesSession
<1>7. ASSUME NEW l \in Lanes
      PROVE  /\ laneQueue[l] \in Seq(Messages) /\ OfLane(batch, l) \in Seq(Messages)
             /\ Distinct(laneQueue[l]) /\ Distinct(OfLane(batch, l))
             /\ ToSet(OfLane(batch, l)) = {m \in ToSet(batch) : LaneOf[m] = l}
             /\ ToSet(laneQueue[l]) \cap ToSet(OfLane(batch, l)) = {}
             /\ ToSet(laneQueue[l]) \subseteq Tracked
  <2>1. batch \in Seq(Messages) /\ Distinct(batch)
    BY <1>1 DEF TypeOK, Session
  <2>2. /\ OfLane(batch, l) \in Seq(Messages) /\ Distinct(OfLane(batch, l))
        /\ ToSet(OfLane(batch, l)) = {m \in ToSet(batch) : LaneOf[m] = l}
    BY <2>1, OfLaneFacts
  <2>3. \A m \in ToSet(batch) : m \notin Tracked
    BY DEF Takes, Tracked
  <2>4. Distinct(laneQueue[l]) /\ ToSet(laneQueue[l]) \subseteq Tracked
    BY <1>1 DEF LaneQueues, QueuedEntries
  <2> QED BY <2>2, <2>3, <2>4 DEF TypeOK
<1>8. ASSUME NEW l \in Lanes
      PROVE  /\ laneQueue'[l] \in Seq(Messages) /\ Distinct(laneQueue'[l])
             /\ ToSet(laneQueue'[l]) = ToSet(laneQueue[l]) \cup ToSet(OfLane(batch, l))
             /\ laneQueue[l] # <<>> => Head(laneQueue'[l]) = Head(laneQueue[l])
             /\ laneQueue[l] = <<>> => laneQueue'[l] = OfLane(batch, l)
  <2> DEFINE q == laneQueue[l]  t == OfLane(batch, l)
  <2>1. /\ q \in Seq(Messages) /\ t \in Seq(Messages) /\ Distinct(q) /\ Distinct(t)
        /\ ToSet(q) \cap ToSet(t) = {} /\ laneQueue'[l] = q \o t
    BY <1>2, <1>7
  <2> HIDE DEF q, t
  <2>2. q \o t \in Seq(Messages) /\ Distinct(q \o t) /\ ToSet(q \o t) = ToSet(q) \cup ToSet(t)
    BY <2>1, ConcatOrder, ConcatProperties
  <2>3. q # <<>> => Head(q \o t) = Head(q)
    BY <2>1
  <2>4. q = <<>> => q \o t = t
    BY <2>1, ConcatEmptySeq
  <2> QED BY <2>1, <2>2, <2>3, <2>4 DEF q, t
<1>9. QueuedEntries'
  <2> SUFFICES ASSUME NEW l \in Lanes
               PROVE  /\ Distinct(laneQueue'[l])
                      /\ \A m \in ToSet(laneQueue'[l]) : LaneOf[m] = l /\ m \in Tracked'
                      /\ \A i \in DOMAIN settleQueue : Receipted(i) \cap ToSet(laneQueue'[l]) = {}
                      /\ ~laneSettling[l] /\ laneQueue'[l] # <<>> =>
                           st'[Head(laneQueue'[l])] # "terminal"
    BY <1>2, <1>5 DEF QueuedEntries
  <2>1. \A m \in ToSet(laneQueue'[l]) : LaneOf[m] = l /\ m \in Tracked'
    BY <1>1, <1>6, <1>7, <1>8 DEF LaneQueues, QueuedEntries
  <2>2. ASSUME NEW i \in DOMAIN settleQueue
        PROVE  Receipted(i) \cap ToSet(laneQueue'[l]) = {}
    <3>1. Receipted(i) \cap ToSet(laneQueue[l]) = {}
      BY <1>1 DEF LaneQueues, QueuedEntries
    <3>2. \A m \in ToSet(OfLane(batch, l)) : st[m] = "away"
      BY <1>7 DEF Takes
    <3> QED BY <1>5, <1>8, <3>1, <3>2
  <2>3. ASSUME ~laneSettling[l], laneQueue'[l] # <<>>
        PROVE  st'[Head(laneQueue'[l])] # "terminal"
    <3>1. CASE laneQueue[l] # <<>>
      <4> DEFINE h == Head(laneQueue[l])
      <4>1. h \in ToSet(laneQueue[l]) /\ st[h] # "terminal" /\ h \in Messages
        BY <1>1, <1>7, <2>3, <3>1, SetOfSeq DEF LaneQueues, QueuedEntries
      <4>2. h \notin ToSet(batch)
        BY <1>7, <4>1 DEF Takes, Tracked
      <4> QED BY <1>8, <3>1, <4>1, <4>2 DEF Takes
    <3>2. CASE laneQueue[l] = <<>>
      <4>1. Head(laneQueue'[l]) \in ToSet(OfLane(batch, l))
        BY <1>7, <1>8, <2>3, <3>2, SetOfSeq
      <4>2. Head(laneQueue'[l]) \in ToSet(batch)
        BY <1>7, <4>1
      <4>3. \A m \in ToSet(batch) : st'[m] # "terminal"
        BY DEF Takes
      <4> QED BY <4>2, <4>3
    <3> QED BY <3>1, <3>2
  <2> QED BY <1>8, <2>1, <2>2, <2>3
<1>10. TerminalEntries'
  <2>1. ASSUME NEW m \in Messages, st'[m] = "terminal"
        PROVE  \/ m \in ToSet(laneQueue'[LaneOf[m]])
               \/ \E i \in DOMAIN settleQueue : m \in Receipted(i)
    <3>1. st[m] = "terminal" /\ LaneOf[m] \in Lanes
      BY <2>1, LaneFacts DEF Takes
    <3> QED BY <1>1, <1>8, <3>1 DEF LaneQueues, TerminalEntries
  <2> QED BY <1>2, <1>5, <2>1 DEF TerminalEntries
<1>11. TokensSplit'
  <2>1. \A l \in Lanes : laneQueue'[l] \o OfLane(batch', l) = laneQueue'[l]
    BY <1>2, <1>8, OfLaneEmpty, ConcatEmptySeq
  <2>2. \A i \in DOMAIN settleQueue : settleQueue[i].lane \in Lanes
    BY BatchFacts
  <2>3. ASSUME NEW i \in DOMAIN settleQueue, ~Answered(i)
        PROVE  tokens[settleQueue[i].lane] =
                 settleQueue[i].entries \o
                   (laneQueue'[settleQueue[i].lane] \o OfLane(batch', settleQueue[i].lane))
    <3> DEFINE l == settleQueue[i].lane
    <3>1. l \in Lanes
      BY <2>2
    <3>2. tokens[l] = settleQueue[i].entries \o (laneQueue[l] \o OfLane(batch, l))
      BY <1>1, <2>3 DEF LaneQueues, TokensSplit
    <3>3. laneQueue'[l] \o OfLane(batch', l) = laneQueue[l] \o OfLane(batch, l)
      BY <1>2, <2>1, <3>1
    <3> QED BY <3>2, <3>3
  <2>4. ASSUME NEW l \in Lanes,
               \A i \in DOMAIN settleQueue : settleQueue[i].lane = l => Answered(i)
        PROVE  tokens[l] = laneQueue'[l] \o OfLane(batch', l)
    <3>1. tokens[l] = laneQueue[l] \o OfLane(batch, l)
      BY <1>1, <2>4 DEF LaneQueues, TokensSplit
    <3> QED BY <1>2, <2>1, <3>1
  <2> QED BY <1>2, <1>5, <2>3, <2>4 DEF TokensSplit
<1> QED BY <1>3, <1>4, <1>9, <1>10, <1>11 DEF LaneQueues

LEMMA TakesWindow ==
  ASSUME TypeOK, Queues, Window, Takes
  PROVE  Window' /\ inflight' \in Nat /\ workCount' \in Nat /\ laneInflight' \in [Lanes -> Nat]
<1> DEFINE B == ToSet(batch)
<1>1. batch \in Seq(Messages) /\ Distinct(batch) /\ B \subseteq Messages
  BY SetOfSeq DEF TypeOK, Queues, Session
<1>2. Tracked' = Tracked \cup B /\ Tracked \cap B = {} /\ Tracked \subseteq Messages
  <2>1. \A m \in B : m \notin Tracked
    BY DEF Takes, Tracked
  <2> QED BY <2>1, TakesSession DEF Tracked
<1>3. ASSUME NEW S, NEW T, S \subseteq Messages, T \subseteq Messages, S \cap T = {}
      PROVE  Cardinality(S \cup T) = Cardinality(S) + Cardinality(T)
  <2>1. IsFiniteSet(S) /\ IsFiniteSet(T) /\ Cardinality(S) \in Nat /\ Cardinality(T) \in Nat
    BY <1>3, FiniteWork
  <2>2. Cardinality(S \cup T) = Cardinality(S) + Cardinality(T) - Cardinality(S \cap T)
    BY <2>1, FS_Union
  <2>3. Cardinality(S \cap T) = 0
    BY <1>3, FS_EmptySet
  <2> QED BY <2>1, <2>2, <2>3
<1>4. Cardinality(B) = Len(batch) /\ Len(batch) \in Nat
  BY <1>1, DistinctLength, LenProperties
<1> HIDE DEF B
<1>5. inflight' = Cardinality(Tracked') /\ inflight' <= MaxInflightMessages /\ inflight' \in Nat
  <2>1. inflight' = inflight + Len(batch) /\ Len(batch) <= MaxInflightMessages - inflight
    BY DEF Takes, WithinLimits
  <2>2. inflight = Cardinality(Tracked) /\ inflight \in Nat
    BY DEF Window, TypeOK
  <2>3. Cardinality(Tracked \cup B) = Cardinality(Tracked) + Cardinality(B)
    BY <1>1, <1>2, <1>3
  <2> QED BY <1>2, <1>4, <2>1, <2>2, <2>3, ConfigFacts
<1>6. ASSUME NEW l \in Lanes
      PROVE  /\ laneInflight'[l] = Cardinality({m \in Tracked' : LaneOf[m] = l})
             /\ laneInflight'[l] <= MaxInflightPerLane /\ laneInflight'[l] \in Nat
  <2> DEFINE S == {m \in Tracked : LaneOf[m] = l}  T == ToSet(OfLane(batch, l))
  <2>1. /\ OfLane(batch, l) \in Seq(Messages) /\ Distinct(OfLane(batch, l))
        /\ T = {m \in B : LaneOf[m] = l}
    BY <1>1, OfLaneFacts DEF B
  <2>2. Cardinality(T) = Len(OfLane(batch, l)) /\ Len(OfLane(batch, l)) \in Nat
    BY <2>1, DistinctLength, LenProperties
  <2>3. S \cap T = {} /\ S \subseteq Messages /\ T \subseteq Messages
        /\ {m \in Tracked' : LaneOf[m] = l} = S \cup T
    BY <1>1, <1>2, <2>1
  <2>4. laneInflight[l] = Cardinality(S) /\ laneInflight[l] \in Nat
    BY DEF Window, TypeOK
  <2>5. /\ laneInflight'[l] = laneInflight[l] + Len(OfLane(batch, l))
        /\ Len(OfLane(batch, l)) + laneInflight[l] <= MaxInflightPerLane
    BY DEF Takes, WithinLimits
  <2> HIDE DEF S, T
  <2>6. Cardinality(S \cup T) = Cardinality(S) + Cardinality(T)
    BY <1>3, <2>3
  <2>7. Cardinality({m \in Tracked' : LaneOf[m] = l}) = Cardinality(S \cup T)
    BY <2>3
  <2>8. laneInflight'[l] = Cardinality(S \cup T)
    BY <2>2, <2>4, <2>5, <2>6
  <2>9. laneInflight'[l] <= MaxInflightPerLane /\ laneInflight'[l] \in Nat
    BY <2>2, <2>4, <2>5
  <2> QED BY <2>7, <2>8, <2>9
<1>7. workCount' = Cardinality({m \in Messages : st'[m] \in AtWorker}) /\ workCount' \in Nat
  <2> DEFINE W == {m \in Messages : st[m] \in AtWorker}
  <2>1. Submitted \subseteq Messages /\ \A m \in Submitted : st[m] = "away" /\ st'[m] = "job"
    BY <1>1 DEF Takes, B
  <2>2. \A m \in Messages \ Submitted : st'[m] \in AtWorker <=> st[m] \in AtWorker
    BY BegunFacts DEF Takes
  <2>3. {m \in Messages : st'[m] \in AtWorker} = W \cup Submitted
    BY <2>1, <2>2, BegunFacts
  <2>4. W \cap Submitted = {} /\ W \subseteq Messages
    BY <2>1, BegunFacts
  <2>5. workCount' = Cardinality(W) + Cardinality(Submitted)
    BY DEF Takes, Window
  <2> HIDE DEF W
  <2>6. Cardinality(W \cup Submitted) = Cardinality(W) + Cardinality(Submitted)
    BY <1>3, <2>1, <2>4
  <2>7. Cardinality(W) \in Nat /\ Cardinality(Submitted) \in Nat
    BY <2>1, <2>4, FiniteWork
  <2> QED BY <2>3, <2>5, <2>6, <2>7
<1>8. receive' = "idle" /\ laneInflight' \in [Lanes -> Nat]
  BY <1>6 DEF Takes
<1> QED BY <1>5, <1>6, <1>7, <1>8 DEF Window

LEMMA HandleDeliveriesInv ==
  ASSUME ConsumeInv, HandleDeliveries
  PROVE  ConsumeInv'
<1>1. TypeOK /\ Queues /\ Window /\ Stopping /\ Takes
  BY HandleDeliveriesTakes DEF ConsumeInv
<1>2. Session' /\ KeyQueues' /\ KeySerial' /\ waiting' \in [Keys -> Seq(Messages)]
      /\ activeKeys' \subseteq Keys
  BY <1>1, TakesSession, TakesKeys
<1>3. KeyRanks' /\ Settlement'
  BY <1>1, TakesRanks, TakesSettlement
<1>4. mode' = "cumulative" => LaneQueues' /\ LogOrder'
  BY <1>1, TakesLanes DEF Takes
<1>5. Window' /\ inflight' \in Nat /\ workCount' \in Nat /\ laneInflight' \in [Lanes -> Nat]
  BY <1>1, TakesWindow
<1>6. laneQueue' \in [Lanes -> Seq(Messages)]
  <2>1. \A l \in Lanes : laneQueue[l] \in Seq(Messages) /\ OfLane(batch, l) \in Seq(Messages)
    BY <1>1, OfLaneFacts DEF TypeOK
  <2>2. \A l \in Lanes : laneQueue[l] \o OfLane(batch, l) \in Seq(Messages)
    BY <2>1, ConcatProperties
  <2> QED BY <1>1, <2>1, <2>2 DEF Takes
<1>7. TypeOK'
  BY <1>1, <1>2, <1>5, <1>6, EmptyFacts DEF TypeOK, Takes
<1>8. Stopping'
  BY <1>1 DEF Takes, Stopping
<1> QED BY <1>2, <1>3, <1>4, <1>5, <1>7, <1>8 DEF ConsumeInv, Queues

-----------------------------------------------------------------------------
(* The settlement queue and the queue of a lane. *)

(* q is a sequence of disjoint batches of deliveries that s calls terminal. *)
Batched(q, s) ==
  /\ \A i \in DOMAIN q :
       /\ q[i].entries # <<>> /\ Distinct(q[i].entries)
       /\ \A m \in ToSet(q[i].entries) : s[m] = "terminal" /\ LaneOf[m] = q[i].lane
  /\ \A i, j \in DOMAIN q : i # j => ToSet(q[i].entries) \cap ToSet(q[j].entries) = {}

LEMMA AppendIndexes ==
  ASSUME NEW M, NEW q \in Seq(M), NEW b \in M
  PROVE  /\ Append(q, b) \in Seq(M) /\ Append(q, b) # <<>>
         /\ Len(q) + 1 \in DOMAIN Append(q, b) /\ Append(q, b)[Len(q) + 1] = b
         /\ Len(q) + 1 \notin DOMAIN q
         /\ \A i \in DOMAIN q : i \in DOMAIN Append(q, b) /\ Append(q, b)[i] = q[i]
         /\ \A i \in DOMAIN Append(q, b) : i \in DOMAIN q \/ i = Len(q) + 1
         /\ q # <<>> => Head(Append(q, b)) = Head(q) /\ Len(q) + 1 # 1
BY AppendProperties, LenProperties, EmptySeq

LEMMA TailIndexes ==
  ASSUME NEW M, NEW q \in Seq(M), q # <<>>
  PROVE  /\ Tail(q) \in Seq(M) /\ 1 \in DOMAIN q /\ q[1] = Head(q)
         /\ \A i \in DOMAIN Tail(q) : i + 1 \in DOMAIN q /\ i + 1 # 1 /\ Tail(q)[i] = q[i + 1]
         /\ \A i \in DOMAIN q : i # 1 => i - 1 \in DOMAIN Tail(q) /\ Tail(q)[i - 1] = q[i]
         /\ \A i, j \in DOMAIN Tail(q) : i + 1 = j + 1 => i = j
<1>1. Len(q) \in Nat \ {0} /\ DOMAIN q = 1..Len(q)
  BY LenProperties, EmptySeq
<1>2. /\ Tail(q) \in Seq(M) /\ Len(Tail(q)) = Len(q) - 1
      /\ \A i \in 1..Len(Tail(q)) : Tail(q)[i] = q[i + 1]
  BY HeadTailProperties
<1>3. DOMAIN Tail(q) = 1..(Len(q) - 1)
  BY <1>2, LenProperties
<1>4. 1 \in DOMAIN q /\ q[1] = Head(q)
  BY <1>1
<1>5. \A i \in DOMAIN Tail(q) : i + 1 \in DOMAIN q /\ i + 1 # 1 /\ Tail(q)[i] = q[i + 1]
  BY <1>1, <1>2, <1>3
<1>6. ASSUME NEW i \in DOMAIN q, i # 1 PROVE i - 1 \in DOMAIN Tail(q) /\ Tail(q)[i - 1] = q[i]
  <2>1. i - 1 \in 1..Len(Tail(q)) /\ (i - 1) + 1 = i
    BY <1>1, <1>2, <1>6
  <2> QED BY <1>2, <1>3, <2>1
<1>7. \A i, j \in DOMAIN Tail(q) : i + 1 = j + 1 => i = j
  BY <1>1, <1>3
<1> QED BY <1>2, <1>4, <1>5, <1>6, <1>7

LEMMA BatchedAppend ==
  ASSUME NEW q \in Seq(Batches), NEW b \in Batches, NEW s, Batched(q, s),
         b.entries # <<>>, Distinct(b.entries),
         \A m \in ToSet(b.entries) : s[m] = "terminal" /\ LaneOf[m] = b.lane,
         \A i \in DOMAIN q : ToSet(q[i].entries) \cap ToSet(b.entries) = {}
  PROVE  Batched(Append(q, b), s)
<1> DEFINE a == Append(q, b)
<1>1. /\ a[Len(q) + 1] = b /\ Len(q) + 1 \notin DOMAIN q
      /\ \A i \in DOMAIN q : a[i] = q[i]
      /\ \A i \in DOMAIN a : i \in DOMAIN q \/ i = Len(q) + 1
  BY AppendIndexes
<1> HIDE DEF a
<1>2. \A i \in DOMAIN a :
       /\ a[i].entries # <<>> /\ Distinct(a[i].entries)
       /\ \A m \in ToSet(a[i].entries) : s[m] = "terminal" /\ LaneOf[m] = a[i].lane
  BY <1>1 DEF Batched
<1>3. \A i, j \in DOMAIN a : i # j => ToSet(a[i].entries) \cap ToSet(a[j].entries) = {}
  <2> SUFFICES ASSUME NEW i \in DOMAIN a, NEW j \in DOMAIN a, i # j
               PROVE  ToSet(a[i].entries) \cap ToSet(a[j].entries) = {}
    OBVIOUS
  <2>1. CASE i \in DOMAIN q /\ j \in DOMAIN q
    BY <1>1, <2>1 DEF Batched
  <2>2. CASE i \notin DOMAIN q
    <3>1. a[i] = b /\ j \in DOMAIN q /\ a[j] = q[j]
      BY <1>1, <2>2
    <3>2. ToSet(q[j].entries) \cap ToSet(b.entries) = {}
      BY <3>1
    <3> QED BY <3>1, <3>2
  <2>3. CASE j \notin DOMAIN q
    <3>1. a[j] = b /\ i \in DOMAIN q /\ a[i] = q[i]
      BY <1>1, <2>3
    <3>2. ToSet(q[i].entries) \cap ToSet(b.entries) = {}
      BY <3>1
    <3> QED BY <3>1, <3>2
  <2> QED BY <2>1, <2>2, <2>3
<1>4. Batched(a, s)
  BY <1>2, <1>3 DEF Batched
<1> QED BY <1>4 DEF a

LEMMA BatchedTail ==
  ASSUME NEW q \in Seq(Batches), q # <<>>, NEW s, NEW t, Batched(q, s),
         \A i \in DOMAIN q : i # 1 => \A m \in ToSet(q[i].entries) : t[m] = s[m]
  PROVE  Batched(Tail(q), t)
<1> DEFINE r == Tail(q)
<1>1. \A i \in DOMAIN r : i + 1 \in DOMAIN q /\ i + 1 # 1 /\ r[i] = q[i + 1]
  BY TailIndexes
<1>2. \A i, j \in DOMAIN r : i + 1 = j + 1 => i = j
  BY TailIndexes
<1> HIDE DEF r
<1>3. ASSUME NEW i \in DOMAIN r
      PROVE  /\ r[i].entries # <<>> /\ Distinct(r[i].entries)
             /\ \A m \in ToSet(r[i].entries) : t[m] = "terminal" /\ LaneOf[m] = r[i].lane
  <2> DEFINE k == i + 1
  <2>1. k \in DOMAIN q /\ k # 1 /\ r[i] = q[k]
    BY <1>1
  <2> HIDE DEF k
  <2> QED BY <2>1 DEF Batched
<1>4. ASSUME NEW i \in DOMAIN r, NEW j \in DOMAIN r, i # j
      PROVE  ToSet(r[i].entries) \cap ToSet(r[j].entries) = {}
  <2> DEFINE k == i + 1  h == j + 1
  <2>1. k \in DOMAIN q /\ r[i] = q[k] /\ h \in DOMAIN q /\ r[j] = q[h] /\ k # h
    BY <1>1, <1>2, <1>4
  <2> HIDE DEF k, h
  <2> QED BY <2>1 DEF Batched
<1>5. Batched(r, t)
  BY <1>3, <1>4 DEF Batched
<1> QED BY <1>5 DEF r

(* queueCumulativePrefix cuts a queue behind its terminal prefix. *)
LEMMA TerminalPrefixFacts ==
  ASSUME NEW q \in Seq(Messages), NEW s
  PROVE  /\ TerminalPrefix(q, s) \in 0..Len(q)
         /\ \A i \in 1..TerminalPrefix(q, s) : s[q[i]] = "terminal"
         /\ TerminalPrefix(q, s) < Len(q) => s[q[TerminalPrefix(q, s) + 1]] # "terminal"
<1> DEFINE U == {i \in DOMAIN q : s[q[i]] # "terminal"}
<1>1. Len(q) \in Nat /\ DOMAIN q = 1..Len(q)
  BY LenProperties
<1>2. CASE U = {}
  <2>1. TerminalPrefix(q, s) = Len(q)
    BY <1>2 DEF TerminalPrefix
  <2>2. \A i \in 1..Len(q) : s[q[i]] = "terminal"
    BY <1>1, <1>2
  <2> QED BY <1>1, <2>1, <2>2
<1>3. CASE U # {}
  <2>1. TerminalPrefix(q, s) = Min(U) - 1
    BY <1>3 DEF TerminalPrefix
  <2>2. U \subseteq Nat
    BY <1>1
  <2>3. \E x \in U : \A y \in U : x <= y
    <3> HIDE DEF U
    <3> QED BY <1>3, <2>2, MinNat
  <2>4. Min(U) \in U /\ \A y \in U : Min(U) <= y
    BY <2>3 DEF Min
  <2>5. Min(U) \in 1..Len(q) /\ s[q[Min(U)]] # "terminal"
    BY <1>1, <2>4
  <2>6. \A i \in 1..(Min(U) - 1) : s[q[i]] = "terminal"
    <3> SUFFICES ASSUME NEW i \in 1..(Min(U) - 1), i \in U PROVE FALSE
      BY <1>1, <2>5
    <3>1. Min(U) <= i /\ i <= Min(U) - 1 /\ i \in Nat /\ Min(U) \in Nat
      BY <2>2, <2>4, <2>5
    <3> QED BY <3>1
  <2> HIDE DEF U
  <2>7. (Min(U) - 1) + 1 = Min(U) /\ Min(U) - 1 \in 0..Len(q)
    BY <1>1, <2>5
  <2> QED BY <2>1, <2>5, <2>6, <2>7
<1> QED BY <1>2, <1>3

Splits(q, s, n, a, r) ==
  /\ n \in Nat /\ a \in Seq(Messages) /\ r \in Seq(Messages) /\ q = a \o r
  /\ n > 0 <=> a # <<>>
  /\ \A m \in ToSet(a) : s[m] = "terminal"
  /\ r # <<>> => s[Head(r)] # "terminal"

LEMMA SplitQueue ==
  ASSUME NEW q \in Seq(Messages), NEW s, NEW n, n = TerminalPrefix(q, s),
         NEW a, a = SubSeq(q, 1, n), NEW r, r = SubSeq(q, n + 1, Len(q))
  PROVE  Splits(q, s, n, a, r)
<1>1. Len(q) \in Nat /\ DOMAIN q = 1..Len(q) /\ \A i \in 1..Len(q) : q[i] \in Messages
  BY LenProperties
<1>2. /\ n \in 0..Len(q)
      /\ \A i \in 1..n : s[q[i]] = "terminal"
      /\ n < Len(q) => s[q[n + 1]] # "terminal"
  BY TerminalPrefixFacts
<1>3. /\ a \in Seq(Messages) /\ Len(a) = (IF 1 <= n THEN n - 1 + 1 ELSE 0)
      /\ \A i \in 1..(n - 1 + 1) : a[i] = q[1 + i - 1]
  <2>1. 1 \in Int /\ n \in Int /\ \A i \in 1..n : q[i] \in Messages
    BY <1>1, <1>2
  <2> QED BY <2>1, SubSeqProperties
<1>4. /\ r \in Seq(Messages)
      /\ Len(r) = (IF n + 1 <= Len(q) THEN Len(q) - (n + 1) + 1 ELSE 0)
      /\ \A i \in 1..(Len(q) - (n + 1) + 1) : r[i] = q[(n + 1) + i - 1]
  <2>1. n + 1 \in Int /\ Len(q) \in Int /\ \A i \in (n + 1)..Len(q) : q[i] \in Messages
    BY <1>1, <1>2
  <2> QED BY <2>1, SubSeqProperties
<1>5. q = a \o r
  <2>1. 1 \in 1..(Len(q) + 1) /\ n \in 0..Len(q) /\ Len(q) \in n..Len(q) /\ n \in (1 - 1)..Len(q)
    BY <1>1, <1>2
  <2>2. SubSeq(q, 1, n) \o SubSeq(q, n + 1, Len(q)) = SubSeq(q, 1, Len(q))
    BY <2>1, ConcatAdjacentSubSeq
  <2>3. SubSeq(q, 1, Len(q)) = q
    BY SubSeqFull
  <2> QED BY <2>2, <2>3
<1>6. Len(a) = n
  BY <1>2, <1>3
<1>7. n > 0 <=> a # <<>>
  <2>1. a # <<>> <=> Len(a) # 0
    BY <1>3, EmptySeq
  <2> QED BY <1>2, <1>6, <2>1
<1>8. ASSUME NEW m \in ToSet(a) PROVE s[m] = "terminal"
  <2>1. PICK i \in DOMAIN a : a[i] = m
    BY DEF ToSet
  <2>2. i \in 1..n /\ 1 + i - 1 = i /\ i \in 1..(n - 1 + 1)
    BY <1>2, <1>3, <1>6, <2>1, LenProperties
  <2>3. a[i] = q[i]
    BY <1>3, <2>2
  <2> QED BY <1>2, <2>1, <2>2, <2>3
<1>9. ASSUME r # <<>> PROVE s[Head(r)] # "terminal"
  <2>1. Len(r) # 0 /\ n < Len(q)
    BY <1>1, <1>2, <1>4, <1>9, EmptySeq
  <2>2. 1 \in 1..(Len(q) - (n + 1) + 1) /\ (n + 1) + 1 - 1 = n + 1
    BY <1>1, <1>2, <2>1
  <2>3. r[1] = q[n + 1]
    BY <1>4, <2>2
  <2>4. Head(r) = r[1]
    BY <1>4, <1>9
  <2> QED BY <1>2, <2>1, <2>3, <2>4
<1>10. n \in Nat /\ a \in Seq(Messages) /\ r \in Seq(Messages)
  BY <1>1, <1>2, <1>3, <1>4
<1> QED BY ONLY <1>5, <1>7, <1>8, <1>9, <1>10 DEF Splits

(* Cumulative settlement once the batch of lane l is gone, or before it    *)
(* has one: the other batches are those of rest, and the queue of l has    *)
(* not been cut.                                                           *)
Uncut(l, rest) ==
  /\ \A i \in DOMAIN rest : rest[i].lane # l
  /\ \A i, j \in DOMAIN rest : rest[i].lane = rest[j].lane => i = j
  /\ \A x \in Lanes \ {l} : laneSettling[x] <=> \E i \in DOMAIN rest : rest[i].lane = x
  /\ \A x \in Lanes :
       /\ Distinct(laneQueue[x])
       /\ \A m \in ToSet(laneQueue[x]) : LaneOf[m] = x /\ m \in Tracked'
       /\ \A i \in DOMAIN rest : ToSet(rest[i].entries) \cap ToSet(laneQueue[x]) = {}
  /\ \A x \in Lanes \ {l} :
       ~laneSettling[x] /\ laneQueue[x] # <<>> => st'[Head(laneQueue[x])] # "terminal"
  /\ \A m \in Messages : st'[m] = "terminal" =>
       \/ m \in ToSet(laneQueue[LaneOf[m]])
       \/ \E i \in DOMAIN rest : m \in ToSet(rest[i].entries)
  /\ settle' = "ok" => rest # <<>>
  /\ \A i \in DOMAIN rest : ~(i = 1 /\ settle' = "ok") =>
       tokens[rest[i].lane] =
         rest[i].entries \o (laneQueue[rest[i].lane] \o OfLane(batch, rest[i].lane))
  /\ \A x \in Lanes :
       (\A i \in DOMAIN rest : rest[i].lane = x => i = 1 /\ settle' = "ok")
         => tokens[x] = laneQueue[x] \o OfLane(batch, x)

(* The terminal prefix a of lane l's queue has become the last batch, and  *)
(* r is left of the queue.                                                 *)
Cut(l, rest, a, r) ==
  /\ a \in Seq(Messages) /\ r \in Seq(Messages)
  /\ laneQueue[l] = a \o r
  /\ \A m \in ToSet(a) : st'[m] = "terminal"
  /\ r # <<>> => st'[Head(r)] # "terminal"
  /\ laneQueue' = [laneQueue EXCEPT ![l] = r]
  /\ laneSettling' \in [Lanes -> BOOLEAN] /\ (laneSettling'[l] <=> a # <<>>)
  /\ \A x \in Lanes \ {l} : laneSettling'[x] = laneSettling[x]
  /\ settleQueue' = IF a = <<>> THEN rest ELSE Append(rest, [lane |-> l, entries |-> a])

LEMMA PrefixCut ==
  ASSUME NEW l \in Lanes, NEW rest, NEW s, QueueCumulativePrefix(l, s, rest),
         laneQueue \in [Lanes -> Seq(Messages)], laneSettling \in [Lanes -> BOOLEAN],
         \A m \in ToSet(laneQueue[l]) : s[m] = st'[m]
  PROVE  \E a, r : Cut(l, rest, a, r)
<1> SUFFICES ASSUME NEW q \in Seq(Messages), q = laneQueue[l],
                    NEW n, n = TerminalPrefix(q, s),
                    NEW a, a = SubSeq(q, 1, n), NEW r, r = SubSeq(q, n + 1, Len(q))
             PROVE  \E d, e : Cut(l, rest, d, e)
  OBVIOUS
<1>2. laneQueue' = [laneQueue EXCEPT ![l] = r] /\ laneSettling' = [laneSettling EXCEPT ![l] = n > 0]
      /\ settleQueue' = IF n = 0 THEN rest ELSE Append(rest, [lane |-> l, entries |-> a])
  BY DEF QueueCumulativePrefix
<1>3. Splits(q, s, n, a, r)
  BY SplitQueue
<1>4. ToSet(a) \subseteq ToSet(q) /\ ToSet(r) \subseteq ToSet(q)
  BY ONLY <1>3, ConcatOrder DEF Splits
<1>5. r # <<>> => Head(r) \in ToSet(q)
  BY ONLY <1>3, <1>4, SetOfSeq DEF Splits
<1>6. \A m \in ToSet(q) : s[m] = st'[m]
  OBVIOUS
<1>7. /\ n = 0 <=> a = <<>>
      /\ n > 0 <=> a # <<>>
  BY ONLY <1>3 DEF Splits
<1>8. Cut(l, rest, a, r)
  <2>1. laneQueue[l] = a \o r
    BY <1>3 DEF Splits
  <2>2. laneSettling' \in [Lanes -> BOOLEAN] /\ (laneSettling'[l] <=> a # <<>>)
        /\ \A x \in Lanes \ {l} : laneSettling'[x] = laneSettling[x]
    <3> DEFINE v == n > 0
    <3>1. v \in BOOLEAN
      OBVIOUS
    <3>2. laneSettling' = [laneSettling EXCEPT ![l] = v]
      BY <1>2
    <3>3. v <=> a # <<>>
      BY <1>7
    <3> HIDE DEF v
    <3> QED BY <3>1, <3>2, <3>3
  <2> QED BY ONLY <1>2, <1>3, <1>4, <1>5, <1>6, <1>7, <2>1, <2>2 DEF Cut, Splits
<1> QED BY <1>8

LEMMA CutIndexes ==
  ASSUME NEW l \in Lanes, NEW rest \in Seq(Batches), NEW a, NEW r, Cut(l, rest, a, r)
  PROVE  /\ settleQueue' \in Seq(Batches)
         /\ \A i \in DOMAIN rest : i \in DOMAIN settleQueue' /\ settleQueue'[i] = rest[i]
         /\ \A i \in DOMAIN settleQueue' : i \in DOMAIN rest \/ (a # <<>> /\ i = Len(rest) + 1)
         /\ a # <<>> => /\ Len(rest) + 1 \in DOMAIN settleQueue' /\ Len(rest) + 1 \notin DOMAIN rest
                        /\ settleQueue'[Len(rest) + 1].lane = l
                        /\ settleQueue'[Len(rest) + 1].entries = a
         /\ rest # <<>> => Len(rest) + 1 # 1 /\ settleQueue' # <<>>
                           /\ Head(settleQueue') = Head(rest)
<1> DEFINE b == [lane |-> l, entries |-> a]
<1>1. b \in Batches /\ b.lane = l /\ b.entries = a
  BY DEF Batches, Cut
<1>2. settleQueue' = IF a = <<>> THEN rest ELSE Append(rest, b)
  BY DEF Cut
<1> HIDE DEF b
<1>3. rest # <<>> => Len(rest) + 1 # 1
  BY <1>1, AppendIndexes
<1>4. CASE a = <<>>
  BY <1>2, <1>3, <1>4
<1>5. CASE a # <<>>
  <2>1. settleQueue' = Append(rest, b)
    BY <1>2, <1>5
  <2> DEFINE p == Append(rest, b)
  <2>2. /\ p \in Seq(Batches) /\ p # <<>>
        /\ Len(rest) + 1 \in DOMAIN p /\ p[Len(rest) + 1] = b /\ Len(rest) + 1 \notin DOMAIN rest
        /\ \A i \in DOMAIN rest : i \in DOMAIN p /\ p[i] = rest[i]
        /\ \A i \in DOMAIN p : i \in DOMAIN rest \/ i = Len(rest) + 1
        /\ rest # <<>> => Head(p) = Head(rest)
    BY <1>1, AppendIndexes
  <2> HIDE DEF p
  <2>3. settleQueue' = p
    BY <2>1 DEF p
  <2> QED BY <1>1, <1>3, <1>5, <2>2, <2>3
<1> QED BY <1>4, <1>5

LEMMA CutLanes ==
  ASSUME NEW l \in Lanes, NEW rest \in Seq(Batches), NEW a, NEW r, Cut(l, rest, a, r),
         laneQueue \in [Lanes -> Seq(Messages)], laneSettling \in [Lanes -> BOOLEAN],
         batch \in Seq(Messages), UNCHANGED <<tokens, batch>>, Uncut(l, rest)
  PROVE  SettlingLanes' /\ QueuedEntries' /\ TerminalEntries' /\ TokensSplit'
<1>1. /\ \A i \in DOMAIN rest : i \in DOMAIN settleQueue' /\ settleQueue'[i] = rest[i]
      /\ \A i \in DOMAIN settleQueue' : i \in DOMAIN rest \/ (a # <<>> /\ i = Len(rest) + 1)
      /\ a # <<>> => /\ Len(rest) + 1 \in DOMAIN settleQueue' /\ Len(rest) + 1 \notin DOMAIN rest
                     /\ settleQueue'[Len(rest) + 1].lane = l
                     /\ settleQueue'[Len(rest) + 1].entries = a
      /\ settle' = "ok" => Len(rest) + 1 # 1
  BY CutIndexes DEF Uncut
<1>2. /\ laneQueue'[l] = r /\ \A x \in Lanes \ {l} : laneQueue'[x] = laneQueue[x]
      /\ laneSettling'[l] <=> a # <<>>
      /\ \A x \in Lanes \ {l} : laneSettling'[x] = laneSettling[x]
  BY DEF Cut
<1>3. /\ a \in Seq(Messages) /\ r \in Seq(Messages) /\ laneQueue[l] = a \o r
      /\ ToSet(laneQueue[l]) = ToSet(a) \cup ToSet(r)
      /\ Distinct(a) /\ Distinct(r) /\ ToSet(a) \cap ToSet(r) = {}
  <2>1. a \in Seq(Messages) /\ r \in Seq(Messages) /\ laneQueue[l] = a \o r
    BY DEF Cut
  <2>2. Distinct(laneQueue[l])
    BY DEF Uncut
  <2> QED BY <2>1, <2>2, ConcatOrder
<1>4. SettlingLanes'
  <2>1. \A x \in Lanes : laneSettling'[x] <=> \E i \in DOMAIN settleQueue' : settleQueue'[i].lane = x
    <3> SUFFICES ASSUME NEW x \in Lanes
                 PROVE  laneSettling'[x] <=> \E i \in DOMAIN settleQueue' : settleQueue'[i].lane = x
      OBVIOUS
    <3>1. CASE x = l
      BY <1>1, <1>2, <3>1 DEF Uncut
    <3>2. CASE x # l
      <4>1. laneSettling'[x] <=> \E i \in DOMAIN rest : rest[i].lane = x
        BY <1>2, <3>2 DEF Uncut
      <4> QED BY <1>1, <3>2, <4>1
    <3> QED BY <3>1, <3>2
  <2>2. \A i, j \in DOMAIN settleQueue' : settleQueue'[i].lane = settleQueue'[j].lane => i = j
    BY <1>1 DEF Uncut
  <2> QED BY <2>1, <2>2 DEF SettlingLanes
<1>5. QueuedEntries'
  <2> SUFFICES ASSUME NEW x \in Lanes
               PROVE  /\ Distinct(laneQueue'[x])
                      /\ \A m \in ToSet(laneQueue'[x]) : LaneOf[m] = x /\ m \in Tracked'
                      /\ \A i \in DOMAIN settleQueue' :
                           ToSet(settleQueue'[i].entries) \cap ToSet(laneQueue'[x]) = {}
                      /\ ~laneSettling'[x] /\ laneQueue'[x] # <<>>
                           => st'[Head(laneQueue'[x])] # "terminal"
    BY DEF QueuedEntries, Receipted
  <2>1. /\ Distinct(laneQueue[x])
        /\ \A m \in ToSet(laneQueue[x]) : LaneOf[m] = x /\ m \in Tracked'
        /\ \A i \in DOMAIN rest : ToSet(rest[i].entries) \cap ToSet(laneQueue[x]) = {}
    BY DEF Uncut
  <2>2. \A m \in ToSet(laneQueue[l]) : LaneOf[m] = l
    BY DEF Uncut
  <2>3. CASE x = l
    <3>1. r # <<>> => st'[Head(r)] # "terminal"
      BY DEF Cut
    <3>2. laneQueue'[x] = r /\ Distinct(r)
      BY <1>2, <1>3, <2>3
    <3>3. \A m \in ToSet(r) : LaneOf[m] = x /\ m \in Tracked'
      BY <1>3, <2>1, <2>3
    <3>4. \A i \in DOMAIN settleQueue' : ToSet(settleQueue'[i].entries) \cap ToSet(r) = {}
      BY <1>1, <1>3, <2>1, <2>3
    <3> QED BY <3>1, <3>2, <3>3, <3>4
  <2>4. CASE x # l
    <3>1. laneQueue'[x] = laneQueue[x] /\ laneSettling'[x] = laneSettling[x]
      BY <1>2, <2>4
    <3>2. ToSet(a) \cap ToSet(laneQueue[x]) = {}
      BY <1>3, <2>1, <2>2, <2>4
    <3>3. ~laneSettling[x] /\ laneQueue[x] # <<>> => st'[Head(laneQueue[x])] # "terminal"
      BY <2>4 DEF Uncut
    <3> QED BY <1>1, <2>1, <3>1, <3>2, <3>3
  <2> QED BY <2>3, <2>4
<1>6. TerminalEntries'
  <2> SUFFICES ASSUME NEW m \in Messages, st'[m] = "terminal"
               PROVE  \/ m \in ToSet(laneQueue'[LaneOf[m]])
                      \/ \E i \in DOMAIN settleQueue' : m \in ToSet(settleQueue'[i].entries)
    BY DEF TerminalEntries, Receipted
  <2>1. \/ m \in ToSet(laneQueue[LaneOf[m]])
        \/ \E i \in DOMAIN rest : m \in ToSet(rest[i].entries)
    BY DEF Uncut
  <2>2. LaneOf[m] \in Lanes
    BY LaneFacts
  <2>3. m \in ToSet(a) => a # <<>>
    BY <1>3, EmptyFacts
  <2>4. CASE LaneOf[m] = l
    BY <1>1, <1>2, <1>3, <2>1, <2>3, <2>4
  <2>5. CASE LaneOf[m] # l
    BY <1>1, <1>2, <2>1, <2>2, <2>5
  <2> QED BY <2>4, <2>5
<1>7. TokensSplit'
  <2> DEFINE ok == settle' = "ok"
  <2>1. ASSUME NEW i \in DOMAIN settleQueue', ~(i = 1 /\ settle' = "ok")
        PROVE  tokens[settleQueue'[i].lane] =
                 settleQueue'[i].entries \o
                   (laneQueue'[settleQueue'[i].lane] \o OfLane(batch, settleQueue'[i].lane))
    <3>1. CASE i \in DOMAIN rest
      <4>1. settleQueue'[i] = rest[i] /\ rest[i].lane # l /\ rest[i].lane \in Lanes
        <5>1. rest[i] \in Batches
          BY <3>1, ElementOfSeq, LenProperties
        <5> QED BY <1>1, <3>1, <5>1 DEF Uncut, Batches
      <4>2. tokens[rest[i].lane] =
              rest[i].entries \o (laneQueue[rest[i].lane] \o OfLane(batch, rest[i].lane))
        BY <2>1, <3>1 DEF Uncut
      <4> QED BY <1>2, <4>1, <4>2
    <3>2. CASE i \notin DOMAIN rest
      <4>1. settleQueue'[i].lane = l /\ settleQueue'[i].entries = a
        BY <1>1, <3>2
      <4>2. tokens[l] = (a \o r) \o OfLane(batch, l)
        BY <1>3 DEF Uncut
      <4>3. OfLane(batch, l) \in Seq(Messages)
        BY OfLaneFacts
      <4>4. (a \o r) \o OfLane(batch, l) = a \o (r \o OfLane(batch, l))
        BY ONLY <1>3, <4>3, ConcatAssociative
      <4> QED BY <1>2, <4>1, <4>2, <4>4
    <3> QED BY <3>1, <3>2
  <2>2. ASSUME NEW x \in Lanes,
               \A i \in DOMAIN settleQueue' : settleQueue'[i].lane = x => i = 1 /\ settle' = "ok"
        PROVE  tokens[x] = laneQueue'[x] \o OfLane(batch, x)
    <3>1. \A i \in DOMAIN rest : rest[i].lane = x => i = 1 /\ settle' = "ok"
      BY <1>1, <2>2
    <3>2. tokens[x] = laneQueue[x] \o OfLane(batch, x)
      BY <3>1 DEF Uncut
    <3>3. CASE x = l
      <4>1. a = <<>>
        BY <1>1, <2>2, <3>3
      <4>2. a \o r = r
        BY <1>3, <4>1, ConcatEmptySeq
      <4> QED BY <1>2, <1>3, <3>2, <3>3, <4>2
    <3>4. CASE x # l
      BY <1>2, <3>2, <3>4
    <3> QED BY <3>3, <3>4
  <2>3. tokens' = tokens /\ batch' = batch
    OBVIOUS
  <2> QED BY <2>1, <2>2, <2>3 DEF TokensSplit, Answered
<1> QED BY <1>4, <1>5, <1>6, <1>7

LEMMA CutBatched ==
  ASSUME NEW l \in Lanes, NEW rest \in Seq(Batches), NEW a, NEW r, Cut(l, rest, a, r),
         Uncut(l, rest), Batched(rest, st')
  PROVE  Batched(settleQueue', st')
<1> DEFINE b == [lane |-> l, entries |-> a]
<1>1. b \in Batches /\ b.lane = l /\ b.entries = a
  BY DEF Batches, Cut
<1>2. settleQueue' = IF a = <<>> THEN rest ELSE Append(rest, b)
  BY DEF Cut
<1> HIDE DEF b
<1>3. /\ a \in Seq(Messages) /\ r \in Seq(Messages) /\ laneQueue[l] = a \o r
      /\ ToSet(laneQueue[l]) = ToSet(a) \cup ToSet(r) /\ Distinct(a)
  <2>1. a \in Seq(Messages) /\ r \in Seq(Messages) /\ laneQueue[l] = a \o r
    BY DEF Cut
  <2>2. Distinct(laneQueue[l])
    BY DEF Uncut
  <2> QED BY <2>1, <2>2, ConcatOrder
<1>4. \A m \in ToSet(a) : st'[m] = "terminal" /\ LaneOf[m] = l
  BY <1>3 DEF Cut, Uncut
<1>5. \A i \in DOMAIN rest : ToSet(rest[i].entries) \cap ToSet(a) = {}
  BY <1>3 DEF Uncut
<1>6. CASE a = <<>>
  BY <1>2, <1>6
<1>7. CASE a # <<>>
  <2> SUFFICES ASSUME NEW s, s = st' PROVE Batched(Append(rest, b), s)
    BY <1>2, <1>7
  <2> QED BY <1>1, <1>3, <1>4, <1>5, <1>7, BatchedAppend
<1> QED BY <1>6, <1>7

-----------------------------------------------------------------------------
(* A delivery is completed. *)

(* m has become terminal, and those of S, the head of its key's queue or   *)
(* nobody, are handed to the workers.                                      *)
Finishes(m, S) ==
  /\ m \in Messages /\ m \notin S /\ st[m] = "gotDone"
  /\ \/ S = {} /\ waiting' = waiting
        /\ (KeyOf[m] # NoKey /\ waiting[KeyOf[m]] # <<>> => blocked[LaneOf[Head(waiting[KeyOf[m]])]])
     \/ /\ KeyOf[m] # NoKey /\ KeyOf[m] \in Keys /\ waiting[KeyOf[m]] # <<>>
        /\ S = {Head(waiting[KeyOf[m]])}
        /\ waiting' = [waiting EXCEPT ![KeyOf[m]] = Tail(@)]
  /\ S \subseteq Messages
  /\ \A n \in S : st[n] = "waiting" /\ KeyOf[n] = KeyOf[m] /\ KeyOf[m] # NoKey
  /\ activeKeys' = {k \in activeKeys : k = KeyOf[m] => waiting[k] # <<>>}
  /\ st' \in [Messages -> DeliveryStates]
  /\ st'[m] = "terminal" /\ \A n \in S : st'[n] = "job"
  /\ \A n \in Messages : n # m /\ n \notin S => st'[n] = st[n]
  /\ workCount' = workCount - 1 + Cardinality(S)
  /\ UNCHANGED <<mode, confirmed, fetched, tokens, attempt, blocked, laneInflight,
                 inflight, settle, receive, limit, batch, later, passed,
                 shuttingDown, handled, faults>>
  /\ at' = "top"

LEMMA HandleDoneFinishes ==
  ASSUME TypeOK, Queues, NEW m \in Messages, HandleDone(m)
  PROVE  Finishes(m, Successor(m))
<1> DEFINE k == KeyOf[m]  S == Successor(m)
<1>1. \A x \in Keys : waiting[x] \in Seq(Messages)
        /\ (waiting[x] # <<>> => Head(waiting[x]) \in ToSet(waiting[x])
                                 /\ Head(waiting[x]) \in Messages)
  BY SetOfSeq DEF TypeOK
<1>2. k # NoKey => k \in Keys
  BY KeyFacts
<1>3. waiting \in [Keys -> Seq(Messages)]
  BY DEF TypeOK
<1>4. waiting' = [x \in Keys |-> IF x = k /\ S # {} THEN Tail(waiting[x]) ELSE waiting[x]]
      /\ activeKeys' = {x \in activeKeys : x = k => waiting[x] # <<>>}
  BY DEF HandleDone, ReleaseOrderKey
<1>5. \/ /\ S = {} /\ (k # NoKey /\ waiting[k] # <<>> => blocked[LaneOf[Head(waiting[k])]])
      \/ k # NoKey /\ k \in Keys /\ waiting[k] # <<>> /\ S = {Head(waiting[k])}
  BY <1>1, <1>2 DEF Successor
<1>6. S = {} => waiting' = waiting
  BY <1>3, <1>4
<1>7. S # {} => waiting' = [waiting EXCEPT ![k] = Tail(@)]
  BY <1>3, <1>4
<1>8. S \subseteq Messages /\ \A n \in S : st[n] = "waiting" /\ KeyOf[n] = k /\ k # NoKey
  BY <1>1, <1>5 DEF Queues, KeyQueues, Successor
<1>9. st[m] = "gotDone" /\ m \notin S
  BY <1>8 DEF HandleDone
<1>10. /\ st' = [n \in Messages |-> IF n = m THEN "terminal" ELSE IF n \in S THEN "job" ELSE st[n]]
       /\ workCount' = workCount - 1 + Cardinality(S)
  BY DEF HandleDone
<1>11. /\ UNCHANGED <<mode, confirmed, fetched, tokens, attempt, blocked, laneInflight,
                      inflight, settle, receive, limit, batch, later, passed,
                      shuttingDown, handled, faults>>
       /\ at' = "top"
  BY DEF HandleDone, brokerVars, sessionVars, windowVars, receiveVars, timerVars
<1>12. st' \in [Messages -> DeliveryStates]
  BY <1>10 DEF TypeOK, DeliveryStates, AtWorker
<1> HIDE DEF S, k
<1>13. /\ st'[m] = "terminal" /\ \A n \in S : st'[n] = "job"
       /\ \A n \in Messages : n # m /\ n \notin S => st'[n] = st[n]
  BY <1>8, <1>9, <1>10
<1>14. \/ S = {} /\ waiting' = waiting
          /\ (k # NoKey /\ waiting[k] # <<>> => blocked[LaneOf[Head(waiting[k])]])
       \/ /\ k # NoKey /\ k \in Keys /\ waiting[k] # <<>>
          /\ S = {Head(waiting[k])}
          /\ waiting' = [waiting EXCEPT ![k] = Tail(@)]
  <2>1. CASE S = {}
    BY <1>5, <1>6, <2>1
  <2>2. CASE S # {}
    BY <1>5, <1>7, <2>2
  <2> QED BY <2>1, <2>2
<1>15. Finishes(m, S)
  BY ONLY m \in Messages, <1>4, <1>8, <1>9, <1>10, <1>11, <1>12, <1>13, <1>14 DEF Finishes, k
<1> QED BY <1>15 DEF S

(* The deliveries' states after m has finished. *)
LEMMA FinishesStates ==
  ASSUME TypeOK, Queues, NEW m, NEW S, Finishes(m, S)
  PROVE  /\ Tracked' = Tracked
         /\ \A n \in Messages : st'[n] \in Begun <=> n \in S \/ (n # m /\ st[n] \in Begun)
         /\ \A n \in Messages : st'[n] = "terminal" <=> n = m \/ st[n] = "terminal"
         /\ \A n \in Messages : st'[n] = "waiting" <=> st[n] = "waiting" /\ n \notin S
         /\ \A n \in Messages : \A x \in {"away", "held", "retry", "settled"} :
              st'[n] = x <=> st[n] = x
         /\ \A n \in Messages : SameKey(m, n) => st[n] \notin Begun
<1>1. ASSUME NEW n \in Messages
      PROVE  \/ n = m /\ n \notin S /\ st[n] = "gotDone" /\ st'[n] = "terminal"
             \/ n # m /\ n \in S /\ st[n] = "waiting" /\ st'[n] = "job"
             \/ n # m /\ n \notin S /\ st'[n] = st[n]
  BY DEF Finishes
<1>2. "job" \in Begun /\ "gotDone" \in Begun /\ "waiting" \notin Begun /\ "terminal" \notin Begun
  BY BegunFacts
<1>3. Tracked' = Tracked
  BY <1>1 DEF Tracked
<1>4. \A n \in Messages : st'[n] \in Begun <=> n \in S \/ (n # m /\ st[n] \in Begun)
  BY <1>1, <1>2
<1>5. \A n \in Messages : st'[n] = "terminal" <=> n = m \/ st[n] = "terminal"
  BY <1>1
<1>6. \A n \in Messages : st'[n] = "waiting" <=> st[n] = "waiting" /\ n \notin S
  BY <1>1
<1>7. \A n \in Messages : \A x \in {"away", "held", "retry", "settled"} : st'[n] = x <=> st[n] = x
  BY <1>1
<1>8. \A n \in Messages : SameKey(m, n) => st[n] \notin Begun
  BY <1>2 DEF Finishes, Queues, KeySerial
<1> QED BY <1>3, <1>4, <1>5, <1>6, <1>7, <1>8

LEMMA FinishesWaiting ==
  ASSUME TypeOK, Queues, NEW m, NEW S, Finishes(m, S)
  PROVE  \A k \in Keys :
           /\ waiting'[k] \in Seq(Messages) /\ Distinct(waiting'[k])
           /\ ToSet(waiting'[k]) = ToSet(waiting[k]) \ S
           /\ \A x, y : Before(waiting[k], x, y) /\ x \notin S => Before(waiting'[k], x, y)
           /\ k # KeyOf[m] => waiting'[k] = waiting[k]
<1> SUFFICES ASSUME NEW k \in Keys
             PROVE  /\ waiting'[k] \in Seq(Messages) /\ Distinct(waiting'[k])
                    /\ ToSet(waiting'[k]) = ToSet(waiting[k]) \ S
                    /\ \A x, y : Before(waiting[k], x, y) /\ x \notin S => Before(waiting'[k], x, y)
                    /\ k # KeyOf[m] => waiting'[k] = waiting[k]
  OBVIOUS
<1>1. waiting \in [Keys -> Seq(Messages)] /\ Distinct(waiting[k])
      /\ \A n \in ToSet(waiting[k]) : KeyOf[n] = k
  BY DEF TypeOK, Queues, KeyQueues
<1>2. CASE S = {}
  <2>1. waiting' = waiting
    BY <1>2 DEF Finishes
  <2> QED BY <1>1, <1>2, <2>1
<1>3. CASE S # {} /\ k # KeyOf[m]
  <2>1. waiting'[k] = waiting[k]
    BY <1>1, <1>3 DEF Finishes
  <2>2. \A n \in S : KeyOf[n] # k
    BY <1>3 DEF Finishes
  <2>3. ToSet(waiting[k]) \ S = ToSet(waiting[k])
    BY <1>1, <2>2
  <2> QED BY <1>1, <2>1, <2>3
<1>4. CASE S # {} /\ k = KeyOf[m]
  <2>1. waiting[k] # <<>> /\ S = {Head(waiting[k])} /\ waiting'[k] = Tail(waiting[k])
    BY <1>1, <1>4 DEF Finishes
  <2> SUFFICES ASSUME NEW w \in Seq(Messages), w = waiting[k]
               PROVE  /\ Tail(w) \in Seq(Messages) /\ Distinct(Tail(w))
                      /\ ToSet(Tail(w)) = ToSet(w) \ {Head(w)}
                      /\ \A x, y : Before(w, x, y) /\ x # Head(w) => Before(Tail(w), x, y)
    BY <1>1, <1>4, <2>1
  <2>2. w # <<>> /\ Distinct(w)
    BY <1>1, <2>1
  <2>3. Tail(w) \in Seq(Messages)
    BY <2>2, HeadTailProperties
  <2>4. /\ ToSet(w) = {Head(w)} \cup ToSet(Tail(w))
        /\ \A x, y : Before(w, x, y)
                        <=> Before(Tail(w), x, y) \/ (x = Head(w) /\ y \in ToSet(Tail(w)))
        /\ Distinct(Tail(w)) /\ Head(w) \notin ToSet(Tail(w))
    BY <2>2, HeadTailOrder
  <2> QED BY <2>3, <2>4
<1> QED BY <1>2, <1>3, <1>4

LEMMA FinishesKeys ==
  ASSUME TypeOK, Queues, NEW m, NEW S, Finishes(m, S)
  PROVE  KeyQueues' /\ KeySerial' /\ activeKeys' \subseteq Keys
<1> DEFINE k == KeyOf[m]
<1>1. /\ \A n \in Messages : st'[n] \in Begun <=> n \in S \/ (n # m /\ st[n] \in Begun)
      /\ \A n \in Messages : st'[n] = "waiting" <=> st[n] = "waiting" /\ n \notin S
      /\ \A n \in Messages : st'[n] = "held" <=> st[n] = "held"
      /\ \A n \in Messages : SameKey(m, n) => st[n] \notin Begun
  BY FinishesStates
<1>2. \A x \in Keys : /\ waiting'[x] \in Seq(Messages) /\ Distinct(waiting'[x])
                      /\ ToSet(waiting'[x]) = ToSet(waiting[x]) \ S
                      /\ x # k => waiting'[x] = waiting[x]
  BY FinishesWaiting
<1>3. /\ m \in Messages /\ S \subseteq Messages /\ st[m] = "gotDone" /\ blocked' = blocked
      /\ \A n \in S : st[n] = "waiting" /\ KeyOf[n] = k /\ k # NoKey
      /\ \A x, y \in S : x = y
      /\ activeKeys' = {x \in activeKeys : x = k => waiting[x] # <<>>}
  BY DEF Finishes
<1>4. \A x \in Keys : ToSet(waiting[x]) \subseteq Messages /\ (ToSet(waiting[x]) # {} => waiting[x] # <<>>)
  <2>1. \A x \in Keys : waiting[x] \in Seq(Messages)
    BY DEF TypeOK
  <2> QED BY <2>1, SetOfSeq
<1>5. activeKeys \subseteq Keys
  BY DEF TypeOK
<1>6. \A x \in Keys : \A n \in ToSet(waiting'[x]) : KeyOf[n] = x /\ st'[n] = "waiting"
  BY <1>1, <1>2, <1>4 DEF Queues, KeyQueues
<1>7. \A n \in Messages : st'[n] = "waiting" => KeyOf[n] # NoKey /\ n \in ToSet(waiting'[KeyOf[n]])
  <2>1. \A n \in Messages : st[n] = "waiting" =>
          KeyOf[n] # NoKey /\ KeyOf[n] \in Keys /\ n \in ToSet(waiting[KeyOf[n]])
    BY KeyFacts DEF Queues, KeyQueues
  <2> QED BY <1>1, <1>2, <2>1
<1>8. ASSUME NEW n \in Messages, KeyOf[n] # NoKey, st'[n] \in Begun \cup {"waiting"}
      PROVE  KeyOf[n] \in activeKeys'
  <2>1. KeyOf[n] \in activeKeys
    <3>1. st[n] \in Begun \cup {"waiting"}
      BY <1>1, <1>3, <1>8
    <3> QED BY <1>8, <3>1 DEF Queues, KeyQueues
  <2>2. ASSUME KeyOf[n] = k PROVE waiting[k] # <<>>
    <3>1. st[n] = "waiting"
      <4>1. n = m => n \in S
        BY <1>1, <1>3, <1>8, BegunFacts
      <4>2. n # m => SameKey(m, n)
        BY <1>8, <2>2 DEF SameKey
      <4> QED BY <1>1, <1>3, <1>8, <4>1, <4>2
    <3>2. n \in ToSet(waiting[k]) /\ k \in Keys
      BY <1>8, <2>2, <3>1, KeyFacts DEF Queues, KeyQueues
    <3> QED BY <1>4, <3>2
  <2> QED BY <1>3, <2>1, <2>2
<1>9. ASSUME NEW x \in activeKeys'
      PROVE  \/ \E n \in Messages : KeyOf[n] = x /\ st'[n] \in Begun
             \/ waiting'[x] # <<>> /\ blocked'[LaneOf[Head(waiting'[x])]]
  <2>1. x \in activeKeys /\ x \in Keys /\ (x = k => waiting[x] # <<>>)
    BY <1>3, <1>5, <1>9
  <2>2. CASE x = k /\ S = {}
    <3>1. waiting' = waiting /\ x # NoKey /\ blocked[LaneOf[Head(waiting[x])]]
      BY <2>1, <2>2, MessagesType DEF Finishes
    <3> QED BY <1>3, <2>1, <2>2, <3>1
  <2>3. CASE x = k /\ S # {}
    BY <1>1, <1>3, <2>3
  <2>4. CASE x # k
    <3>1. waiting'[x] = waiting[x]
      BY <1>2, <2>1, <2>4
    <3>2. \A n \in Messages : KeyOf[n] = x /\ st[n] \in Begun => st'[n] \in Begun
      BY <1>1, <2>4
    <3>3. \/ \E n \in Messages : KeyOf[n] = x /\ st[n] \in Begun
          \/ waiting[x] # <<>> /\ blocked[LaneOf[Head(waiting[x])]]
      BY <2>1 DEF Queues, KeyQueues
    <3> QED BY <1>3, <3>1, <3>2, <3>3
  <2> QED BY <2>2, <2>3, <2>4
<1>10. \A n \in Messages : st'[n] = "held" => blocked'[LaneOf[n]]
  BY <1>1, <1>3 DEF Queues, KeyQueues
<1>11. KeyQueues'
  BY <1>2, <1>6, <1>7, <1>8, <1>9, <1>10 DEF KeyQueues
<1>12. KeySerial'
  <2> SUFFICES ASSUME NEW x \in Messages, NEW y \in Messages, SameKey(x, y),
                      st'[x] \in Begun, st'[y] \in Begun
               PROVE  FALSE
    BY DEF KeySerial, SameKey
  <2>1. x # y /\ KeyOf[x] = KeyOf[y] /\ KeyOf[x] # NoKey
    BY DEF SameKey
  <2>2. \A n \in {x, y} : KeyOf[n] = k /\ n \notin S => FALSE
    <3> SUFFICES ASSUME NEW n \in {x, y}, KeyOf[n] = k, n \notin S PROVE FALSE
      OBVIOUS
    <3>1. n # m /\ st[n] \in Begun
      BY <1>1
    <3> QED BY <1>1, <2>1, <3>1 DEF SameKey
  <2>3. x \notin S /\ y \notin S
    BY <1>3, <2>1, <2>2
  <2>4. st[x] \in Begun /\ st[y] \in Begun
    BY <1>1, <2>3
  <2> QED BY <2>4 DEF Queues, KeySerial
<1> QED BY <1>3, <1>5, <1>11, <1>12

LEMMA FinishesRanks ==
  ASSUME TypeOK, Queues, NEW m, NEW S, Finishes(m, S)
  PROVE  KeyRanks'
<1>1. /\ \A n \in Messages : st'[n] \in Begun <=> n \in S \/ (n # m /\ st[n] \in Begun)
      /\ \A n \in Messages : st'[n] = "terminal" <=> n = m \/ st[n] = "terminal"
      /\ \A n \in Messages : st'[n] = "waiting" <=> st[n] = "waiting" /\ n \notin S
      /\ \A n \in Messages : \A x \in {"away", "held", "settled"} : st'[n] = x <=> st[n] = x
      /\ \A n \in Messages : SameKey(m, n) => st[n] \notin Begun
  BY FinishesStates
<1>2. \A k \in Keys : \A x, y : Before(waiting[k], x, y) /\ x \notin S => Before(waiting'[k], x, y)
  BY FinishesWaiting
<1>3. /\ tokens' = tokens /\ m \in Messages /\ S \subseteq Messages /\ st[m] \in Begun
      /\ \A n \in S : st[n] = "waiting" /\ KeyOf[n] = KeyOf[m] /\ KeyOf[m] # NoKey
  BY BegunFacts DEF Finishes
<1> SUFFICES ASSUME NEW l \in Lanes, NEW x \in Messages, NEW y \in Messages,
                    Before(tokens[l], x, y), SameKey(x, y)
             PROVE  /\ st'[y] \in Begun \cup {"terminal"} => st'[x] \in {"terminal", "settled"}
                    /\ st'[y] = "waiting" => st'[x] # "held"
                    /\ st'[y] = "waiting" /\ st'[x] = "waiting" => Before(waiting'[KeyOf[x]], x, y)
  BY <1>3 DEF KeyRanks, SameKey
<1>4. /\ st[y] \in Begun \cup {"terminal"} => st[x] \in {"terminal", "settled"}
      /\ st[y] = "waiting" => st[x] # "held"
      /\ st[y] = "waiting" /\ st[x] = "waiting" => Before(waiting[KeyOf[x]], x, y)
  BY DEF Queues, KeyRanks
<1>5. x # y /\ KeyOf[x] = KeyOf[y] /\ KeyOf[x] # NoKey /\ KeyOf[x] \in Keys
  BY KeyFacts DEF SameKey
<1>6. ASSUME y \in S, x # m PROVE st[x] \in {"terminal", "settled"}
  <2>1. st[y] = "waiting" /\ KeyOf[y] = KeyOf[m] /\ SameKey(m, x)
    BY <1>3, <1>5, <1>6 DEF SameKey
  <2>2. st[x] # "held" /\ st[x] \notin Begun
    BY <1>1, <1>4, <2>1
  <2>3. st[x] # "waiting"
    <3> SUFFICES ASSUME st[x] = "waiting" PROVE FALSE
      OBVIOUS
    <3> DEFINE w == waiting[KeyOf[x]]
    <3>1. Before(w, x, y) /\ w \in Seq(Messages) /\ Distinct(w)
      BY <1>4, <1>5, <2>1 DEF TypeOK, Queues, KeyQueues
    <3>2. y = Head(w) /\ w # <<>>
      BY <1>5, <1>6, <2>1 DEF Finishes
    <3> HIDE DEF w
    <3>3. Before(w, y, x)
      <4>1. /\ ToSet(w) = {Head(w)} \cup ToSet(Tail(w))
            /\ \A i, j : Before(w, i, j)
                        <=> Before(Tail(w), i, j) \/ (i = Head(w) /\ j \in ToSet(Tail(w)))
        BY <3>1, <3>2, HeadTailOrder
      <4>2. x \in ToSet(w)
        BY <3>1, SetOfSeq
      <4> QED BY <1>5, <3>2, <4>1, <4>2
    <3> QED BY <3>1, <3>3, DistinctOrder
  <2>4. st[x] # "away"
    <3> SUFFICES ASSUME st[x] = "away" PROVE FALSE
      OBVIOUS
    <3>1. tokens[l] \in Seq(Messages) /\ batch \in Seq(Messages)
      BY DEF TypeOK
    <3>2. x \in fetched
      BY <3>1, SetOfSeq DEF Queues, Session
    <3>3. Before(batch, x, y)
      BY <3>2 DEF Queues, Session
    <3>4. y \in ToSet(batch)
      BY <3>1, <3>3, SetOfSeq
    <3>5. st[y] = "away"
      BY <3>4 DEF Queues, Session
    <3> QED BY <2>1, <3>5
  <2>5. st[x] \in DeliveryStates
    BY DEF TypeOK
  <2> QED BY <2>2, <2>3, <2>4, <2>5 DEF DeliveryStates, Begun
<1>7. st'[y] \in Begun \cup {"terminal"} => st'[x] \in {"terminal", "settled"}
  <2> SUFFICES ASSUME st'[y] \in Begun \cup {"terminal"}
               PROVE  x = m \/ st[x] \in {"terminal", "settled"}
    BY <1>1
  <2>1. CASE y \in S
    BY <1>6, <2>1
  <2>2. CASE y \notin S
    <3>1. st[y] \in Begun \cup {"terminal"}
      BY <1>1, <1>3, <2>2
    <3> QED BY <1>4, <3>1
  <2> QED BY <2>1, <2>2
<1>8. st'[y] = "waiting" => st'[x] # "held"
  BY <1>1, <1>4
<1>9. st'[y] = "waiting" /\ st'[x] = "waiting" => Before(waiting'[KeyOf[x]], x, y)
  BY <1>1, <1>2, <1>4, <1>5
<1> QED BY <1>7, <1>8, <1>9

(* Cumulative settlement: whatever is tracked and not terminal is in the   *)
(* queue of its lane.                                                      *)
LEMMA OpenQueued ==
  ASSUME TypeOK, Queues, mode = "cumulative", NEW m \in Tracked, st[m] # "terminal"
  PROVE  m \in ToSet(laneQueue[LaneOf[m]])
<1> DEFINE l == LaneOf[m]
<1>1. m \in Messages /\ l \in Lanes /\ st[m] # "away"
  BY LaneFacts DEF Tracked
<1>2. Session /\ Settlement /\ TokensSplit /\ SettlingLanes
  BY DEF Queues, LaneQueues
<1>3. /\ laneQueue[l] \in Seq(Messages) /\ OfLane(batch, l) \in Seq(Messages)
      /\ ToSet(OfLane(batch, l)) \subseteq ToSet(batch)
  BY <1>1, OfLaneFacts DEF TypeOK
<1>4. /\ laneQueue[l] \o OfLane(batch, l) \in Seq(Messages)
      /\ ToSet(laneQueue[l] \o OfLane(batch, l)) = ToSet(laneQueue[l]) \cup ToSet(OfLane(batch, l))
  BY <1>3, ConcatOrder, ConcatProperties
<1>5. m \notin ToSet(batch)
  BY <1>1, <1>2 DEF Session
<1>6. \A i \in DOMAIN settleQueue : m \notin ToSet(settleQueue[i].entries)
  BY <1>2 DEF Settlement, Receipted
<1>7. m \in ToSet(tokens[l])
  <2>1. settle = "ok" => 1 \in DOMAIN settleQueue /\ Head(settleQueue) = settleQueue[1]
    BY <1>2, TailIndexes DEF Settlement, TypeOK
  <2>2. settle = "ok" => m \notin Receipts
    BY <1>6, <2>1 DEF Receipts
  <2> QED BY <1>2, <2>2 DEF Session
<1> HIDE DEF l
<1>8. CASE \A i \in DOMAIN settleQueue : settleQueue[i].lane = l => Answered(i)
  <2>1. tokens[l] = laneQueue[l] \o OfLane(batch, l)
    BY <1>1, <1>2, <1>8 DEF TokensSplit
  <2> QED BY <1>3, <1>4, <1>5, <1>7, <2>1 DEF l
<1>9. CASE \E i \in DOMAIN settleQueue : settleQueue[i].lane = l /\ ~Answered(i)
  <2>1. PICK i \in DOMAIN settleQueue : settleQueue[i].lane = l /\ ~Answered(i)
    BY <1>9
  <2>2. tokens[l] = settleQueue[i].entries \o (laneQueue[l] \o OfLane(batch, l))
    BY <1>2, <2>1 DEF TokensSplit
  <2>3. settleQueue[i].entries \in Seq(Messages)
    BY <2>1, BatchFacts
  <2>4. ToSet(tokens[l]) = ToSet(settleQueue[i].entries) \cup ToSet(laneQueue[l] \o OfLane(batch, l))
    <3> DEFINE q == laneQueue[l] \o OfLane(batch, l)  e == settleQueue[i].entries
    <3>1. q \in Seq(Messages) /\ e \in Seq(Messages) /\ tokens[l] = e \o q
      BY <1>4, <2>2, <2>3
    <3> HIDE DEF q, e
    <3>2. ToSet(tokens[l]) = ToSet(e) \cup ToSet(q)
      BY <3>1, ConcatOrder
    <3> QED BY <3>2 DEF q, e
  <2> QED BY <1>3, <1>4, <1>5, <1>6, <1>7, <2>1, <2>4 DEF l
<1> QED BY <1>8, <1>9

LEMMA FinishesSession ==
  ASSUME TypeOK, Queues, NEW m, NEW S, Finishes(m, S),
         settleQueue # <<>> => Head(settleQueue') = Head(settleQueue)
  PROVE  Session'
<1>1. /\ Tracked' = Tracked
      /\ \A n \in Messages : st'[n] = "away" <=> st[n] = "away"
  BY FinishesStates
<1>2. UNCHANGED <<fetched, tokens, batch, receive, settle>>
  BY DEF Finishes
<1>3. settle = "ok" => Receipts' = Receipts
  BY DEF Receipts, Queues, Settlement
<1>4. ToSet(batch) \subseteq Messages /\ fetched \subseteq Messages
  BY SetOfSeq DEF TypeOK
<1> QED BY <1>1, <1>2, <1>3, <1>4 DEF Session, Queues

LEMMA FinishesWindow ==
  ASSUME TypeOK, Queues, Window, NEW m, NEW S, Finishes(m, S)
  PROVE  Window' /\ workCount' \in Nat
<1>1. Tracked' = Tracked
  BY FinishesStates
<1> DEFINE W == {n \in Messages : st[n] \in AtWorker}
           V == {n \in Messages : st'[n] \in AtWorker}
<1>2. /\ m \in W /\ S \cap W = {} /\ S \subseteq Messages /\ W \subseteq Messages
      /\ V = (W \ {m}) \cup S
  BY BegunFacts DEF Finishes
<1>3. workCount = Cardinality(W) /\ workCount' = workCount - 1 + Cardinality(S)
  BY DEF Window, Finishes
<1> HIDE DEF W
<1>4. /\ IsFiniteSet(W) /\ IsFiniteSet(S) /\ IsFiniteSet(W \ {m})
      /\ Cardinality(W) \in Nat /\ Cardinality(S) \in Nat /\ Cardinality(W \ {m}) \in Nat
  <2>1. W \ {m} \subseteq Messages
    BY <1>2
  <2> QED BY <1>2, <2>1, FiniteWork
<1>5. Cardinality(W \ {m}) = Cardinality(W) - 1
  BY <1>2, <1>4, FS_RemoveElement
<1>6. Cardinality((W \ {m}) \cup S) = Cardinality(W \ {m}) + Cardinality(S)
  <2>1. (W \ {m}) \cap S = {}
    BY <1>2
  <2>2. Cardinality((W \ {m}) \cup S)
          = Cardinality(W \ {m}) + Cardinality(S) - Cardinality((W \ {m}) \cap S)
    BY <1>4, FS_Union
  <2>3. Cardinality((W \ {m}) \cap S) = 0
    BY <2>1, FS_EmptySet
  <2> QED BY <1>4, <2>2, <2>3
<1>7. workCount' = Cardinality(V) /\ workCount' \in Nat
  <2> HIDE DEF V
  <2>1. Cardinality(V) = Cardinality((W \ {m}) \cup S)
    BY <1>2
  <2> QED BY <1>3, <1>4, <1>5, <1>6, <2>1
<1>8. Window'
  BY <1>1, <1>7, MovesWindow DEF Finishes
<1> QED BY <1>7, <1>8

(* What m's completion does to the settlement queue in each mode. *)
LEMMA FinishesBatches ==
  ASSUME TypeOK, Queues, NEW m, NEW S, Finishes(m, S)
  PROVE  Batched(settleQueue, st')
<1>1. \A i \in DOMAIN settleQueue : Receipted(i) \subseteq Messages
  BY BatchFacts
<1>2. \A n \in Messages : st[n] = "terminal" => st'[n] = "terminal"
  BY FinishesStates
<1> QED BY <1>1, <1>2 DEF Batched, Queues, Settlement, Receipted

LEMMA FinishesAlone ==
  ASSUME TypeOK, Queues, NEW m, NEW S, Finishes(m, S), mode = "individual",
         settleQueue' = Append(settleQueue, [lane |-> LaneOf[m], entries |-> <<m>>])
  PROVE  /\ settleQueue' \in Seq(Batches) /\ settleQueue' # <<>>
         /\ settleQueue # <<>> => Head(settleQueue') = Head(settleQueue)
         /\ Batched(settleQueue', st')
         /\ \A n \in Messages : st'[n] = "terminal" =>
              \E i \in DOMAIN settleQueue' : n \in ToSet(settleQueue'[i].entries)
<1> DEFINE b == [lane |-> LaneOf[m], entries |-> <<m>>]
<1>1. m \in Messages /\ LaneOf[m] \in Lanes /\ st[m] = "gotDone"
  BY LaneFacts DEF Finishes
<1>2. <<m>> \in Seq(Messages) /\ <<m>> # <<>> /\ ToSet(<<m>>) = {m} /\ Distinct(<<m>>)
  <2>1. <<m>> \in Seq(Messages) /\ <<m>> # <<>>
    BY <1>1
  <2>2. DOMAIN <<m>> = {1} /\ <<m>>[1] = m
    OBVIOUS
  <2> QED BY <2>1, <2>2 DEF ToSet, Distinct
<1>3. b \in Batches /\ b.entries # <<>> /\ Distinct(b.entries) /\ ToSet(b.entries) = {m}
      /\ b.lane = LaneOf[m]
  BY <1>1, <1>2 DEF Batches
<1>4. \A n \in ToSet(b.entries) : st'[n] = "terminal" /\ LaneOf[n] = b.lane
  BY <1>3 DEF Finishes
<1>5. \A i \in DOMAIN settleQueue : ToSet(settleQueue[i].entries) \cap ToSet(b.entries) = {}
  BY <1>1, <1>3 DEF Queues, Settlement, Receipted
<1>6. settleQueue \in Seq(Batches) /\ settleQueue' = Append(settleQueue, b)
  BY DEF TypeOK
<1> HIDE DEF b
<1>7. Batched(settleQueue', st')
  <2> SUFFICES ASSUME NEW s, s = st' PROVE Batched(Append(settleQueue, b), s)
    BY <1>6
  <2>1. Batched(settleQueue, s)
    BY FinishesBatches
  <2> QED BY <1>3, <1>4, <1>5, <1>6, <2>1, BatchedAppend
<1> DEFINE p == Append(settleQueue, b)
<1>8. /\ p \in Seq(Batches) /\ p # <<>>
      /\ Len(settleQueue) + 1 \in DOMAIN p /\ p[Len(settleQueue) + 1] = b
      /\ \A i \in DOMAIN settleQueue : i \in DOMAIN p /\ p[i] = settleQueue[i]
      /\ settleQueue # <<>> => Head(p) = Head(settleQueue)
  BY <1>3, <1>6, AppendIndexes
<1>9. settleQueue' = p
  BY <1>6
<1> HIDE DEF p
<1>10. ASSUME NEW n \in Messages, st'[n] = "terminal"
       PROVE  \E i \in DOMAIN p : n \in ToSet(p[i].entries)
  <2>1. CASE n = m
    BY <1>3, <1>8, <2>1
  <2>2. CASE n # m
    <3>1. st[n] = "terminal"
      BY <1>10, <2>2, FinishesStates
    <3>2. \E i \in DOMAIN settleQueue : n \in ToSet(settleQueue[i].entries)
      BY <3>1 DEF Queues, Settlement, Receipted
    <3> QED BY <1>8, <3>2
  <2> QED BY <2>1, <2>2
<1> QED BY <1>7, <1>8, <1>9, <1>10

LEMMA FinishesUncut ==
  ASSUME TypeOK, Queues, NEW m, NEW S, Finishes(m, S), mode = "cumulative",
         ~laneSettling[LaneOf[m]]
  PROVE  Uncut(LaneOf[m], settleQueue)
<1> DEFINE l == LaneOf[m]
<1>1. m \in Messages /\ l \in Lanes /\ m \in Tracked /\ st[m] # "terminal"
  BY LaneFacts DEF Finishes, Tracked
<1>2. /\ Tracked' = Tracked /\ settle' = settle
      /\ \A n \in Messages : st'[n] = "terminal" <=> n = m \/ st[n] = "terminal"
  BY FinishesStates DEF Finishes
<1>3. LaneQueues /\ Settlement
  BY DEF Queues
<1>4. m \in ToSet(laneQueue[l])
  BY <1>1, OpenQueued
<1>5. \A i \in DOMAIN settleQueue : settleQueue[i].lane # l
  BY <1>1, <1>3 DEF LaneQueues, SettlingLanes
<1>6. \A x \in Lanes \ {l} :
        ~laneSettling[x] /\ laneQueue[x] # <<>> => st'[Head(laneQueue[x])] # "terminal"
  <2> SUFFICES ASSUME NEW x \in Lanes \ {l}, ~laneSettling[x], laneQueue[x] # <<>>
               PROVE  st'[Head(laneQueue[x])] # "terminal"
    OBVIOUS
  <2>1. Head(laneQueue[x]) \in ToSet(laneQueue[x]) /\ Head(laneQueue[x]) \in Messages
    BY SetOfSeq DEF TypeOK
  <2>2. LaneOf[Head(laneQueue[x])] = x /\ st[Head(laneQueue[x])] # "terminal"
    BY <1>3, <2>1 DEF LaneQueues, QueuedEntries
  <2> QED BY <1>2, <2>1, <2>2
<1>7. \A n \in Messages : st'[n] = "terminal" =>
        \/ n \in ToSet(laneQueue[LaneOf[n]])
        \/ \E i \in DOMAIN settleQueue : n \in ToSet(settleQueue[i].entries)
  BY <1>2, <1>3, <1>4 DEF LaneQueues, TerminalEntries, Receipted
<1>8. \A i, j \in DOMAIN settleQueue : settleQueue[i].lane = settleQueue[j].lane => i = j
  BY <1>3 DEF LaneQueues, SettlingLanes
<1>9. \A x \in Lanes \ {l} : laneSettling[x] <=> \E i \in DOMAIN settleQueue : settleQueue[i].lane = x
  BY <1>3 DEF LaneQueues, SettlingLanes
<1>10. \A x \in Lanes :
       /\ Distinct(laneQueue[x])
       /\ \A n \in ToSet(laneQueue[x]) : LaneOf[n] = x /\ n \in Tracked'
       /\ \A i \in DOMAIN settleQueue : ToSet(settleQueue[i].entries) \cap ToSet(laneQueue[x]) = {}
  BY <1>2, <1>3 DEF LaneQueues, QueuedEntries, Receipted
<1>11. settle' = "ok" => settleQueue # <<>>
  BY <1>2, <1>3 DEF Settlement
<1>12. /\ \A i \in DOMAIN settleQueue : ~(i = 1 /\ settle' = "ok") =>
           tokens[settleQueue[i].lane] =
             settleQueue[i].entries \o (laneQueue[settleQueue[i].lane] \o OfLane(batch, settleQueue[i].lane))
       /\ \A x \in Lanes :
           (\A i \in DOMAIN settleQueue : settleQueue[i].lane = x => i = 1 /\ settle' = "ok")
             => tokens[x] = laneQueue[x] \o OfLane(batch, x)
  BY <1>2, <1>3 DEF LaneQueues, TokensSplit, Answered
<1> HIDE DEF l
<1>13. Uncut(l, settleQueue)
  BY <1>5, <1>6, <1>7, <1>8, <1>9, <1>10, <1>11, <1>12 DEF Uncut
<1> QED BY <1>13 DEF l

(* A lane that already has a batch is left alone. *)
LEMMA FinishesSettling ==
  ASSUME TypeOK, Queues, NEW m, NEW S, Finishes(m, S), mode = "cumulative",
         laneSettling[LaneOf[m]], UNCHANGED <<settleQueue, laneQueue, laneSettling>>
  PROVE  SettlingLanes' /\ QueuedEntries' /\ TerminalEntries' /\ TokensSplit'
<1>1. m \in Messages /\ LaneOf[m] \in Lanes /\ m \in Tracked /\ st[m] # "terminal"
  BY LaneFacts DEF Finishes, Tracked
<1>2. /\ Tracked' = Tracked /\ UNCHANGED <<settle, tokens, batch>>
      /\ \A n \in Messages : st'[n] = "terminal" <=> n = m \/ st[n] = "terminal"
  BY FinishesStates DEF Finishes
<1>3. LaneQueues
  BY DEF Queues
<1>4. m \in ToSet(laneQueue[LaneOf[m]])
  BY <1>1, OpenQueued
<1>5. \A i : Receipted(i)' = Receipted(i) /\ (Answered(i)' <=> Answered(i))
  BY <1>2 DEF Receipted, Answered
<1>6. \A x \in Lanes :
        ~laneSettling[x] /\ laneQueue[x] # <<>> => st'[Head(laneQueue[x])] # "terminal"
  <2> SUFFICES ASSUME NEW x \in Lanes, ~laneSettling[x], laneQueue[x] # <<>>
               PROVE  st'[Head(laneQueue[x])] # "terminal"
    OBVIOUS
  <2>1. Head(laneQueue[x]) \in ToSet(laneQueue[x]) /\ Head(laneQueue[x]) \in Messages
    BY SetOfSeq DEF TypeOK
  <2>2. LaneOf[Head(laneQueue[x])] = x /\ st[Head(laneQueue[x])] # "terminal"
    BY <1>3, <2>1 DEF LaneQueues, QueuedEntries
  <2> QED BY <1>2, <2>1, <2>2
<1>7. SettlingLanes'
  BY <1>3 DEF LaneQueues, SettlingLanes
<1>8. QueuedEntries'
  BY <1>2, <1>3, <1>5, <1>6 DEF LaneQueues, QueuedEntries
<1>9. TerminalEntries'
  BY <1>2, <1>3, <1>4, <1>5 DEF LaneQueues, TerminalEntries
<1>10. TokensSplit'
  BY <1>2, <1>3, <1>5 DEF LaneQueues, TokensSplit
<1> QED BY <1>7, <1>8, <1>9, <1>10

LEMMA HandleDoneInv ==
  ASSUME ConsumeInv, NEW m \in Messages, HandleDone(m)
  PROVE  ConsumeInv'
<1> DEFINE S == Successor(m)
<1>1. TypeOK /\ Queues /\ Window /\ Stopping /\ Finishes(m, S)
  BY HandleDoneFinishes DEF ConsumeInv
<1>2. QueueSettlement(m, st')
  BY DEF HandleDone
<1> HIDE DEF S
<1>3. m \in Messages /\ LaneOf[m] \in Lanes /\ mode' = mode /\ settle' = settle
  BY <1>1, LaneFacts DEF Finishes
<1>4. /\ settleQueue \in Seq(Batches) /\ laneQueue \in [Lanes -> Seq(Messages)]
      /\ laneSettling \in [Lanes -> BOOLEAN] /\ batch \in Seq(Messages)
  BY <1>1 DEF TypeOK
<1>5. /\ settleQueue' \in Seq(Batches) /\ laneQueue' \in [Lanes -> Seq(Messages)]
      /\ laneSettling' \in [Lanes -> BOOLEAN]
      /\ settleQueue # <<>> => settleQueue' # <<>> /\ Head(settleQueue') = Head(settleQueue)
      /\ Batched(settleQueue', st')
      /\ mode = "individual" => \A n \in Messages : st'[n] = "terminal" =>
           \E i \in DOMAIN settleQueue' : n \in ToSet(settleQueue'[i].entries)
      /\ mode = "cumulative" => LaneQueues'
  <2>1. CASE mode = "individual"
    <3>1. /\ settleQueue' = Append(settleQueue, [lane |-> LaneOf[m], entries |-> <<m>>])
          /\ laneQueue' = laneQueue /\ laneSettling' = laneSettling
      BY <1>2, <2>1 DEF QueueSettlement, laneVars
    <3> QED BY <1>1, <1>4, <2>1, <3>1, FinishesAlone
  <2>2. CASE mode = "cumulative" /\ laneSettling[LaneOf[m]]
    <3>1. UNCHANGED <<settleQueue, laneQueue, laneSettling>>
      BY <1>2, <2>2 DEF QueueSettlement, laneVars
    <3>2. LaneQueues'
      BY <1>1, <2>2, <3>1, FinishesSettling DEF LaneQueues
    <3>3. Batched(settleQueue, st')
      BY <1>1, FinishesBatches
    <3> QED BY <1>4, <2>2, <3>1, <3>2, <3>3
  <2>3. CASE mode = "cumulative" /\ ~laneSettling[LaneOf[m]]
    <3> DEFINE l == LaneOf[m]
    <3>1. \E a, r : Cut(l, settleQueue, a, r)
      <4> SUFFICES ASSUME NEW s, s = st', QueueCumulativePrefix(l, s, settleQueue)
                   PROVE  \E a, r : Cut(l, settleQueue, a, r)
        BY <1>2, <2>3 DEF QueueSettlement
      <4> QED BY <1>3, <1>4, PrefixCut
    <3>2. Uncut(l, settleQueue) /\ Batched(settleQueue, st')
      BY <1>1, <2>3, FinishesUncut, FinishesBatches
    <3> HIDE DEF l
    <3>3. l \in Lanes /\ UNCHANGED <<tokens, batch>>
      BY <1>1, <1>3 DEF l, Finishes
    <3>4. PICK a, r : Cut(l, settleQueue, a, r)
      BY <3>1
    <3>5. LaneQueues'
      BY <1>4, <3>2, <3>3, <3>4, CutLanes DEF LaneQueues
    <3>6. Batched(settleQueue', st')
      BY <1>4, <3>2, <3>3, <3>4, CutBatched
    <3>7. settleQueue' \in Seq(Batches)
          /\ (settleQueue # <<>> => settleQueue' # <<>> /\ Head(settleQueue') = Head(settleQueue))
      BY <1>4, <3>3, <3>4, CutIndexes
    <3>8. laneQueue' \in [Lanes -> Seq(Messages)] /\ laneSettling' \in [Lanes -> BOOLEAN]
      BY <1>4, <3>4 DEF Cut
    <3> QED BY <2>3, <3>5, <3>6, <3>7, <3>8
  <2> QED BY <1>1, <2>1, <2>2, <2>3 DEF TypeOK
<1>6. Session'
  BY <1>1, <1>5, FinishesSession
<1>7. KeyQueues' /\ KeySerial' /\ KeyRanks' /\ activeKeys' \subseteq Keys
  BY <1>1, FinishesKeys, FinishesRanks
<1>8. Settlement'
  <2>1. \A n \in Messages : st'[n] \in {"gotDone", "terminal"} => n \in handled'
    BY <1>1 DEF Finishes, Queues, Settlement
  <2>2. settle' # "idle" => settleQueue' # <<>>
    BY <1>1, <1>3, <1>5 DEF Queues, Settlement
  <2>3. confirmed' \subseteq handled'
    BY <1>1 DEF Finishes, Queues, Settlement
  <2> QED BY <1>3, <1>5, <2>1, <2>2, <2>3 DEF Settlement, Batched, Receipted
<1>9. mode' = "cumulative" => LogOrder'
  BY <1>1 DEF Finishes, Queues, LogOrder
<1>10. Window' /\ workCount' \in Nat
  BY <1>1, FinishesWindow
<1>11. waiting' \in [Keys -> Seq(Messages)]
  <2>1. \A k \in Keys : waiting'[k] \in Seq(Messages)
    BY <1>1, FinishesWaiting
  <2>2. waiting' = [k \in Keys |-> waiting'[k]]
    BY <1>1 DEF Finishes, TypeOK
  <2> QED BY <2>1, <2>2
<1>12. TypeOK'
  BY <1>1, <1>5, <1>7, <1>10, <1>11 DEF TypeOK, Finishes
<1>13. Stopping'
  <2>1. \A n \in Messages : st'[n] = "retry" <=> st[n] = "retry"
    BY <1>1, FinishesStates
  <2> QED BY <1>1, <2>1 DEF Stopping, Finishes
<1>14. Queues'
  BY <1>3, <1>5, <1>6, <1>7, <1>8, <1>9 DEF Queues
<1> QED BY <1>10, <1>12, <1>13, <1>14 DEF ConsumeInv

-----------------------------------------------------------------------------
(* The session is asked for a confirmation. *)

(* The batch at the head of the settlement queue. *)
LEMMA HeadFacts ==
  ASSUME TypeOK, Queues, settle # "idle"
  PROVE  /\ settleQueue # <<>> /\ 1 \in DOMAIN settleQueue /\ Head(settleQueue) = settleQueue[1]
         /\ ConfirmedLane \in Lanes /\ ConfirmedLane = settleQueue[1].lane
         /\ Head(settleQueue).entries = settleQueue[1].entries
         /\ Head(settleQueue).entries \in Seq(Messages) /\ Head(settleQueue).entries # <<>>
         /\ Distinct(Head(settleQueue).entries)
         /\ Receipts = Receipted(1) /\ Receipts \subseteq Messages /\ Receipts \subseteq Tracked
         /\ \A m \in Receipts : /\ st[m] = "terminal" /\ LaneOf[m] = ConfirmedLane
                                /\ m \in handled
<1>1. settleQueue # <<>> /\ settleQueue \in Seq(Batches)
  BY DEF TypeOK, Queues, Settlement
<1>2. 1 \in DOMAIN settleQueue /\ Head(settleQueue) = settleQueue[1]
  BY <1>1, TailIndexes
<1>3. /\ ConfirmedLane = settleQueue[1].lane /\ Receipts = Receipted(1)
      /\ Head(settleQueue).entries = settleQueue[1].entries
  BY <1>2 DEF ConfirmedLane, Receipts, Receipted
<1>4. /\ settleQueue[1].lane \in Lanes /\ settleQueue[1].entries \in Seq(Messages)
      /\ Receipted(1) \subseteq Messages
  BY <1>2, BatchFacts
<1>5. /\ settleQueue[1].entries # <<>> /\ Distinct(settleQueue[1].entries)
      /\ \A m \in Receipted(1) : st[m] = "terminal" /\ LaneOf[m] = settleQueue[1].lane
  BY <1>2 DEF Queues, Settlement
<1>6. \A m \in Receipts : st[m] = "terminal" /\ LaneOf[m] = ConfirmedLane /\ m \in handled
  BY <1>3, <1>4, <1>5 DEF Queues, Settlement
<1>7. Receipts \subseteq Tracked
  BY <1>3, <1>4, <1>6 DEF Tracked
<1> QED BY <1>1, <1>2, <1>3, <1>4, <1>5, <1>6, <1>7

(* The receipts of a batch not yet confirmed are outstanding, and with     *)
(* cumulative settlement they are the oldest ones of their lane.           *)
LEMMA HeadReceipts ==
  ASSUME TypeOK, Queues, settle = "asked"
  PROVE  /\ ReceiptsAccepted
         /\ Receipts \subseteq ToSet(tokens[ConfirmedLane])
         /\ mode = "cumulative" =>
              /\ laneQueue[ConfirmedLane] \o OfLane(batch, ConfirmedLane) \in Seq(Messages)
              /\ tokens[ConfirmedLane] = Head(settleQueue).entries \o
                   (laneQueue[ConfirmedLane] \o OfLane(batch, ConfirmedLane))
<1> DEFINE l == ConfirmedLane  e == Head(settleQueue).entries
           q == laneQueue[l] \o OfLane(batch, l)
<1>1. /\ 1 \in DOMAIN settleQueue /\ l \in Lanes /\ l = settleQueue[1].lane
      /\ e = settleQueue[1].entries /\ e \in Seq(Messages)
      /\ Receipts \subseteq Tracked /\ \A m \in Receipts : LaneOf[m] = l
  BY HeadFacts
<1>2. Receipts \subseteq ToSet(tokens[l])
  BY <1>1 DEF Queues, Session
<1>3. ASSUME mode = "cumulative"
      PROVE  q \in Seq(Messages) /\ tokens[l] = e \o q /\ IsPrefix(e, tokens[l])
  <2>1. q \in Seq(Messages)
    <3>1. laneQueue[l] \in Seq(Messages) /\ OfLane(batch, l) \in Seq(Messages)
      BY <1>1, OfLaneFacts DEF TypeOK
    <3> QED BY <3>1, ConcatProperties
  <2>2. tokens[l] = e \o q
    BY <1>1, <1>3 DEF Queues, LaneQueues, TokensSplit, Answered
  <2> HIDE DEF e, q
  <2>3. IsPrefix(e, e \o q)
    BY <1>1, <2>1, ConcatPrefix
  <2> QED BY <2>1, <2>2, <2>3
<1>4. ReceiptsAccepted
  BY <1>2, <1>3 DEF ReceiptsAccepted
<1> QED BY <1>2, <1>3, <1>4

(* What a confirmation covers has been handled, also what it covers beyond *)
(* its receipts.                                                           *)
LEMMA CoveredHandled ==
  ASSUME TypeOK, Queues, settle = "asked"
  PROVE  Receipts \subseteq Covered /\ Covered \subseteq handled /\ Covered \subseteq Messages
<1> DEFINE l == ConfirmedLane  e == Head(settleQueue).entries  z == Last(e)
<1>1. /\ l \in Lanes /\ e \in Seq(Messages) /\ e # <<>> /\ Receipts = ToSet(e)
      /\ Receipts \subseteq Messages
      /\ \A m \in Receipts : LaneOf[m] = l /\ m \in handled
  BY HeadFacts DEF Receipts
<1>2. CASE mode = "individual"
  BY <1>1, <1>2 DEF Covered
<1>3. CASE mode = "cumulative"
  <2>1. Receipts \subseteq ToSet(tokens[l]) /\ IsPrefix(e, tokens[l])
        /\ tokens[l] \in Seq(Messages) /\ Distinct(tokens[l])
    BY <1>1, <1>3, HeadReceipts DEF ReceiptsAccepted, TypeOK, Queues, Session
  <2>2. LogOrder /\ confirmed \subseteq handled
    BY <1>3 DEF Queues, Settlement
  <2>3. \A m \in Messages : m \in Covered <=>
          \E i, j \in DOMAIN LaneLog[l] : i <= j /\ LaneLog[l][i] = m /\ LaneLog[l][j] = z
    BY <1>3 DEF Covered
  <2>4. Covered \subseteq Messages
    BY <1>3 DEF Covered
  <2> HIDE DEF l, e
  <2>5. z \in ToSet(e) /\ z \in Messages /\ \A m \in ToSet(e) : m = z \/ Before(e, m, z)
    BY <1>1, LastIsLast
  <2> HIDE DEF z
  <2>6. LaneLog[l] \in Seq(Messages) /\ \A i \in DOMAIN LaneLog[l] : i \in Int
    BY <1>1, LaneFacts, LenProperties
  <2>7. ASSUME NEW m \in Receipts PROVE m \in Covered
    <3>1. m \in Messages /\ m \in ToSet(LaneLog[l])
      BY <1>1, <2>7, LaneFacts
    <3>2. CASE m = z
      <4>1. PICK i \in DOMAIN LaneLog[l] : LaneLog[l][i] = m
        BY <3>1 DEF ToSet
      <4>2. i <= i
        BY <2>6, <4>1
      <4> QED BY <2>3, <3>1, <3>2, <4>1, <4>2
    <3>3. CASE m # z
      <4>1. Before(e, m, z)
        BY <1>1, <2>5, <2>7, <3>3
      <4>2. Before(tokens[l], m, z)
        BY <1>1, <2>1, <4>1, PrefixBefore
      <4>3. Before(LaneLog[l], m, z)
        BY <1>1, <2>2, <2>5, <3>1, <4>2 DEF LogOrder
      <4>4. PICK i, j \in DOMAIN LaneLog[l] : i < j /\ LaneLog[l][i] = m /\ LaneLog[l][j] = z
        BY <4>3 DEF Before
      <4>5. i <= j
        BY <2>6, <4>4
      <4> QED BY <2>3, <3>1, <4>4, <4>5
    <3> QED BY <3>2, <3>3
  <2>8. ASSUME NEW m \in Covered PROVE m \in handled
    <3>1. m \in Messages
      BY <2>4
    <3>2. PICK i, j \in DOMAIN LaneLog[l] : i <= j /\ LaneLog[l][i] = m /\ LaneLog[l][j] = z
      BY <2>3, <3>1
    <3>3. CASE i = j
      BY <1>1, <2>5, <3>2, <3>3
    <3>4. CASE i # j
      <4>1. Before(LaneLog[l], m, z)
        <5>1. i < j
          BY <2>6, <3>2, <3>4
        <5> QED BY <3>2, <5>1 DEF Before
      <4>2. z \in ToSet(tokens[l])
        BY <1>1, <2>1, <2>5
      <4>3. m \in confirmed \/ Before(tokens[l], m, z)
        BY <1>1, <2>2, <3>1, <4>1, <4>2 DEF LogOrder
      <4>4. Before(tokens[l], m, z) => m \in ToSet(e)
        <5> SUFFICES ASSUME Before(tokens[l], m, z) PROVE m \in ToSet(e)
          OBVIOUS
        <5>1. Before(e, m, z)
          BY <1>1, <2>1, <2>5, PrefixOrder
        <5> QED BY <1>1, <5>1, SetOfSeq
      <4> QED BY <1>1, <2>2, <4>3, <4>4
    <3> QED BY <3>3, <3>4
  <2> QED BY <2>4, <2>7, <2>8
<1> QED BY <1>2, <1>3 DEF TypeOK

(* The session has answered, with settle' = "ok" or with an error; in both *)
(* cases the broker may have applied the call.                             *)
Confirms ==
  /\ settle = "asked" /\ settle' \in {"ok", "err"}
  /\ confirmed \subseteq confirmed' /\ confirmed' \subseteq confirmed \cup Covered
  /\ settle' = "ok" => Covered \subseteq confirmed'
  /\ tokens' \in [Lanes -> Seq(Messages)]
  /\ settle' = "ok" => tokens'[ConfirmedLane] = Filter(tokens[ConfirmedLane], Messages \ Receipts)
  /\ \A l \in Lanes : settle' # "ok" \/ l # ConfirmedLane => tokens'[l] = tokens[l]
  /\ faults' \in 0..MaxFaults
  /\ UNCHANGED <<mode, fetched, st, attempt, waiting, activeKeys, laneQueue, laneSettling,
                 blocked, laneInflight, inflight, workCount, settleQueue, receive, limit,
                 batch, later, passed, shuttingDown, at, handled>>

LEMMA SessionConfirmConfirms ==
  ASSUME TypeOK, Queues, NEW applied \in BOOLEAN, NEW answered \in BOOLEAN,
         SessionConfirm(applied, answered)
  PROVE  Confirms
<1> DEFINE l == ConfirmedLane  f == Filter(tokens[l], Messages \ Receipts)
<1>1. settle = "asked"
  BY DEF SessionConfirm
<1>2. ReceiptsAccepted /\ l \in Lanes
  BY <1>1, HeadReceipts, HeadFacts
<1>3. tokens \in [Lanes -> Seq(Messages)]
  BY DEF TypeOK
<1>4. f \in Seq(Messages)
  <2>1. tokens[l] \in Seq(Messages)
    BY <1>2, <1>3
  <2> HIDE DEF l
  <2> QED BY <2>1, FilterKeeps
<1>5. faults' \in 0..MaxFaults
  BY FaultsType DEF SessionConfirm, Fault, TypeOK
<1>6. /\ answered => applied
      /\ applied => confirmed' = confirmed \cup Covered
      /\ ~applied => confirmed' = confirmed
      /\ answered => settle' = "ok" /\ tokens' = [tokens EXCEPT ![l] = f]
      /\ ~answered => settle' = "err" /\ tokens' = tokens
  BY <1>2 DEF SessionConfirm
<1>7. UNCHANGED <<mode, fetched, st, attempt, waiting, activeKeys, laneQueue, laneSettling,
                  blocked, laneInflight, inflight, workCount, settleQueue, receive, limit,
                  batch, later, passed, shuttingDown, at, handled>>
  BY DEF SessionConfirm, entryVars, keyVars, laneVars, windowVars, receiveVars, timerVars
<1> HIDE DEF l, f
<1>8. /\ tokens' \in [Lanes -> Seq(Messages)]
      /\ settle' = "ok" => tokens'[l] = f
      /\ \A x \in Lanes : settle' # "ok" \/ x # l => tokens'[x] = tokens[x]
  <2>1. CASE answered
    BY <1>2, <1>3, <1>4, <1>6, <2>1
  <2>2. CASE ~answered
    BY <1>3, <1>6, <2>2
  <2> QED BY <2>1, <2>2
<1>9. /\ settle' \in {"ok", "err"} /\ confirmed \subseteq confirmed'
      /\ confirmed' \subseteq confirmed \cup Covered
      /\ settle' = "ok" => Covered \subseteq confirmed'
  BY <1>6
<1> QED BY <1>1, <1>5, <1>7, <1>8, <1>9 DEF Confirms, l, f

(* The receipts a confirmation leaves. *)
LEMMA ConfirmsTokens ==
  ASSUME TypeOK, Queues, Confirms
  PROVE  \A l \in Lanes :
           /\ Distinct(tokens'[l])
           /\ \A m, n : Before(tokens'[l], m, n) => Before(tokens[l], m, n)
           /\ ToSet(tokens'[l]) \subseteq ToSet(tokens[l])
           /\ \A m \in ToSet(tokens[l]) :
                m \in ToSet(tokens'[l]) \/ (settle' = "ok" /\ m \in Receipts)
           /\ \A m, n : Before(tokens[l], m, n) /\ n \in ToSet(tokens'[l]) =>
                Before(tokens'[l], m, n) \/ (settle' = "ok" /\ m \in Receipts)
<1> SUFFICES ASSUME NEW l \in Lanes, NEW s, s = tokens[l], NEW t, t = tokens'[l]
             PROVE  /\ Distinct(t)
                    /\ \A m, n : Before(t, m, n) => Before(s, m, n)
                    /\ ToSet(t) \subseteq ToSet(s)
                    /\ \A m \in ToSet(s) : m \in ToSet(t) \/ (settle' = "ok" /\ m \in Receipts)
                    /\ \A m, n : Before(s, m, n) /\ n \in ToSet(t) =>
                         Before(t, m, n) \/ (settle' = "ok" /\ m \in Receipts)
  OBVIOUS
<1>1. s \in Seq(Messages) /\ Distinct(s) /\ ToSet(s) \subseteq Messages
      /\ \A m, n : Before(s, m, n) => m \in ToSet(s)
  <2>1. s \in Seq(Messages) /\ Distinct(s)
    BY DEF TypeOK, Queues, Session
  <2> QED BY <2>1, SetOfSeq
<1>2. CASE settle' = "ok" /\ l = ConfirmedLane
  <2> DEFINE R == Messages \ Receipts
  <2>1. t = Filter(s, R)
    BY <1>2 DEF Confirms
  <2> HIDE DEF R
  <2>2. /\ ToSet(t) = ToSet(s) \cap R
        /\ \A m, n : Before(t, m, n) <=> Before(s, m, n) /\ m \in R /\ n \in R
        /\ Distinct(t)
    BY <1>1, <2>1, FilterKeeps
  <2>3. \A m \in Messages : m \in R <=> m \notin Receipts
    BY DEF R
  <2> QED BY <1>1, <1>2, <2>2, <2>3
<1>3. CASE ~(settle' = "ok" /\ l = ConfirmedLane)
  <2>1. t = s
    BY <1>3 DEF Confirms
  <2> QED BY <1>1, <2>1
<1> QED BY <1>2, <1>3

LEMMA ConfirmsSplit ==
  ASSUME TypeOK, Queues, Confirms, mode = "cumulative"
  PROVE  TokensSplit'
<1> DEFINE c == ConfirmedLane
<1>1. /\ 1 \in DOMAIN settleQueue /\ c \in Lanes /\ c = settleQueue[1].lane
      /\ Receipts = Receipted(1) /\ Receipts = ToSet(Head(settleQueue).entries)
      /\ \A m \in Receipts : st[m] = "terminal"
      /\ Head(settleQueue).entries \in Seq(Messages)
  BY HeadFacts DEF Confirms, Receipts
<1>2. /\ UNCHANGED <<settleQueue, laneQueue, batch>> /\ settle = "asked" /\ settle' \in {"ok", "err"}
      /\ settle' = "ok" => tokens'[c] = Filter(tokens[c], Messages \ Receipts)
      /\ \A l \in Lanes : settle' # "ok" \/ l # c => tokens'[l] = tokens[l]
  BY DEF Confirms
<1>3. LaneQueues
  BY DEF Queues
<1>4. \A i \in DOMAIN settleQueue : settleQueue[i].lane \in Lanes
  BY BatchFacts
<1>5. ASSUME NEW i \in DOMAIN settleQueue, ~(i = 1 /\ settle' = "ok")
      PROVE  tokens'[settleQueue[i].lane] =
               settleQueue[i].entries \o
                 (laneQueue[settleQueue[i].lane] \o OfLane(batch, settleQueue[i].lane))
  <2>1. settle' # "ok" \/ settleQueue[i].lane # c
    BY <1>1, <1>3, <1>5 DEF LaneQueues, SettlingLanes
  <2>2. tokens'[settleQueue[i].lane] = tokens[settleQueue[i].lane]
    BY <1>2, <1>4, <2>1
  <2> QED BY <1>2, <1>3, <2>2 DEF LaneQueues, TokensSplit, Answered
<1>6. ASSUME NEW l \in Lanes,
             \A i \in DOMAIN settleQueue : settleQueue[i].lane = l => i = 1 /\ settle' = "ok"
      PROVE  tokens'[l] = laneQueue[l] \o OfLane(batch, l)
  <2>1. CASE l = c
    <3> DEFINE e == Head(settleQueue).entries  q == laneQueue[c]  b == OfLane(batch, c)
               R == Messages \ Receipts
    <3>1. tokens[c] = e \o (q \o b) /\ settle' = "ok" /\ tokens'[c] = Filter(tokens[c], R)
      BY <1>1, <1>2, <1>6, <2>1, HeadReceipts
    <3>2. ToSet(e) \cap R = {}
      BY <1>1
    <3>3. q \in Seq(Messages) /\ b \in Seq(Messages) /\ ToSet(b) \subseteq ToSet(batch)
      BY <1>1, OfLaneFacts DEF TypeOK
    <3>4. ToSet(q) \subseteq R
      <4>1. ToSet(q) \cap Receipts = {}
        BY <1>1, <1>3 DEF LaneQueues, QueuedEntries
      <4>2. ToSet(q) \subseteq Messages
        BY <3>3, SetOfSeq
      <4> QED BY <4>1, <4>2
    <3>5. ToSet(b) \subseteq R
      <4>1. \A m \in ToSet(batch) : st[m] = "away"
        BY DEF Queues, Session
      <4>2. ToSet(b) \subseteq Messages
        BY <3>3, SetOfSeq
      <4> QED BY <1>1, <3>3, <4>1, <4>2
    <3>6. e \in Seq(Messages)
      BY <1>1
    <3> HIDE DEF e, q, b, R
    <3>7. q \o b \in Seq(Messages) /\ ToSet(q \o b) \subseteq R
      BY <3>3, <3>4, <3>5, ConcatProperties, ConcatOrder
    <3> SUFFICES ASSUME NEW u \in Seq(Messages), u = q \o b, ToSet(u) \subseteq R
                 PROVE  Filter(e \o u, R) = u
      BY <2>1, <3>1, <3>7 DEF q, b
    <3>8. Filter(e \o u, R) = Filter(e, R) \o Filter(u, R)
      BY <3>6, FilterConcat
    <3>9. Filter(e, R) = <<>> /\ Filter(u, R) = u
      BY <3>2, <3>6, FilterAllOrNone
    <3>10. <<>> \o u = u
      BY ConcatEmptySeq
    <3> QED BY <3>8, <3>9, <3>10
  <2>2. CASE l # c
    <3>1. \A i \in DOMAIN settleQueue : settleQueue[i].lane # l
      BY <1>1, <1>6, <2>2
    <3>2. tokens'[l] = tokens[l]
      BY <1>2, <2>2
    <3> QED BY <1>3, <3>1, <3>2 DEF LaneQueues, TokensSplit
  <2> QED BY <2>1, <2>2
<1> QED BY <1>2, <1>5, <1>6 DEF TokensSplit, Answered

LEMMA SessionConfirmInv ==
  ASSUME ConsumeInv, NEW applied \in BOOLEAN, NEW answered \in BOOLEAN,
         SessionConfirm(applied, answered)
  PROVE  ConsumeInv'
<1>1. TypeOK /\ Queues /\ Window /\ Stopping /\ Confirms
  BY SessionConfirmConfirms DEF ConsumeInv
<1>2. /\ settle = "asked" /\ settle' \in {"ok", "err"} /\ confirmed \subseteq confirmed'
      /\ confirmed' \subseteq confirmed \cup Covered /\ (settle' = "ok" => Covered \subseteq confirmed')
      /\ UNCHANGED <<mode, fetched, st, attempt, waiting, activeKeys, laneQueue, laneSettling,
                     blocked, laneInflight, inflight, workCount, settleQueue, receive, limit,
                     batch, later, passed, shuttingDown, at, handled>>
  BY <1>1 DEF Confirms
<1>3. Receipts \subseteq Covered /\ Covered \subseteq handled /\ Covered \subseteq Messages
  BY <1>1, <1>2, CoveredHandled
<1>4. /\ settleQueue # <<>> /\ \A m \in Receipts : st[m] = "terminal"
  BY <1>1, <1>2, HeadFacts
<1>5. \A l \in Lanes :
           /\ Distinct(tokens'[l])
           /\ \A m, n : Before(tokens'[l], m, n) => Before(tokens[l], m, n)
           /\ ToSet(tokens'[l]) \subseteq ToSet(tokens[l])
           /\ \A m \in ToSet(tokens[l]) :
                m \in ToSet(tokens'[l]) \/ (settle' = "ok" /\ m \in Receipts)
           /\ \A m, n : Before(tokens[l], m, n) /\ n \in ToSet(tokens'[l]) =>
                Before(tokens'[l], m, n) \/ (settle' = "ok" /\ m \in Receipts)
  BY <1>1, ConfirmsTokens
<1>6. Tracked' = Tracked /\ Receipts' = Receipts /\ \A i : Receipted(i)' = Receipted(i)
  BY <1>2 DEF Tracked, Receipts, Receipted
<1>7. \A m \in Messages : LaneOf[m] \in Lanes
  BY LaneFacts
<1>8. TypeOK'
  BY <1>1, <1>2, <1>3 DEF TypeOK, Confirms
<1>9. Session'
  <2>1. Session /\ ToSet(batch) \subseteq Messages
    BY <1>1, SetOfSeq DEF Queues, TypeOK
  <2>2. \A l \in Lanes : \A m \in ToSet(tokens'[l]) : m \in fetched /\ LaneOf[m] = l
    BY <1>5, <2>1 DEF Session
  <2>3. \A m \in ToSet(batch) : st[m] = "away" /\ m \in ToSet(tokens'[LaneOf[m]])
    <3> SUFFICES ASSUME NEW m \in ToSet(batch)
                 PROVE  st[m] = "away" /\ m \in ToSet(tokens'[LaneOf[m]])
      OBVIOUS
    <3>1. st[m] = "away" /\ m \in ToSet(tokens[LaneOf[m]]) /\ LaneOf[m] \in Lanes
      BY <1>7, <2>1 DEF Session
    <3> QED BY <1>4, <1>5, <3>1
  <2>4. \A m \in Tracked : \/ m \in ToSet(tokens'[LaneOf[m]])
                           \/ settle' = "ok" /\ m \in Receipts
    <3> SUFFICES ASSUME NEW m \in Tracked
                 PROVE  \/ m \in ToSet(tokens'[LaneOf[m]])
                        \/ settle' = "ok" /\ m \in Receipts
      OBVIOUS
    <3>1. m \in ToSet(tokens[LaneOf[m]]) /\ LaneOf[m] \in Lanes
      BY <1>2, <1>7, <2>1 DEF Session, Tracked
    <3> QED BY <1>5, <3>1
  <2>5. \A l \in Lanes : \A m, n \in Messages :
         Before(tokens'[l], m, n) /\ m \in ToSet(batch) => Before(batch, m, n)
    BY <1>5, <2>1 DEF Session
  <2>6. /\ Distinct(batch) /\ (receive # "ok" => batch = <<>>)
        /\ \A m \in Messages : st[m] # "away" => m \in fetched
        /\ \A m \in fetched : st[m] = "away" => m \in ToSet(batch)
    BY <2>1 DEF Session
  <2> QED BY <1>2, <1>5, <1>6, <2>2, <2>3, <2>4, <2>5, <2>6 DEF Session
<1>10. KeyQueues' /\ KeySerial'
  BY <1>1, <1>2 DEF Queues, KeyQueues, KeySerial, SameKey
<1>11. KeyRanks'
  BY <1>1, <1>2, <1>5 DEF Queues, KeyRanks, SameKey
<1>12. Settlement'
  BY <1>1, <1>2, <1>3, <1>4, <1>6 DEF Queues, Settlement
<1>13. ASSUME mode = "cumulative" PROVE LaneQueues'
  <2>1. SettlingLanes' /\ QueuedEntries' /\ TerminalEntries'
    BY <1>1, <1>2, <1>6, <1>13
       DEF Queues, LaneQueues, SettlingLanes, QueuedEntries, TerminalEntries
  <2>2. TokensSplit'
    BY <1>1, <1>13, ConfirmsSplit
  <2> QED BY <2>1, <2>2 DEF LaneQueues
<1>14. ASSUME mode = "cumulative" PROVE LogOrder'
  <2>1. LogOrder
    BY <1>1, <1>14 DEF Queues
  <2>2. \A l \in Lanes : \A m, n \in Messages :
          Before(tokens'[l], m, n) => Before(LaneLog[l], m, n)
    BY <1>5, <2>1 DEF LogOrder
  <2>3. ASSUME NEW l \in Lanes, NEW n \in ToSet(tokens'[l]), NEW m \in Messages,
               Before(LaneLog[l], m, n)
        PROVE  m \in confirmed' \/ Before(tokens'[l], m, n)
    <3>1. m \in confirmed \/ Before(tokens[l], m, n)
      BY <1>5, <2>1, <2>3 DEF LogOrder
    <3> QED BY <1>2, <1>3, <1>5, <2>3, <3>1
  <2>4. ASSUME NEW m \in fetched PROVE m \in confirmed' \/ m \in ToSet(tokens'[LaneOf[m]])
    <3>1. (m \in confirmed \/ m \in ToSet(tokens[LaneOf[m]])) /\ LaneOf[m] \in Lanes
      BY <1>1, <1>7, <2>1, <2>4 DEF LogOrder, TypeOK
    <3> QED BY <1>2, <1>3, <1>5, <3>1
  <2> QED BY <1>2, <2>2, <2>3, <2>4 DEF LogOrder
<1>15. Queues'
  BY <1>2, <1>9, <1>10, <1>11, <1>12, <1>13, <1>14 DEF Queues
<1>16. Window'
  <2>1. workCount' = Cardinality({m \in Messages : st'[m] \in AtWorker})
    BY <1>1, <1>2, SameWork
  <2> QED BY <1>1, <1>2, <1>6, <2>1, MovesWindow
<1>17. Stopping'
  BY <1>1, <1>2 DEF Stopping
<1> QED BY <1>8, <1>15, <1>16, <1>17 DEF ConsumeInv

-----------------------------------------------------------------------------
(* The coordinator takes the confirmed batch out of the queues. *)

Settles ==
  /\ settle = "ok" /\ settle' = "idle" /\ at' = "top"
  /\ st' \in [Messages -> DeliveryStates]
  /\ \A m \in Receipts : st'[m] = "settled"
  /\ \A m \in Messages \ Receipts : st'[m] = st[m]
  /\ inflight' = inflight - Cardinality(Receipts)
  /\ laneInflight' = [l \in Lanes |-> laneInflight[l] - Freed(l)]
  /\ UNCHANGED <<mode, confirmed, fetched, tokens, attempt, waiting, activeKeys, blocked,
                 workCount, receive, limit, batch, later, passed, shuttingDown, handled, faults>>

LEMMA HandleSettledSettles ==
  ASSUME TypeOK, Queues, HandleSettled
  PROVE  Settles
<1>1. settle = "ok" /\ Receipts \subseteq Messages
  BY HeadFacts DEF HandleSettled
<1>2. st' = [m \in Messages |-> IF m \in Receipts THEN "settled" ELSE st[m]]
  BY DEF HandleSettled
<1>3. st' \in [Messages -> DeliveryStates]
  BY <1>2 DEF TypeOK, DeliveryStates
<1>4. /\ \A m \in Receipts : st'[m] = "settled"
      /\ \A m \in Messages \ Receipts : st'[m] = st[m]
  BY <1>1, <1>2
<1>5. UNCHANGED <<mode, confirmed, fetched, tokens, attempt, waiting, activeKeys, blocked,
                  workCount, receive, limit, batch, later, passed, shuttingDown, handled, faults>>
  BY DEF HandleSettled, brokerVars, sessionVars, keyVars, receiveVars, timerVars
<1> QED BY <1>1, <1>3, <1>4, <1>5 DEF Settles, HandleSettled

LEMMA SettlesStates ==
  ASSUME TypeOK, Queues, Settles
  PROVE  /\ Tracked' = Tracked \ Receipts /\ Receipts \subseteq Tracked
         /\ \A m \in Messages : st'[m] \in Begun <=> st[m] \in Begun
         /\ \A m \in Messages : st'[m] \in AtWorker <=> st[m] \in AtWorker
         /\ \A m \in Messages : st'[m] = "terminal" <=> st[m] = "terminal" /\ m \notin Receipts
         /\ \A m \in Messages : st[m] \in {"terminal", "settled"} => st'[m] \in {"terminal", "settled"}
         /\ \A m \in Messages : \A x \in {"away", "held", "waiting", "retry", "gotDone"} :
              st'[m] = x <=> st[m] = x
<1>1. Receipts \subseteq Tracked /\ \A m \in Receipts : st[m] = "terminal"
  BY HeadFacts DEF Settles
<1>2. ASSUME NEW m \in Messages
      PROVE  \/ m \in Receipts /\ st[m] = "terminal" /\ st'[m] = "settled"
             \/ m \notin Receipts /\ st'[m] = st[m]
  BY <1>1 DEF Settles
<1>3. Tracked' = Tracked \ Receipts
  BY <1>2 DEF Tracked
<1>4. \A m \in Messages : /\ st'[m] \in Begun <=> st[m] \in Begun
                          /\ st'[m] \in AtWorker <=> st[m] \in AtWorker
  BY <1>2, BegunFacts
<1>5. \A m \in Messages : st'[m] = "terminal" <=> st[m] = "terminal" /\ m \notin Receipts
  BY <1>2
<1>6. \A m \in Messages : st[m] \in {"terminal", "settled"} => st'[m] \in {"terminal", "settled"}
  BY <1>2
<1>7. \A m \in Messages : \A x \in {"away", "held", "waiting", "retry", "gotDone"} :
        st'[m] = x <=> st[m] = x
  BY <1>2
<1> QED BY <1>1, <1>3, <1>4, <1>5, <1>6, <1>7

LEMMA SettlesKeys ==
  ASSUME TypeOK, Queues, Settles
  PROVE  Session' /\ KeyQueues' /\ KeySerial' /\ KeyRanks'
<1>1. /\ Tracked' = Tracked \ Receipts
      /\ \A m \in Messages : st'[m] \in Begun <=> st[m] \in Begun
      /\ \A m \in Messages : st'[m] = "terminal" => st[m] = "terminal"
      /\ \A m \in Messages : st[m] \in {"terminal", "settled"} => st'[m] \in {"terminal", "settled"}
      /\ \A m \in Messages : \A x \in {"away", "held", "waiting"} : st'[m] = x <=> st[m] = x
  BY SettlesStates
<1>2. UNCHANGED <<fetched, tokens, waiting, activeKeys, blocked, receive, batch>>
  BY DEF Settles
<1>3. \A k \in Keys : ToSet(waiting[k]) \subseteq Messages
  BY SetOfSeq DEF TypeOK
<1>4. ToSet(batch) \subseteq Messages /\ fetched \subseteq Messages
  BY SetOfSeq DEF TypeOK
<1>5. Session'
  <2>1. \A m \in Tracked' : m \in ToSet(tokens[LaneOf[m]])
    BY <1>1 DEF Queues, Session
  <2> QED BY <1>1, <1>2, <1>4, <2>1 DEF Queues, Session
<1>6. KeyQueues'
  <2>1. \A m \in Messages : st'[m] \in Begun \cup {"waiting"} <=> st[m] \in Begun \cup {"waiting"}
    BY <1>1
  <2> QED BY <1>1, <1>2, <1>3, <2>1 DEF Queues, KeyQueues
<1>7. KeySerial'
  BY <1>1 DEF Queues, KeySerial, SameKey
<1>8. KeyRanks'
  <2>1. \A m \in Messages : st'[m] \in Begun \cup {"terminal"} => st[m] \in Begun \cup {"terminal"}
    BY <1>1
  <2> QED BY <1>1, <1>2, <2>1 DEF Queues, KeyRanks, SameKey
<1> QED BY <1>5, <1>6, <1>7, <1>8

LEMMA SettlesWindow ==
  ASSUME TypeOK, Queues, Window, Settles
  PROVE  Window' /\ inflight' \in Nat /\ laneInflight' \in [Lanes -> Nat]
<1>1. /\ Tracked' = Tracked \ Receipts /\ Receipts \subseteq Tracked /\ Tracked \subseteq Messages
      /\ \A m \in Messages : st'[m] \in AtWorker <=> st[m] \in AtWorker
  BY SettlesStates DEF Tracked
<1>2. ConfirmedLane \in Lanes /\ \A m \in Receipts : LaneOf[m] = ConfirmedLane
  BY HeadFacts DEF Settles
<1>3. ASSUME NEW T, T \subseteq Messages, Receipts \subseteq T
      PROVE  /\ Cardinality(T \ Receipts) = Cardinality(T) - Cardinality(Receipts)
             /\ Cardinality(T \ Receipts) \in Nat
  <2>1. T \cap Receipts = Receipts /\ T \ Receipts \subseteq Messages
    BY <1>3
  <2>2. IsFiniteSet(T) /\ IsFiniteSet(T \ Receipts) /\ Cardinality(T \ Receipts) \in Nat
    BY <1>3, <2>1, FiniteWork
  <2>3. Cardinality(T \ Receipts) = Cardinality(T) - Cardinality(T \cap Receipts)
    BY <2>2, FS_Difference
  <2> QED BY <2>1, <2>2, <2>3
<1>4. Cardinality(Receipts) \in Nat
  BY <1>1, FiniteWork
<1>5. inflight' = Cardinality(Tracked') /\ inflight' \in Nat /\ inflight' <= inflight
  <2>1. inflight = Cardinality(Tracked) /\ inflight \in Nat
    BY DEF Window, TypeOK
  <2>2. Cardinality(Tracked \ Receipts) = Cardinality(Tracked) - Cardinality(Receipts)
        /\ Cardinality(Tracked \ Receipts) \in Nat
    BY <1>1, <1>3
  <2>3. inflight' = inflight - Cardinality(Receipts)
    BY DEF Settles
  <2> QED BY <1>1, <1>4, <2>1, <2>2, <2>3
<1>6. ASSUME NEW l \in Lanes
      PROVE  /\ laneInflight'[l] = Cardinality({m \in Tracked' : LaneOf[m] = l})
             /\ laneInflight'[l] \in Nat /\ laneInflight'[l] <= laneInflight[l]
  <2> DEFINE T == {m \in Tracked : LaneOf[m] = l}  V == {m \in Tracked' : LaneOf[m] = l}
  <2>1. T \subseteq Messages /\ (l = ConfirmedLane => Receipts \subseteq T /\ V = T \ Receipts)
        /\ (l # ConfirmedLane => V = T)
    BY <1>1, <1>2
  <2>2. laneInflight[l] = Cardinality(T) /\ laneInflight[l] \in Nat
    BY DEF Window, TypeOK
  <2>3. laneInflight'[l] = laneInflight[l] - (IF l = ConfirmedLane THEN Cardinality(Receipts) ELSE 0)
    BY DEF Settles, Freed
  <2> HIDE DEF T, V
  <2>4. CASE l = ConfirmedLane
    <3>1. Cardinality(T \ Receipts) = Cardinality(T) - Cardinality(Receipts)
          /\ Cardinality(T \ Receipts) \in Nat
      BY <1>3, <2>1, <2>4
    <3>2. Cardinality(V) = Cardinality(T \ Receipts)
      BY <2>1, <2>4
    <3>3. laneInflight'[l] = Cardinality(V) /\ laneInflight'[l] \in Nat
          /\ laneInflight'[l] <= laneInflight[l]
      BY <1>4, <2>2, <2>3, <2>4, <3>1, <3>2
    <3> QED BY <3>3 DEF V
  <2>5. CASE l # ConfirmedLane
    <3>1. laneInflight'[l] = Cardinality(V) /\ laneInflight'[l] = laneInflight[l]
      BY <2>1, <2>2, <2>3, <2>5
    <3> QED BY <2>2, <3>1 DEF V
  <2> QED BY <2>4, <2>5
<1>7. workCount' = Cardinality({m \in Messages : st'[m] \in AtWorker})
  BY <1>1, SameWork DEF Settles
<1>8. laneInflight' \in [Lanes -> Nat]
  BY <1>6 DEF Settles
<1>9. /\ inflight \in Nat /\ inflight <= MaxInflightMessages /\ limit \in Nat /\ Len(batch) \in Nat
      /\ \A l \in Lanes : laneInflight[l] \in Nat /\ laneInflight[l] <= MaxInflightPerLane
      /\ \A l \in Lanes : Len(OfLane(batch, l)) \in Nat
  <2>1. batch \in Seq(Messages)
    BY DEF TypeOK
  <2>2. \A l \in Lanes : OfLane(batch, l) \in Seq(Messages)
    BY <2>1, OfLaneFacts
  <2>3. Len(batch) \in Nat /\ \A l \in Lanes : Len(OfLane(batch, l)) \in Nat
    BY <2>1, <2>2, LenProperties
  <2>4. limit \in Nat
    BY ConfigFacts DEF TypeOK
  <2> QED BY <2>3, <2>4 DEF TypeOK, Window
<1>10. \A l \in Lanes : laneInflight'[l] \in Nat /\ laneInflight'[l] <= laneInflight[l]
  BY <1>6
<1>11. inflight' <= MaxInflightMessages /\ \A l \in Lanes : laneInflight'[l] <= MaxInflightPerLane
  BY <1>5, <1>9, <1>10, ConfigFacts
<1>12. receive' = receive /\ limit' = limit /\ batch' = batch
  BY DEF Settles
<1>13. receive = "asked" =>
         /\ limit <= MaxInflightMessages - inflight'
         /\ \A l \in Lanes : limit <= MaxInflightPerLane - laneInflight'[l]
  <2> SUFFICES ASSUME limit <= MaxInflightMessages - inflight,
                      \A l \in Lanes : limit <= MaxInflightPerLane - laneInflight[l]
               PROVE  /\ limit <= MaxInflightMessages - inflight'
                      /\ \A l \in Lanes : limit <= MaxInflightPerLane - laneInflight'[l]
    BY DEF Window
  <2>1. limit <= MaxInflightMessages - inflight'
    BY <1>5, <1>9, ConfigFacts
  <2>2. ASSUME NEW l \in Lanes PROVE limit <= MaxInflightPerLane - laneInflight'[l]
    BY <1>9, <1>10, ConfigFacts
  <2> QED BY <2>1, <2>2
<1>14. receive = "ok" => WithinLimits(batch)'
  <2> SUFFICES ASSUME WithinLimits(batch) PROVE WithinLimits(batch)'
    BY DEF Window
  <2>1. Len(batch) <= MaxBatchMessages /\ Len(batch) <= MaxInflightMessages - inflight'
    BY <1>5, <1>9, ConfigFacts DEF WithinLimits
  <2>2. ASSUME NEW l \in Lanes PROVE Len(OfLane(batch, l)) + laneInflight'[l] <= MaxInflightPerLane
    <3>1. Len(OfLane(batch, l)) + laneInflight[l] <= MaxInflightPerLane
      BY DEF WithinLimits
    <3> QED BY <1>9, <1>10, <3>1, ConfigFacts
  <2> QED BY <1>12, <2>1, <2>2 DEF WithinLimits
<1>15. Window'
  BY <1>5, <1>6, <1>7, <1>11, <1>12, <1>13, <1>14 DEF Window
<1> QED BY <1>5, <1>8, <1>15

LEMMA SettlesUncut ==
  ASSUME TypeOK, Queues, Settles, mode = "cumulative"
  PROVE  Uncut(ConfirmedLane, Tail(settleQueue))
<1> SUFFICES ASSUME NEW c, c = ConfirmedLane, NEW q, q = settleQueue, NEW p, p = Tail(settleQueue)
             PROVE  Uncut(c, p)
  OBVIOUS
<1>1. /\ c \in Lanes /\ 1 \in DOMAIN q /\ q[1].lane = c /\ Receipts = ToSet(q[1].entries)
      /\ q # <<>> /\ q \in Seq(Batches)
  BY HeadFacts DEF Settles, Receipted, TypeOK
<1>2. /\ \A i \in DOMAIN p : i + 1 \in DOMAIN q /\ i + 1 # 1 /\ p[i] = q[i + 1]
      /\ \A i \in DOMAIN q : i # 1 => i - 1 \in DOMAIN p /\ p[i - 1] = q[i]
      /\ \A i, j \in DOMAIN p : i + 1 = j + 1 => i = j
  BY <1>1, TailIndexes
<1>3. /\ Tracked' = Tracked \ Receipts /\ settle = "ok" /\ settle' = "idle"
      /\ \A m \in Messages : st'[m] = "terminal" <=> st[m] = "terminal" /\ m \notin Receipts
  BY SettlesStates DEF Settles
<1>4. /\ \A l \in Lanes : laneSettling[l] <=> \E i \in DOMAIN q : q[i].lane = l
      /\ \A i, j \in DOMAIN q : q[i].lane = q[j].lane => i = j
  BY DEF Queues, LaneQueues, SettlingLanes
<1>5. \A i \in DOMAIN p : p[i].lane # c
  BY <1>1, <1>2, <1>4
<1>6. \A i, j \in DOMAIN p : p[i].lane = p[j].lane => i = j
  <2> SUFFICES ASSUME NEW i \in DOMAIN p, NEW j \in DOMAIN p, p[i].lane = p[j].lane PROVE i = j
    OBVIOUS
  <2>1. q[i + 1].lane = q[j + 1].lane /\ i + 1 \in DOMAIN q /\ j + 1 \in DOMAIN q
    BY <1>2
  <2>2. i + 1 = j + 1
    BY <1>4, <2>1
  <2> QED BY <1>2, <2>2
<1>7. \A x \in Lanes \ {c} : laneSettling[x] <=> \E i \in DOMAIN p : p[i].lane = x
  <2> SUFFICES ASSUME NEW x \in Lanes \ {c}
               PROVE  (\E i \in DOMAIN q : q[i].lane = x) <=> (\E i \in DOMAIN p : p[i].lane = x)
    BY <1>4
  <2>1. ASSUME NEW i \in DOMAIN q, q[i].lane = x PROVE \E j \in DOMAIN p : p[j].lane = x
    <3>1. i - 1 \in DOMAIN p /\ p[i - 1] = q[i]
      BY <1>1, <1>2, <2>1
    <3> QED BY <2>1, <3>1
  <2>2. ASSUME NEW i \in DOMAIN p, p[i].lane = x PROVE \E j \in DOMAIN q : q[j].lane = x
    BY <1>2, <2>2
  <2> QED BY <2>1, <2>2
<1>8. QueuedEntries
  BY DEF Queues, LaneQueues
<1>9. \A x \in Lanes :
       /\ Distinct(laneQueue[x])
       /\ \A m \in ToSet(laneQueue[x]) : LaneOf[m] = x /\ m \in Tracked'
       /\ \A i \in DOMAIN p : ToSet(p[i].entries) \cap ToSet(laneQueue[x]) = {}
  <2> SUFFICES ASSUME NEW x \in Lanes
               PROVE  /\ Distinct(laneQueue[x])
                      /\ \A m \in ToSet(laneQueue[x]) : LaneOf[m] = x /\ m \in Tracked'
                      /\ \A i \in DOMAIN p : ToSet(p[i].entries) \cap ToSet(laneQueue[x]) = {}
    OBVIOUS
  <2>1. /\ Distinct(laneQueue[x])
        /\ \A m \in ToSet(laneQueue[x]) : LaneOf[m] = x /\ m \in Tracked
        /\ \A i \in DOMAIN q : ToSet(q[i].entries) \cap ToSet(laneQueue[x]) = {}
    BY <1>8 DEF QueuedEntries, Receipted
  <2>2. Receipts \cap ToSet(laneQueue[x]) = {}
    BY <1>1, <2>1
  <2>3. \A i \in DOMAIN p : ToSet(p[i].entries) \cap ToSet(laneQueue[x]) = {}
    BY <1>2, <2>1
  <2> QED BY <1>3, <2>1, <2>2, <2>3
<1>10. \A x \in Lanes \ {c} :
        ~laneSettling[x] /\ laneQueue[x] # <<>> => st'[Head(laneQueue[x])] # "terminal"
  <2> SUFFICES ASSUME NEW x \in Lanes, ~laneSettling[x], laneQueue[x] # <<>>
               PROVE  st'[Head(laneQueue[x])] # "terminal"
    OBVIOUS
  <2>1. Head(laneQueue[x]) \in Messages
    BY SetOfSeq DEF TypeOK
  <2>2. st[Head(laneQueue[x])] # "terminal"
    BY <1>8 DEF QueuedEntries
  <2> QED BY <1>3, <2>1, <2>2
<1>11. ASSUME NEW m \in Messages, st'[m] = "terminal"
       PROVE  \/ m \in ToSet(laneQueue[LaneOf[m]])
              \/ \E i \in DOMAIN p : m \in ToSet(p[i].entries)
  <2>1. st[m] = "terminal" /\ m \notin ToSet(q[1].entries)
    BY <1>1, <1>3, <1>11
  <2>2. \/ m \in ToSet(laneQueue[LaneOf[m]])
        \/ \E i \in DOMAIN q : m \in ToSet(q[i].entries)
    BY <2>1 DEF Queues, LaneQueues, TerminalEntries, Receipted
  <2>3. ASSUME NEW i \in DOMAIN q, m \in ToSet(q[i].entries)
        PROVE  \E j \in DOMAIN p : m \in ToSet(p[j].entries)
    <3>1. i - 1 \in DOMAIN p /\ p[i - 1] = q[i]
      BY <1>2, <2>1, <2>3
    <3> QED BY <2>3, <3>1
  <2> QED BY <2>2, <2>3
<1>12. TokensSplit
  BY DEF Queues, LaneQueues
<1>13. ASSUME NEW i \in DOMAIN p
       PROVE  tokens[p[i].lane] = p[i].entries \o (laneQueue[p[i].lane] \o OfLane(batch, p[i].lane))
  <2>1. i + 1 \in DOMAIN q /\ ~Answered(i + 1) /\ p[i] = q[i + 1]
    BY <1>2 DEF Answered
  <2> HIDE DEF Answered
  <2> SUFFICES ASSUME NEW j, j = i + 1
               PROVE  tokens[q[j].lane] = q[j].entries \o (laneQueue[q[j].lane] \o OfLane(batch, q[j].lane))
    BY <2>1
  <2>2. j \in DOMAIN q /\ ~Answered(j)
    BY <2>1
  <2> QED BY <1>12, <2>2 DEF TokensSplit
<1>14. ASSUME NEW x \in Lanes, \A i \in DOMAIN p : p[i].lane # x
       PROVE  tokens[x] = laneQueue[x] \o OfLane(batch, x)
  <2>1. \A i \in DOMAIN q : q[i].lane = x => Answered(i)
    <3> SUFFICES ASSUME NEW i \in DOMAIN q, q[i].lane = x, i # 1 PROVE FALSE
      BY <1>3 DEF Answered
    <3>1. i - 1 \in DOMAIN p /\ p[i - 1] = q[i]
      BY <1>2
    <3> QED BY <1>14, <3>1
  <2> QED BY <1>12, <2>1 DEF TokensSplit
<1> QED BY <1>3, <1>5, <1>6, <1>7, <1>9, <1>10, <1>11, <1>13, <1>14 DEF Uncut

LEMMA HandleSettledInv ==
  ASSUME ConsumeInv, HandleSettled
  PROVE  ConsumeInv'
<1>1. TypeOK /\ Queues /\ Window /\ Stopping /\ Settles
  BY HandleSettledSettles DEF ConsumeInv
<1>2. /\ IF mode = "cumulative"
           THEN QueueCumulativePrefix(ConfirmedLane, st, Tail(settleQueue))
           ELSE settleQueue' = Tail(settleQueue) /\ UNCHANGED <<laneQueue, laneSettling>>
  BY DEF HandleSettled, laneVars
<1>3. /\ settleQueue # <<>> /\ settleQueue \in Seq(Batches) /\ ConfirmedLane \in Lanes
      /\ Receipts = ToSet(settleQueue[1].entries) /\ 1 \in DOMAIN settleQueue
      /\ settleQueue[1].lane = ConfirmedLane
      /\ laneQueue \in [Lanes -> Seq(Messages)] /\ laneSettling \in [Lanes -> BOOLEAN]
      /\ batch \in Seq(Messages)
  BY <1>1, HeadFacts DEF Settles, Receipted, TypeOK
<1>4. /\ \A m \in Messages : st'[m] = "terminal" <=> st[m] = "terminal" /\ m \notin Receipts
      /\ \A m \in Messages : \A x \in {"away", "held", "waiting", "retry", "gotDone"} :
           st'[m] = x <=> st[m] = x
      /\ mode' = mode /\ settle' = "idle" /\ UNCHANGED <<tokens, batch>>
  BY <1>1, SettlesStates DEF Settles
<1>5. Batched(Tail(settleQueue), st') /\ Tail(settleQueue) \in Seq(Batches)
  <2> SUFFICES ASSUME NEW s, s = st, NEW t, t = st'
               PROVE  Batched(Tail(settleQueue), t) /\ Tail(settleQueue) \in Seq(Batches)
    OBVIOUS
  <2>1. Batched(settleQueue, s)
    BY <1>1 DEF Batched, Queues, Settlement, Receipted
  <2>2. ASSUME NEW i \in DOMAIN settleQueue, i # 1, NEW m \in ToSet(settleQueue[i].entries)
        PROVE  t[m] = s[m]
    <3>1. Receipted(i) \cap Receipted(1) = {} /\ Receipted(i) \subseteq Messages
      BY <1>1, <1>3, <2>2, BatchFacts DEF Queues, Settlement
    <3> QED BY <1>1, <1>3, <2>2, <3>1 DEF Settles, Receipted
  <2>3. Tail(settleQueue) \in Seq(Batches)
    BY <1>3, TailIndexes
  <2>4. Batched(Tail(settleQueue), t)
    <3> SUFFICES ASSUME NEW q \in Seq(Batches), q = settleQueue PROVE Batched(Tail(q), t)
      BY <1>3
    <3>1. q # <<>> /\ Batched(q, s)
      BY <1>3, <2>1
    <3>2. \A i \in DOMAIN q : i # 1 => \A m \in ToSet(q[i].entries) : t[m] = s[m]
      BY <2>2
    <3> QED BY ONLY q \in Seq(Batches), <3>1, <3>2, BatchedTail
  <2> QED BY <2>3, <2>4
<1>6. /\ settleQueue' \in Seq(Batches) /\ laneQueue' \in [Lanes -> Seq(Messages)]
      /\ laneSettling' \in [Lanes -> BOOLEAN]
      /\ Batched(settleQueue', st')
      /\ mode = "individual" => \A n \in Messages : st'[n] = "terminal" =>
           \E i \in DOMAIN settleQueue' : n \in ToSet(settleQueue'[i].entries)
      /\ mode = "cumulative" => LaneQueues'
  <2>1. CASE mode = "individual"
    <3>1. settleQueue' = Tail(settleQueue) /\ laneQueue' = laneQueue /\ laneSettling' = laneSettling
      BY <1>2, <2>1
    <3>2. ASSUME NEW n \in Messages, st'[n] = "terminal"
          PROVE  \E i \in DOMAIN settleQueue' : n \in ToSet(settleQueue'[i].entries)
      <4>1. st[n] = "terminal" /\ n \notin ToSet(settleQueue[1].entries)
        BY <1>3, <1>4, <3>2
      <4>2. PICK i \in DOMAIN settleQueue : n \in ToSet(settleQueue[i].entries)
        BY <1>1, <2>1, <4>1 DEF Queues, Settlement, Receipted
      <4>3. i # 1
        BY <4>1, <4>2
      <4>4. i - 1 \in DOMAIN Tail(settleQueue) /\ Tail(settleQueue)[i - 1] = settleQueue[i]
        BY <1>3, <4>2, <4>3, TailIndexes
      <4> QED BY <3>1, <4>2, <4>4
    <3> QED BY <1>3, <1>5, <2>1, <3>1, <3>2
  <2>2. CASE mode = "cumulative"
    <3> DEFINE c == ConfirmedLane  p == Tail(settleQueue)
    <3>1. Uncut(c, p)
      BY <1>1, <2>2, SettlesUncut
    <3>2. \A m \in ToSet(laneQueue[c]) : st[m] = st'[m]
      <4>1. Receipts \cap ToSet(laneQueue[c]) = {}
        BY <1>1, <1>3, <2>2 DEF Queues, LaneQueues, QueuedEntries, Receipted
      <4>2. ToSet(laneQueue[c]) \subseteq Messages
        BY <1>3, SetOfSeq
      <4> QED BY <1>1, <4>1, <4>2 DEF Settles
    <3>3. \E a, r : Cut(c, p, a, r)
      <4> SUFFICES ASSUME NEW s, s = st, QueueCumulativePrefix(c, s, p)
                   PROVE  \E a, r : Cut(c, p, a, r)
        BY <1>2, <2>2
      <4> HIDE DEF p
      <4> QED BY <1>3, <3>2, PrefixCut
    <3>4. PICK a, r : Cut(c, p, a, r)
      BY <3>3
    <3>5. c \in Lanes /\ p \in Seq(Batches) /\ Batched(p, st')
      BY <1>3, <1>5
    <3> HIDE DEF c, p
    <3>6. LaneQueues'
      BY <1>3, <1>4, <3>1, <3>4, <3>5, CutLanes DEF LaneQueues
    <3>7. Batched(settleQueue', st')
      BY <3>1, <3>4, <3>5, CutBatched
    <3>8. settleQueue' \in Seq(Batches)
      BY <3>4, <3>5, CutIndexes
    <3>9. laneQueue' \in [Lanes -> Seq(Messages)] /\ laneSettling' \in [Lanes -> BOOLEAN]
      BY <1>3, <3>4 DEF Cut
    <3> QED BY <2>2, <3>6, <3>7, <3>8, <3>9
  <2> QED BY <1>1, <2>1, <2>2 DEF TypeOK
<1>7. Session' /\ KeyQueues' /\ KeySerial' /\ KeyRanks'
  BY <1>1, SettlesKeys
<1>8. Settlement'
  <2>1. \A m \in Messages : st'[m] \in {"gotDone", "terminal"} => m \in handled'
    BY <1>1, <1>4 DEF Settles, Queues, Settlement
  <2>2. confirmed' \subseteq handled'
    BY <1>1 DEF Settles, Queues, Settlement
  <2> QED BY <1>4, <1>6, <2>1, <2>2 DEF Settlement, Batched, Receipted
<1>9. mode' = "cumulative" => LogOrder'
  BY <1>1 DEF Settles, Queues, LogOrder
<1>10. Window' /\ inflight' \in Nat /\ laneInflight' \in [Lanes -> Nat]
  BY <1>1, SettlesWindow
<1>11. TypeOK'
  BY <1>1, <1>6, <1>10 DEF TypeOK, Settles
<1>12. Stopping'
  BY <1>1, <1>4 DEF Stopping, Settles
<1>13. Queues'
  BY <1>4, <1>6, <1>7, <1>8, <1>9 DEF Queues
<1> QED BY <1>10, <1>11, <1>12, <1>13 DEF ConsumeInv

-----------------------------------------------------------------------------
(* The invariant is inductive. *)

LEMMA NextInv ==
  ASSUME ConsumeInv, [Next]_vars
  PROVE  ConsumeInv'
<1>1. CASE LoopTop
  BY <1>1, LoopTopInv
<1>2. CASE TimerFires
  BY <1>2, TimerFiresInv
<1>3. CASE Cancel
  BY <1>3, CancelInv
<1>4. CASE HandleReceive
  BY <1>4, HandleDeliveriesInv, HandleEmptyInv, HandleReceiveErrorInv DEF HandleReceive
<1>5. CASE HandleSettle
  BY <1>5, HandleSettledInv, HandleSettleErrorInv DEF HandleSettle
<1>6. CASE SessionReceives
  BY <1>6, SessionReceiveInv DEF SessionReceives
<1>7. CASE SessionConfirms
  BY <1>7, SessionConfirmInv DEF SessionConfirms
<1>8. ASSUME NEW answer \in {"empty", "err"}, SessionReceiveNothing(answer) PROVE ConsumeInv'
  BY <1>8, SessionReceiveNothingInv
<1>9. ASSUME NEW m \in Messages, WorkerStart(m) PROVE ConsumeInv'
  BY <1>9, WorkerStartInv
<1>10. ASSUME NEW m \in Messages, Finish(m) PROVE ConsumeInv'
  BY <1>10, WorkerFinishInv DEF Finish
<1>11. ASSUME NEW m \in Messages, HandleResult(m) PROVE ConsumeInv'
  BY <1>11, HandleDoneInv, HandleNotDoneInv DEF HandleResult
<1>12. ASSUME NEW t \in Timers, Elapse(t) PROVE ConsumeInv'
  BY <1>12, ElapseInv
<1>13. CASE Crash
  <2>1. faults' \in 0..MaxFaults
    BY <1>13, FaultsType DEF Crash, Fault, ConsumeInv, TypeOK
  <2> QED BY <1>13, <2>1, NewGenerationInv DEF Crash
<1>14. CASE Restart
  <2>1. faults' \in 0..MaxFaults
    BY <1>14 DEF Restart, ConsumeInv, TypeOK
  <2> QED BY <1>14, <2>1, NewGenerationInv DEF Restart
<1>15. CASE UNCHANGED vars
  <2>1. /\ TypeOK' = TypeOK /\ Window' = Window /\ Stopping' = Stopping
    BY <1>15 DEF vars, TypeOK, Window, Stopping, Tracked, WithinLimits, brokerVars, sessionVars,
                 entryVars, keyVars, laneVars, windowVars, settleVars, receiveVars, timerVars
  <2>2. Moves
    BY <1>15 DEF vars, Moves, ConsumeInv, Queues, Settlement, brokerVars, sessionVars,
                 entryVars, keyVars, laneVars, windowVars, settleVars, receiveVars, timerVars
  <2> QED BY <2>1, <2>2, MovesQueues DEF ConsumeInv
<1> QED BY <1>1, <1>2, <1>3, <1>4, <1>5, <1>6, <1>7, <1>8, <1>9, <1>10, <1>11, <1>12,
           <1>13, <1>14, <1>15 DEF Next

LEMMA AlwaysInv == Spec => []ConsumeInv
<1>1. Init => ConsumeInv
  BY InitInv
<1>2. ConsumeInv /\ [Next]_vars => ConsumeInv'
  BY NextInv
<1> QED BY <1>1, <1>2, PTL DEF Spec

-----------------------------------------------------------------------------
(* The theorems. *)

(* Every variable keeps its type: attempts stay within RetryMaxAttempts,   *)
(* a request never asks for more than MaxBatchMessages, and no counter     *)
(* becomes negative.                                                       *)
THEOREM ConsumeTypeCorrect == Spec => []TypeOK
<1>1. ConsumeInv => TypeOK
  BY DEF ConsumeInv
<1> QED BY <1>1, AlwaysInv, PTL

(* No message is lost: whatever the workers, the retries, the failing and  *)
(* lost confirmations, the crashes and the restarts do, the broker is only *)
(* told to forget messages that a handler has completed or discarded, with *)
(* both kinds of settlement.                                               *)
THEOREM NothingLost == Spec => []ConfirmedWereHandled
<1>1. ConsumeInv => ConfirmedWereHandled
  BY DEF ConsumeInv, Queues, Settlement, ConfirmedWereHandled
<1> QED BY <1>1, AlwaysInv, PTL

(* dispatch and releaseOrderKey: of one order key at most one delivery of  *)
(* a generation is begun and unfinished.                                   *)
THEOREM KeysSerial == Spec => []KeySerial
<1>1. ConsumeInv => KeySerial
  BY DEF ConsumeInv, Queues
<1> QED BY <1>1, AlwaysInv, PTL

(* waitingByKey: of one key and one lane, deliveries begin in the order in *)
(* which the session returned them, each after its predecessor.            *)
THEOREM KeysInOrder == Spec => []KeyOrder
<1>1. ASSUME ConsumeInv PROVE KeyOrder
  <2> SUFFICES ASSUME NEW l \in Lanes, NEW i \in DOMAIN tokens[l], NEW j \in DOMAIN tokens[l],
                      i < j, SameKey(tokens[l][i], tokens[l][j]),
                      st[tokens[l][j]] \in Begun \cup {"terminal"}
               PROVE  st[tokens[l][i]] \in {"terminal", "settled"}
    BY DEF KeyOrder
  <2>1. tokens[l] \in Seq(Messages)
    BY <1>1 DEF ConsumeInv, TypeOK
  <2>2. tokens[l][i] \in Messages /\ tokens[l][j] \in Messages
    BY <2>1, ElementOfSeq, LenProperties
  <2>3. Before(tokens[l], tokens[l][i], tokens[l][j])
    BY DEF Before
  <2> QED BY <1>1, <2>2, <2>3 DEF ConsumeInv, Queues, KeyRanks
<1> QED BY <1>1, AlwaysInv, PTL

(* The coordinator's counters are exact and the window is bounded, in      *)
(* total and per lane.                                                     *)
THEOREM WindowCounted == Spec => []WindowExact
<1>1. ConsumeInv => WindowExact
  BY DEF ConsumeInv, Window, WindowExact
<1> QED BY <1>1, AlwaysInv, PTL

(* validateReceived never rejects the answer of a session that keeps to    *)
(* the limit of the request.                                               *)
THEOREM AnswersFit == Spec => []ReceiveFits
<1>1. ConsumeInv => ReceiveFits
  BY DEF ConsumeInv, Window, ReceiveFits
<1> QED BY <1>1, AlwaysInv, PTL

(* queueCumulativePrefix and the session agree: the receipts of a batch    *)
(* that is being confirmed are outstanding and, with cumulative            *)
(* settlement, a prefix of what is outstanding on the lane.                *)
THEOREM ReceiptsAlwaysFit == Spec => []ReceiptsFit
<1>1. ConsumeInv => ReceiptsFit
  BY HeadReceipts DEF ConsumeInv, ReceiptsFit
<1> QED BY <1>1, AlwaysInv, PTL

(* A shutdown that ends in time leaves nothing behind that could have been *)
(* processed or confirmed.                                                 *)
THEOREM ShutdownDrains == Spec => []DrainsBeforeStop
<1>1. ASSUME ConsumeInv PROVE DrainsBeforeStop
  <2> SUFFICES ASSUME at = "drained"
               PROVE  /\ \A m \in Messages : st[m] \notin AtWorker \cup {"retry"}
                      /\ \A m \in Messages : st[m] = "terminal" =>
                           \E i, j \in DOMAIN laneQueue[LaneOf[m]] :
                             /\ i < j /\ laneQueue[LaneOf[m]][j] = m
                             /\ st[laneQueue[LaneOf[m]][i]] # "terminal"
                      /\ \A m \in Messages : st[m] = "waiting" =>
                           \/ \E n \in Messages : SameKey(m, n) /\ st[n] = "dropped"
                           \/ blocked[LaneOf[Head(waiting[KeyOf[m]])]]
    BY DEF DrainsBeforeStop
  <2>1. shuttingDown /\ workCount = 0 /\ settleQueue = <<>> /\ DOMAIN settleQueue = {}
    BY <1>1 DEF ConsumeInv, Stopping
  <2>2. \A m \in Messages : st[m] \notin AtWorker \cup {"retry"}
    <3> DEFINE W == {m \in Messages : st[m] \in AtWorker}
    <3>1. Cardinality(W) = 0 /\ W \subseteq Messages
      BY <1>1, <2>1 DEF ConsumeInv, Window
    <3>2. W = {}
      <4> HIDE DEF W
      <4> QED BY <3>1, FiniteWork, FS_EmptySet
    <3> QED BY <1>1, <2>1, <3>2 DEF ConsumeInv, Stopping
  <2>3. ASSUME NEW m \in Messages, st[m] = "terminal"
        PROVE  \E i, j \in DOMAIN laneQueue[LaneOf[m]] :
                 /\ i < j /\ laneQueue[LaneOf[m]][j] = m
                 /\ st[laneQueue[LaneOf[m]][i]] # "terminal"
    <3>1. mode = "cumulative"
      BY <1>1, <2>1, <2>3 DEF ConsumeInv, TypeOK, Queues, Settlement
    <3>2. LaneOf[m] \in Lanes
      BY LaneFacts
    <3> SUFFICES ASSUME NEW q \in Seq(Messages), q = laneQueue[LaneOf[m]]
                 PROVE  \E i, j \in DOMAIN q : i < j /\ q[j] = m /\ st[q[i]] # "terminal"
      BY <1>1, <3>2 DEF ConsumeInv, TypeOK
    <3>3. m \in ToSet(q)
      BY <1>1, <2>1, <2>3, <3>1 DEF ConsumeInv, Queues, LaneQueues, TerminalEntries
    <3>4. PICK j \in DOMAIN q : q[j] = m
      BY <3>3 DEF ToSet
    <3>5. q # <<>> /\ Head(q) = q[1] /\ 1 \in DOMAIN q /\ j \in Int /\ j >= 1
      BY <3>4, LenProperties, EmptySeq
    <3>6. ~laneSettling[LaneOf[m]]
      BY <1>1, <2>1, <3>1, <3>2 DEF ConsumeInv, Queues, LaneQueues, SettlingLanes
    <3>7. st[q[1]] # "terminal"
      BY <1>1, <3>1, <3>2, <3>5, <3>6 DEF ConsumeInv, Queues, LaneQueues, QueuedEntries
    <3>8. 1 < j
      BY <2>3, <3>4, <3>5, <3>7
    <3> QED BY <3>4, <3>5, <3>7, <3>8
  <2>4. ASSUME NEW m \in Messages, st[m] = "waiting"
        PROVE  \/ \E n \in Messages : SameKey(m, n) /\ st[n] = "dropped"
               \/ blocked[LaneOf[Head(waiting[KeyOf[m]])]]
    <3>1. KeyOf[m] # NoKey /\ KeyOf[m] \in activeKeys
      BY <1>1, <2>4 DEF ConsumeInv, Queues, KeyQueues
    <3>2. \/ \E n \in Messages : KeyOf[n] = KeyOf[m] /\ st[n] \in Begun
          \/ blocked[LaneOf[Head(waiting[KeyOf[m]])]]
      BY <1>1, <3>1 DEF ConsumeInv, Queues, KeyQueues
    <3>3. \A n \in Messages : st[n] \in Begun => st[n] = "dropped" /\ n # m
      BY <2>2, <2>4, BegunFacts DEF Begun
    <3> QED BY <3>1, <3>2, <3>3 DEF SameKey
  <2> QED BY <2>2, <2>3, <2>4
<1> QED BY <1>1, AlwaysInv, PTL
=============================================================================
